------------------------------- MODULE NnProofs -------------------------------
(***************************************************************************)
(* Proofs about live inference, for any number of staging buffers, shells, *)
(* users, files and commands.  NnCamera: who fills and who copies a        *)
(* staging buffer, with StageInv the inductive invariant.  NnModel: the    *)
(* active model is never read over, torn down under its user or left       *)
(* without an interpreter, with ModelInv the inductive one.                *)
(***************************************************************************)
EXTENDS NnCamera, NnModel, TLAPS

NnInv == TypeOK /\ StagesExclusive /\ NoStaleFrame /\ StageInv

\* The base starts and stops.
LEMMA BaseInv ==
  ASSUME NnInv, BaseStarts \/ BaseStops
  PROVE  NnInv'
<1> USE NnAssumption DEF Stages, NoStage, stageVars, flagVars, sessVars, camVars
<1>1. TypeOK'
  <2>1. StageTypes'
    BY DEF BaseStarts, BaseStops, Open, Close, SinkUntouched, NnInv, TypeOK,
       StageTypes, Ready
  <2>2. SemType'
    BY DEF BaseStarts, BaseStops, Open, Close, SinkUntouched, NnInv, TypeOK,
       SemType, Post
  <2>3. FlagTypes'
    BY DEF BaseStarts, BaseStops, Open, Close, SinkUntouched, NnInv, TypeOK,
       FlagTypes
  <2>4. PlaceTypes'
    BY DEF BaseStarts, BaseStops, Open, Close, SinkUntouched, NnInv, TypeOK,
       PlaceTypes
  <2> QED
    BY <2>1, <2>2, <2>3, <2>4 DEF TypeOK
<1>2. StagesExclusive'
  BY DEF BaseStarts, BaseStops, Open, Close, SinkUntouched, NnInv, TypeOK,
     StageTypes, StagesExclusive, StageInv, Ready
<1>3. NoStaleFrame'
  BY DEF BaseStarts, BaseStops, Open, Close, SinkUntouched, NnInv, TypeOK,
     StageTypes, NoStaleFrame, StageInv, Ready
<1>4. StageInv'
  BY DEF BaseStarts, BaseStops, Open, Close, SinkUntouched, NnInv, TypeOK,
     StageTypes, StagesExclusive, StageInv, Ready
<1> QED
  BY <1>1, <1>2, <1>3, <1>4 DEF NnInv

\* The producer claims, commits and posts.
LEMMA ProducerInv ==
  ASSUME NnInv, Producer
  PROVE  NnInv'
<1> USE NnAssumption DEF Stages, NoStage, stageVars, flagVars, sessVars, camVars
<1>1. TypeOK'
  <2>1. StageTypes'
    BY DEF Producer, Claim, Current, Commit, WakeWorker, First, Free, NnInv,
       TypeOK, StageTypes, Ready
  <2>2. SemType'
    BY DEF Producer, Claim, Current, Commit, WakeWorker, First, Free, NnInv,
       TypeOK, SemType, Post
  <2>3. FlagTypes'
    BY DEF Producer, Claim, Current, Commit, WakeWorker, First, Free, NnInv,
       TypeOK, FlagTypes
  <2>4. PlaceTypes'
    BY DEF Producer, Claim, Current, Commit, WakeWorker, First, Free, NnInv,
       TypeOK, PlaceTypes
  <2> QED
    BY <2>1, <2>2, <2>3, <2>4 DEF TypeOK
<1>2. StagesExclusive'
  BY DEF Producer, Claim, Current, Commit, WakeWorker, First, Free, NnInv,
     TypeOK, StageTypes, StagesExclusive, StageInv, Ready
<1>3. NoStaleFrame'
  BY DEF Producer, Claim, Current, Commit, WakeWorker, First, Free, NnInv,
     TypeOK, StageTypes, NoStaleFrame, StageInv, Ready
<1>4. StageInv'
  BY DEF Producer, Claim, Current, Commit, WakeWorker, First, Free, NnInv,
     TypeOK, StageTypes, StagesExclusive, StageInv, Ready
<1> QED
  BY <1>1, <1>2, <1>3, <1>4 DEF NnInv

\* The worker takes and frees a stage.
LEMMA StageStepInv ==
  ASSUME NnInv, TakeStage \/ FreeStage
  PROVE  NnInv'
<1> USE NnAssumption DEF Stages, NoStage, stageVars, flagVars, sessVars, camVars
<1>1. TypeOK'
  <2>1. StageTypes'
    BY DEF TakeStage, FreeStage, First, NnInv, TypeOK, StageTypes, Ready
  <2>2. SemType'
    BY DEF TakeStage, FreeStage, First, NnInv, TypeOK, SemType, Post
  <2>3. FlagTypes'
    BY DEF TakeStage, FreeStage, First, NnInv, TypeOK, FlagTypes
  <2>4. PlaceTypes'
    BY DEF TakeStage, FreeStage, First, NnInv, TypeOK, PlaceTypes
  <2> QED
    BY <2>1, <2>2, <2>3, <2>4 DEF TypeOK
<1>2. StagesExclusive'
  BY DEF TakeStage, FreeStage, First, NnInv, TypeOK, StageTypes,
     StagesExclusive, StageInv, Ready
<1>3. NoStaleFrame'
  BY DEF TakeStage, FreeStage, First, NnInv, TypeOK, StageTypes, NoStaleFrame,
     StageInv, Ready
<1>4. StageInv'
  BY DEF TakeStage, FreeStage, First, NnInv, TypeOK, StageTypes,
     StagesExclusive, StageInv, Ready
<1> QED
  BY <1>1, <1>2, <1>3, <1>4 DEF NnInv

\* The worker's other steps.
LEMMA WorkerInv ==
  ASSUME NnInv,
         \/ WorkerStarted \/ Acknowledge \/ LoopTest \/ Poll \/ Infer \/ Decode
         \/ Leave \/ WorkerTakesFlag \/ WorkerReleases
  PROVE  NnInv'
<1> USE NnAssumption DEF Stages, NoStage, stageVars, flagVars, sessVars, camVars
<1>1. TypeOK'
  <2>1. StageTypes'
    BY DEF WorkerStarted, Acknowledge, LoopTest, Poll, Infer, Decode, Leave,
       WorkerTakesFlag, WorkerReleases, NnInv, TypeOK, StageTypes, Ready
  <2>2. SemType'
    BY DEF WorkerStarted, Acknowledge, LoopTest, Poll, Infer, Decode, Leave,
       WorkerTakesFlag, WorkerReleases, NnInv, TypeOK, SemType, Post
  <2>3. FlagTypes'
    <3>1. CASE Decode
      BY <3>1 DEF Decode, NnInv, TypeOK, FlagTypes
    <3>2. CASE Acknowledge \/ Leave
      BY <3>2 DEF Acknowledge, Leave, NnInv, TypeOK, FlagTypes
    <3>3. CASE WorkerTakesFlag \/ WorkerReleases
      BY <3>3 DEF WorkerTakesFlag, WorkerReleases, NnInv, TypeOK, FlagTypes
    <3>4. CASE WorkerStarted \/ LoopTest \/ Poll \/ Infer
      BY <3>4 DEF WorkerStarted, LoopTest, Poll, Infer, NnInv, TypeOK, FlagTypes
    <3> QED
      BY <3>1, <3>2, <3>3, <3>4
  <2>4. PlaceTypes'
    BY DEF WorkerStarted, Acknowledge, LoopTest, Poll, Infer, Decode, Leave,
       WorkerTakesFlag, WorkerReleases, NnInv, TypeOK, PlaceTypes
  <2> QED
    BY <2>1, <2>2, <2>3, <2>4 DEF TypeOK
<1>2. StagesExclusive'
  BY DEF WorkerStarted, Acknowledge, LoopTest, Poll, Infer, Decode, Leave,
     WorkerTakesFlag, WorkerReleases, NnInv, TypeOK, StageTypes,
     StagesExclusive, StageInv, Ready
<1>3. NoStaleFrame'
  BY DEF WorkerStarted, Acknowledge, LoopTest, Poll, Infer, Decode, Leave,
     WorkerTakesFlag, WorkerReleases, NnInv, TypeOK, StageTypes, NoStaleFrame,
     StageInv, Ready
<1>4. StageInv'
  BY DEF WorkerStarted, Acknowledge, LoopTest, Poll, Infer, Decode, Leave,
     WorkerTakesFlag, WorkerReleases, NnInv, TypeOK, StageTypes,
     StagesExclusive, StageInv, Ready
<1> QED
  BY <1>1, <1>2, <1>3, <1>4 DEF NnInv

\* The shells' steps.
LEMMA ShellInv ==
  ASSUME NnInv, NEW s \in Shells, Command(s) \/ Continue(s)
  PROVE  NnInv'
<1> USE NnAssumption DEF Stages, NoStage, stageVars, flagVars, sessVars, camVars
<1>1. CASE StartChecked(s) \/ StartClaims(s)
  <2>1. TypeOK'
    <3>1. StageTypes'
      BY <1>1 DEF StartChecked, StartClaims, NnInv, TypeOK, StageTypes, Ready
    <3>2. SemType'
      BY <1>1 DEF StartChecked, StartClaims, NnInv, TypeOK, SemType, Post
    <3>3. FlagTypes'
      BY <1>1 DEF StartChecked, StartClaims, NnInv, TypeOK, FlagTypes
    <3>4. PlaceTypes'
      BY <1>1 DEF StartChecked, StartClaims, NnInv, TypeOK, PlaceTypes
    <3> QED
      BY <3>1, <3>2, <3>3, <3>4 DEF TypeOK
  <2>2. StagesExclusive'
    BY <1>1 DEF StartChecked, StartClaims, NnInv, TypeOK, StageTypes,
       StagesExclusive, StageInv, Ready
  <2>3. NoStaleFrame'
    BY <1>1 DEF StartChecked, StartClaims, NnInv, TypeOK, StageTypes,
       NoStaleFrame, StageInv, Ready
  <2>4. StageInv'
    BY <1>1 DEF StartChecked, StartClaims, NnInv, TypeOK, StageTypes,
       StagesExclusive, StageInv, Ready
  <2> QED
    BY <2>1, <2>2, <2>3, <2>4 DEF NnInv
<1>2. CASE StartSubscribes(s)
  <2>1. TypeOK'
    <3>1. StageTypes'
      BY <1>2 DEF StartSubscribes, Subscribe, Open, SinkUntouched, NnInv,
         TypeOK, StageTypes, Ready
    <3>2. SemType'
      BY <1>2 DEF StartSubscribes, Subscribe, Open, SinkUntouched, NnInv,
         TypeOK, SemType, Post
    <3>3. FlagTypes'
      BY <1>2 DEF StartSubscribes, Subscribe, Open, SinkUntouched, NnInv,
         TypeOK, FlagTypes
    <3>4. PlaceTypes'
      BY <1>2 DEF StartSubscribes, Subscribe, Open, SinkUntouched, NnInv,
         TypeOK, PlaceTypes
    <3> QED
      BY <3>1, <3>2, <3>3, <3>4 DEF TypeOK
  <2>2. StagesExclusive'
    BY <1>2 DEF StartSubscribes, Subscribe, Open, SinkUntouched, NnInv, TypeOK,
       StageTypes, StagesExclusive, StageInv, Ready
  <2>3. NoStaleFrame'
    BY <1>2 DEF StartSubscribes, Subscribe, Open, SinkUntouched, NnInv, TypeOK,
       StageTypes, NoStaleFrame, StageInv, Ready
  <2>4. StageInv'
    BY <1>2 DEF StartSubscribes, Subscribe, Open, SinkUntouched, NnInv, TypeOK,
       StageTypes, StagesExclusive, StageInv, Ready
  <2> QED
    BY <2>1, <2>2, <2>3, <2>4 DEF NnInv
<1>3. CASE StopAsked(s) \/ StopUnsubscribes(s)
  <2>1. TypeOK'
    <3>1. StageTypes'
      BY <1>3 DEF StopAsked, StopUnsubscribes, Unsubscribe, Close,
         SinkUntouched, NnInv, TypeOK, StageTypes, Ready
    <3>2. SemType'
      BY <1>3 DEF StopAsked, StopUnsubscribes, Unsubscribe, Close,
         SinkUntouched, NnInv, TypeOK, SemType, Post
    <3>3. FlagTypes'
      BY <1>3 DEF StopAsked, StopUnsubscribes, Unsubscribe, Close,
         SinkUntouched, NnInv, TypeOK, FlagTypes
    <3>4. PlaceTypes'
      BY <1>3 DEF StopAsked, StopUnsubscribes, Unsubscribe, Close,
         SinkUntouched, NnInv, TypeOK, PlaceTypes
    <3> QED
      BY <3>1, <3>2, <3>3, <3>4 DEF TypeOK
  <2>2. StagesExclusive'
    BY <1>3 DEF StopAsked, StopUnsubscribes, Unsubscribe, Close, SinkUntouched,
       NnInv, TypeOK, StageTypes, StagesExclusive, StageInv, Ready
  <2>3. NoStaleFrame'
    BY <1>3 DEF StopAsked, StopUnsubscribes, Unsubscribe, Close, SinkUntouched,
       NnInv, TypeOK, StageTypes, NoStaleFrame, StageInv, Ready
  <2>4. StageInv'
    BY <1>3 DEF StopAsked, StopUnsubscribes, Unsubscribe, Close, SinkUntouched,
       NnInv, TypeOK, StageTypes, StagesExclusive, StageInv, Ready
  <2> QED
    BY <2>1, <2>2, <2>3, <2>4 DEF NnInv
<1>4. CASE StopTimesOut(s) \/ StopTakesFlag(s) \/ StopReleases(s) \/ BenchClaims(s) \/ BenchEnds(s)
  <2>1. TypeOK'
    <3>1. StageTypes'
      BY <1>4 DEF StopTimesOut, StopTakesFlag, StopReleases, BenchClaims,
         BenchEnds, NnInv, TypeOK, StageTypes, Ready
    <3>2. SemType'
      BY <1>4 DEF StopTimesOut, StopTakesFlag, StopReleases, BenchClaims,
         BenchEnds, NnInv, TypeOK, SemType, Post
    <3>3. FlagTypes'
      BY <1>4 DEF StopTimesOut, StopTakesFlag, StopReleases, BenchClaims,
         BenchEnds, NnInv, TypeOK, FlagTypes
    <3>4. PlaceTypes'
      BY <1>4 DEF StopTimesOut, StopTakesFlag, StopReleases, BenchClaims,
         BenchEnds, NnInv, TypeOK, PlaceTypes
    <3> QED
      BY <3>1, <3>2, <3>3, <3>4 DEF TypeOK
  <2>2. StagesExclusive'
    BY <1>4 DEF StopTimesOut, StopTakesFlag, StopReleases, BenchClaims,
       BenchEnds, NnInv, TypeOK, StageTypes, StagesExclusive, StageInv, Ready
  <2>3. NoStaleFrame'
    BY <1>4 DEF StopTimesOut, StopTakesFlag, StopReleases, BenchClaims,
       BenchEnds, NnInv, TypeOK, StageTypes, NoStaleFrame, StageInv, Ready
  <2>4. StageInv'
    BY <1>4 DEF StopTimesOut, StopTakesFlag, StopReleases, BenchClaims,
       BenchEnds, NnInv, TypeOK, StageTypes, StagesExclusive, StageInv, Ready
  <2> QED
    BY <2>1, <2>2, <2>3, <2>4 DEF NnInv
<1> QED
  BY <1>1, <1>2, <1>3, <1>4 DEF Command, Continue

\* The inductive invariant.
LEMMA NnInvariance == Spec => []NnInv
<1>1. Init => NnInv
  <2> SUFFICES ASSUME Init PROVE NnInv
    OBVIOUS
  <2> USE NnAssumption DEF Init, Stages, NoStage
  <2>1. StageTypes /\ SemType
    BY DEF StageTypes, SemType
  <2>2. FlagTypes
    BY DEF FlagTypes
  <2>3. PlaceTypes
    BY DEF PlaceTypes
  <2>4. StagesExclusive /\ NoStaleFrame /\ StageInv
    BY DEF StagesExclusive, NoStaleFrame, StageInv, Ready
  <2> QED
    BY <2>1, <2>2, <2>3, <2>4 DEF NnInv, TypeOK
<1>2. NnInv /\ UNCHANGED vars => NnInv'
  BY DEF vars, stageVars, flagVars, sessVars, camVars, NnInv, TypeOK,
     StageTypes, SemType, FlagTypes, PlaceTypes, StagesExclusive, NoStaleFrame,
     StageInv, Ready
<1>3. NnInv /\ Worker => NnInv'
  BY StageStepInv, WorkerInv DEF Worker
<1>4. NnInv /\ [Next]_vars => NnInv'
  BY <1>2, <1>3, BaseInv, ProducerInv, ShellInv DEF Next
<1> QED
  BY <1>1, <1>4, PTL DEF Spec

(* Every variable keeps its type.                                            *)
THEOREM NnTypeCorrect == Spec => []TypeOK
<1>1. NnInv => TypeOK
  BY DEF NnInv
<1> QED
  BY <1>1, NnInvariance, PTL

(* The camera's producer never writes the staging buffer that the inference  *)
(* worker is copying into the model (the double-buffer rule of nn_camera.c), *)
(* for any number of buffers.                                                *)
THEOREM StagesNeverShared == Spec => []StagesExclusive
<1>1. NnInv => StagesExclusive
  BY DEF NnInv
<1> QED
  BY <1>1, NnInvariance, PTL

(* No frame from before a detach or a re-attach is ever staged after it.     *)
THEOREM NoFrameIsStale == Spec => []NoStaleFrame
<1>1. NnInv => NoStaleFrame
  BY DEF NnInv
<1> QED
  BY <1>1, NnInvariance, PTL

(* An inference gets one whole frame of the session that staged it.         *)
THEOREM StagesAreSound == Spec => []StagesSound
<1>1. StagesExclusive /\ NoStaleFrame => StagesSound
  BY DEF StagesSound
<1> QED
  BY <1>1, StagesNeverShared, NoFrameIsStale, PTL

------------------------------------------------------------------------------
(* The model: who loads, opens, runs and closes it.                         *)

\* The active slot holds a model that builds.
LEMMA ActiveBuilds ==
  ASSUME ModelInv
  PROVE  /\ Held(slot) \in Buildable \cup {"builtin"}
         /\ Restores
  BY ModelAssumption DEF ModelInv, LoadInv, Held, Restores, Builds, NmTypeOK, Slots

LEMMA InitInv ==
  ASSUME NmInit
  PROVE  ModelInv
  BY ModelAssumption DEF NmInit, ModelInv, NmTypeOK, NetsIntact, TensorsOfActive, OpenInv, SessionInv,
     LoadInv, Holds, Slots, Held, NoNet

\* A command begins, and finds the model open.
LEMMA BeginsInv ==
  ASSUME ModelInv, NEW u \in Users, Begins(u) \/ Opened(u) \/ Opens(u)
  PROVE  ModelInv'
<1> USE DEF modelVars, streamVars, Slots, Held
<1>1. CASE Begins(u)
  BY <1>1 DEF Begins, Goes, ModelInv, NmTypeOK, NetsIntact, TensorsOfActive, OpenInv, SessionInv, LoadInv, Holds
<1>2. CASE Opened(u)
  BY <1>2 DEF Opened, Goes, ModelInv, NmTypeOK, NetsIntact, TensorsOfActive, OpenInv, SessionInv, LoadInv, Holds
<1>3. CASE Opens(u)
  BY <1>3 DEF Opens, Goes, ModelInv, NmTypeOK, NetsIntact, TensorsOfActive, OpenInv, SessionInv, LoadInv, Holds
<1> QED
  BY <1>1, <1>2, <1>3

\* The backend opens the model that is active, the built-in one.
LEMMA BackendOpensInv ==
  ASSUME ModelInv, NEW u \in Users, BackendOpens(u)
  PROVE  ModelInv'
<1>1. ~ opened /\ slot = -1 /\ nets = NoNet /\ tensors = "none" /\ opening /\ ~ session /\ ~ streaming
  BY DEF BackendOpens, ModelInv, OpenInv, NmTypeOK
<1>2. \A v \in Users : place[v] \in {"idle", "open", "build"} /\ (place[v] = "build" => v = u)
  BY <1>1 DEF BackendOpens, ModelInv, OpenInv, NmTypeOK
<1>3. Held(slot) = "builtin" /\ Builds(Held(slot))
  BY <1>1 DEF Builds, Held
<1>4. /\ place' = [place EXCEPT ![u] = "open"] /\ opened' = TRUE /\ opening' = FALSE
      /\ \/ backend = "reloc" /\ nets' = nets /\ tensors' = tensors
         \/ nets' = Only(slot) /\ tensors' = "builtin"
      /\ UNCHANGED <<backend, slot, session, content, doing, target, streaming>>
  BY <1>3 DEF BackendOpens, Goes, streamVars
<1>5. tensors' = nets'[slot] /\ (\A s \in Slots \ {slot} : nets'[s] = "none") /\ nets'[slot] \in {"builtin", "none"}
      /\ nets' \in [Slots -> Files \cup {"builtin", "none"}]
  BY <1>1, <1>3, <1>4 DEF Only, NoNet, Slots
<1>6. NmTypeOK'
  <2>1. tensors' \in Files \cup {"builtin", "none"}
    BY <1>5
  <2>2. place' \in [Users -> {"idle", "open", "build", "claim", "region", "read", "reload", "run", "release"}]
    BY <1>4 DEF ModelInv, NmTypeOK
  <2> QED
    BY <1>1, <1>4, <1>5, <2>1, <2>2 DEF ModelInv, NmTypeOK
<1>7. NetsIntact' /\ TensorsOfActive'
  BY <1>1, <1>3, <1>4, <1>5 DEF NetsIntact, TensorsOfActive, Held, Slots
<1>8. OpenInv' /\ SessionInv' /\ LoadInv'
  BY <1>1, <1>2, <1>4 DEF ModelInv, NmTypeOK, OpenInv, SessionInv, LoadInv, Holds
<1> QED
  BY <1>6, <1>7, <1>8 DEF ModelInv

\* The session is taken and given back.
LEMMA SessionSteps ==
  ASSUME ModelInv, NEW u \in Users, Acquires(u) \/ Release(u) \/ Bench(u) \/ StreamStops(u)
  PROVE  ModelInv'
<1> USE DEF modelVars, streamVars, Slots, Held
<1>1. CASE Acquires(u)
  <2>1. doing[u] \in {"bench", "load", "builtin", "stream"} /\ opened
    BY <1>1 DEF Acquires, ModelInv, NmTypeOK, OpenInv, LoadInv
  <2>2. CASE session
    BY <1>1, <2>1, <2>2 DEF Acquires, Goes, ModelInv, NmTypeOK, NetsIntact, TensorsOfActive, OpenInv, SessionInv, LoadInv, Holds
  <2>3. CASE ~ session
    <3> DEFINE p == Claimed(doing[u])
    <3>1. /\ p \in {"region", "reload", "run", "idle"} /\ (p = "idle" <=> doing[u] = "stream")
          /\ (p = "region" => doing[u] = "load") /\ (p = "reload" => doing[u] = "builtin")
      BY <2>1 DEF Claimed
    <3>2. /\ place' = [place EXCEPT ![u] = p] /\ session' /\ streaming' = (doing[u] = "stream")
          /\ UNCHANGED <<backend, modelVars, content, doing, target>>
      BY <1>1, <2>3 DEF Acquires, Goes
    <3> HIDE DEF p
    <3>3. \A v \in Users : ~ Holds(v)
      BY <2>3 DEF ModelInv, SessionInv
    <3>4. NmTypeOK' /\ NetsIntact' /\ TensorsOfActive'
      BY <3>1, <3>2 DEF ModelInv, NmTypeOK, NetsIntact, TensorsOfActive
    <3>5. OpenInv' /\ SessionInv' /\ LoadInv'
      BY <2>1, <3>1, <3>2, <3>3 DEF ModelInv, NmTypeOK, OpenInv, SessionInv, LoadInv, Holds
    <3> QED
      BY <3>4, <3>5 DEF ModelInv
  <2> QED
    BY <2>2, <2>3
<1>2. CASE Release(u)
  <2>1. /\ place[u] = "release" /\ place' = [place EXCEPT ![u] = "idle"] /\ session' = FALSE
        /\ UNCHANGED <<backend, modelVars, content, doing, target, streaming>>
    BY <1>2 DEF Release, Goes
  <2>2. NmTypeOK' /\ NetsIntact' /\ TensorsOfActive'
    BY <2>1 DEF ModelInv, NmTypeOK, NetsIntact, TensorsOfActive
  <2>3. OpenInv' /\ LoadInv'
    BY <2>1 DEF ModelInv, NmTypeOK, OpenInv, LoadInv
  <2>4. SessionInv'
    BY <2>1 DEF ModelInv, NmTypeOK, SessionInv, Holds
  <2> QED
    BY <2>2, <2>3, <2>4 DEF ModelInv
<1>3. CASE Bench(u)
  BY <1>3 DEF Bench, Goes, ModelInv, NmTypeOK, NetsIntact, TensorsOfActive, OpenInv, SessionInv, LoadInv, Holds
<1>4. CASE StreamStops(u)
  <2>1. /\ place[u] = "idle" /\ streaming /\ place' = [place EXCEPT ![u] = "release"] /\ streaming' = FALSE
        /\ UNCHANGED <<backend, modelVars, session, content, doing, target>>
    BY <1>4 DEF StreamStops, Goes
  <2>2. NmTypeOK' /\ NetsIntact' /\ TensorsOfActive'
    BY <2>1 DEF ModelInv, NmTypeOK, NetsIntact, TensorsOfActive
  <2>3. OpenInv' /\ LoadInv'
    BY <2>1 DEF ModelInv, NmTypeOK, OpenInv, LoadInv
  <2>4. SessionInv'
    BY <2>1 DEF ModelInv, NmTypeOK, SessionInv, Holds
  <2> QED
    BY <2>2, <2>3, <2>4 DEF ModelInv
<1> QED
  BY <1>1, <1>2, <1>3, <1>4

\* A file is read into the slot that is not active.
LEMMA FillsInv ==
  ASSUME ModelInv, NEW u \in Users, Region(u) \/ ReadFile(u)
  PROVE  ModelInv'
<1> USE DEF modelVars, streamVars, Slots, Held
<1>1. CASE Region(u)
  BY <1>1 DEF Region, Inactive, Goes, ModelInv, NmTypeOK, NetsIntact, TensorsOfActive, OpenInv, SessionInv, LoadInv, Holds
<1>2. CASE ReadFile(u)
  BY <1>2 DEF ReadFile, Goes, ModelInv, NmTypeOK, NetsIntact, TensorsOfActive, OpenInv, SessionInv, LoadInv, Holds
<1> QED
  BY <1>1, <1>2

\* The swap itself, of two slots between which nothing else moves.
LEMMA SwapKeeps ==
  ASSUME ModelInv, opened,
         UNCHANGED <<backend, opened, opening, session, content, doing, target, streaming>>,
         slot' \in Slots, slot' # -1 => content[slot'] \in Buildable,
         nets' \in [Slots -> Files \cup {"builtin", "none"}],
         nets'[slot'] \in {"none", Held(slot')}, tensors' = nets'[slot'],
         \A s \in Slots \ {slot'} : nets'[s] = "none",
         NEW u \in Users, place[u] = "reload", Goes(u, "release")
  PROVE  ModelInv'
<1>1. place' = [place EXCEPT ![u] = "release"]
  BY DEF Goes
<1>2. NmTypeOK'
  BY <1>1 DEF ModelInv, NmTypeOK
<1>3. NetsIntact' /\ TensorsOfActive'
  BY <1>1 DEF ModelInv, NmTypeOK, NetsIntact, TensorsOfActive, Held
<1>4. OpenInv' /\ SessionInv'
  BY <1>1 DEF ModelInv, NmTypeOK, OpenInv, SessionInv, Holds
<1>5. LoadInv'
  BY <1>1 DEF ModelInv, NmTypeOK, LoadInv, SessionInv, Holds
<1> QED
  BY <1>2, <1>3, <1>4, <1>5 DEF ModelInv

\* A reload by either backend: what it leaves active was built.
LEMMA ReloadInv ==
  ASSUME ModelInv, NEW u \in Users, Reload(u)
  PROVE  ModelInv' /\ opened'
<1> DEFINE new == IF doing[u] = "load" THEN target[u] ELSE -1
<1>1. place[u] = "reload" /\ opened /\ new \in Slots
  BY DEF Reload, ModelInv, OpenInv, NmTypeOK, Slots
<1>2. new # -1 => new # slot
  BY <1>1 DEF ModelInv, LoadInv
<1>3. /\ Goes(u, "release")
      /\ UNCHANGED <<backend, opening, session, content, doing, target, streaming>>
      /\ ReloadTflm(new) \/ ReloadReloc(new)
  BY <1>1 DEF Reload, streamVars
<1> HIDE DEF new
<1>4. slot \in Slots /\ nets \in [Slots -> Files \cup {"builtin", "none"}] /\ Held(slot) \in Buildable \cup {"builtin"}
      /\ (slot # -1 => content[slot] \in Buildable)
  BY ActiveBuilds DEF ModelInv, NmTypeOK, LoadInv
<1>5. ASSUME Builds(Held(new))
      PROVE  /\ Held(new) \in Files \cup {"builtin"}
             /\ new # -1 => content[new] \in Buildable
  BY <1>1, <1>5, ModelAssumption DEF Builds, Held, ModelInv, NmTypeOK, Slots
<1>6. ASSUME NEW s \in Slots, Held(s) \in Files \cup {"builtin"}
      PROVE  /\ Only(s) \in [Slots -> Files \cup {"builtin", "none"}]
             /\ Only(s)[s] = Held(s) /\ \A t \in Slots \ {s} : Only(s)[t] = "none"
  BY <1>6 DEF Only
<1>7. nets[slot] = tensors /\ nets[slot] \in {"none", Held(slot)} /\ \A s \in Slots \ {slot} : nets[s] = "none"
  BY <1>1, <1>4 DEF ModelInv, NetsIntact, TensorsOfActive
<1>8. CASE ReloadTflm(new)
  <2>1. Restores
    BY ActiveBuilds
  <2>2. CASE Builds(Held(new))
    <3>1. slot' = new /\ nets' = Only(new) /\ tensors' = Held(new) /\ opened' = opened
      BY <1>8, <2>2 DEF ReloadTflm
    <3> QED
      BY <1>1, <1>3, <1>5, <1>6, <2>2, <3>1, SwapKeeps
  <2>3. CASE ~ Builds(Held(new))
    <3>1. slot' = slot /\ nets' = Only(slot) /\ tensors' = Held(slot) /\ opened' = opened
      BY <1>8, <2>1, <2>3 DEF ReloadTflm
    <3>2. Held(slot) \in Files \cup {"builtin"}
      BY <1>4, ModelAssumption
    <3> QED
      BY <1>1, <1>3, <1>4, <1>6, <3>1, <3>2, SwapKeeps
  <2> QED
    BY <2>2, <2>3
<1>9. CASE ReloadReloc(new)
  <2>1. opened' = opened
    BY <1>9 DEF ReloadReloc
  <2>2. CASE new = -1
    <3>1. slot' = -1 /\ nets' = NoNet /\ tensors' = "none"
      BY <1>9, <2>2 DEF ReloadReloc
    <3>2. nets' \in [Slots -> Files \cup {"builtin", "none"}] /\ \A s \in Slots : nets'[s] = "none"
      BY <3>1 DEF NoNet
    <3>3. -1 \in Slots
      BY DEF Slots
    <3> QED
      BY <1>1, <1>3, <2>1, <3>1, <3>2, <3>3, SwapKeeps
  <2>3. CASE new # -1 /\ ~ Builds(Held(new))
    <3>1. slot' = slot /\ nets' = nets /\ tensors' = tensors
      BY <1>2, <1>9, <2>3 DEF ReloadReloc
    <3> QED
      BY <1>1, <1>3, <1>4, <1>7, <2>1, <3>1, SwapKeeps
  <2>4. CASE new # -1 /\ Builds(Held(new))
    <3>1. slot' = new /\ tensors' = Held(new) /\ nets' = [nets EXCEPT ![new] = Held(new), ![slot] = "none"]
      BY <1>2, <1>9, <2>4 DEF ReloadReloc
    <3>2. nets' \in [Slots -> Files \cup {"builtin", "none"}]
      BY <1>4, <1>5, <2>4, <3>1
    <3>3. nets'[new] = Held(new) /\ \A s \in Slots \ {new} : nets'[s] = "none"
      BY <1>1, <1>2, <1>4, <1>7, <2>4, <3>1
    <3> QED
      BY <1>1, <1>3, <1>5, <2>1, <2>4, <3>1, <3>2, <3>3, SwapKeeps
  <2> QED
    BY <2>2, <2>3, <2>4
<1> QED
  BY <1>3, <1>8, <1>9

\* Every step keeps the invariant, and the model open.
LEMMA StepInv ==
  ASSUME ModelInv, [NmNext]_nmVars
  PROVE  ModelInv' /\ (opened => opened')
<1>1. CASE UNCHANGED nmVars
  BY <1>1 DEF nmVars, modelVars, streamVars, ModelInv, NmTypeOK, NetsIntact, TensorsOfActive, OpenInv, SessionInv,
     LoadInv, Holds, Held
<1>2. ASSUME NEW u \in Users, Begins(u) \/ StreamStops(u) \/ GoesOn(u)
      PROVE  ModelInv' /\ (opened => opened')
  <2>1. CASE Begins(u) \/ Opened(u) \/ Opens(u)
    <3>1. opened' = opened
      BY <2>1 DEF Begins, Opened, Opens, modelVars
    <3> QED
      BY <2>1, <3>1, BeginsInv
  <2>2. CASE BackendOpens(u)
    BY <2>2, BackendOpensInv DEF BackendOpens, ModelInv, OpenInv
  <2>3. CASE Acquires(u) \/ Release(u) \/ Bench(u) \/ StreamStops(u)
    <3>1. opened' = opened
      BY <2>3 DEF Acquires, Release, Bench, StreamStops, modelVars
    <3> QED
      BY <2>3, <3>1, SessionSteps
  <2>4. CASE Region(u) \/ ReadFile(u)
    BY <2>4, FillsInv DEF Region, ReadFile, modelVars
  <2>5. CASE Reload(u)
    BY <2>5, ReloadInv
  <2> QED
    BY <1>2, <2>1, <2>2, <2>3, <2>4, <2>5 DEF GoesOn
<1> QED
  BY <1>1, <1>2 DEF NmNext

LEMMA ModelInvariant == NmSpec => []ModelInv
<1> QED
  BY InitInv, StepInv, PTL DEF NmSpec

\* The types of nn.c's and the backends' state, whatever the commands do.
THEOREM ModelTypeCorrect == NmSpec => []NmTypeOK
<1>1. ModelInv => NmTypeOK
  BY DEF ModelInv
<1> QED
  BY <1>1, ModelInvariant, PTL

\* The model runs as it was loaded: no load writes into the slot of the live
\* network (load_region), the tensors are those of the active model
\* (tflm_bk_reload, reloc_bk_reload), and who runs, rebuilds or refills it is
\* alone with it (nn_session_try_acquire, the latch of nn_model_open).
THEOREM ModelIsSound == NmSpec => []ModelSound
<1>1. ModelInv => ModelSound
  <2> SUFFICES ASSUME ModelInv
               PROVE  ModelSound
    OBVIOUS
  <2>1. ASSUME NEW u \in Users, NEW v \in Users, Uses(u), Uses(v)
        PROVE  u = v
    BY <2>1 DEF Uses, ModelInv, OpenInv, SessionInv, Holds
  <2>2. ASSUME streaming, NEW u \in Users
        PROVE  session /\ ~ Uses(u)
    BY <2>2 DEF Uses, ModelInv, OpenInv, SessionInv, Holds
  <2>3. streaming => session
    BY DEF ModelInv, SessionInv
  <2> QED
    BY <2>1, <2>2, <2>3 DEF ModelSound, ModelInv, UsedAlone
<1> QED
  BY <1>1, ModelInvariant, PTL

\* nn_model_reload(): a model that is open stays open, whatever is loaded.
THEOREM ModelStaysOpen == NmSpec => StaysOpen
<1>1. ModelInv /\ [NmNext]_nmVars => [opened => opened']_nmVars
  BY StepInv
<1> QED
  BY <1>1, ModelInvariant, PTL DEF NmSpec, StaysOpen
================================================================================
