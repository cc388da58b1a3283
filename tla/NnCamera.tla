------------------------------- MODULE NnCamera -------------------------------
(***************************************************************************)
(* port/nn/nn_camera.c: live camera inference (`ai stream`), a subscriber  *)
(* of the base capture.  Four kinds of actors share it: the camera         *)
(* producer, which attaches, detaches and feeds the sink; the inference    *)
(* worker, the lowest priority in the system; and the shells and their     *)
(* background jobs, which start and stop it, or run `ai bench` and `ai     *)
(* model` on the same model.                                               *)
(*                                                                         *)
(* A step is what a thread does between two points where another may       *)
(* intervene: a critical section of nncam_lock, or a read or write of one  *)
(* of the volatile flags.  Abstracted: pixels and boxes (a set of boxes is *)
(* empty or not), the statistics, the one-time creation of the objects,    *)
(* and the epoch counter, of which only "has it moved since" is kept.      *)
(***************************************************************************)
EXTENDS Integers, FiniteSets

CONSTANTS
    NStages,    \* NNCAM_STAGE_N, the staging buffers
    Shells,     \* the threads that run commands
    MaxPosts    \* bound: posts pending on nncam_sem

ASSUME NnAssumption ==
    /\ NStages \in Nat
    /\ IsFiniteSet(Shells)
    /\ MaxPosts \in Nat

Stages == 1 .. NStages
NoStage == 0

VARIABLES
    stage,      \* nncam_state[]
    moved,      \* stages filled or being filled before the epoch last moved
    filling,    \* the stage the producer's ingest has claimed, or NoStage
    sem,        \* nncam_sem
    posting,    \* the ingest has committed and not yet posted nncam_sem
    run,        \* nncam_run
    active,     \* nncam_active
    dead,       \* nncam_producer_dead
    boxes,      \* nncam_ndet > 0
    holds,      \* nncam_holds_session
    busy,       \* nn_session_busy
    base,       \* the base capture runs, in RGB565
    registered, \* nncam_sink is in the camera's subscriber registry
    attached,   \* ... and linked to the running base
    wpc,        \* where the worker is
    copying,    \* the stage it copies out of, or NoStage
    spc         \* what each shell is doing

stageVars == <<stage, moved, filling, sem, posting>>
flagVars == <<run, active, dead, boxes>>
sessVars == <<holds, busy>>
camVars == <<base, registered, attached>>
vars == <<stageVars, flagVars, sessVars, camVars, wpc, copying, spc>>

Post == IF sem < MaxPosts THEN sem + 1 ELSE sem

Ready == {i \in Stages : stage[i] = "READY"}
Free == {i \in Stages : stage[i] = "FREE"}

\* Both loops over the stages take the first one.
First(i, S) == i \in S /\ \A j \in S : i <= j

------------------------------------------------------------------------------
Init ==
    /\ stage = [i \in Stages |-> "FREE"] /\ moved = {}
    /\ filling = NoStage /\ sem = 0 /\ posting = FALSE
    /\ run = FALSE /\ active = FALSE /\ dead = FALSE /\ boxes = FALSE
    /\ holds = FALSE /\ busy = FALSE
    /\ base \in BOOLEAN /\ registered = FALSE /\ attached = FALSE
    /\ wpc = "park" /\ copying = NoStage
    /\ spc = [s \in Shells |-> "idle"]

------------------------------------------------------------------------------
(* The sink's callbacks, as the camera calls them.                         *)

\* Mutant: a re-attach resets a stage the worker copies out of.
OpenClobbers ==
    /\ dead' = FALSE /\ boxes' = FALSE
    /\ stage' = [i \in Stages |-> "FREE"]
    /\ moved' = Stages /\ sem' = 0

\* nncam_open() -> nncam_session_reset(); a RUNNING stage is left alone.
Open ==
    /\ dead' = FALSE
    /\ boxes' = FALSE
    /\ stage' = [i \in Stages |-> IF stage[i] = "RUNNING" THEN "RUNNING" ELSE "FREE"]
    /\ moved' = Stages
    /\ sem' = 0

\* nncam_close(): a pause.  FILLING and RUNNING stages are left alone.
Close ==
    /\ dead' = TRUE
    /\ boxes' = FALSE
    /\ stage' = [i \in Stages |-> IF stage[i] = "READY" THEN "FREE" ELSE stage[i]]
    /\ moved' = Stages
    /\ sem' = Post

SinkUntouched == UNCHANGED <<stage, moved, sem, dead, boxes>>

\* camera_subscribe(): attaches at once to a running base.
Subscribe ==
    /\ registered' = TRUE
    /\ attached' = base
    /\ IF base /\ ~attached THEN Open ELSE SinkUntouched

\* camera_unsubscribe()
Unsubscribe ==
    /\ registered' = FALSE
    /\ attached' = FALSE
    /\ IF attached THEN Close ELSE SinkUntouched

\* The base starts (or recovers) and stops (or tears down after an overrun).
\* The producer does the latter, hence not while it is inside consume().
BaseStarts ==
    /\ ~base /\ filling = NoStage /\ ~posting
    /\ base' = TRUE
    /\ attached' = registered
    /\ IF registered THEN Open ELSE SinkUntouched
    /\ UNCHANGED <<filling, posting, run, active, sessVars, registered, wpc, copying, spc>>

BaseStops ==
    /\ base /\ filling = NoStage /\ ~posting
    /\ base' = FALSE
    /\ attached' = FALSE
    /\ IF attached THEN Close ELSE SinkUntouched
    /\ UNCHANGED <<filling, posting, run, active, sessVars, registered, wpc, copying, spc>>

------------------------------------------------------------------------------
(* nncam_consume() -> nncam_ingest(), in the producer.                     *)

\* Claim a free stage; with none the frame is dropped and nothing changes.
Claim ==
    /\ attached /\ run
    /\ filling = NoStage /\ ~posting
    /\ \E i \in Stages :
         /\ First(i, Free)
         /\ filling' = i
         /\ stage' = [stage EXCEPT ![i] = "FILLING"]
         /\ moved' = moved \ {i}
    /\ UNCHANGED <<sem, posting, flagVars, sessVars, camVars, wpc, copying, spc>>

\* Neither has the session moved on nor was it stopped meanwhile.
Current == filling \notin moved /\ run

\* Publish the stage, or take it back.
Commit ==
    /\ filling # NoStage
    /\ stage' = [stage EXCEPT ![filling] = IF Current THEN "READY" ELSE "FREE"]
    /\ posting' = Current
    /\ filling' = NoStage
    /\ UNCHANGED <<moved, sem, flagVars, sessVars, camVars, wpc, copying, spc>>

\* Mutant: the worker is not woken.
WakeNobody ==
    /\ posting
    /\ posting' = FALSE
    /\ UNCHANGED <<stage, moved, filling, sem, flagVars, sessVars, camVars, wpc,
                   copying, spc>>

WakeWorker ==
    /\ posting
    /\ posting' = FALSE
    /\ sem' = Post
    /\ UNCHANGED <<stage, moved, filling, flagVars, sessVars, camVars, wpc, copying, spc>>

------------------------------------------------------------------------------
(* nncam_entry(), nncam_step(): the worker.                                *)

\* Parked until nncam_run is seen set.
WorkerStarted ==
    /\ wpc = "park" /\ run
    /\ wpc' = "ack"
    /\ UNCHANGED <<stageVars, flagVars, sessVars, camVars, copying, spc>>

Acknowledge ==
    /\ wpc = "ack"
    /\ active' = TRUE
    /\ wpc' = "loop"
    /\ UNCHANGED <<stageVars, run, dead, boxes, sessVars, camVars, copying, spc>>

\* Mutant: the loop ends on a base detach, not on a stop.
LoopTestDead ==
    /\ wpc = "loop"
    /\ wpc' = IF dead THEN "leave" ELSE "wait"
    /\ UNCHANGED <<stageVars, flagVars, sessVars, camVars, copying, spc>>

LoopTest ==
    /\ wpc = "loop"
    /\ wpc' = IF run THEN "wait" ELSE "leave"
    /\ UNCHANGED <<stageVars, flagVars, sessVars, camVars, copying, spc>>

\* tx_semaphore_get(&nncam_sem, NNCAM_POLL_TICKS)
Poll ==
    /\ wpc = "wait"
    /\ IF sem > 0 THEN sem' = sem - 1 /\ wpc' = "step"
                  ELSE UNCHANGED sem /\ wpc' = "loop"
    /\ UNCHANGED <<stage, moved, filling, posting, flagVars, sessVars, camVars,
                   copying, spc>>

TakeStage ==
    /\ wpc = "step"
    /\ IF Ready = {}
       THEN wpc' = "loop" /\ UNCHANGED <<stage, copying>>
       ELSE \E i \in Stages :
              /\ First(i, Ready)
              /\ copying' = i
              /\ stage' = [stage EXCEPT ![i] = "RUNNING"]
              /\ wpc' = "copy"
    /\ UNCHANGED <<moved, filling, sem, posting, flagVars, sessVars, camVars, spc>>

\* Copied into the model's input: the sink may have the stage back.
FreeStage ==
    /\ wpc = "copy"
    /\ stage' = [stage EXCEPT ![copying] = "FREE"]
    /\ copying' = NoStage
    /\ wpc' = "infer"
    /\ UNCHANGED <<moved, filling, sem, posting, flagVars, sessVars, camVars, spc>>

\* nn_run(), which may fail.
Infer ==
    /\ wpc = "infer"
    /\ wpc' \in {"decode", "loop"}
    /\ UNCHANGED <<stageVars, flagVars, sessVars, camVars, copying, spc>>

\* blazeface_decode(), and its boxes published.
Decode ==
    /\ wpc = "decode"
    /\ boxes' \in BOOLEAN
    /\ wpc' = "loop"
    /\ UNCHANGED <<stageVars, run, active, dead, sessVars, camVars, copying, spc>>

Leave ==
    /\ wpc = "leave"
    /\ active' = FALSE
    /\ wpc' = "release"
    /\ UNCHANGED <<stageVars, run, dead, boxes, sessVars, camVars, copying, spc>>

\* nncam_release_session(): who finds the flag set releases the session.
WorkerTakesFlag ==
    /\ wpc = "release"
    /\ holds' = FALSE
    /\ wpc' = IF holds THEN "free" ELSE "park"
    /\ UNCHANGED <<stageVars, flagVars, busy, camVars, copying, spc>>

WorkerReleases ==
    /\ wpc = "free"
    /\ busy' = FALSE
    /\ wpc' = "park"
    /\ UNCHANGED <<stageVars, flagVars, holds, camVars, copying, spc>>

------------------------------------------------------------------------------
(* The shells.                                                             *)

\* nn_camera_start(): refused while running or tearing down.
StartChecked(s) ==
    /\ spc[s] = "idle"
    /\ ~run /\ ~active
    /\ spc' = [spc EXCEPT ![s] = "start"]
    /\ UNCHANGED <<stageVars, flagVars, sessVars, camVars, wpc, copying>>

\* The model or the session is not to be had; or the session is claimed and
\* the stream enabled.
StartClaims(s) ==
    /\ spc[s] = "start"
    /\ \/ /\ spc' = [spc EXCEPT ![s] = "idle"]
          /\ UNCHANGED <<run, sessVars>>
       \/ /\ ~busy
          /\ busy' = TRUE /\ holds' = TRUE /\ run' = TRUE
          /\ spc' = [spc EXCEPT ![s] = "subscribe"]
    /\ UNCHANGED <<stageVars, active, dead, boxes, camVars, wpc, copying>>

StartSubscribes(s) ==
    /\ spc[s] = "subscribe"
    /\ spc' = [spc EXCEPT ![s] = "idle"]
    /\ \/ Subscribe /\ UNCHANGED <<run, sessVars>>
       \/ /\ ~attached
          /\ run' = FALSE /\ holds' = FALSE /\ busy' = FALSE
          /\ registered' = FALSE /\ SinkUntouched /\ UNCHANGED attached
    /\ UNCHANGED <<filling, posting, active, base, wpc, copying>>

\* nn_camera_stop(): disable and wake the worker,
StopAsked(s) ==
    /\ spc[s] = "idle"
    /\ run \/ active
    /\ run' = FALSE
    /\ sem' = Post
    /\ spc' = [spc EXCEPT ![s] = "unsubscribe"]
    /\ UNCHANGED <<stage, moved, filling, posting, active, dead, boxes, sessVars,
                   camVars, wpc, copying>>

\* detach,
StopUnsubscribes(s) ==
    /\ spc[s] = "unsubscribe"
    /\ Unsubscribe
    /\ spc' = [spc EXCEPT ![s] = "await"]
    /\ UNCHANGED <<filling, posting, run, active, sessVars, base, wpc, copying>>

\* wait for the worker to park, 3 s at most (then the worker releases the
\* session), and release the session unless that is done already.
StopTimesOut(s) ==
    /\ spc[s] = "await" /\ active
    /\ spc' = [spc EXCEPT ![s] = "idle"]
    /\ UNCHANGED <<stageVars, flagVars, sessVars, camVars, wpc, copying>>

StopTakesFlag(s) ==
    /\ spc[s] = "await" /\ ~active
    /\ holds' = FALSE
    /\ spc' = [spc EXCEPT ![s] = IF holds THEN "free" ELSE "idle"]
    /\ UNCHANGED <<stageVars, flagVars, busy, camVars, wpc, copying>>

StopReleases(s) ==
    /\ spc[s] = "free"
    /\ busy' = FALSE
    /\ spc' = [spc EXCEPT ![s] = "idle"]
    /\ UNCHANGED <<stageVars, flagVars, holds, camVars, wpc, copying>>

\* `ai bench` (cmd_ai_bench) and `ai model load` use the model under the
\* session, too.
BenchClaims(s) ==
    /\ spc[s] = "idle" /\ ~busy
    /\ busy' = TRUE
    /\ spc' = [spc EXCEPT ![s] = "bench"]
    /\ UNCHANGED <<stageVars, flagVars, holds, camVars, wpc, copying>>

BenchEnds(s) ==
    /\ spc[s] = "bench"
    /\ busy' = FALSE
    /\ spc' = [spc EXCEPT ![s] = "idle"]
    /\ UNCHANGED <<stageVars, flagVars, holds, camVars, wpc, copying>>

------------------------------------------------------------------------------
Producer == Claim \/ Commit \/ WakeWorker

Worker == \/ WorkerStarted \/ Acknowledge \/ LoopTest \/ Poll \/ TakeStage
          \/ FreeStage \/ Infer \/ Decode \/ Leave
          \/ WorkerTakesFlag \/ WorkerReleases

\* What a shell does once a command is under way.
Continue(s) == \/ StartClaims(s) \/ StartSubscribes(s)
               \/ StopUnsubscribes(s) \/ StopTimesOut(s) \/ StopTakesFlag(s)
               \/ StopReleases(s) \/ BenchEnds(s)

Command(s) == StartChecked(s) \/ StopAsked(s) \/ BenchClaims(s)

Next == \/ Producer \/ Worker \/ BaseStarts \/ BaseStops
        \/ \E s \in Shells : Command(s) \/ Continue(s)

Spec == Init /\ [][Next]_vars

(* Every thread gets to run and nn_run() returns; nobody has to type.       *)
Fairness == /\ WF_vars(Worker) /\ WF_vars(Producer)
            /\ \A s \in Shells : WF_vars(Continue(s))

FairSpec == Spec /\ Fairness

------------------------------------------------------------------------------
StageTypes == /\ stage \in [Stages -> {"FREE", "FILLING", "READY", "RUNNING"}]
              /\ moved \subseteq Stages
              /\ filling \in Stages \cup {NoStage}
              /\ copying \in Stages \cup {NoStage}
SemType == sem \in 0 .. MaxPosts
FlagTypes == /\ posting \in BOOLEAN /\ run \in BOOLEAN /\ active \in BOOLEAN
             /\ dead \in BOOLEAN /\ boxes \in BOOLEAN
             /\ holds \in BOOLEAN /\ busy \in BOOLEAN
             /\ base \in BOOLEAN /\ registered \in BOOLEAN /\ attached \in BOOLEAN
PlaceTypes == /\ wpc \in {"park", "ack", "loop", "wait", "step", "copy", "infer",
                          "decode", "leave", "release", "free"}
              /\ spc \in [Shells -> {"idle", "start", "subscribe", "unsubscribe",
                                     "await", "free", "bench"}]

TypeOK == StageTypes /\ SemType /\ FlagTypes /\ PlaceTypes

(* The sink never writes the buffer the worker copies out of, although a    *)
(* re-attach in the middle of both resets the stages.                       *)
StagesExclusive ==
    /\ filling # NoStage => filling # copying
    /\ copying # NoStage => stage[copying] = "RUNNING"

(* A frame captured before a detach or a re-attach is never staged for the  *)
(* session after it, nor one for a subscriber that is not attached.         *)
NoStaleFrame == \A i \in Ready : i \notin moved /\ attached

(* What reaches an inference is one whole frame of the session that asked.  *)
StagesSound == StagesExclusive /\ NoStaleFrame

\* What the two above rest on: only the worker makes a stage RUNNING, while it
\* copies; the stage being filled is never READY; a fill that is still current
\* belongs to an attached sink.
StageInv ==
    /\ copying # NoStage <=> wpc = "copy"
    /\ filling # NoStage => stage[filling] \in {"FILLING", "FREE"}
    /\ filling # NoStage /\ filling \notin moved => attached
    /\ attached => base

(* nn_camera_stop() parks the worker, however its flags raced with a start. *)
WorkerParks == ~run ~> wpc = "park" \/ run

(* The session comes back after a stop, also after one that timed out.      *)
SessionComesBack == holds /\ ~run ~> ~holds \/ run

(* A stop ends in a parked worker and a free session, whatever it raced.    *)
WorkerSettles == WorkerParks /\ SessionComesBack

(* A staged frame gets an inference, or is dropped by a detach.             *)
StagedIsInferred == Ready # {} ~> wpc = "copy" \/ Ready = {}

(* nn.h: only one inference activity may use the model at a time.           *)
OneInference ==
    wpc \in {"copy", "infer", "decode"} => \A s \in Shells : spc[s] # "bench"
=============================================================================
