----------------------------- MODULE CameraProofs -----------------------------
(***************************************************************************)
(* Proofs about the two halves of the camera driver.                       *)
(*                                                                         *)
(* CameraBase, for any sinks, formats, registry size and give-up limit:    *)
(* BaseInv is inductive; the properties are its conjuncts.                 *)
(*                                                                         *)
(* CameraSensor, for any levels of the settings: SensorInv is inductive.   *)
(* A call is a chain of sensor accesses, each of which may fail with its   *)
(* register written or not.  For every *_locked() helper a lemma says what *)
(* each of its outcomes is; the calls' lemmas compose them.                *)
(***************************************************************************)
EXTENDS CameraBase, CameraSensor, TLAPS

\* Raising the base links exactly the sinks it attaches, all compatible.
LEMMA RaisedInv ==
  ASSUME BaseInv, ~active, Unlocked,
         NEW who \in {"caller", "producer"}, NEW hasTarget \in BOOLEAN,
         NEW kept, kept = subs', subs' \subseteq subs,
         StartRaised(who, hasTarget, kept),
         rapid' \in 0 .. Giveup, rapid' < Giveup, pending' = FALSE,
         who = "caller" => subs' \cap Oneshots = {},
         who = "producer" <=> pc' = "arming",
         pc' \in {"top", "off", "idle", "wait", "frame", "tick", "teardown",
                  "recover", "arming"},
         userOff' = FALSE
  PROVE  BaseInv'
<1> USE DEF StartRaised
<1>1. TypeOK'
  <2>1. FlagTypes'
    BY DEF BaseInv, TypeOK, FlagTypes
  <2>2. CountTypes'
    BY BaseAssumption DEF CountTypes
  <2>3. RegistryTypes'
    BY DEF BaseInv, TypeOK, RegistryTypes
  <2>4. PlaceTypes'
    BY DEF BaseInv, TypeOK, PlaceTypes
  <2> QED
    BY <2>1, <2>2, <2>3, <2>4 DEF TypeOK
<1>2. RegistryMatchesPipeline' /\ CompatibleAttached'
  BY DEF RegistryMatchesPipeline, CompatibleAttached, Compatible
<1>3. NoGhost' /\ StopIsFinal' /\ LifecycleInv'
  BY DEF NoGhost, StopIsFinal, LifecycleInv, Unlocked
<1> QED
  BY <1>1, <1>2, <1>3 DEF BaseInv

\* The public calls, all made with the lock free.
LEMMA RequestInv == BaseInv /\ Request => BaseInv'
<1> SUFFICES ASSUME BaseInv, Request PROVE BaseInv'
  OBVIOUS
<1> USE BaseAssumption DEF Unlocked, Compatible, ctlVars, recVars, semVars, regVars
<1>1. ASSUME NEW hasTarget \in BOOLEAN, Start(hasTarget)
      PROVE  BaseInv'
  <2>1. CASE active
    <3>1. TypeOK'
      <4>1. FlagTypes'
        BY <1>1, <2>1 DEF Start, BaseInv, TypeOK, FlagTypes
      <4>2. CountTypes'
        BY <1>1, <2>1 DEF Start, BaseInv, TypeOK, CountTypes
      <4>3. RegistryTypes'
        BY <1>1, <2>1 DEF Start, BaseInv, TypeOK, RegistryTypes
      <4>4. PlaceTypes'
        BY <1>1, <2>1 DEF Start, BaseInv, TypeOK, PlaceTypes, LifecycleInv,
           Formats
      <4> QED
        BY <4>1, <4>2, <4>3, <4>4 DEF TypeOK
    <3>2. RegistryMatchesPipeline' /\ CompatibleAttached'
      BY <1>1, <2>1 DEF Start, BaseInv, RegistryMatchesPipeline,
         CompatibleAttached, LifecycleInv
    <3>3. NoGhost' /\ StopIsFinal'
      BY <1>1, <2>1 DEF Start, BaseInv, NoGhost, StopIsFinal, LifecycleInv
    <3>4. LifecycleInv'
      BY <1>1, <2>1 DEF Start, BaseInv, TypeOK, FlagTypes, CountTypes,
         PlaceTypes, LifecycleInv
    <3> QED
      BY <3>1, <3>2, <3>3, <3>4 DEF BaseInv
  <2>2. CASE ~active /\ StartRefused
    <3>1. TypeOK'
      <4>1. FlagTypes'
        BY <1>1, <2>2 DEF Start, StartRefused, BaseInv, TypeOK, FlagTypes
      <4>2. CountTypes'
        BY <1>1, <2>2 DEF Start, StartRefused, BaseInv, TypeOK, CountTypes
      <4>3. RegistryTypes'
        BY <1>1, <2>2 DEF Start, StartRefused, BaseInv, TypeOK, RegistryTypes
      <4>4. PlaceTypes'
        BY <1>1, <2>2 DEF Start, StartRefused, BaseInv, TypeOK, PlaceTypes,
           LifecycleInv, Formats
      <4> QED
        BY <4>1, <4>2, <4>3, <4>4 DEF TypeOK
    <3>2. RegistryMatchesPipeline' /\ CompatibleAttached'
      BY <1>1, <2>2 DEF Start, StartRefused, BaseInv, RegistryMatchesPipeline,
         CompatibleAttached, LifecycleInv
    <3>3. NoGhost' /\ StopIsFinal'
      BY <1>1, <2>2 DEF Start, StartRefused, BaseInv, NoGhost, StopIsFinal,
         LifecycleInv
    <3>4. LifecycleInv'
      BY <1>1, <2>2 DEF Start, StartRefused, BaseInv, TypeOK, FlagTypes,
         CountTypes, PlaceTypes, LifecycleInv
    <3> QED
      BY <3>1, <3>2, <3>3, <3>4 DEF BaseInv
  <2>3. CASE ~active /\ StartRaised("caller", hasTarget, subs') /\ userOff' = FALSE
    <3>1. /\ Unlocked /\ pending' = FALSE /\ rapid' = 0 /\ pc' = pc
          /\ subs' = subs \ Oneshots
      BY <1>1, <2>3 DEF Start
    <3>2. pc # "arming" /\ subs' \subseteq subs /\ subs' \cap Oneshots = {}
      BY <3>1 DEF BaseInv, LifecycleInv
    <3>3. rapid' \in 0 .. Giveup /\ rapid' < Giveup
      BY <3>1
    <3>4. pc' \in {"top", "off", "idle", "wait", "frame", "tick", "teardown",
                   "recover", "arming"}
      BY <3>1 DEF BaseInv, TypeOK, PlaceTypes
    <3> QED
      BY <2>3, <3>1, <3>2, <3>3, <3>4, RaisedInv
  <2> QED
    BY <1>1, <2>1, <2>2, <2>3 DEF Start
<1>2. CASE Stop
  <2>1. TypeOK'
    <3>1. FlagTypes'
      BY <1>2 DEF Stop, Post, BaseInv, TypeOK, FlagTypes
    <3>2. CountTypes'
      BY <1>2 DEF Stop, Post, BaseInv, TypeOK, CountTypes
    <3>3. RegistryTypes'
      BY <1>2 DEF Stop, Post, BaseInv, TypeOK, RegistryTypes
    <3>4. PlaceTypes'
      BY <1>2 DEF Stop, Post, BaseInv, TypeOK, PlaceTypes, LifecycleInv, Formats
    <3> QED
      BY <3>1, <3>2, <3>3, <3>4 DEF TypeOK
  <2>2. RegistryMatchesPipeline' /\ CompatibleAttached'
    BY <1>2 DEF Stop, Post, BaseInv, RegistryMatchesPipeline,
       CompatibleAttached, LifecycleInv
  <2>3. NoGhost' /\ StopIsFinal'
    BY <1>2 DEF Stop, Post, BaseInv, NoGhost, StopIsFinal, LifecycleInv
  <2>4. LifecycleInv'
    BY <1>2 DEF Stop, Post, BaseInv, TypeOK, FlagTypes, CountTypes, PlaceTypes,
       LifecycleInv
  <2> QED
    BY <2>1, <2>2, <2>3, <2>4 DEF BaseInv
<1>3. CASE PowerOff
  <2>1. TypeOK'
    <3>1. FlagTypes'
      BY <1>3 DEF PowerOff, BaseInv, TypeOK, FlagTypes
    <3>2. CountTypes'
      BY <1>3 DEF PowerOff, BaseInv, TypeOK, CountTypes
    <3>3. RegistryTypes'
      BY <1>3 DEF PowerOff, BaseInv, TypeOK, RegistryTypes
    <3>4. PlaceTypes'
      BY <1>3 DEF PowerOff, BaseInv, TypeOK, PlaceTypes, LifecycleInv, Formats
    <3> QED
      BY <3>1, <3>2, <3>3, <3>4 DEF TypeOK
  <2>2. RegistryMatchesPipeline' /\ CompatibleAttached'
    BY <1>3 DEF PowerOff, BaseInv, RegistryMatchesPipeline, CompatibleAttached,
       LifecycleInv
  <2>3. NoGhost' /\ StopIsFinal'
    BY <1>3 DEF PowerOff, BaseInv, NoGhost, StopIsFinal, LifecycleInv
  <2>4. LifecycleInv'
    BY <1>3 DEF PowerOff, BaseInv, TypeOK, FlagTypes, CountTypes, PlaceTypes,
       LifecycleInv
  <2> QED
    BY <2>1, <2>2, <2>3, <2>4 DEF BaseInv
<1>4. ASSUME NEW s \in Sinks, Subscribe(s) \/ SubscribeOneshot(s)
      PROVE  BaseInv'
  <2>1. TypeOK'
    <3>1. FlagTypes'
      BY <1>4 DEF Subscribe, SubscribeOneshot, BaseInv, TypeOK, FlagTypes
    <3>2. CountTypes'
      BY <1>4 DEF Subscribe, SubscribeOneshot, BaseInv, TypeOK, CountTypes
    <3>3. RegistryTypes'
      BY <1>4 DEF Subscribe, SubscribeOneshot, BaseInv, TypeOK, RegistryTypes
    <3>4. PlaceTypes'
      BY <1>4 DEF Subscribe, SubscribeOneshot, BaseInv, TypeOK, PlaceTypes,
         LifecycleInv, Formats
    <3> QED
      BY <3>1, <3>2, <3>3, <3>4 DEF TypeOK
  <2>2. RegistryMatchesPipeline' /\ CompatibleAttached'
    BY <1>4 DEF Subscribe, SubscribeOneshot, BaseInv, RegistryMatchesPipeline,
       CompatibleAttached, LifecycleInv
  <2>3. NoGhost' /\ StopIsFinal'
    BY <1>4 DEF Subscribe, SubscribeOneshot, BaseInv, NoGhost, StopIsFinal,
       LifecycleInv
  <2>4. LifecycleInv'
    BY <1>4 DEF Subscribe, SubscribeOneshot, BaseInv, TypeOK, FlagTypes,
       CountTypes, PlaceTypes, LifecycleInv
  <2> QED
    BY <2>1, <2>2, <2>3, <2>4 DEF BaseInv
<1>5. ASSUME NEW s \in Sinks, Unsubscribe(s)
      PROVE  BaseInv'
  <2>1. TypeOK'
    <3>1. FlagTypes'
      BY <1>5 DEF Unsubscribe, BaseInv, TypeOK, FlagTypes
    <3>2. CountTypes'
      BY <1>5 DEF Unsubscribe, BaseInv, TypeOK, CountTypes
    <3>3. RegistryTypes'
      BY <1>5 DEF Unsubscribe, BaseInv, TypeOK, RegistryTypes
    <3>4. PlaceTypes'
      BY <1>5 DEF Unsubscribe, BaseInv, TypeOK, PlaceTypes, LifecycleInv,
         Formats
    <3> QED
      BY <3>1, <3>2, <3>3, <3>4 DEF TypeOK
  <2>2. RegistryMatchesPipeline' /\ CompatibleAttached'
    BY <1>5 DEF Unsubscribe, BaseInv, RegistryMatchesPipeline,
       CompatibleAttached, LifecycleInv
  <2>3. NoGhost' /\ StopIsFinal'
    BY <1>5 DEF Unsubscribe, BaseInv, NoGhost, StopIsFinal, LifecycleInv
  <2>4. LifecycleInv'
    BY <1>5 DEF Unsubscribe, BaseInv, TypeOK, FlagTypes, CountTypes,
       PlaceTypes, LifecycleInv
  <2> QED
    BY <2>1, <2>2, <2>3, <2>4 DEF BaseInv
<1>6. ASSUME NEW f \in Formats, SetFormat(f)
      PROVE  BaseInv'
  <2>1. TypeOK'
    <3>1. FlagTypes'
      BY <1>6 DEF SetFormat, BaseInv, TypeOK, FlagTypes
    <3>2. CountTypes'
      BY <1>6 DEF SetFormat, BaseInv, TypeOK, CountTypes
    <3>3. RegistryTypes'
      BY <1>6 DEF SetFormat, BaseInv, TypeOK, RegistryTypes
    <3>4. PlaceTypes'
      BY <1>6 DEF SetFormat, BaseInv, TypeOK, PlaceTypes, LifecycleInv, Formats
    <3> QED
      BY <3>1, <3>2, <3>3, <3>4 DEF TypeOK
  <2>2. RegistryMatchesPipeline' /\ CompatibleAttached'
    BY <1>6 DEF SetFormat, BaseInv, RegistryMatchesPipeline,
       CompatibleAttached, LifecycleInv
  <2>3. NoGhost' /\ StopIsFinal'
    BY <1>6 DEF SetFormat, BaseInv, NoGhost, StopIsFinal, LifecycleInv
  <2>4. LifecycleInv'
    BY <1>6 DEF SetFormat, BaseInv, TypeOK, FlagTypes, CountTypes, PlaceTypes,
       LifecycleInv
  <2> QED
    BY <2>1, <2>2, <2>3, <2>4 DEF BaseInv
<1> QED
  BY <1>1, <1>2, <1>3, <1>4, <1>5, <1>6 DEF Request

\* The interrupts and the producer's steps.
LEMMA InternalInv ==
  BaseInv /\ (Interrupt \/ ProducerStep \/ Armed \/ ArmFailed) => BaseInv'
<1> SUFFICES ASSUME BaseInv, Interrupt \/ ProducerStep \/ Armed \/ ArmFailed
             PROVE  BaseInv'
  OBVIOUS
<1> USE BaseAssumption DEF Unlocked, Compatible, ctlVars, recVars, semVars, regVars
<1>1. CASE Interrupt
  <2>1. TypeOK'
    <3>1. FlagTypes'
      BY <1>1 DEF Interrupt, FrameInterrupt, ErrorInterrupt, TimeUp, Post,
         BaseInv, TypeOK, FlagTypes
    <3>2. CountTypes'
      BY <1>1 DEF Interrupt, FrameInterrupt, ErrorInterrupt, TimeUp, Post,
         BaseInv, TypeOK, CountTypes
    <3>3. RegistryTypes'
      BY <1>1 DEF Interrupt, FrameInterrupt, ErrorInterrupt, TimeUp, Post,
         BaseInv, TypeOK, RegistryTypes
    <3>4. PlaceTypes'
      BY <1>1 DEF Interrupt, FrameInterrupt, ErrorInterrupt, TimeUp, Post,
         BaseInv, TypeOK, PlaceTypes, LifecycleInv, Formats
    <3> QED
      BY <3>1, <3>2, <3>3, <3>4 DEF TypeOK
  <2>2. RegistryMatchesPipeline' /\ CompatibleAttached'
    BY <1>1 DEF Interrupt, FrameInterrupt, ErrorInterrupt, TimeUp, Post,
       BaseInv, RegistryMatchesPipeline, CompatibleAttached, LifecycleInv
  <2>3. NoGhost' /\ StopIsFinal'
    BY <1>1 DEF Interrupt, FrameInterrupt, ErrorInterrupt, TimeUp, Post,
       BaseInv, NoGhost, StopIsFinal, LifecycleInv
  <2>4. LifecycleInv'
    BY <1>1 DEF Interrupt, FrameInterrupt, ErrorInterrupt, TimeUp, Post,
       BaseInv, TypeOK, FlagTypes, CountTypes, PlaceTypes, LifecycleInv
  <2> QED
    BY <2>1, <2>2, <2>3, <2>4 DEF BaseInv
<1>2. CASE ProducerTop \/ ProducerOff \/ ProducerIdle \/ ProducerWait \/ ServiceStops
  <2>1. TypeOK'
    <3>1. FlagTypes'
      BY <1>2 DEF ProducerTop, ProducerOff, ProducerIdle, ProducerWait,
         ServiceStops, BaseInv, TypeOK, FlagTypes
    <3>2. CountTypes'
      BY <1>2 DEF ProducerTop, ProducerOff, ProducerIdle, ProducerWait,
         ServiceStops, BaseInv, TypeOK, CountTypes
    <3>3. RegistryTypes'
      BY <1>2 DEF ProducerTop, ProducerOff, ProducerIdle, ProducerWait,
         ServiceStops, BaseInv, TypeOK, RegistryTypes
    <3>4. PlaceTypes'
      BY <1>2 DEF ProducerTop, ProducerOff, ProducerIdle, ProducerWait,
         ServiceStops, BaseInv, TypeOK, PlaceTypes, LifecycleInv, Formats
    <3> QED
      BY <3>1, <3>2, <3>3, <3>4 DEF TypeOK
  <2>2. RegistryMatchesPipeline' /\ CompatibleAttached'
    BY <1>2 DEF ProducerTop, ProducerOff, ProducerIdle, ProducerWait,
       ServiceStops, BaseInv, RegistryMatchesPipeline, CompatibleAttached,
       LifecycleInv
  <2>3. NoGhost' /\ StopIsFinal'
    BY <1>2 DEF ProducerTop, ProducerOff, ProducerIdle, ProducerWait,
       ServiceStops, BaseInv, NoGhost, StopIsFinal, LifecycleInv
  <2>4. LifecycleInv'
    BY <1>2 DEF ProducerTop, ProducerOff, ProducerIdle, ProducerWait,
       ServiceStops, BaseInv, TypeOK, FlagTypes, CountTypes, PlaceTypes,
       LifecycleInv
  <2> QED
    BY <2>1, <2>2, <2>3, <2>4 DEF BaseInv
<1>3. CASE ServiceRaster \/ ServiceJpeg
  <2>1. TypeOK'
    <3>1. FlagTypes'
      BY <1>3 DEF ServiceRaster, ServiceJpeg, BaseInv, TypeOK, FlagTypes
    <3>2. CountTypes'
      BY <1>3 DEF ServiceRaster, ServiceJpeg, BaseInv, TypeOK, CountTypes
    <3>3. RegistryTypes'
      BY <1>3 DEF ServiceRaster, ServiceJpeg, BaseInv, TypeOK, RegistryTypes
    <3>4. PlaceTypes'
      BY <1>3 DEF ServiceRaster, ServiceJpeg, BaseInv, TypeOK, PlaceTypes,
         LifecycleInv, Formats
    <3> QED
      BY <3>1, <3>2, <3>3, <3>4 DEF TypeOK
  <2>2. RegistryMatchesPipeline' /\ CompatibleAttached'
    BY <1>3 DEF ServiceRaster, ServiceJpeg, BaseInv, RegistryMatchesPipeline,
       CompatibleAttached, LifecycleInv
  <2>3. NoGhost' /\ StopIsFinal'
    BY <1>3 DEF ServiceRaster, ServiceJpeg, BaseInv, NoGhost, StopIsFinal,
       LifecycleInv
  <2>4. LifecycleInv'
    BY <1>3 DEF ServiceRaster, ServiceJpeg, BaseInv, TypeOK, FlagTypes,
       CountTypes, PlaceTypes, LifecycleInv
  <2> QED
    BY <2>1, <2>2, <2>3, <2>4 DEF BaseInv
<1>4. CASE Teardown
  <2>1. TypeOK'
    <3>1. FlagTypes'
      BY <1>4 DEF Teardown, Recovers, BaseInv, TypeOK, FlagTypes
    <3>2. CountTypes'
      BY <1>4 DEF Teardown, Recovers, BaseInv, TypeOK, CountTypes
    <3>3. RegistryTypes'
      BY <1>4 DEF Teardown, Recovers, BaseInv, TypeOK, RegistryTypes
    <3>4. PlaceTypes'
      BY <1>4 DEF Teardown, Recovers, BaseInv, TypeOK, PlaceTypes,
         LifecycleInv, Formats
    <3> QED
      BY <3>1, <3>2, <3>3, <3>4 DEF TypeOK
  <2>2. RegistryMatchesPipeline' /\ CompatibleAttached'
    BY <1>4 DEF Teardown, Recovers, BaseInv, RegistryMatchesPipeline,
       CompatibleAttached, LifecycleInv
  <2>3. NoGhost' /\ StopIsFinal'
    BY <1>4 DEF Teardown, Recovers, BaseInv, NoGhost, StopIsFinal, LifecycleInv
  <2>4. LifecycleInv'
    <3>1. (pending' => ~active' /\ ~userOff') /\ (active' \/ pending' => rapid' < Giveup)
      BY <1>4 DEF Teardown, Recovers, BaseInv, StopIsFinal, LifecycleInv
    <3>2. UNCHANGED arming /\ Unlocked /\ pc # "arming" /\ pc' # "arming"
      BY <1>4 DEF Teardown
    <3> QED
      BY <3>1, <3>2 DEF LifecycleInv
  <2> QED
    BY <2>1, <2>2, <2>3, <2>4 DEF BaseInv
<1>5. CASE RecoverCancelled
  <2>1. TypeOK'
    <3>1. FlagTypes'
      BY <1>5 DEF RecoverCancelled, BaseInv, TypeOK, FlagTypes
    <3>2. CountTypes'
      BY <1>5 DEF RecoverCancelled, BaseInv, TypeOK, CountTypes
    <3>3. RegistryTypes'
      BY <1>5 DEF RecoverCancelled, BaseInv, TypeOK, RegistryTypes
    <3>4. PlaceTypes'
      BY <1>5 DEF RecoverCancelled, BaseInv, TypeOK, PlaceTypes, LifecycleInv,
         Formats
    <3> QED
      BY <3>1, <3>2, <3>3, <3>4 DEF TypeOK
  <2>2. RegistryMatchesPipeline' /\ CompatibleAttached'
    BY <1>5 DEF RecoverCancelled, BaseInv, RegistryMatchesPipeline,
       CompatibleAttached, LifecycleInv
  <2>3. NoGhost' /\ StopIsFinal'
    BY <1>5 DEF RecoverCancelled, BaseInv, NoGhost, StopIsFinal, LifecycleInv
  <2>4. LifecycleInv'
    BY <1>5 DEF RecoverCancelled, BaseInv, TypeOK, FlagTypes, CountTypes,
       PlaceTypes, LifecycleInv
  <2> QED
    BY <2>1, <2>2, <2>3, <2>4 DEF BaseInv
<1>6. CASE Recover
  <2>1. CASE rapid' >= Giveup
    <3>1. TypeOK'
      <4>1. FlagTypes'
        BY <1>6, <2>1 DEF Recover, GivesUp, BaseInv, TypeOK, FlagTypes
      <4>2. CountTypes'
        BY <1>6, <2>1 DEF Recover, GivesUp, BaseInv, TypeOK, CountTypes,
           LifecycleInv
      <4>3. RegistryTypes'
        BY <1>6, <2>1 DEF Recover, GivesUp, BaseInv, TypeOK, RegistryTypes
      <4>4. PlaceTypes'
        BY <1>6, <2>1 DEF Recover, GivesUp, BaseInv, TypeOK, PlaceTypes,
           LifecycleInv, Formats
      <4> QED
        BY <4>1, <4>2, <4>3, <4>4 DEF TypeOK
    <3>2. RegistryMatchesPipeline' /\ CompatibleAttached'
      BY <1>6, <2>1 DEF Recover, GivesUp, BaseInv, RegistryMatchesPipeline,
         CompatibleAttached, LifecycleInv
    <3>3. NoGhost' /\ StopIsFinal'
      BY <1>6, <2>1 DEF Recover, GivesUp, BaseInv, NoGhost, StopIsFinal,
         LifecycleInv
    <3>4. LifecycleInv'
      BY <1>6, <2>1 DEF Recover, GivesUp, BaseInv, TypeOK, FlagTypes,
         CountTypes, PlaceTypes, LifecycleInv
    <3> QED
      BY <3>1, <3>2, <3>3, <3>4 DEF BaseInv
  <2>2. CASE rapid' < Giveup /\ StartRefused /\ subs' = subs \ Oneshots /\ pc' = "top"
    <3>1. TypeOK'
      <4>1. FlagTypes'
        BY <1>6, <2>2 DEF Recover, GivesUp, StartRefused, BaseInv, TypeOK,
           FlagTypes
      <4>2. CountTypes'
        BY <1>6, <2>2 DEF Recover, GivesUp, StartRefused, BaseInv, TypeOK,
           CountTypes
      <4>3. RegistryTypes'
        BY <1>6, <2>2 DEF Recover, GivesUp, StartRefused, BaseInv, TypeOK,
           RegistryTypes
      <4>4. PlaceTypes'
        BY <1>6, <2>2 DEF Recover, GivesUp, StartRefused, BaseInv, TypeOK,
           PlaceTypes, LifecycleInv, Formats
      <4> QED
        BY <4>1, <4>2, <4>3, <4>4 DEF TypeOK
    <3>2. RegistryMatchesPipeline' /\ CompatibleAttached'
      BY <1>6, <2>2 DEF Recover, GivesUp, StartRefused, BaseInv,
         RegistryMatchesPipeline, CompatibleAttached, LifecycleInv
    <3>3. NoGhost' /\ StopIsFinal'
      BY <1>6, <2>2 DEF Recover, GivesUp, StartRefused, BaseInv, NoGhost,
         StopIsFinal, LifecycleInv
    <3>4. LifecycleInv'
      BY <1>6, <2>2 DEF Recover, GivesUp, StartRefused, BaseInv, TypeOK,
         FlagTypes, CountTypes, PlaceTypes, LifecycleInv
    <3> QED
      BY <3>1, <3>2, <3>3, <3>4 DEF BaseInv
  <2>3. CASE /\ rapid' < Giveup
             /\ StartRaised("producer", target, subs) /\ pc' = "arming"
             /\ UNCHANGED subs
    <3>1. /\ Unlocked /\ ~active /\ pending' = FALSE /\ userOff' = FALSE
          /\ rapid' \in 0 .. Giveup /\ target \in BOOLEAN
      BY <1>6, <2>3 DEF Recover, GivesUp, BaseInv, TypeOK, FlagTypes,
         CountTypes, PlaceTypes, LifecycleInv
    <3> QED
      BY <2>3, <3>1, RaisedInv
  <2>4. rapid \in Nat /\ rapid' \in Nat /\ Giveup \in Nat
    BY <1>6 DEF Recover, GivesUp, BaseInv, TypeOK, CountTypes
  <2> QED
    BY <1>6, <2>1, <2>2, <2>3, <2>4 DEF Recover, GivesUp
<1>7. CASE Armed
  <2>1. TypeOK'
    <3>1. FlagTypes'
      BY <1>7 DEF Armed, Post, BaseInv, TypeOK, FlagTypes
    <3>2. CountTypes'
      BY <1>7 DEF Armed, Post, BaseInv, TypeOK, CountTypes
    <3>3. RegistryTypes'
      BY <1>7 DEF Armed, Post, BaseInv, TypeOK, RegistryTypes
    <3>4. PlaceTypes'
      BY <1>7 DEF Armed, Post, BaseInv, TypeOK, PlaceTypes, LifecycleInv,
         Formats
    <3> QED
      BY <3>1, <3>2, <3>3, <3>4 DEF TypeOK
  <2>2. RegistryMatchesPipeline' /\ CompatibleAttached'
    BY <1>7 DEF Armed, Post, BaseInv, RegistryMatchesPipeline,
       CompatibleAttached, LifecycleInv
  <2>3. NoGhost' /\ StopIsFinal'
    BY <1>7 DEF Armed, Post, BaseInv, NoGhost, StopIsFinal, LifecycleInv
  <2>4. LifecycleInv'
    BY <1>7 DEF Armed, Post, BaseInv, TypeOK, FlagTypes, CountTypes,
       PlaceTypes, LifecycleInv
  <2> QED
    BY <2>1, <2>2, <2>3, <2>4 DEF BaseInv
<1>8. CASE ArmFailed
  <2>1. TypeOK'
    <3>1. FlagTypes'
      BY <1>8 DEF ArmFailed, BaseInv, TypeOK, FlagTypes
    <3>2. CountTypes'
      BY <1>8 DEF ArmFailed, BaseInv, TypeOK, CountTypes
    <3>3. RegistryTypes'
      BY <1>8 DEF ArmFailed, BaseInv, TypeOK, RegistryTypes
    <3>4. PlaceTypes'
      BY <1>8 DEF ArmFailed, BaseInv, TypeOK, PlaceTypes, LifecycleInv, Formats
    <3> QED
      BY <3>1, <3>2, <3>3, <3>4 DEF TypeOK
  <2>2. RegistryMatchesPipeline' /\ CompatibleAttached'
    BY <1>8 DEF ArmFailed, BaseInv, RegistryMatchesPipeline,
       CompatibleAttached, LifecycleInv
  <2>3. NoGhost' /\ StopIsFinal'
    BY <1>8 DEF ArmFailed, BaseInv, TypeOK, PlaceTypes, NoGhost, StopIsFinal,
       LifecycleInv
  <2>4. LifecycleInv'
    BY <1>8 DEF ArmFailed, BaseInv, TypeOK, FlagTypes, CountTypes, PlaceTypes,
       LifecycleInv
  <2> QED
    BY <2>1, <2>2, <2>3, <2>4 DEF BaseInv
<1> QED
  BY <1>1, <1>2, <1>3, <1>4, <1>5, <1>6, <1>7, <1>8 DEF ProducerStep

\* The inductive invariant.
LEMMA BaseInvariance == Spec => []BaseInv
<1>1. Init => BaseInv
  <2> SUFFICES ASSUME Init PROVE BaseInv
    OBVIOUS
  <2>1. FlagTypes /\ RegistryTypes /\ PlaceTypes
    BY DEF Init, FlagTypes, RegistryTypes, PlaceTypes, Formats
  <2>2. CountTypes
    BY BaseAssumption DEF Init, CountTypes
  <2>3. RegistryMatchesPipeline /\ CompatibleAttached /\ NoGhost /\ StopIsFinal
    BY DEF Init, RegistryMatchesPipeline, CompatibleAttached, NoGhost,
       StopIsFinal
  <2>4. LifecycleInv
    BY DEF Init, LifecycleInv, Unlocked
  <2> QED
    BY <2>1, <2>2, <2>3, <2>4 DEF BaseInv, TypeOK
<1>2. BaseInv /\ UNCHANGED vars => BaseInv'
  BY DEF vars, ctlVars, recVars, semVars, regVars, BaseInv, TypeOK, FlagTypes,
     CountTypes, RegistryTypes, PlaceTypes, RegistryMatchesPipeline,
     CompatibleAttached, Compatible, NoGhost, StopIsFinal, LifecycleInv,
     Unlocked
<1>3. BaseInv /\ [Next]_vars => BaseInv'
  BY <1>2, RequestInv, InternalInv DEF Next
<1> QED
  BY <1>1, <1>3, PTL DEF Spec

(* Every variable keeps its type; in particular the producer never recovers  *)
(* more than CAM_RECOVER_GIVEUP times in quick succession.                   *)
THEOREM BaseTypeCorrect == Spec => []TypeOK
<1>1. BaseInv => TypeOK
  BY DEF BaseInv
<1> QED
  BY <1>1, BaseInvariance, PTL

(* The registry and the pipeline's list agree at every release of cam_lock,  *)
(* and compatible subscribers are attached whenever the base runs.           *)
THEOREM RegistryAgrees ==
  Spec => [](RegistryMatchesPipeline /\ CompatibleAttached)
<1>1. BaseInv => RegistryMatchesPipeline /\ CompatibleAttached
  BY DEF BaseInv
<1> QED
  BY <1>1, BaseInvariance, PTL

(* No oneshot subscriber survives the base for good.                         *)
THEOREM NoGhostEver == Spec => []NoGhost
<1>1. BaseInv => NoGhost
  BY DEF BaseInv
<1> QED
  BY <1>1, BaseInvariance, PTL

(* Registry and pipeline agree on every subscriber, through refused starts,  *)
(* failed arms, overruns and recoveries.                                     *)
THEOREM RegistryIsSound == Spec => []RegistrySound
<1>1. BaseInv => RegistrySound
  BY DEF BaseInv, RegistrySound
<1> QED
  BY <1>1, BaseInvariance, PTL

(* An explicit stop is never undone by a recovery.                           *)
THEOREM StopIsAlwaysFinal == Spec => []StopIsFinal
<1>1. BaseInv => StopIsFinal
  BY DEF BaseInv
<1> QED
  BY <1>1, BaseInvariance, PTL

------------------------------------------------------------------------------
(* CameraSensor: every public call maps a sound state of the driver to a   *)
(* sound one, whichever of its sensor accesses fail, and with the register *)
(* written or not.                                                         *)

\* What cam_lock protects.
DriverState ==
    [powered : BOOLEAN, configured : BOOLEAN, libInit : BOOLEAN,
     colorbar : {Unknown, 0, 1}, res : Resolutions, fmt : PixelFormats,
     dcmiJpeg : BOOLEAN, sensorPclk : {0, 24, 48}, fps : {15, 30},
     want : [q : Levels, night : BOOLEAN],
     settingsDirty : BOOLEAN, timingDirty : BOOLEAN,
     frame : [valid : BOOLEAN, res : Resolutions, fmt : PixelFormats, torn : BOOLEAN],
     sensor : SensorState]

\* e differs from d in the settings' registers and dirty flags only.
SameMode(d, e) ==
    /\ e \in DriverState
    /\ e.powered = d.powered /\ e.configured = d.configured /\ e.libInit = d.libInit
    /\ e.colorbar = d.colorbar /\ e.res = d.res /\ e.fmt = d.fmt /\ e.dcmiJpeg = d.dcmiJpeg
    /\ e.sensorPclk = d.sensorPclk /\ e.fps = d.fps /\ e.want = d.want /\ e.frame = d.frame
    /\ e.sensor.res = d.sensor.res /\ e.sensor.jpeg = d.sensor.jpeg
    /\ e.sensor.pclk = d.sensor.pclk /\ e.sensor.bars = d.sensor.bars

\* The quality registers are written, or as before with the flag as before.
QualityKept(d, e) ==
    \/ e.sensor.q = d.want.q
    \/ e.sensor.q = d.sensor.q /\ e.settingsDirty = d.settingsDirty

\* What the frame length register may hold.
VtsValues == {1000, 1088, NightCeiling + VtsMargin}

\* The ceiling that the settings ask for.
CeilingFor(d) == IF d.want.night THEN NightCeiling ELSE DayCeiling

\* Everything the user chose is in the chip, and nothing is marked as owed.
AllApplied(e) ==
    /\ e.sensor.q = e.want.q
    /\ e.sensor.ceiling = CeilingFor(e)
    /\ e.sensor.vts = EffectiveVts(e.sensor.ceiling, e.res)
    /\ ~e.settingsDirty /\ ~e.timingDirty

\* The three outcomes of a sensor access.
LEMMA TryCases ==
    ASSUME NEW d, NEW e, NEW o \in Try(d, e)
    PROVE  \/ o.ok = TRUE /\ o.st = e
           \/ o.ok = FALSE /\ o.st = d
           \/ o.ok = FALSE /\ o.st = e
BY DEF Try, Ok, Failed

\* Writing one register of the settings.
LEMMA WriteQuality ==
    ASSUME NEW d \in DriverState, NEW v \in Levels \cup {-1}
    PROVE  LET e == [d EXCEPT !.sensor.q = v]
           IN /\ SameMode(d, e) /\ e.sensor.q = v
              /\ e.sensor.ceiling = d.sensor.ceiling /\ e.sensor.vts = d.sensor.vts
              /\ e.settingsDirty = d.settingsDirty /\ e.timingDirty = d.timingDirty
BY DEF DriverState, SameMode, SensorState

LEMMA WriteCeiling ==
    ASSUME NEW d \in DriverState, NEW v \in {DayCeiling, NightCeiling}
    PROVE  LET e == [d EXCEPT !.sensor.ceiling = v]
           IN /\ SameMode(d, e) /\ e.sensor.ceiling = v
              /\ e.sensor.q = d.sensor.q /\ e.sensor.vts = d.sensor.vts
              /\ e.settingsDirty = d.settingsDirty /\ e.timingDirty = d.timingDirty
BY DEF DriverState, SameMode, SensorState

LEMMA WriteVts ==
    ASSUME NEW d \in DriverState, NEW v \in VtsValues
    PROVE  LET e == [d EXCEPT !.sensor.vts = v]
           IN /\ SameMode(d, e) /\ e.sensor.vts = v
              /\ e.sensor.q = d.sensor.q /\ e.sensor.ceiling = d.sensor.ceiling
              /\ e.settingsDirty = d.settingsDirty /\ e.timingDirty = d.timingDirty
BY DEF DriverState, SameMode, SensorState, VtsValues

\* Setting and clearing the dirty flags.
LEMMA MarkSettings ==
    ASSUME NEW d \in DriverState, NEW b \in BOOLEAN
    PROVE  LET e == [d EXCEPT !.settingsDirty = b]
           IN /\ SameMode(d, e) /\ e.settingsDirty = b
              /\ e.sensor = d.sensor /\ e.timingDirty = d.timingDirty
BY DEF DriverState, SameMode

LEMMA MarkTiming ==
    ASSUME NEW d \in DriverState, NEW b \in BOOLEAN
    PROVE  LET e == [d EXCEPT !.timingDirty = b]
           IN /\ SameMode(d, e) /\ e.timingDirty = b
              /\ e.sensor = d.sensor /\ e.settingsDirty = d.settingsDirty
BY DEF DriverState, SameMode

\* Calls compose.
LEMMA SameModeTransitive ==
    ASSUME NEW d, NEW e, NEW g, SameMode(d, e), SameMode(e, g)
    PROVE  SameMode(d, g)
BY DEF SameMode

LEMMA SameModeReflexive ==
    ASSUME NEW d \in DriverState
    PROVE  SameMode(d, d)
BY DEF SameMode

\* settings_apply_all_locked()
LEMMA SettingsApplyAllDoes ==
    ASSUME NEW d \in DriverState, NEW o \in SettingsApplyAll(d)
    PROVE  /\ o.ok \in BOOLEAN
           /\ SameMode(d, o.st) /\ QualityKept(d, o.st)
           /\ o.st.timingDirty = d.timingDirty /\ o.st.sensor.vts = d.sensor.vts
           /\ \/ o.st.sensor.ceiling = d.sensor.ceiling
              \/ d.want.night /\ o.st.sensor.ceiling = NightCeiling
           /\ o.ok => /\ o.st.sensor.q = d.want.q /\ o.st.settingsDirty = FALSE
                      /\ d.want.night => o.st.sensor.ceiling = NightCeiling
<1> DEFINE Raised(e) == [e EXCEPT !.sensor.ceiling = IF d.want.night THEN NightCeiling ELSE @]
           Clear(e) == [e EXCEPT !.settingsDirty = FALSE]
           A == Try(d, [d EXCEPT !.sensor.q = d.want.q])
           B == UNION {IF p.ok THEN Try(p.st, Raised(p.st)) ELSE {p} : p \in A}
           C == UNION {IF p.ok THEN {Ok(Clear(p.st))} ELSE {p} : p \in B}
<1>1. SettingsApplyAll(d) = C
  BY DEF SettingsApplyAll, Then
<1>2. PICK r \in B : IF r.ok THEN o = Ok(Clear(r.st)) ELSE o = r
  <2> HIDE DEF B, Clear
  <2> QED
    BY <1>1
<1>3. PICK p \in A : IF p.ok THEN r \in Try(p.st, Raised(p.st)) ELSE r = p
  <2> HIDE DEF A, Raised
  <2> QED
    OBVIOUS
<1>a. p \in Try(d, [d EXCEPT !.sensor.q = d.want.q])
  OBVIOUS
<1>b. p.ok => r \in Try(p.st, Raised(p.st))
  BY <1>3
<1>c. ~p.ok => r = p
  BY <1>3
<1> HIDE DEF A, B, C
<1>d. d.want.q \in Levels /\ d.want.night \in BOOLEAN /\ d.sensor.ceiling \in {DayCeiling, NightCeiling}
  BY DEF DriverState, SensorState
<1>4. /\ p.ok \in BOOLEAN
      /\ SameMode(d, p.st) /\ (p.st.sensor.q = d.sensor.q \/ p.st.sensor.q = d.want.q)
      /\ p.ok => p.st.sensor.q = d.want.q
      /\ p.st.sensor.ceiling = d.sensor.ceiling /\ p.st.sensor.vts = d.sensor.vts
      /\ p.st.settingsDirty = d.settingsDirty /\ p.st.timingDirty = d.timingDirty
  <2> DEFINE w == [d EXCEPT !.sensor.q = d.want.q]
  <2>1. /\ SameMode(d, w) /\ w.sensor.q = d.want.q
        /\ w.sensor.ceiling = d.sensor.ceiling /\ w.sensor.vts = d.sensor.vts
        /\ w.settingsDirty = d.settingsDirty /\ w.timingDirty = d.timingDirty
    BY <1>d, WriteQuality
  <2>2. p \in Try(d, w)
    BY <1>a
  <2> HIDE DEF w
  <2>3. \/ p.ok = TRUE /\ p.st = w
        \/ p.ok = FALSE /\ p.st = d
        \/ p.ok = FALSE /\ p.st = w
    BY <2>2, TryCases
  <2>4. SameMode(d, d)
    BY SameModeReflexive
  <2> QED
    BY <2>1, <2>3, <2>4
<1>5. /\ r.ok \in BOOLEAN
      /\ SameMode(d, r.st) /\ (r.st.sensor.q = d.sensor.q \/ r.st.sensor.q = d.want.q)
      /\ r.ok => r.st.sensor.q = d.want.q
      /\ \/ r.st.sensor.ceiling = d.sensor.ceiling
         \/ d.want.night /\ r.st.sensor.ceiling = NightCeiling
      /\ r.ok /\ d.want.night => r.st.sensor.ceiling = NightCeiling
      /\ r.st.sensor.vts = d.sensor.vts
      /\ r.st.settingsDirty = d.settingsDirty /\ r.st.timingDirty = d.timingDirty
  <2>1. CASE ~p.ok
    BY <2>1, <1>c, <1>4
  <2>2. CASE p.ok
    <3> DEFINE w == Raised(p.st)
    <3>1. p.st \in DriverState /\ p.st.sensor.ceiling \in {DayCeiling, NightCeiling}
      BY <1>d, <1>4 DEF SameMode
    <3>2. /\ SameMode(p.st, w)
          /\ w.sensor.ceiling = IF d.want.night THEN NightCeiling ELSE p.st.sensor.ceiling
          /\ w.sensor.q = p.st.sensor.q /\ w.sensor.vts = p.st.sensor.vts
          /\ w.settingsDirty = p.st.settingsDirty /\ w.timingDirty = p.st.timingDirty
      <4> DEFINE v == IF d.want.night THEN NightCeiling ELSE p.st.sensor.ceiling
      <4>1. v \in {DayCeiling, NightCeiling}
        BY <1>d, <3>1
      <4>2. w = [p.st EXCEPT !.sensor.ceiling = v]
        OBVIOUS
      <4> HIDE DEF v, w
      <4>3. LET e == [p.st EXCEPT !.sensor.ceiling = v]
            IN /\ SameMode(p.st, e) /\ e.sensor.ceiling = v
               /\ e.sensor.q = p.st.sensor.q /\ e.sensor.vts = p.st.sensor.vts
               /\ e.settingsDirty = p.st.settingsDirty /\ e.timingDirty = p.st.timingDirty
        BY <3>1, <4>1, WriteCeiling
      <4>4. v = IF d.want.night THEN NightCeiling ELSE p.st.sensor.ceiling
        BY DEF v
      <4> QED
        BY <4>2, <4>3, <4>4
    <3>3. r \in Try(p.st, w)
      BY <2>2, <1>b
    <3>4. SameMode(d, w)
      BY <1>4, <3>2, SameModeTransitive
    <3> HIDE DEF w, Raised
    <3>5. \/ r.ok = TRUE /\ r.st = w
          \/ r.ok = FALSE /\ r.st = p.st
          \/ r.ok = FALSE /\ r.st = w
      BY <3>3, TryCases
    <3> QED
      BY <1>4, <2>2, <3>2, <3>4, <3>5
  <2> QED
    BY <1>4, <2>1, <2>2
<1>6. CASE ~r.ok
  BY <1>2, <1>5, <1>6 DEF QualityKept
<1>7. CASE r.ok
  <2> DEFINE w == Clear(r.st)
  <2>1. SameMode(r.st, w) /\ w.settingsDirty = FALSE /\ w.sensor = r.st.sensor /\ w.timingDirty = r.st.timingDirty
    BY <1>5, MarkSettings DEF SameMode
  <2>2. o.ok = TRUE /\ o.st = w
    BY <1>2, <1>7 DEF Ok
  <2>3. SameMode(d, w)
    BY <1>5, <2>1, SameModeTransitive
  <2> HIDE DEF w
  <2> QED
    BY <1>5, <1>7, <2>1, <2>2, <2>3 DEF QualityKept
<1> QED
  BY <1>5, <1>6, <1>7

\* EffectiveVts() stays within the values of the register.
LEMMA EffectiveVtsType ==
    ASSUME NEW d \in DriverState
    PROVE  EffectiveVts(d.sensor.ceiling, d.res) \in VtsValues
<1>1. d.sensor.ceiling \in {DayCeiling, NightCeiling} /\ d.res \in Resolutions
  BY DEF DriverState, SensorState
<1> QED
  BY <1>1 DEF VtsValues, EffectiveVts, BaseVts, DayCeiling, NightCeiling, VtsMargin, Resolutions

\* restore_aec_max_default_locked()
LEMMA RestoreCeilingDoes ==
    ASSUME NEW d \in DriverState, NEW o \in RestoreCeiling(d)
    PROVE  /\ o.ok \in BOOLEAN
           /\ SameMode(d, o.st)
           /\ o.st.sensor.q = d.sensor.q /\ o.st.sensor.vts = d.sensor.vts
           /\ o.st.settingsDirty = d.settingsDirty /\ o.st.timingDirty = d.timingDirty
           /\ o.ok /\ d.want.night => o.st.sensor.ceiling = d.sensor.ceiling
           /\ o.ok /\ ~d.want.night => o.st.sensor.ceiling = DayCeiling
<1>1. SameMode(d, d)
  BY SameModeReflexive
<1>2. CASE d.want.night
  <2>1. o = [st |-> d, ok |-> TRUE]
    BY <1>2 DEF RestoreCeiling, Ok
  <2>2. o.st = d /\ o.ok = TRUE
    BY <2>1
  <2> QED
    BY <1>1, <1>2, <2>2
<1>3. CASE ~d.want.night
  <2> DEFINE w == [d EXCEPT !.sensor.ceiling = DayCeiling]
  <2>1. /\ SameMode(d, w) /\ w.sensor.ceiling = DayCeiling
        /\ w.sensor.q = d.sensor.q /\ w.sensor.vts = d.sensor.vts
        /\ w.settingsDirty = d.settingsDirty /\ w.timingDirty = d.timingDirty
    BY WriteCeiling
  <2>2. o \in Try(d, w)
    BY <1>3 DEF RestoreCeiling
  <2> HIDE DEF w
  <2>3. \/ o.ok = TRUE /\ o.st = w
        \/ o.ok = FALSE /\ o.st = d
        \/ o.ok = FALSE /\ o.st = w
    BY <2>2, TryCases
  <2> QED
    BY <1>1, <1>3, <2>1, <2>3
<1> QED
  BY <1>2, <1>3

\* apply_vts_locked()
LEMMA ApplyVtsDoes ==
    ASSUME NEW d \in DriverState, NEW o \in ApplyVts(d)
    PROVE  /\ o.ok \in BOOLEAN
           /\ SameMode(d, o.st)
           /\ o.st.sensor.q = d.sensor.q /\ o.st.sensor.ceiling = d.sensor.ceiling
           /\ o.st.settingsDirty = d.settingsDirty /\ o.st.timingDirty = d.timingDirty
           /\ o.ok => o.st.sensor.vts = EffectiveVts(d.sensor.ceiling, d.res)
<1> DEFINE v == EffectiveVts(d.sensor.ceiling, d.res)
           w == [d EXCEPT !.sensor.vts = v]
<1>1. v \in VtsValues
  BY EffectiveVtsType
<1>2. o \in Try(d, w)
  BY DEF ApplyVts
<1> HIDE DEF v
<1>3. LET e == [d EXCEPT !.sensor.vts = v]
      IN /\ SameMode(d, e) /\ e.sensor.vts = v
         /\ e.sensor.q = d.sensor.q /\ e.sensor.ceiling = d.sensor.ceiling
         /\ e.settingsDirty = d.settingsDirty /\ e.timingDirty = d.timingDirty
  <2> HIDE DEF w
  <2> QED
    BY <1>1, WriteVts
<1>6. /\ SameMode(d, w) /\ w.sensor.vts = v
      /\ w.sensor.q = d.sensor.q /\ w.sensor.ceiling = d.sensor.ceiling
      /\ w.settingsDirty = d.settingsDirty /\ w.timingDirty = d.timingDirty
  BY <1>3
<1> HIDE DEF w
<1>4. \/ o.ok = TRUE /\ o.st = w
      \/ o.ok = FALSE /\ o.st = d
      \/ o.ok = FALSE /\ o.st = w
  BY <1>2, TryCases
<1>5. SameMode(d, d)
  BY SameModeReflexive
<1> QED
  BY <1>6, <1>4, <1>5 DEF v

\* settings_and_timing_apply_locked(): all of it is done, or the timing is
\* marked as owed.
LEMMA SettingsAndTimingApplyDoes ==
    ASSUME NEW d \in DriverState, NEW o \in SettingsAndTimingApply(d)
    PROVE  /\ o.ok \in BOOLEAN
           /\ SameMode(d, o.st) /\ QualityKept(d, o.st)
           /\ o.ok => AllApplied(o.st)
           /\ ~o.ok => o.st.timingDirty
<1> DEFINE A == SettingsApplyAll(d)
           B == UNION {IF p.ok THEN RestoreCeiling(p.st) ELSE {p} : p \in A}
           C == UNION {IF p.ok THEN ApplyVts(p.st) ELSE {p} : p \in B}
           Clear(e) == [e EXCEPT !.timingDirty = FALSE]
           Owe(e) == [e EXCEPT !.timingDirty = TRUE]
           D == UNION {IF p.ok THEN {Ok(Clear(p.st))} ELSE {p} : p \in C}
           E == {IF p.ok THEN p ELSE Failed(Owe(p.st)) : p \in D}
<1>1. SettingsAndTimingApply(d) = E
  BY DEF SettingsAndTimingApply, Then, Else
<1>2. PICK s \in D : o = IF s.ok THEN s ELSE Failed(Owe(s.st))
  <2> HIDE DEF D, Owe
  <2> QED
    BY <1>1
<1>3. PICK r \in C : IF r.ok THEN s = Ok(Clear(r.st)) ELSE s = r
  <2> HIDE DEF C, Clear
  <2> QED
    OBVIOUS
<1>4. PICK q \in B : IF q.ok THEN r \in ApplyVts(q.st) ELSE r = q
  <2> HIDE DEF B
  <2> QED
    OBVIOUS
<1>5. PICK p \in A : IF p.ok THEN q \in RestoreCeiling(p.st) ELSE q = p
  <2> HIDE DEF A
  <2> QED
    OBVIOUS
<1>6. p \in SettingsApplyAll(d)
  OBVIOUS
<1> HIDE DEF A, B, C, D, E
<1>7. /\ p.ok \in BOOLEAN
      /\ SameMode(d, p.st) /\ QualityKept(d, p.st)
      /\ p.ok => /\ p.st.sensor.q = d.want.q /\ p.st.settingsDirty = FALSE
                 /\ d.want.night => p.st.sensor.ceiling = NightCeiling
  BY <1>6, SettingsApplyAllDoes
<1>8. /\ q.ok \in BOOLEAN
      /\ SameMode(d, q.st) /\ QualityKept(d, q.st)
      /\ q.ok => /\ q.st.sensor.q = d.want.q /\ q.st.settingsDirty = FALSE
                 /\ q.st.sensor.ceiling = CeilingFor(d)
  <2>1. CASE ~p.ok
    BY <1>5, <1>7, <2>1
  <2>2. CASE p.ok
    <3>1. p.st \in DriverState /\ p.st.want = d.want
      BY <1>7 DEF SameMode
    <3>2. q \in RestoreCeiling(p.st)
      BY <1>5, <2>2
    <3>3. /\ q.ok \in BOOLEAN
          /\ SameMode(p.st, q.st)
          /\ q.st.sensor.q = p.st.sensor.q
          /\ q.st.settingsDirty = p.st.settingsDirty
          /\ q.ok /\ d.want.night => q.st.sensor.ceiling = p.st.sensor.ceiling
          /\ q.ok /\ ~d.want.night => q.st.sensor.ceiling = DayCeiling
      BY <3>1, <3>2, RestoreCeilingDoes
    <3>4. SameMode(d, q.st)
      BY <1>7, <3>3, SameModeTransitive
    <3> QED
      BY <1>7, <2>2, <3>3, <3>4 DEF QualityKept, CeilingFor
  <2> QED
    BY <1>7, <2>1, <2>2
<1>9. /\ r.ok \in BOOLEAN
      /\ SameMode(d, r.st) /\ QualityKept(d, r.st)
      /\ r.ok => /\ r.st.sensor.q = d.want.q /\ r.st.settingsDirty = FALSE
                 /\ r.st.sensor.ceiling = CeilingFor(d)
                 /\ r.st.sensor.vts = EffectiveVts(r.st.sensor.ceiling, d.res)
  <2>1. CASE ~q.ok
    BY <1>4, <1>8, <2>1
  <2>2. CASE q.ok
    <3>1. q.st \in DriverState /\ q.st.res = d.res
      BY <1>8 DEF SameMode
    <3>2. r \in ApplyVts(q.st)
      BY <1>4, <2>2
    <3>3. /\ r.ok \in BOOLEAN
          /\ SameMode(q.st, r.st)
          /\ r.st.sensor.q = q.st.sensor.q /\ r.st.sensor.ceiling = q.st.sensor.ceiling
          /\ r.st.settingsDirty = q.st.settingsDirty
          /\ r.ok => r.st.sensor.vts = EffectiveVts(q.st.sensor.ceiling, d.res)
      BY <3>1, <3>2, ApplyVtsDoes
    <3>4. SameMode(d, r.st)
      BY <1>8, <3>3, SameModeTransitive
    <3> QED
      BY <1>8, <2>2, <3>3, <3>4 DEF QualityKept
  <2> QED
    BY <1>8, <2>1, <2>2
<1>10. CASE r.ok
  <2> DEFINE w == Clear(r.st)
  <2>1. r.st \in DriverState
    BY <1>9 DEF SameMode
  <2>2. SameMode(r.st, w) /\ w.timingDirty = FALSE /\ w.sensor = r.st.sensor
        /\ w.settingsDirty = r.st.settingsDirty
    BY <2>1, MarkTiming
  <2>3. o.ok = TRUE /\ o.st = w
    BY <1>2, <1>3, <1>10 DEF Ok
  <2> HIDE DEF w, Clear, Owe
  <2>4. SameMode(d, w)
    BY <1>9, <2>2, SameModeTransitive
  <2>5. w.want = d.want /\ w.res = d.res
    BY <2>4 DEF SameMode
  <2> QED
    BY <1>9, <1>10, <2>2, <2>3, <2>4, <2>5 DEF QualityKept, AllApplied, CeilingFor
<1>11. CASE ~r.ok
  <2> DEFINE w == Owe(r.st)
  <2>1. r.st \in DriverState
    BY <1>9 DEF SameMode
  <2>2. SameMode(r.st, w) /\ w.timingDirty = TRUE /\ w.sensor = r.st.sensor
        /\ w.settingsDirty = r.st.settingsDirty
    BY <2>1, MarkTiming
  <2>3. o.ok = FALSE /\ o.st = w
    BY <1>2, <1>3, <1>11 DEF Failed
  <2> HIDE DEF w, Clear, Owe
  <2>4. SameMode(d, w)
    BY <1>9, <2>2, SameModeTransitive
  <2> QED
    BY <1>9, <1>11, <2>2, <2>3, <2>4 DEF QualityKept
<1> QED
  BY <1>9, <1>10, <1>11

\* A mode is in the chip whenever the driver calls itself configured, and
\* the default mode is selected whenever it does not.
ConfiguredMode(d) ==
    /\ d.libInit <=> d.configured
    /\ d.configured => /\ d.powered
                       /\ d.sensor.res = d.res
                       /\ d.sensor.jpeg <=> d.fmt = "JPEG"
    /\ d.dcmiJpeg <=> d.fmt = "JPEG"
    /\ ~d.configured => d.res = "QVGA" /\ d.fmt = "RGB565" /\ d.sensorPclk = 0
    /\ d.sensorPclk # 0 => d.sensor.pclk = d.sensorPclk

\* A frame that may be read is one of the selected mode.
FrameInv(d) ==
    d.frame.valid => d.frame.res = d.res /\ d.frame.fmt = d.fmt /\ ~d.frame.torn

\* The quality and the timing of a live sensor: in the chip or marked as owed.
QualityInv(d) ==
    Live(d) /\ ~d.sensor.bars /\ ~d.settingsDirty => d.sensor.q = d.want.q
TimingInv(d) ==
    Live(d) /\ ~d.timingDirty =>
        /\ d.sensor.ceiling = CeilingFor(d)
        /\ d.sensor.vts = EffectiveVts(d.sensor.ceiling, d.res)

\* A sound state of the driver.
Sound(d) ==
    /\ d \in DriverState
    /\ ConfiguredMode(d) /\ FrameInv(d) /\ QualityInv(d) /\ TimingInv(d)

\* Writing the settings leaves the mode and the frame sound.
LEMMA SameModeKeepsMode ==
    ASSUME NEW d, NEW e, SameMode(d, e), ConfiguredMode(d), FrameInv(d)
    PROVE  ConfiguredMode(e) /\ FrameInv(e)
BY DEF SameMode, ConfiguredMode, FrameInv

LEMMA SettingsAndTimingKeeps ==
    ASSUME NEW d, NEW o \in SettingsAndTimingApply(d),
           d \in DriverState, ConfiguredMode(d), FrameInv(d), QualityInv(d)
    PROVE  /\ o.ok \in BOOLEAN
           /\ SameMode(d, o.st) /\ Sound(o.st)
           /\ o.ok => AllApplied(o.st)
<1>1. /\ o.ok \in BOOLEAN
      /\ SameMode(d, o.st) /\ QualityKept(d, o.st)
      /\ o.ok => AllApplied(o.st)
      /\ ~o.ok => o.st.timingDirty
  BY SettingsAndTimingApplyDoes
<1>2. ConfiguredMode(o.st) /\ FrameInv(o.st) /\ o.st \in DriverState
  BY <1>1, SameModeKeepsMode DEF SameMode
<1>3. QualityInv(o.st)
  BY <1>1 DEF QualityInv, QualityKept, SameMode, Live
<1>4. TimingInv(o.st)
  BY <1>1 DEF TimingInv, AllApplied
<1> QED
  BY <1>1, <1>2, <1>3, <1>4 DEF Sound

\* settings_apply_all_locked() on a sound live sensor whose timing is settled
LEMMA SettingsKeep ==
    ASSUME NEW d, NEW o \in SettingsApplyAll(d),
           d \in DriverState, ConfiguredMode(d), FrameInv(d), QualityInv(d), TimingInv(d),
           Live(d), ~d.timingDirty
    PROVE  /\ o.ok \in BOOLEAN
           /\ SameMode(d, o.st) /\ Sound(o.st) /\ o.st.timingDirty = FALSE
           /\ o.ok => o.st.settingsDirty = FALSE
<1>1. /\ o.ok \in BOOLEAN
      /\ SameMode(d, o.st) /\ QualityKept(d, o.st)
      /\ o.st.timingDirty = d.timingDirty /\ o.st.sensor.vts = d.sensor.vts
      /\ \/ o.st.sensor.ceiling = d.sensor.ceiling
         \/ d.want.night /\ o.st.sensor.ceiling = NightCeiling
      /\ o.ok => o.st.settingsDirty = FALSE
  BY SettingsApplyAllDoes
<1>2. ConfiguredMode(o.st) /\ FrameInv(o.st) /\ o.st \in DriverState
  BY <1>1, SameModeKeepsMode DEF SameMode
<1>3. QualityInv(o.st)
  BY <1>1 DEF QualityInv, QualityKept, SameMode, Live
<1>4. d.sensor.ceiling = CeilingFor(d) /\ d.sensor.vts = EffectiveVts(d.sensor.ceiling, d.res)
  BY DEF TimingInv
<1>5. o.st.sensor.ceiling = d.sensor.ceiling
  BY <1>1, <1>4 DEF CeilingFor
<1>6. o.st.want = d.want /\ o.st.res = d.res
  BY <1>1 DEF SameMode
<1>7. CeilingFor(o.st) = CeilingFor(d)
  BY <1>6 DEF CeilingFor
<1>8. TimingInv(o.st)
  BY <1>1, <1>4, <1>5, <1>6, <1>7 DEF TimingInv
<1>9. o.st.timingDirty = FALSE
  BY <1>1, <1>2 DEF DriverState
<1> QED
  BY <1>1, <1>2, <1>3, <1>8, <1>9 DEF Sound

\* apply_if_live(): what it is given is sound but for the timing that a
\* setter's mark may owe.
LEMMA ApplyIfLiveKeeps ==
    ASSUME NEW d, Sound(d), NEW o \in ApplyIfLive(d)
    PROVE  /\ o.ok \in BOOLEAN
           /\ SameMode(d, o.st) /\ Sound(o.st)
           /\ o.ok /\ Live(d) => ~o.st.settingsDirty /\ ~o.st.timingDirty
<1> USE DEF Sound
<1>1. CASE ~Live(d)
  <2>1. o.st = d /\ o.ok = TRUE
    BY <1>1 DEF ApplyIfLive, Ok
  <2> QED
    BY <1>1, <2>1, SameModeReflexive
<1>2. CASE Live(d) /\ d.timingDirty
  <2>1. o \in SettingsAndTimingApply(d)
    BY <1>2 DEF ApplyIfLive
  <2> QED
    BY <2>1, SettingsAndTimingKeeps DEF AllApplied
<1>3. CASE Live(d) /\ ~d.timingDirty
  <2>1. o \in SettingsApplyAll(d)
    BY <1>3 DEF ApplyIfLive
  <2> QED
    BY <1>3, <2>1, SettingsKeep
<1> QED
  BY <1>1, <1>2, <1>3

LEMMA ApplyWithTimingIfLiveKeeps ==
    ASSUME NEW d, d \in DriverState, ConfiguredMode(d), FrameInv(d), QualityInv(d),
           NEW o \in ApplyWithTimingIfLive(d)
    PROVE  /\ o.ok \in BOOLEAN
           /\ SameMode(d, o.st) /\ Sound(o.st)
           /\ o.ok /\ Live(d) => ~o.st.settingsDirty /\ ~o.st.timingDirty
<1>1. CASE ~Live(d)
  <2>1. o.st = d /\ o.ok = TRUE
    BY <1>1 DEF ApplyWithTimingIfLive, Ok
  <2>2. Sound(d)
    BY <1>1 DEF Sound, TimingInv
  <2> QED
    BY <1>1, <2>1, <2>2, SameModeReflexive
<1>2. CASE Live(d)
  <2>1. o \in SettingsAndTimingApply(d)
    BY <1>2 DEF ApplyWithTimingIfLive
  <2> QED
    BY <2>1, SettingsAndTimingKeeps DEF AllApplied
<1> QED
  BY <1>1, <1>2

\* A sensor whose source is not live is sound whatever its settings are.
LEMMA NotLiveIsSound ==
    ASSUME NEW d \in DriverState, ConfiguredMode(d), FrameInv(d), ~Live(d)
    PROVE  Sound(d)
BY DEF Sound, QualityInv, TimingInv

\* Fresh registers are registers.
LEMMA FreshSensorType == FreshSensor \in SensorState
BY DEF FreshSensor, SensorState, Resolutions, DayCeiling, NightCeiling, VtsMargin

\* Only the chip's registers and the sticky guard differ.
ChipWritten(d, e) ==
    /\ e \in DriverState
    /\ e.powered = d.powered /\ e.configured = d.configured
    /\ e.colorbar = d.colorbar /\ e.res = d.res /\ e.fmt = d.fmt /\ e.dcmiJpeg = d.dcmiJpeg
    /\ e.sensorPclk = d.sensorPclk /\ e.frame = d.frame

\* OV5640_Init() on a driver that has not initialised the chip
LEMMA LibInitDoes ==
    ASSUME NEW d \in DriverState, ~d.libInit, NEW o \in LibInit(d)
    PROVE  /\ o.ok \in BOOLEAN /\ ChipWritten(d, o.st)
           /\ o.ok => o.st.libInit /\ o.st.sensor = FreshSensor
           /\ ~o.ok => ~o.st.libInit
<1> DEFINE w == [d EXCEPT !.sensor = FreshSensor, !.libInit = TRUE]
           x == [d EXCEPT !.sensor = FreshSensor]
<1>1. \/ o.ok = TRUE /\ o.st = w
      \/ o.ok = FALSE /\ o.st = d
      \/ o.ok = FALSE /\ o.st = x
  BY DEF LibInit, Ok, Failed
<1>2. ChipWritten(d, w) /\ w.libInit /\ w.sensor = FreshSensor
  BY FreshSensorType DEF DriverState, ChipWritten
<1>3. ChipWritten(d, x) /\ ~x.libInit
  BY FreshSensorType DEF DriverState, ChipWritten
<1>4. ChipWritten(d, d)
  BY DEF ChipWritten
<1> HIDE DEF w, x
<1> QED
  BY <1>1, <1>2, <1>3, <1>4

\* camera_configure_locked(), the initialisation of a powered chip
LEMMA InitOnceKeeps ==
    ASSUME NEW d, Sound(d), d.powered, NEW o \in InitOnce(d)
    PROVE  /\ o.ok \in BOOLEAN /\ Sound(o.st)
           /\ o.ok => o.st.configured
<1> DEFINE Marked(e) == [e EXCEPT !.configured = TRUE, !.colorbar = Unknown, !.sensorPclk = 0]
<1>1. CASE d.configured
  <2>1. o = [st |-> d, ok |-> TRUE]
    BY <1>1 DEF InitOnce, Ok
  <2> QED
    BY <1>1, <2>1
<1>2. CASE ~d.configured
  <2> DEFINE A == LibInit(d)
             B == UNION {IF p.ok THEN {Ok(Marked(p.st))} ELSE {p} : p \in A}
  <2>1. o \in B
    BY <1>2 DEF InitOnce, Then
  <2>2. PICK p \in A : IF p.ok THEN o = Ok(Marked(p.st)) ELSE o = p
    <3> HIDE DEF A, Marked
    <3> QED
      BY <2>1
  <2>3. p \in LibInit(d)
    OBVIOUS
  <2> HIDE DEF A, B
  <2>4. d \in DriverState /\ ~d.libInit
    BY <1>2 DEF Sound, ConfiguredMode
  <2>5. /\ p.ok \in BOOLEAN /\ ChipWritten(d, p.st)
        /\ p.ok => p.st.libInit /\ p.st.sensor = FreshSensor
        /\ ~p.ok => ~p.st.libInit
    BY <2>3, <2>4, LibInitDoes
  <2>6. CASE p.ok
    <3> DEFINE w == Marked(p.st)
    <3>1. o.ok = TRUE /\ o.st = w
      BY <2>2, <2>6 DEF Ok
    <3>2. /\ w \in DriverState /\ w.configured /\ w.libInit /\ w.powered = d.powered
          /\ w.colorbar = Unknown
          /\ w.sensorPclk = 0 /\ w.res = d.res /\ w.fmt = d.fmt /\ w.dcmiJpeg = d.dcmiJpeg
          /\ w.frame = d.frame /\ w.sensor = FreshSensor
      BY <2>5, <2>6 DEF DriverState, ChipWritten
    <3> HIDE DEF w, Marked
    <3>3. d.res = "QVGA" /\ d.fmt = "RGB565" /\ (d.dcmiJpeg <=> d.fmt = "JPEG")
      BY <1>2 DEF Sound, ConfiguredMode
    <3>4. ConfiguredMode(w)
      BY <3>2, <3>3 DEF ConfiguredMode, FreshSensor
    <3>5. FrameInv(w)
      BY <3>2 DEF Sound, FrameInv
    <3>6. ~Live(w)
      BY <3>2 DEF Live, Unknown
    <3> QED
      BY <3>1, <3>2, <3>4, <3>5, <3>6, NotLiveIsSound
  <2>7. CASE ~p.ok
    <3>1. o = p
      BY <2>2, <2>7
    <3>2. p.st \in DriverState
      BY <2>5 DEF ChipWritten
    <3>3. ConfiguredMode(p.st)
      BY <1>2, <2>5, <2>7 DEF Sound, ConfiguredMode, ChipWritten
    <3>4. FrameInv(p.st)
      BY <2>5 DEF Sound, FrameInv, ChipWritten
    <3>5. ~Live(p.st)
      BY <1>2, <2>5 DEF Live, ChipWritten
    <3> QED
      BY <2>5, <2>7, <3>1, <3>2, <3>3, <3>4, <3>5, NotLiveIsSound
  <2> QED
    BY <2>5, <2>6, <2>7
<1> QED
  BY <1>1, <1>2

\* The source is switched, or the access never reached the chip: nothing but
\* the bars and the quality registers differs.
SourceWritten(d, e, bars) ==
    /\ e \in DriverState
    /\ e.powered = d.powered /\ e.configured = d.configured /\ e.libInit = d.libInit
    /\ e.colorbar = d.colorbar /\ e.res = d.res /\ e.fmt = d.fmt /\ e.dcmiJpeg = d.dcmiJpeg
    /\ e.sensorPclk = d.sensorPclk /\ e.want = d.want /\ e.frame = d.frame
    /\ e.settingsDirty = d.settingsDirty /\ e.timingDirty = d.timingDirty
    /\ e.sensor.res = d.sensor.res /\ e.sensor.jpeg = d.sensor.jpeg
    /\ e.sensor.pclk = d.sensor.pclk
    /\ e.sensor.vts = d.sensor.vts /\ e.sensor.ceiling = d.sensor.ceiling
    /\ e = d \/ e.sensor.bars = bars

\* OV5640_ColorbarModeConfig()
LEMMA LibColorbarDoes ==
    ASSUME NEW d \in DriverState, NEW bars \in BOOLEAN, NEW o \in LibColorbar(d, bars)
    PROVE  o.ok \in BOOLEAN /\ SourceWritten(d, o.st, bars)
<1> DEFINE v == -1
           t == [d.sensor EXCEPT !.bars = bars]
           s == [t EXCEPT !.q = v]
           w == [d EXCEPT !.sensor = s]
<1>1. o \in Try(d, w)
  BY DEF LibColorbar
<1>a. d.sensor \in SensorState /\ v \in Levels \cup {-1}
  BY DEF DriverState
<1> HIDE DEF v
<1>2. /\ s \in SensorState /\ s.bars = bars
      /\ s.res = d.sensor.res /\ s.jpeg = d.sensor.jpeg /\ s.pclk = d.sensor.pclk
      /\ s.vts = d.sensor.vts /\ s.ceiling = d.sensor.ceiling
  <2>1. /\ t \in SensorState /\ t.bars = bars
        /\ t.res = d.sensor.res /\ t.jpeg = d.sensor.jpeg /\ t.pclk = d.sensor.pclk
        /\ t.vts = d.sensor.vts /\ t.ceiling = d.sensor.ceiling
    BY <1>a DEF SensorState
  <2> HIDE DEF t, w
  <2> QED
    BY <1>a, <2>1 DEF SensorState
<1> HIDE DEF s
<1>3. SourceWritten(d, w, bars)
  BY <1>2 DEF SourceWritten, DriverState
<1>4. SourceWritten(d, d, bars)
  BY DEF SourceWritten
<1> HIDE DEF w
<1>5. \/ o.ok = TRUE /\ o.st = w
      \/ o.ok = FALSE /\ o.st = d
      \/ o.ok = FALSE /\ o.st = w
  BY <1>1, TryCases
<1> QED
  BY <1>3, <1>4, <1>5

\* camera_configure_locked(), the switch between live picture and test pattern
LEMMA SwitchSourceKeeps ==
    ASSUME NEW d, Sound(d), d.configured, NEW colorbar \in {0, 1},
           NEW o \in SwitchSource(d, colorbar)
    PROVE  /\ o.ok \in BOOLEAN /\ Sound(o.st) /\ o.st.configured
           /\ o.ok => o.st.colorbar = colorbar
<1> DEFINE Settings(e) == IF colorbar = 0 THEN SettingsAndTimingApply(e) ELSE {Ok(e)}
           Committed(e) == [e EXCEPT !.colorbar = colorbar]
<1>1. CASE d.colorbar = colorbar
  <2>1. o = [st |-> d, ok |-> TRUE]
    BY <1>1 DEF SwitchSource, Ok
  <2> QED
    BY <1>1, <2>1
<1>2. CASE d.colorbar # colorbar
  <2> DEFINE A == LibColorbar(d, colorbar = 1)
             B == UNION {IF p.ok THEN Settings(p.st) ELSE {p} : p \in A}
             C == UNION {IF p.ok THEN {Ok(Committed(p.st))} ELSE {p} : p \in B}
  <2>1. o \in C
    BY <1>2 DEF SwitchSource, Then
  <2>2. PICK q \in B : IF q.ok THEN o = Ok(Committed(q.st)) ELSE o = q
    <3> HIDE DEF B, Committed
    <3> QED
      BY <2>1
  <2>3. PICK p \in A : IF p.ok THEN q \in Settings(p.st) ELSE q = p
    <3> HIDE DEF A, Settings
    <3> QED
      OBVIOUS
  <2>4. p \in LibColorbar(d, colorbar = 1)
    OBVIOUS
  <2> HIDE DEF A, B, C, Committed, Settings
  <2>5. d \in DriverState
    BY DEF Sound
  <2> DEFINE bars == colorbar = 1
  <2>6. bars \in BOOLEAN /\ p \in LibColorbar(d, bars)
    BY <2>4
  <2> HIDE DEF bars
  <2>7. p.ok \in BOOLEAN /\ SourceWritten(d, p.st, bars)
    BY <2>5, <2>6, LibColorbarDoes
  <2>8. ConfiguredMode(p.st) /\ FrameInv(p.st)
    BY <2>7 DEF Sound, ConfiguredMode, FrameInv, SourceWritten
  <2>9. QualityInv(p.st) /\ TimingInv(p.st)
    <3>1. CASE colorbar = 0
      <4>1. ~Live(p.st)
        BY <1>2, <2>7, <3>1 DEF Live, SourceWritten
      <4> QED
        BY <4>1 DEF QualityInv, TimingInv
    <3>2. CASE colorbar = 1
      <4>1. CeilingFor(p.st) = CeilingFor(d)
        BY <2>7 DEF CeilingFor, SourceWritten
      <4>2. p.st.sensor.vts = d.sensor.vts /\ p.st.sensor.ceiling = d.sensor.ceiling
        BY <2>7 DEF SourceWritten
      <4>3. TimingInv(p.st)
        BY <2>7, <4>1, <4>2 DEF Sound, TimingInv, Live, SourceWritten
      <4>4. p.st = d \/ p.st.sensor.bars
        BY <2>7, <3>2 DEF bars, SourceWritten
      <4>5. QualityInv(p.st)
        BY <4>4 DEF Sound, QualityInv
      <4> QED
        BY <4>3, <4>5
    <3> QED
      BY <3>1, <3>2
  <2>10. Sound(p.st) /\ p.st.configured /\ p.st.colorbar # colorbar
    BY <1>2, <2>7, <2>8, <2>9 DEF Sound, SourceWritten
  <2>11. CASE ~p.ok
    BY <2>2, <2>3, <2>7, <2>10, <2>11
  <2>12. CASE p.ok /\ colorbar = 0
    <3>1. q \in SettingsAndTimingApply(p.st)
      BY <2>3, <2>12 DEF Settings
    <3>2. /\ q.ok \in BOOLEAN
          /\ SameMode(p.st, q.st) /\ Sound(q.st)
          /\ q.ok => AllApplied(q.st)
      BY <2>10, <3>1, SettingsAndTimingKeeps DEF Sound
    <3>3. q.st.configured
      BY <2>10, <3>2 DEF SameMode
    <3>4. CASE ~q.ok
      BY <2>2, <3>2, <3>3, <3>4
    <3>5. CASE q.ok
      <4> DEFINE w == Committed(q.st)
      <4>1. o.ok = TRUE /\ o.st = w
        BY <2>2, <3>5 DEF Ok
      <4>2. /\ w \in DriverState /\ w.colorbar = colorbar
            /\ w.powered = q.st.powered /\ w.configured = q.st.configured
            /\ w.libInit = q.st.libInit
            /\ w.res = q.st.res /\ w.fmt = q.st.fmt /\ w.dcmiJpeg = q.st.dcmiJpeg
            /\ w.sensorPclk = q.st.sensorPclk /\ w.frame = q.st.frame /\ w.want = q.st.want
            /\ w.settingsDirty = q.st.settingsDirty /\ w.timingDirty = q.st.timingDirty
            /\ w.sensor = q.st.sensor
        BY <3>2 DEF Sound, DriverState, Committed
      <4> HIDE DEF w
      <4>3. ConfiguredMode(w) /\ FrameInv(w)
        BY <3>2, <4>2 DEF Sound, ConfiguredMode, FrameInv
      <4>4. QualityInv(w) /\ TimingInv(w)
        BY <3>2, <3>5, <4>2 DEF AllApplied, CeilingFor, QualityInv, TimingInv
      <4> QED
        BY <3>3, <4>1, <4>2, <4>3, <4>4 DEF Sound
    <3> QED
      BY <3>2, <3>4, <3>5
  <2>13. CASE p.ok /\ colorbar = 1
    <3>1. q = [st |-> p.st, ok |-> TRUE]
      BY <2>3, <2>13 DEF Settings, Ok
    <3> DEFINE w == Committed(p.st)
    <3>2. o.ok = TRUE /\ o.st = w
      BY <2>2, <3>1 DEF Ok
    <3>3. /\ w \in DriverState /\ w.colorbar = colorbar
          /\ w.powered = p.st.powered /\ w.configured = p.st.configured
          /\ w.libInit = p.st.libInit
          /\ w.res = p.st.res /\ w.fmt = p.st.fmt /\ w.dcmiJpeg = p.st.dcmiJpeg
          /\ w.sensorPclk = p.st.sensorPclk /\ w.frame = p.st.frame
          /\ w.sensor = p.st.sensor
      BY <2>7 DEF DriverState, Committed, SourceWritten
    <3> HIDE DEF w
    <3>4. ConfiguredMode(w) /\ FrameInv(w)
      BY <2>8, <3>3 DEF ConfiguredMode, FrameInv
    <3>5. ~Live(w)
      BY <2>13, <3>3 DEF Live
    <3>6. Sound(w)
      BY <3>3, <3>4, <3>5, NotLiveIsSound
    <3> QED
      BY <2>10, <3>2, <3>3, <3>6
  <2> QED
    BY <2>7, <2>11, <2>12, <2>13
<1> QED
  BY <1>1, <1>2

\* camera_configure_locked(), the catch-up with settings an apply still owes
LEMMA CatchUpKeeps ==
    ASSUME NEW d, Sound(d), d.configured, NEW colorbar \in {0, 1}, d.colorbar = colorbar,
           NEW o \in CatchUp(d, colorbar)
    PROVE  /\ o.ok \in BOOLEAN /\ Sound(o.st) /\ o.st.configured
           /\ o.st.colorbar = colorbar
           /\ o.ok /\ colorbar = 0 => ~o.st.settingsDirty /\ ~o.st.timingDirty
<1>1. CASE colorbar = 0 /\ (d.settingsDirty \/ d.timingDirty)
  <2>1. o \in SettingsAndTimingApply(d)
    BY <1>1 DEF CatchUp
  <2>2. /\ o.ok \in BOOLEAN
        /\ SameMode(d, o.st) /\ Sound(o.st)
        /\ o.ok => AllApplied(o.st)
    BY <2>1, SettingsAndTimingKeeps DEF Sound
  <2> QED
    BY <2>2 DEF SameMode, AllApplied
<1>2. CASE ~(colorbar = 0 /\ (d.settingsDirty \/ d.timingDirty))
  <2>1. o = [st |-> d, ok |-> TRUE]
    BY <1>2 DEF CatchUp, Ok
  <2> QED
    BY <1>2, <2>1
<1> QED
  BY <1>1, <1>2

\* camera_configure_locked()
LEMMA ConfigureKeeps ==
    ASSUME NEW d, Sound(d), d.powered, NEW colorbar \in {0, 1},
           NEW o \in Configure(d, colorbar)
    PROVE  /\ o.ok \in BOOLEAN /\ Sound(o.st)
           /\ o.ok => /\ o.st.configured /\ o.st.colorbar = colorbar
                      /\ colorbar = 0 => ~o.st.settingsDirty /\ ~o.st.timingDirty
<1> DEFINE A == InitOnce(d)
           B == UNION {IF p.ok THEN SwitchSource(p.st, colorbar) ELSE {p} : p \in A}
           C == UNION {IF p.ok THEN CatchUp(p.st, colorbar) ELSE {p} : p \in B}
<1>1. o \in C
  BY DEF Configure, Then
<1>2. PICK q \in B : IF q.ok THEN o \in CatchUp(q.st, colorbar) ELSE o = q
  <2> HIDE DEF B
  <2> QED
    BY <1>1
<1>3. PICK p \in A : IF p.ok THEN q \in SwitchSource(p.st, colorbar) ELSE q = p
  <2> HIDE DEF A
  <2> QED
    OBVIOUS
<1>4. p \in InitOnce(d)
  OBVIOUS
<1> HIDE DEF A, B, C
<1>5. p.ok \in BOOLEAN /\ Sound(p.st) /\ (p.ok => p.st.configured)
  BY <1>4, InitOnceKeeps
<1>6. q.ok \in BOOLEAN /\ Sound(q.st) /\ (q.ok => q.st.configured /\ q.st.colorbar = colorbar)
  <2>1. CASE p.ok
    BY <1>3, <1>5, <2>1, SwitchSourceKeeps
  <2>2. CASE ~p.ok
    BY <1>3, <1>5, <2>2
  <2> QED
    BY <2>1, <2>2
<1>7. CASE q.ok
  <2>1. o \in CatchUp(q.st, colorbar)
    BY <1>2, <1>7
  <2> QED
    BY <1>6, <1>7, <2>1, CatchUpKeeps
<1>8. CASE ~q.ok
  BY <1>2, <1>6, <1>8
<1> QED
  BY <1>7, <1>8

\* The sensor's clock and the driver's note of it are all that differ.
ClockWritten(d, e) ==
    /\ e \in DriverState
    /\ e.powered = d.powered /\ e.configured = d.configured /\ e.libInit = d.libInit
    /\ e.colorbar = d.colorbar /\ e.res = d.res /\ e.fmt = d.fmt /\ e.dcmiJpeg = d.dcmiJpeg
    /\ e.fps = d.fps /\ e.want = d.want /\ e.frame = d.frame
    /\ e.settingsDirty = d.settingsDirty /\ e.timingDirty = d.timingDirty
    /\ e.sensor.res = d.sensor.res /\ e.sensor.jpeg = d.sensor.jpeg
    /\ e.sensor.bars = d.sensor.bars /\ e.sensor.q = d.sensor.q
    /\ e.sensor.vts = d.sensor.vts /\ e.sensor.ceiling = d.sensor.ceiling

LEMMA WriteClock ==
    ASSUME NEW d \in DriverState, NEW hz \in {24, 48}
    PROVE  LET e == [d EXCEPT !.sensor.pclk = hz]
           IN ClockWritten(d, e) /\ e.sensor.pclk = hz /\ e.sensorPclk = d.sensorPclk
BY DEF ClockWritten, DriverState, SensorState

LEMMA NoteClock ==
    ASSUME NEW d \in DriverState, NEW hz \in {0, 24, 48}
    PROVE  LET e == [d EXCEPT !.sensorPclk = hz]
           IN ClockWritten(d, e) /\ e.sensor = d.sensor /\ e.sensorPclk = hz
BY DEF ClockWritten, DriverState

\* A new clock, noted or forgotten, leaves a configured sensor sound.
LEMMA ClockKeeps ==
    ASSUME NEW d, Sound(d), d.configured, NEW e, ClockWritten(d, e),
           e.sensorPclk # 0 => e.sensor.pclk = e.sensorPclk
    PROVE  Sound(e)
<1>1. ConfiguredMode(e) /\ FrameInv(e)
  BY DEF Sound, ConfiguredMode, FrameInv, ClockWritten
<1>2. CeilingFor(e) = CeilingFor(d)
  BY DEF CeilingFor, ClockWritten
<1>3. QualityInv(e) /\ TimingInv(e)
  BY <1>2 DEF Sound, QualityInv, TimingInv, Live, ClockWritten
<1> QED
  BY <1>1, <1>3 DEF Sound, ClockWritten

\* apply_effective_pclk_locked()
LEMMA ApplyEffectivePclkKeeps ==
    ASSUME NEW d, Sound(d), d.configured, NEW o \in ApplyEffectivePclk(d)
    PROVE  /\ o.ok \in BOOLEAN /\ Sound(o.st)
           /\ o.st.configured /\ o.st.colorbar = d.colorbar
           /\ o.st.settingsDirty = d.settingsDirty /\ o.st.timingDirty = d.timingDirty
           /\ o.ok => o.st.sensor.pclk = EffectivePclk(o.st, o.st.res)
<1> DEFINE hz == EffectivePclk(d, d.res)
           Noted(e) == [e EXCEPT !.sensorPclk = hz]
           Lost(e) == [e EXCEPT !.sensorPclk = 0]
           w == [d EXCEPT !.sensor.pclk = hz]
           A == Try(d, w)
           B == UNION {IF p.ok THEN {Ok(Noted(p.st))} ELSE {p} : p \in A}
           C == {IF p.ok THEN p ELSE Failed(Lost(p.st)) : p \in B}
<1>1. hz \in {24, 48}
  BY DEF EffectivePclk
<1>2. d \in DriverState
  BY DEF Sound
<1>3. CASE d.sensorPclk = hz
  <2>1. o = [st |-> d, ok |-> TRUE]
    BY <1>3 DEF ApplyEffectivePclk, Ok
  <2>2. hz # 0
    BY <1>1
  <2>3. d.sensor.pclk = hz
    <3> HIDE DEF hz
    <3> QED
      BY <1>3, <2>2 DEF Sound, ConfiguredMode
  <2> QED
    BY <2>1, <2>3
<1>4. CASE d.sensorPclk # hz
  <2>1. o \in C
    BY <1>4 DEF ApplyEffectivePclk, Then, Else, LibPclk
  <2>2. PICK q \in B : o = IF q.ok THEN q ELSE Failed(Lost(q.st))
    <3> HIDE DEF B, Lost
    <3> QED
      BY <2>1
  <2>3. PICK p \in A : IF p.ok THEN q = Ok(Noted(p.st)) ELSE q = p
    <3> HIDE DEF A, Noted
    <3> QED
      OBVIOUS
  <2>4. p \in Try(d, w)
    OBVIOUS
  <2> HIDE DEF A, B, C
  <2>5. ClockWritten(d, w) /\ w.sensor.pclk = hz
    <3> HIDE DEF hz
    <3> QED
      BY <1>1, <1>2, WriteClock
  <2>6. ClockWritten(d, d)
    BY <1>2 DEF ClockWritten
  <2> HIDE DEF w
  <2>7. \/ p.ok = TRUE /\ p.st = w
        \/ p.ok = FALSE /\ p.st = d
        \/ p.ok = FALSE /\ p.st = w
    BY <2>4, TryCases
  <2>8. CASE p.ok
    <3> DEFINE x == Noted(w)
    <3>1. p.st = w
      BY <2>7, <2>8
    <3>2. o.ok = TRUE /\ o.st = x
      BY <2>2, <2>3, <2>8, <3>1 DEF Ok
    <3>3. w \in DriverState /\ hz \in {0, 24, 48}
      BY <1>1, <2>5 DEF ClockWritten
    <3>4. ClockWritten(w, x) /\ x.sensor = w.sensor /\ x.sensorPclk = hz
      <4> HIDE DEF hz
      <4> QED
        BY <3>3, NoteClock
    <3> HIDE DEF x, Noted, Lost
    <3>5. ClockWritten(d, x) /\ x.sensor.pclk = hz
      BY <2>5, <3>4 DEF ClockWritten
    <3>6. Sound(x)
      BY <3>4, <3>5, ClockKeeps
    <3>7. EffectivePclk(x, x.res) = hz
      BY <3>5 DEF ClockWritten, EffectivePclk
    <3> HIDE DEF hz
    <3> QED
      BY <3>2, <3>5, <3>6, <3>7 DEF ClockWritten
  <2>9. CASE ~p.ok
    <3> DEFINE x == Lost(p.st)
    <3>1. o.ok = FALSE /\ o.st = x
      BY <2>2, <2>3, <2>9 DEF Failed
    <3>2. ClockWritten(d, p.st)
      BY <2>5, <2>6, <2>7
    <3>3. p.st \in DriverState
      BY <3>2 DEF ClockWritten
    <3>4. ClockWritten(p.st, x) /\ x.sensorPclk = 0
      BY <3>3, NoteClock
    <3> HIDE DEF x, Noted, Lost
    <3>5. ClockWritten(d, x)
      BY <3>2, <3>4 DEF ClockWritten
    <3>6. Sound(x)
      BY <3>4, <3>5, ClockKeeps
    <3> QED
      BY <3>1, <3>5, <3>6 DEF ClockWritten
  <2> QED
    BY <2>7, <2>8, <2>9
<1> QED
  BY <1>3, <1>4

\* mode_reset_default() after the sensor is no longer relied on, with or
\* without power.
LEMMA ResetIsSound ==
    ASSUME NEW d \in DriverState
    PROVE  LET e == ModeReset(Forget(d)) IN Sound(e) /\ ~e.configured /\ e.powered = d.powered
<1> DEFINE e == ModeReset(Forget(d))
<1>1. /\ e \in DriverState
      /\ ~e.configured /\ ~e.libInit /\ e.res = "QVGA" /\ e.fmt = "RGB565"
      /\ ~e.dcmiJpeg /\ e.sensorPclk = 0 /\ e.colorbar = Unknown /\ e.frame = NoFrame
      /\ e.powered = d.powered
  BY DEF ModeReset, Forget, DriverState, NoFrame, Resolutions, PixelFormats
<1> HIDE DEF e
<1>2. ConfiguredMode(e)
  BY <1>1 DEF ConfiguredMode
<1>3. FrameInv(e) /\ ~Live(e)
  BY <1>1 DEF FrameInv, NoFrame, Live
<1>4. Sound(e)
  BY <1>1, <1>2, <1>3, NotLiveIsSound
<1> QED
  BY <1>1, <1>4 DEF e

\* Switching the power changes nothing else, and needs no configured chip.
LEMMA PowerKeeps ==
    ASSUME NEW d, Sound(d), ~d.configured, NEW b \in BOOLEAN
    PROVE  LET e == [d EXCEPT !.powered = b] IN Sound(e) /\ e.powered = b
<1> DEFINE e == [d EXCEPT !.powered = b]
<1>1. /\ e \in DriverState /\ e.powered = b
      /\ e.configured = d.configured /\ e.libInit = d.libInit
      /\ e.colorbar = d.colorbar /\ e.res = d.res /\ e.fmt = d.fmt /\ e.dcmiJpeg = d.dcmiJpeg
      /\ e.sensorPclk = d.sensorPclk /\ e.frame = d.frame
  BY DEF Sound, DriverState
<1> HIDE DEF e
<1>2. ConfiguredMode(e) /\ FrameInv(e) /\ ~Live(e)
  BY <1>1 DEF Sound, ConfiguredMode, FrameInv, Live
<1>3. Sound(e)
  BY <1>1, <1>2, NotLiveIsSound
<1> QED
  BY <1>1, <1>3 DEF e

LEMMA PowerOffIsSound ==
    ASSUME NEW d \in DriverState
    PROVE  Sound(PowerOffLocked(d))
<1> DEFINE e == PowerOffLocked(d)
<1>1. /\ e \in DriverState
      /\ ~e.configured /\ ~e.libInit /\ e.res = "QVGA" /\ e.fmt = "RGB565"
      /\ ~e.dcmiJpeg /\ e.sensorPclk = 0 /\ e.colorbar = Unknown /\ e.frame = NoFrame
  BY DEF PowerOffLocked, ModeReset, Forget, DriverState, NoFrame, Resolutions, PixelFormats
<1> HIDE DEF e
<1>2. ConfiguredMode(e) /\ FrameInv(e) /\ ~Live(e)
  BY <1>1 DEF ConfiguredMode, FrameInv, NoFrame, Live
<1>3. Sound(e)
  BY <1>1, <1>2, NotLiveIsSound
<1> QED
  BY <1>3 DEF e

\* camera_probe_locked()
LEMMA ProbeLockedKeeps ==
    ASSUME NEW d \in DriverState, NEW o \in ProbeLocked(d)
    PROVE  o.ok \in BOOLEAN /\ Sound(o.st) /\ (o.ok => o.st.powered)
<1> DEFINE r == ModeReset(Forget(d))
           on == [r EXCEPT !.powered = TRUE]
<1>1. Sound(r) /\ ~r.configured
  BY ResetIsSound
<1>a. o = Ok(on) \/ o = Failed(PowerOffLocked(r))
  BY DEF ProbeLocked
<1> HIDE DEF r
<1>2. \/ o.ok = TRUE /\ o.st = on
      \/ o.ok = FALSE /\ o.st = PowerOffLocked(r)
  <2> HIDE DEF on
  <2> QED
    BY <1>a DEF Ok, Failed
<1>3. Sound(on) /\ on.powered
  BY <1>1, PowerKeeps
<1>4. Sound(PowerOffLocked(r))
  BY <1>1, PowerOffIsSound DEF Sound
<1> HIDE DEF on
<1> QED
  BY <1>2, <1>3, <1>4

LEMMA ProbeIfOffKeeps ==
    ASSUME NEW d, Sound(d), NEW o \in ProbeIfOff(d)
    PROVE  o.ok \in BOOLEAN /\ Sound(o.st) /\ (o.ok => o.st.powered)
<1>1. CASE d.powered
  <2>1. o = [st |-> d, ok |-> TRUE]
    BY <1>1 DEF ProbeIfOff, Ok
  <2> QED
    BY <1>1, <2>1
<1>2. CASE ~d.powered
  <2>1. o \in ProbeLocked(d)
    BY <1>2 DEF ProbeIfOff
  <2> QED
    BY <2>1, ProbeLockedKeeps DEF Sound
<1> QED
  BY <1>1, <1>2

\* What a call that arms the DCMI leaves behind when it succeeds: the source
\* asked for, at the clock the display allows, with nothing owed to a live one.
ReadyFor(d, colorbar) ==
    /\ d.configured /\ d.colorbar = colorbar
    /\ d.sensor.pclk = EffectivePclk(d, d.res)
    /\ colorbar = 0 => ~d.settingsDirty /\ ~d.timingDirty

\* The frame buffer is rewritten: with a frame of the mode, or with none.
LEMMA FrameKeeps ==
    ASSUME NEW d, Sound(d),
           NEW f \in {NoFrame, [valid |-> TRUE, res |-> d.res, fmt |-> d.fmt, torn |-> FALSE]}
    PROVE  LET e == [d EXCEPT !.frame = f]
           IN /\ Sound(e) /\ e.powered = d.powered
              /\ \A colorbar \in {0, 1} : ReadyFor(d, colorbar) => ReadyFor(e, colorbar)
<1> DEFINE e == [d EXCEPT !.frame = f]
<1>a. d \in DriverState
  BY DEF Sound
<1>b. /\ f \in [valid : BOOLEAN, res : Resolutions, fmt : PixelFormats, torn : BOOLEAN]
      /\ f.valid => f.res = d.res /\ f.fmt = d.fmt /\ ~f.torn
  <2>1. CASE f = NoFrame
    BY <2>1 DEF NoFrame, Resolutions, PixelFormats
  <2>2. CASE f = [valid |-> TRUE, res |-> d.res, fmt |-> d.fmt, torn |-> FALSE]
    <3>1. d.res \in Resolutions /\ d.fmt \in PixelFormats
      BY <1>a DEF DriverState
    <3> QED
      BY <2>2, <3>1
  <2> QED
    BY <2>1, <2>2
<1>1. /\ e \in DriverState /\ e.powered = d.powered
      /\ e.configured = d.configured /\ e.libInit = d.libInit
      /\ e.colorbar = d.colorbar /\ e.res = d.res /\ e.fmt = d.fmt /\ e.dcmiJpeg = d.dcmiJpeg
      /\ e.sensorPclk = d.sensorPclk /\ e.frame = f /\ e.fps = d.fps /\ e.want = d.want
      /\ e.settingsDirty = d.settingsDirty /\ e.timingDirty = d.timingDirty
      /\ e.sensor = d.sensor
  BY <1>a, <1>b DEF DriverState
<1> HIDE DEF e
<1>2. ConfiguredMode(e)
  BY <1>1 DEF Sound, ConfiguredMode
<1>3. FrameInv(e)
  BY <1>1, <1>b DEF FrameInv
<1>4. CeilingFor(e) = CeilingFor(d)
  BY <1>1 DEF CeilingFor
<1>5. QualityInv(e) /\ TimingInv(e)
  BY <1>1, <1>4 DEF Sound, QualityInv, TimingInv, Live
<1>6. EffectivePclk(e, e.res) = EffectivePclk(d, d.res)
  BY <1>1 DEF EffectivePclk
<1>7. \A colorbar \in {0, 1} : ReadyFor(d, colorbar) => ReadyFor(e, colorbar)
  BY <1>1, <1>6 DEF ReadyFor
<1>8. Sound(e)
  BY <1>1, <1>2, <1>3, <1>5 DEF Sound
<1> QED
  BY <1>1, <1>7, <1>8 DEF e

\* camera_capture_locked()
LEMMA CaptureKeeps ==
    ASSUME NEW d, Sound(d), NEW colorbar \in {0, 1}, NEW o \in CaptureLocked(d, colorbar)
    PROVE  o.ok \in BOOLEAN /\ Sound(o.st) /\ (o.ok => ReadyFor(o.st, colorbar))
<1> DEFINE A == ProbeIfOff(d)
           B == UNION {IF p.ok THEN Configure(p.st, colorbar) ELSE {p} : p \in A}
           C == UNION {IF p.ok THEN ApplyEffectivePclk(p.st) ELSE {p} : p \in B}
           Shot(e) == [e EXCEPT !.frame = NoFrame]
           D == UNION {IF p.ok THEN {Ok(NewFrame(Shot(p.st))), Failed(Shot(p.st))} ELSE {p} : p \in C}
<1>1. o \in D
  BY DEF CaptureLocked, Then
<1>2. PICK r \in C : IF r.ok THEN o \in {Ok(NewFrame(Shot(r.st))), Failed(Shot(r.st))} ELSE o = r
  <2> HIDE DEF C, Shot
  <2> QED
    BY <1>1
<1>3. PICK q \in B : IF q.ok THEN r \in ApplyEffectivePclk(q.st) ELSE r = q
  <2> HIDE DEF B
  <2> QED
    OBVIOUS
<1>4. PICK p \in A : IF p.ok THEN q \in Configure(p.st, colorbar) ELSE q = p
  <2> HIDE DEF A
  <2> QED
    OBVIOUS
<1>5. p \in ProbeIfOff(d)
  OBVIOUS
<1> HIDE DEF A, B, C, D
<1>6. p.ok \in BOOLEAN /\ Sound(p.st) /\ (p.ok => p.st.powered)
  BY <1>5, ProbeIfOffKeeps
<1>7. /\ q.ok \in BOOLEAN /\ Sound(q.st)
      /\ q.ok => /\ q.st.configured /\ q.st.colorbar = colorbar
                 /\ colorbar = 0 => ~q.st.settingsDirty /\ ~q.st.timingDirty
  <2>1. CASE p.ok
    BY <1>4, <1>6, <2>1, ConfigureKeeps
  <2>2. CASE ~p.ok
    BY <1>4, <1>6, <2>2
  <2> QED
    BY <2>1, <2>2
<1>8. r.ok \in BOOLEAN /\ Sound(r.st) /\ (r.ok => ReadyFor(r.st, colorbar))
  <2>1. CASE q.ok
    <3>1. r \in ApplyEffectivePclk(q.st)
      BY <1>3, <2>1
    <3>2. /\ r.ok \in BOOLEAN /\ Sound(r.st)
          /\ r.st.configured /\ r.st.colorbar = q.st.colorbar
          /\ r.st.settingsDirty = q.st.settingsDirty /\ r.st.timingDirty = q.st.timingDirty
          /\ r.ok => r.st.sensor.pclk = EffectivePclk(r.st, r.st.res)
      BY <1>7, <2>1, <3>1, ApplyEffectivePclkKeeps
    <3> QED
      BY <1>7, <2>1, <3>2 DEF ReadyFor
  <2>2. CASE ~q.ok
    BY <1>3, <1>7, <2>2
  <2> QED
    BY <2>1, <2>2
<1>9. CASE r.ok
  <2> DEFINE s == Shot(r.st)
             n == [s EXCEPT !.frame = [valid |-> TRUE, res |-> s.res, fmt |-> s.fmt, torn |-> FALSE]]
  <2>1. Sound(s) /\ ReadyFor(s, colorbar)
    BY <1>8, <1>9, FrameKeeps
  <2>2. \/ o.ok = TRUE /\ o.st = n
        \/ o.ok = FALSE /\ o.st = s
    BY <1>2, <1>9 DEF Ok, Failed, NewFrame
  <2> HIDE DEF s, Shot
  <2>3. Sound(n) /\ ReadyFor(n, colorbar)
    BY <2>1, FrameKeeps
  <2> HIDE DEF n
  <2> QED
    BY <2>1, <2>2, <2>3
<1>10. CASE ~r.ok
  BY <1>2, <1>8, <1>10
<1> QED
  BY <1>9, <1>10

\* stream_start_locked()
LEMMA StreamStartKeeps ==
    ASSUME NEW d, Sound(d), NEW colorbar \in {0, 1}, NEW o \in StreamStartLocked(d, colorbar)
    PROVE  o.ok \in BOOLEAN /\ Sound(o.st) /\ (o.ok => ReadyFor(o.st, colorbar))
<1> DEFINE A == ProbeIfOff(d)
           Sized(e) == {IF Streamable(e.res, e.fmt) THEN Ok(e) ELSE Failed(e)}
           F == UNION {IF p.ok THEN Sized(p.st) ELSE {p} : p \in A}
           B == UNION {IF p.ok THEN Configure(p.st, colorbar) ELSE {p} : p \in F}
           C == UNION {IF p.ok THEN ApplyEffectivePclk(p.st) ELSE {p} : p \in B}
           D == UNION {IF p.ok THEN {Ok(p.st), Failed(p.st)} ELSE {p} : p \in C}
<1>1. o \in D
  BY DEF StreamStartLocked, Then
<1>2. PICK r \in C : IF r.ok THEN o \in {Ok(r.st), Failed(r.st)} ELSE o = r
  <2> HIDE DEF C
  <2> QED
    BY <1>1
<1>3. PICK q \in B : IF q.ok THEN r \in ApplyEffectivePclk(q.st) ELSE r = q
  <2> HIDE DEF B
  <2> QED
    OBVIOUS
<1>4. PICK f \in F : IF f.ok THEN q \in Configure(f.st, colorbar) ELSE q = f
  <2> HIDE DEF F
  <2> QED
    OBVIOUS
<1>5. PICK p \in A : IF p.ok THEN f \in Sized(p.st) ELSE f = p
  <2> HIDE DEF A, Sized
  <2> QED
    OBVIOUS
<1>6. p \in ProbeIfOff(d)
  OBVIOUS
<1> HIDE DEF A, B, C, D, F
<1>7. p.ok \in BOOLEAN /\ Sound(p.st) /\ (p.ok => p.st.powered)
  BY <1>6, ProbeIfOffKeeps
<1>8. f.ok \in BOOLEAN /\ Sound(f.st) /\ (f.ok => f.st.powered)
  <2>1. CASE p.ok
    <3>1. f = Ok(p.st) \/ f = Failed(p.st)
      BY <1>5, <2>1
    <3>2. (f.ok = TRUE /\ f.st = p.st) \/ (f.ok = FALSE /\ f.st = p.st)
      BY <3>1 DEF Ok, Failed
    <3> QED
      BY <1>7, <2>1, <3>2
  <2>2. CASE ~p.ok
    BY <1>5, <1>7, <2>2
  <2> QED
    BY <2>1, <2>2
<1> HIDE DEF Sized
<1>9. /\ q.ok \in BOOLEAN /\ Sound(q.st)
      /\ q.ok => /\ q.st.configured /\ q.st.colorbar = colorbar
                 /\ colorbar = 0 => ~q.st.settingsDirty /\ ~q.st.timingDirty
  <2>1. CASE f.ok
    BY <1>4, <1>8, <2>1, ConfigureKeeps
  <2>2. CASE ~f.ok
    BY <1>4, <1>8, <2>2
  <2> QED
    BY <2>1, <2>2
<1>10. r.ok \in BOOLEAN /\ Sound(r.st) /\ (r.ok => ReadyFor(r.st, colorbar))
  <2>1. CASE q.ok
    <3>1. r \in ApplyEffectivePclk(q.st)
      BY <1>3, <2>1
    <3>2. /\ r.ok \in BOOLEAN /\ Sound(r.st)
          /\ r.st.configured /\ r.st.colorbar = q.st.colorbar
          /\ r.st.settingsDirty = q.st.settingsDirty /\ r.st.timingDirty = q.st.timingDirty
          /\ r.ok => r.st.sensor.pclk = EffectivePclk(r.st, r.st.res)
      BY <1>9, <2>1, <3>1, ApplyEffectivePclkKeeps
    <3> QED
      BY <1>9, <2>1, <3>2 DEF ReadyFor
  <2>2. CASE ~q.ok
    BY <1>3, <1>9, <2>2
  <2> QED
    BY <2>1, <2>2
<1>11. CASE r.ok
  <2>1. (o.ok = TRUE /\ o.st = r.st) \/ (o.ok = FALSE /\ o.st = r.st)
    BY <1>2, <1>11 DEF Ok, Failed
  <2> QED
    BY <1>10, <1>11, <2>1
<1>12. CASE ~r.ok
  BY <1>2, <1>10, <1>12
<1> QED
  BY <1>11, <1>12

\* camera_set_format_locked() between its steps: the DCMI is set for the new
\* format, and a configured chip has no JPEG datapath that format does not want.
Rearmed(d, pix) ==
    /\ d \in DriverState /\ d.powered
    /\ d.libInit <=> d.configured
    /\ d.dcmiJpeg <=> pix = "JPEG"
    /\ d.configured /\ d.sensor.jpeg => pix = "JPEG"

\* The mode's registers are programmed, one after the other.
HasRes(d, res) == d.configured /\ d.sensor.res = res
HasFormat(d, res, pix) == HasRes(d, res) /\ (d.sensor.jpeg <=> pix = "JPEG")
ClockRates == {24, 48}
HasClock(d, res, pix, hz) == HasFormat(d, res, pix) /\ d.sensor.pclk = hz

LEMMA LibResolutionDoes ==
    ASSUME NEW d, NEW res \in Resolutions, NEW pix, Rearmed(d, pix), d.configured,
           NEW o \in LibResolution(d, res)
    PROVE  o.ok \in BOOLEAN /\ Rearmed(o.st, pix) /\ (o.ok => HasRes(o.st, res))
<1> DEFINE w == [d EXCEPT !.sensor.res = res]
<1>1. o \in Try(d, w)
  BY DEF LibResolution
<1>2. Rearmed(w, pix) /\ HasRes(w, res)
  BY DEF Rearmed, HasRes, DriverState, SensorState
<1> HIDE DEF w
<1>3. \/ o.ok = TRUE /\ o.st = w
      \/ o.ok = FALSE /\ o.st = d
      \/ o.ok = FALSE /\ o.st = w
  BY <1>1, TryCases
<1> QED
  BY <1>2, <1>3

LEMMA LibFormatDoes ==
    ASSUME NEW d, NEW res, NEW pix, Rearmed(d, pix), HasRes(d, res),
           NEW o \in LibFormat(d, pix)
    PROVE  o.ok \in BOOLEAN /\ Rearmed(o.st, pix) /\ (o.ok => HasFormat(o.st, res, pix))
<1> DEFINE v == d.sensor.jpeg \/ pix = "JPEG"
           w == [d EXCEPT !.sensor.jpeg = v]
<1>1. o \in Try(d, w)
  BY DEF LibFormat
<1>2. v \in BOOLEAN /\ (v <=> pix = "JPEG")
  BY DEF Rearmed, HasRes, DriverState, SensorState
<1> HIDE DEF v
<1>3. Rearmed(w, pix) /\ HasFormat(w, res, pix)
  BY <1>2 DEF Rearmed, HasRes, HasFormat, DriverState, SensorState
<1> HIDE DEF w
<1>4. \/ o.ok = TRUE /\ o.st = w
      \/ o.ok = FALSE /\ o.st = d
      \/ o.ok = FALSE /\ o.st = w
  BY <1>1, TryCases
<1> QED
  BY <1>3, <1>4

LEMMA LibPclkDoes ==
    ASSUME NEW d, NEW res, NEW pix, NEW hz \in ClockRates, Rearmed(d, pix),
           HasFormat(d, res, pix), NEW o \in LibPclk(d, hz)
    PROVE  o.ok \in BOOLEAN /\ Rearmed(o.st, pix) /\ (o.ok => HasClock(o.st, res, pix, hz))
<1> DEFINE w == [d EXCEPT !.sensor.pclk = hz]
<1>1. o \in Try(d, w)
  BY DEF LibPclk
<1>2. Rearmed(w, pix) /\ HasClock(w, res, pix, hz)
  BY DEF Rearmed, HasRes, HasFormat, HasClock, DriverState, SensorState, ClockRates
<1> HIDE DEF w
<1>3. \/ o.ok = TRUE /\ o.st = w
      \/ o.ok = FALSE /\ o.st = d
      \/ o.ok = FALSE /\ o.st = w
  BY <1>1, TryCases
<1> QED
  BY <1>2, <1>3

\* The initialisation a format switch needs
LEMMA InitForFormat ==
    ASSUME NEW d, NEW pix, Rearmed(d, pix), ~d.configured, NEW p \in LibInit(d)
    PROVE  LET w == [p.st EXCEPT !.configured = TRUE, !.sensorPclk = 0]
           IN /\ p.ok \in BOOLEAN /\ p.st \in DriverState
              /\ p.ok => Rearmed(w, pix) /\ w.configured
<1> DEFINE w == [p.st EXCEPT !.configured = TRUE, !.sensorPclk = 0]
<1>1. /\ p.ok \in BOOLEAN /\ ChipWritten(d, p.st)
      /\ p.ok => p.st.libInit /\ p.st.sensor = FreshSensor
  BY LibInitDoes DEF Rearmed
<1>2. ASSUME p.ok PROVE Rearmed(w, pix) /\ w.configured
  <2>1. /\ w \in DriverState /\ w.configured /\ w.libInit = p.st.libInit
        /\ w.powered = p.st.powered /\ w.dcmiJpeg = p.st.dcmiJpeg /\ w.sensor = p.st.sensor
    BY <1>1 DEF ChipWritten, DriverState
  <2> HIDE DEF w
  <2> QED
    BY <1>1, <1>2, <2>1 DEF ChipWritten, Rearmed, FreshSensor
<1>3. p.st \in DriverState
  BY <1>1 DEF ChipWritten
<1> QED
  BY <1>1, <1>2, <1>3

\* camera_set_format_locked()
LEMMA SetFormatKeeps ==
    ASSUME NEW d, Sound(d), NEW res \in Resolutions, NEW pix \in PixelFormats,
           NEW o \in SetFormatLocked(d, res, pix)
    PROVE  o.ok \in BOOLEAN /\ Sound(o.st)
<1> DEFINE hz == EffectivePclk(d, res)
           Switched(e) == IF (pix = "JPEG") = (e.fmt = "JPEG") THEN e
                          ELSE [e EXCEPT !.libInit = FALSE, !.configured = FALSE,
                                         !.dcmiJpeg = (pix = "JPEG")]
           Marked(e) == [e EXCEPT !.configured = TRUE, !.sensorPclk = 0]
           Init1(e) == IF e.configured THEN {Ok(e)}
                       ELSE UNION {IF p.ok THEN {Ok(Marked(p.st))} ELSE {p} : p \in LibInit(e)}
           Selected(e) == [e EXCEPT !.res = res, !.fmt = pix, !.sensorPclk = hz]
           Staled(e) == [e EXCEPT !.frame = NoFrame, !.colorbar = Unknown]
           S1(e) == {Ok(Switched(e))}
           S2(e) == UNION {IF p.ok THEN Init1(p.st) ELSE {p} : p \in S1(e)}
           S3(e) == UNION {IF p.ok THEN LibResolution(p.st, res) ELSE {p} : p \in S2(e)}
           S4(e) == UNION {IF p.ok THEN LibFormat(p.st, pix) ELSE {p} : p \in S3(e)}
           S5(e) == UNION {IF p.ok THEN LibPclk(p.st, hz) ELSE {p} : p \in S4(e)}
           S6(e) == UNION {IF p.ok THEN SettingsAndTimingApply(Selected(p.st)) ELSE {p} : p \in S5(e)}
           S7(e) == UNION {IF p.ok THEN {Ok(Staled(p.st))} ELSE {p} : p \in S6(e)}
           S8(e) == {IF p.ok THEN p ELSE Failed(ModeReset(Forget(p.st))) : p \in S7(e)}
           S9 == UNION {IF p.ok THEN S8(p.st) ELSE {p} : p \in ProbeIfOff(d)}
<1>1. o \in S9
  BY DEF SetFormatLocked, Then, Else
<1>2. PICK p0 \in ProbeIfOff(d) : IF p0.ok THEN o \in S8(p0.st) ELSE o = p0
  <2> HIDE DEF S8
  <2> QED
    BY <1>1
<1>3. p0.ok \in BOOLEAN /\ Sound(p0.st) /\ (p0.ok => p0.st.powered)
  BY ProbeIfOffKeeps
<1>4. hz \in {24, 48}
  BY DEF EffectivePclk
<1> HIDE DEF hz, S9
<1>5. CASE ~p0.ok
  <2> HIDE DEF S8
  <2> QED
    BY <1>2, <1>3, <1>5
<1>6. CASE p0.ok
  <2> DEFINE e == p0.st
  <2>1. PICK p7 \in S7(e) : o = IF p7.ok THEN p7 ELSE Failed(ModeReset(Forget(p7.st)))
    <3> HIDE DEF S7
    <3> QED
      BY <1>2, <1>6
  <2>2. PICK p6 \in S6(e) : IF p6.ok THEN p7 = Ok(Staled(p6.st)) ELSE p7 = p6
    <3> HIDE DEF S6, Staled
    <3> QED
      OBVIOUS
  <2>3. PICK p5 \in S5(e) : IF p5.ok THEN p6 \in SettingsAndTimingApply(Selected(p5.st)) ELSE p6 = p5
    <3> HIDE DEF S5, Selected
    <3> QED
      OBVIOUS
  <2>4. PICK p4 \in S4(e) : IF p4.ok THEN p5 \in LibPclk(p4.st, hz) ELSE p5 = p4
    <3> HIDE DEF S4
    <3> QED
      OBVIOUS
  <2>5. PICK p3 \in S3(e) : IF p3.ok THEN p4 \in LibFormat(p3.st, pix) ELSE p4 = p3
    <3> HIDE DEF S3
    <3> QED
      OBVIOUS
  <2>6. PICK p2 \in S2(e) : IF p2.ok THEN p3 \in LibResolution(p2.st, res) ELSE p3 = p2
    <3> HIDE DEF S2
    <3> QED
      OBVIOUS
  <2>7. p2 \in Init1(Switched(e))
    <3>1. PICK p1 \in S1(e) : IF p1.ok THEN p2 \in Init1(p1.st) ELSE p2 = p1
      <4> HIDE DEF S1, Init1
      <4> QED
        OBVIOUS
    <3>2. p1 = [st |-> Switched(e), ok |-> TRUE]
      BY DEF Ok
    <3> HIDE DEF Init1, Switched
    <3> QED
      BY <3>1, <3>2
  <2> HIDE DEF S1, S2, S3, S4, S5, S6, S7, S8
  <2>8. Rearmed(Switched(e), pix)
    <3> HIDE DEF Init1
    <3> USE DEF Sound, ConfiguredMode
    <3>1. CASE (pix = "JPEG") = (e.fmt = "JPEG")
      BY <1>3, <1>6, <3>1 DEF Rearmed
    <3>2. CASE (pix = "JPEG") # (e.fmt = "JPEG")
      <4> DEFINE b == pix = "JPEG"
                 w == [e EXCEPT !.libInit = FALSE, !.configured = FALSE, !.dcmiJpeg = b]
      <4>1. b \in BOOLEAN
        OBVIOUS
      <4>2. Switched(e) = w
        BY <3>2
      <4> HIDE DEF b, Switched
      <4>3. /\ w \in DriverState /\ w.powered = e.powered /\ ~w.libInit /\ ~w.configured
            /\ w.dcmiJpeg = b
        BY <1>3, <4>1 DEF DriverState
      <4> HIDE DEF w, e
      <4> QED
        BY <1>3, <1>6, <4>2, <4>3 DEF Rearmed, b, e
    <3> QED
      BY <3>1, <3>2
  <2> DEFINE g == Switched(e)
  <2>9. p2 \in Init1(g) /\ Rearmed(g, pix)
    <3> HIDE DEF Init1, Switched
    <3> QED
      BY <2>7, <2>8
  <2> HIDE DEF g, e, Switched
  <2>10. /\ p2.ok \in BOOLEAN /\ p2.st \in DriverState
         /\ p2.ok => Rearmed(p2.st, pix) /\ p2.st.configured
    <3>1. CASE g.configured
      <4>1. p2 = [st |-> g, ok |-> TRUE]
        BY <2>9, <3>1 DEF Ok
      <4> QED
        BY <2>9, <3>1, <4>1 DEF Rearmed
    <3>2. CASE ~g.configured
      <4>1. PICK p1 \in LibInit(g) : IF p1.ok THEN p2 = Ok(Marked(p1.st)) ELSE p2 = p1
        <5> HIDE DEF Marked
        <5> QED
          BY <2>9, <3>2
      <4> DEFINE w == [p1.st EXCEPT !.configured = TRUE, !.sensorPclk = 0]
      <4>2. /\ p1.ok \in BOOLEAN /\ p1.st \in DriverState
            /\ p1.ok => Rearmed(w, pix) /\ w.configured
        BY <2>9, <3>2, InitForFormat
      <4>3. CASE p1.ok
        <5>1. p2.ok = TRUE /\ p2.st = w
          BY <4>1, <4>3 DEF Ok
        <5> HIDE DEF w
        <5> QED
          BY <4>2, <4>3, <5>1 DEF Rearmed
      <4>4. CASE ~p1.ok
        BY <4>1, <4>2, <4>4
      <4> QED
        BY <4>2, <4>3, <4>4
    <3> QED
      BY <3>1, <3>2
  <2> HIDE DEF Init1, Marked
  <2>11. /\ p3.ok \in BOOLEAN /\ p3.st \in DriverState
         /\ p3.ok => Rearmed(p3.st, pix) /\ HasRes(p3.st, res)
    <3>1. CASE p2.ok
      <4>1. p3 \in LibResolution(p2.st, res)
        BY <2>6, <3>1
      <4> QED
        BY <2>10, <3>1, <4>1, LibResolutionDoes DEF Rearmed
    <3>2. CASE ~p2.ok
      BY <2>6, <2>10, <3>2
    <3> QED
      BY <3>1, <3>2
  <2>12. /\ p4.ok \in BOOLEAN /\ p4.st \in DriverState
         /\ p4.ok => Rearmed(p4.st, pix) /\ HasFormat(p4.st, res, pix)
    <3>1. CASE p3.ok
      <4>1. p4 \in LibFormat(p3.st, pix)
        BY <2>5, <3>1
      <4> QED
        BY <2>11, <3>1, <4>1, LibFormatDoes DEF Rearmed
    <3>2. CASE ~p3.ok
      BY <2>5, <2>11, <3>2
    <3> QED
      BY <3>1, <3>2
  <2>13. /\ p5.ok \in BOOLEAN /\ p5.st \in DriverState
         /\ p5.ok => Rearmed(p5.st, pix) /\ HasClock(p5.st, res, pix, hz)
    <3>1. CASE p4.ok
      <4>1. p5 \in LibPclk(p4.st, hz)
        BY <2>4, <3>1
      <4> QED
        BY <1>4, <2>12, <3>1, <4>1, LibPclkDoes DEF Rearmed, ClockRates
    <3>2. CASE ~p4.ok
      BY <2>4, <2>12, <3>2
    <3> QED
      BY <3>1, <3>2
  <2>14. /\ p6.ok \in BOOLEAN /\ p6.st \in DriverState
         /\ p6.ok => /\ Rearmed(p6.st, pix) /\ HasClock(p6.st, res, pix, hz)
                     /\ p6.st.res = res /\ p6.st.fmt = pix /\ p6.st.sensorPclk = hz
    <3>1. CASE p5.ok
      <4> DEFINE w == Selected(p5.st)
      <4>1. p6 \in SettingsAndTimingApply(w)
        BY <2>3, <3>1
      <4>2. /\ w \in DriverState /\ w.res = res /\ w.fmt = pix /\ w.sensorPclk = hz
            /\ w.powered = p5.st.powered /\ w.libInit = p5.st.libInit
            /\ w.configured = p5.st.configured /\ w.dcmiJpeg = p5.st.dcmiJpeg
            /\ w.sensor = p5.st.sensor
        BY <1>4, <2>13 DEF DriverState
      <4> HIDE DEF w, Selected
      <4>3. Rearmed(w, pix) /\ HasClock(w, res, pix, hz)
        BY <2>13, <3>1, <4>2 DEF Rearmed, HasClock, HasFormat, HasRes
      <4>4. p6.ok \in BOOLEAN /\ SameMode(w, p6.st)
        BY <4>1, <4>2, SettingsAndTimingApplyDoes
      <4> QED
        BY <4>2, <4>3, <4>4 DEF SameMode, Rearmed, HasClock, HasFormat, HasRes
    <3>2. CASE ~p5.ok
      BY <2>3, <2>13, <3>2
    <3> QED
      BY <3>1, <3>2
  <2> HIDE DEF Selected
  <2>15. CASE ~p6.ok
    <3>1. o.ok = FALSE /\ o.st = ModeReset(Forget(p6.st))
      BY <2>1, <2>2, <2>15 DEF Failed
    <3> QED
      BY <2>14, <3>1, ResetIsSound
  <2>16. CASE p6.ok
    <3> DEFINE w == Staled(p6.st)
    <3>1. o.ok = TRUE /\ o.st = w
      BY <2>1, <2>2, <2>16 DEF Ok
    <3>2. /\ w \in DriverState /\ w.res = res /\ w.fmt = pix /\ w.sensorPclk = hz
          /\ w.powered = p6.st.powered /\ w.libInit = p6.st.libInit
          /\ w.configured = p6.st.configured /\ w.dcmiJpeg = p6.st.dcmiJpeg
          /\ w.sensor = p6.st.sensor /\ w.colorbar = Unknown /\ w.frame = NoFrame
      BY <2>14, <2>16 DEF DriverState, NoFrame, Resolutions, PixelFormats
    <3> HIDE DEF w, Staled
    <3>3. ConfiguredMode(w)
      BY <2>14, <2>16, <3>2 DEF ConfiguredMode, Rearmed, HasClock, HasFormat, HasRes
    <3>4. FrameInv(w) /\ ~Live(w)
      BY <3>2 DEF FrameInv, NoFrame, Live, Unknown
    <3> QED
      BY <3>1, <3>2, <3>3, <3>4, NotLiveIsSound
  <2> QED
    BY <2>14, <2>15, <2>16
<1> QED
  BY <1>3, <1>5, <1>6

\* The invariant: a sound driver, ready for the source that is armed.
SensorInv ==
    /\ CsTypeOK
    /\ Sound(c)
    /\ armed # Unknown => ReadyFor(c, armed)

\* A step to a sound driver keeps it, if what it leaves armed is ready.
LEMMA SensorStep ==
    ASSUME NEW x, Sound(x), c' = x,
           scanout' \in BOOLEAN, stream' \in BOOLEAN, armed' \in {Unknown, 0, 1},
           armed' # Unknown => scanout' = scanout /\ ReadyFor(x, armed')
    PROVE  SensorInv'
<1>1. x \in DriverState
  BY DEF Sound
<1>2. CsTypeOK'
  BY <1>1 DEF CsTypeOK, DriverState
<1>3. Sound(c)'
  BY DEF Sound, ConfiguredMode, FrameInv, QualityInv, TimingInv, Live, CeilingFor, EffectiveVts,
         BaseVts
<1>4. (armed # Unknown => ReadyFor(c, armed))'
  BY DEF ReadyFor, EffectivePclk
<1> QED
  BY <1>2, <1>3, <1>4 DEF SensorInv

\* The fps knob may be turned on a sound driver.
LEMMA FpsKeeps ==
    ASSUME NEW d, Sound(d), NEW fps \in {15, 30}
    PROVE  Sound([d EXCEPT !.fps = fps])
<1> DEFINE e == [d EXCEPT !.fps = fps]
<1>1. /\ e \in DriverState /\ e.powered = d.powered
      /\ e.configured = d.configured /\ e.libInit = d.libInit
      /\ e.colorbar = d.colorbar /\ e.res = d.res /\ e.fmt = d.fmt /\ e.dcmiJpeg = d.dcmiJpeg
      /\ e.sensorPclk = d.sensorPclk /\ e.frame = d.frame /\ e.want = d.want
      /\ e.settingsDirty = d.settingsDirty /\ e.timingDirty = d.timingDirty
      /\ e.sensor = d.sensor
  BY DEF Sound, DriverState
<1> HIDE DEF e
<1>2. ConfiguredMode(e) /\ FrameInv(e)
  BY <1>1 DEF Sound, ConfiguredMode, FrameInv
<1>3. CeilingFor(e) = CeilingFor(d)
  BY <1>1 DEF CeilingFor
<1>4. QualityInv(e) /\ TimingInv(e)
  BY <1>1, <1>3 DEF Sound, QualityInv, TimingInv, Live
<1>5. Sound(e)
  BY <1>1, <1>2, <1>4 DEF Sound
<1> QED
  BY <1>5 DEF e

\* A setter's new choice is cached, its application owed.
LEMMA ChoiceCached ==
    ASSUME NEW d, Sound(d), NEW want \in [q : Levels, night : BOOLEAN]
    PROVE  LET e == [d EXCEPT !.want = want, !.settingsDirty = TRUE]
           IN /\ e \in DriverState /\ ConfiguredMode(e) /\ FrameInv(e) /\ QualityInv(e)
              /\ want.night = d.want.night => Sound(e)
              /\ e.configured = d.configured /\ e.colorbar = d.colorbar /\ e.fps = d.fps
              /\ e.res = d.res /\ e.sensor = d.sensor
<1> DEFINE e == [d EXCEPT !.want = want, !.settingsDirty = TRUE]
<1>1. /\ e \in DriverState /\ e.powered = d.powered
      /\ e.configured = d.configured /\ e.libInit = d.libInit
      /\ e.colorbar = d.colorbar /\ e.res = d.res /\ e.fmt = d.fmt /\ e.dcmiJpeg = d.dcmiJpeg
      /\ e.sensorPclk = d.sensorPclk /\ e.frame = d.frame /\ e.want = want /\ e.fps = d.fps
      /\ e.settingsDirty /\ e.timingDirty = d.timingDirty
      /\ e.sensor = d.sensor
  BY DEF Sound, DriverState
<1> HIDE DEF e
<1>2. ConfiguredMode(e) /\ FrameInv(e) /\ QualityInv(e)
  BY <1>1 DEF Sound, ConfiguredMode, FrameInv, QualityInv
<1>3. ASSUME want.night = d.want.night PROVE Sound(e)
  <2>1. CeilingFor(e) = CeilingFor(d)
    BY <1>1, <1>3 DEF CeilingFor
  <2>2. TimingInv(e)
    BY <1>1, <2>1 DEF Sound, TimingInv, Live
  <2> QED
    BY <1>1, <1>2, <2>2 DEF Sound
<1> QED
  BY <1>1, <1>2, <1>3 DEF e

\* The application of a cached choice, whatever it leaves applied.
LEMMA SetKeeps ==
    ASSUME SensorInv, NEW e,
           e.configured = c.configured, e.colorbar = c.colorbar, e.fps = c.fps,
           e.res = c.res, e.sensor = c.sensor,
           NEW o, o.ok \in BOOLEAN, SameMode(e, o.st), Sound(o.st),
           o.ok /\ Live(e) => ~o.st.settingsDirty /\ ~o.st.timingDirty,
           c' = o.st, armed' = IF o.ok THEN armed ELSE Unknown,
           UNCHANGED <<scanout, stream>>
    PROVE  SensorInv'
<1>1. /\ scanout' \in BOOLEAN /\ stream' \in BOOLEAN /\ armed' \in {Unknown, 0, 1}
      /\ scanout' = scanout
  BY DEF SensorInv, CsTypeOK
<1>2. ASSUME armed' # Unknown PROVE ReadyFor(o.st, armed')
  <2>1. o.ok /\ armed' = armed /\ ReadyFor(c, armed)
    BY <1>2 DEF SensorInv
  <2>2. o.st.configured /\ o.st.colorbar = armed
    BY <2>1 DEF ReadyFor, SameMode
  <2>3. o.st.sensor.pclk = EffectivePclk(o.st, o.st.res)
    BY <2>1 DEF ReadyFor, SameMode, EffectivePclk
  <2>4. armed = 0 => ~o.st.settingsDirty /\ ~o.st.timingDirty
    BY <2>1 DEF ReadyFor, Live
  <2> QED
    BY <2>1, <2>2, <2>3, <2>4 DEF ReadyFor
<1> QED
  BY <1>1, <1>2, SensorStep

LEMMA SensorInitial == CsInit => SensorInv
<1> SUFFICES ASSUME CsInit PROVE SensorInv
  OBVIOUS
<1>1. c \in DriverState
  BY FreshSensorType, LevelsAssumption
     DEF CsInit, DriverState, Resolutions, PixelFormats, NoFrame, Unknown
<1>2. ConfiguredMode(c) /\ FrameInv(c) /\ ~Live(c)
  BY DEF CsInit, ConfiguredMode, FrameInv, NoFrame, Live
<1>3. Sound(c)
  BY <1>1, <1>2, NotLiveIsSound
<1>4. CsTypeOK
  BY <1>1 DEF CsTypeOK, DriverState, CsInit
<1> QED
  BY <1>3, <1>4 DEF SensorInv, CsInit

LEMMA SensorNext == SensorInv /\ [CsNext]_csVars => SensorInv'
<1> SUFFICES ASSUME SensorInv, [CsNext]_csVars PROVE SensorInv'
  OBVIOUS
<1>a. /\ Sound(c) /\ c \in DriverState
      /\ scanout \in BOOLEAN /\ stream \in BOOLEAN /\ armed \in {Unknown, 0, 1}
  BY DEF SensorInv, CsTypeOK, Sound
<1>b. TRUE \in BOOLEAN /\ FALSE \in BOOLEAN /\ Unknown \in {Unknown, 0, 1}
  OBVIOUS
<1>1. CASE Probe
  <2>1. PICK o \in ProbeLocked(c) : c' = o.st
    BY <1>1 DEF Probe
  <2>2. armed' = Unknown /\ UNCHANGED <<scanout, stream>>
    BY <1>1 DEF Probe
  <2> QED
    BY <1>a, <2>1, <2>2, ProbeLockedKeeps, SensorStep
<1>2. CASE SensorOff
  <2>1. c' = PowerOffLocked(c) /\ armed' = Unknown /\ UNCHANGED <<scanout, stream>>
    BY <1>2 DEF SensorOff
  <2>2. Sound(PowerOffLocked(c))
    BY <1>a, PowerOffIsSound
  <2> QED
    BY <1>a, <2>1, <2>2, SensorStep
<1>3. ASSUME NEW colorbar \in {0, 1}, Capture(colorbar) PROVE SensorInv'
  <2>1. PICK o \in CaptureLocked(c, colorbar) :
           c' = o.st /\ armed' = IF o.ok THEN colorbar ELSE Unknown
    BY <1>3 DEF Capture
  <2>2. UNCHANGED <<scanout, stream>>
    BY <1>3 DEF Capture
  <2>3. o.ok \in BOOLEAN /\ Sound(o.st) /\ (o.ok => ReadyFor(o.st, colorbar))
    BY <1>a, CaptureKeeps
  <2>4. armed' \in {Unknown, 0, 1} /\ (armed' # Unknown => ReadyFor(o.st, armed'))
    BY <2>1, <2>3
  <2> QED
    BY <1>a, <2>1, <2>2, <2>3, <2>4, SensorStep
<1>4. ASSUME NEW colorbar \in {0, 1}, StreamStart(colorbar) PROVE SensorInv'
  <2>1. PICK o \in StreamStartLocked(c, colorbar) :
           c' = o.st /\ stream' = o.ok /\ armed' = IF o.ok THEN colorbar ELSE Unknown
    BY <1>4 DEF StreamStart
  <2>2. scanout' = scanout
    BY <1>4 DEF StreamStart
  <2>3. o.ok \in BOOLEAN /\ Sound(o.st) /\ (o.ok => ReadyFor(o.st, colorbar))
    BY <1>a, StreamStartKeeps
  <2>4. armed' \in {Unknown, 0, 1} /\ (armed' # Unknown => ReadyFor(o.st, armed'))
    BY <2>1, <2>3
  <2> QED
    BY <1>a, <2>1, <2>2, <2>3, <2>4, SensorStep
<1>5. ASSUME NEW res \in Resolutions, NEW pix \in PixelFormats, SetMode(res, pix)
      PROVE  SensorInv'
  <2>1. PICK o \in SetFormatLocked(c, res, pix) : c' = o.st
    BY <1>5 DEF SetMode
  <2>2. armed' = Unknown /\ UNCHANGED <<scanout, stream>>
    BY <1>5 DEF SetMode
  <2>3. Sound(o.st)
    BY <1>a, SetFormatKeeps
  <2> QED
    BY <1>a, <2>1, <2>2, <2>3, SensorStep
<1>6. ASSUME NEW fps \in {15, 30}, SetFps(fps) PROVE SensorInv'
  <2> DEFINE d == [c EXCEPT !.fps = fps]
             back(x) == [x EXCEPT !.fps = c.fps]
  <2>1. PICK o \in SetFormatLocked(d, c.res, c.fmt) :
           c' = IF o.ok THEN o.st ELSE back(o.st)
    BY <1>6 DEF SetFps
  <2>2. armed' = Unknown /\ UNCHANGED <<scanout, stream>>
    BY <1>6 DEF SetFps
  <2>3. Sound(d)
    BY <1>a, FpsKeeps
  <2>4. c.res \in Resolutions /\ c.fmt \in PixelFormats /\ c.fps \in {15, 30}
    BY <1>a DEF DriverState
  <2> HIDE DEF d
  <2>5. Sound(o.st)
    BY <2>3, <2>4, SetFormatKeeps
  <2>6. Sound(back(o.st))
    BY <2>4, <2>5, FpsKeeps
  <2> HIDE DEF back
  <2>7. PICK x : c' = x /\ Sound(x)
    BY <2>1, <2>5, <2>6
  <2> QED
    BY <1>a, <2>2, <2>7, SensorStep
<1>7. ASSUME NEW q \in Levels, SetLevel(q) PROVE SensorInv'
  <2> DEFINE want == [c.want EXCEPT !.q = q]
             e == [c EXCEPT !.want = want, !.settingsDirty = TRUE]
  <2>1. PICK o \in ApplyIfLive(e) :
           c' = o.st /\ armed' = IF o.ok THEN armed ELSE Unknown
    BY <1>7 DEF SetLevel, Set
  <2>2. UNCHANGED <<scanout, stream>>
    BY <1>7 DEF SetLevel, Set
  <2>3. want \in [q : Levels, night : BOOLEAN] /\ want.night = c.want.night
    BY <1>a DEF DriverState
  <2> HIDE DEF want
  <2>4. /\ Sound(e)
        /\ e.configured = c.configured /\ e.colorbar = c.colorbar /\ e.fps = c.fps
        /\ e.res = c.res /\ e.sensor = c.sensor
    BY <1>a, <2>3, ChoiceCached
  <2> HIDE DEF e
  <2>5. /\ o.ok \in BOOLEAN /\ SameMode(e, o.st) /\ Sound(o.st)
        /\ o.ok /\ Live(e) => ~o.st.settingsDirty /\ ~o.st.timingDirty
    BY <2>4, ApplyIfLiveKeeps
  <2> QED
    BY <2>1, <2>2, <2>4, <2>5, SetKeeps
<1>8. ASSUME NEW want \in [q : Levels, night : BOOLEAN],
             Set(ApplyWithTimingIfLive([c EXCEPT !.want = want, !.settingsDirty = TRUE]))
      PROVE  SensorInv'
  <2> DEFINE e == [c EXCEPT !.want = want, !.settingsDirty = TRUE]
  <2>1. PICK o \in ApplyWithTimingIfLive(e) :
           c' = o.st /\ armed' = IF o.ok THEN armed ELSE Unknown
    BY <1>8 DEF Set
  <2>2. UNCHANGED <<scanout, stream>>
    BY <1>8 DEF Set
  <2>3. /\ e \in DriverState /\ ConfiguredMode(e) /\ FrameInv(e) /\ QualityInv(e)
        /\ e.configured = c.configured /\ e.colorbar = c.colorbar /\ e.fps = c.fps
        /\ e.res = c.res /\ e.sensor = c.sensor
    BY <1>a, ChoiceCached
  <2> HIDE DEF e
  <2>4. /\ o.ok \in BOOLEAN /\ SameMode(e, o.st) /\ Sound(o.st)
        /\ o.ok /\ Live(e) => ~o.st.settingsDirty /\ ~o.st.timingDirty
    BY <2>3, ApplyWithTimingIfLiveKeeps
  <2> QED
    BY <2>1, <2>2, <2>3, <2>4, SetKeeps
<1>9. ASSUME NEW on \in BOOLEAN, SetNight(on) PROVE SensorInv'
  <2> DEFINE want == [c.want EXCEPT !.night = on]
  <2>1. want \in [q : Levels, night : BOOLEAN]
    BY <1>a DEF DriverState
  <2>2. Set(ApplyWithTimingIfLive([c EXCEPT !.want = want, !.settingsDirty = TRUE]))
    BY <1>9 DEF SetNight
  <2> HIDE DEF want
  <2> QED
    BY <1>8, <2>1, <2>2
<1>10. CASE SetDefaults
  <2> DEFINE want == [q |-> 0, night |-> FALSE]
  <2>1. want \in [q : Levels, night : BOOLEAN]
    BY LevelsAssumption
  <2>2. Set(ApplyWithTimingIfLive([c EXCEPT !.want = want, !.settingsDirty = TRUE]))
    BY <1>10 DEF SetDefaults
  <2> HIDE DEF want
  <2> QED
    BY <1>8, <2>1, <2>2
<1>11. CASE StreamStop
  <2>1. c' = c /\ armed' = Unknown /\ stream' = FALSE /\ scanout' = scanout
    BY <1>11 DEF StreamStop
  <2> QED
    BY <1>a, <2>1, SensorStep
<1>12. CASE SnapshotLatest
  <2> DEFINE f == [valid |-> TRUE, res |-> c.res, fmt |-> c.fmt, torn |-> FALSE]
             e == [c EXCEPT !.frame = f]
  <2>1. c' = e /\ UNCHANGED <<scanout, stream, armed>>
    BY <1>12 DEF SnapshotLatest, NewFrame
  <2>2. Sound(e) /\ \A colorbar \in {0, 1} : ReadyFor(c, colorbar) => ReadyFor(e, colorbar)
    BY <1>a, FrameKeeps
  <2> HIDE DEF e
  <2>3. armed # Unknown => ReadyFor(e, armed)
    BY <1>a, <2>2 DEF SensorInv
  <2> QED
    BY <1>a, <2>1, <2>2, <2>3, SensorStep
<1>13. CASE FrameInvalidate
  <2> DEFINE e == [c EXCEPT !.frame = NoFrame]
  <2>1. c' = e /\ UNCHANGED <<scanout, stream, armed>>
    BY <1>13 DEF FrameInvalidate
  <2>2. Sound(e) /\ \A colorbar \in {0, 1} : ReadyFor(c, colorbar) => ReadyFor(e, colorbar)
    BY <1>a, FrameKeeps
  <2> HIDE DEF e
  <2>3. armed # Unknown => ReadyFor(e, armed)
    BY <1>a, <2>2 DEF SensorInv
  <2> QED
    BY <1>a, <2>1, <2>2, <2>3, SensorStep
<1>14. CASE LcdSwitch
  <2>1. c' = c /\ armed' = Unknown /\ stream' = stream /\ scanout' \in BOOLEAN
    BY <1>a, <1>14 DEF LcdSwitch
  <2> QED
    BY <1>a, <2>1, SensorStep
<1>15. CASE UNCHANGED csVars
  <2>1. c' = c /\ armed' = armed /\ stream' = stream /\ scanout' = scanout
    BY <1>15 DEF csVars
  <2>2. armed # Unknown => ReadyFor(c, armed)
    BY DEF SensorInv
  <2> QED
    BY <1>a, <2>1, <2>2, SensorStep
<1>16. CASE CsNext
  BY <1>1, <1>2, <1>3, <1>4, <1>5, <1>6, <1>7, <1>9, <1>10, <1>11, <1>12, <1>13, <1>14, <1>16
     DEF CsNext
<1> QED
  BY <1>15, <1>16

LEMMA SensorInvariance == CsSpec => []SensorInv
<1>1. CsInit => SensorInv
  BY SensorInitial
<1>2. SensorInv /\ [CsNext]_csVars => SensorInv'
  BY SensorNext
<1> QED
  BY <1>1, <1>2, PTL DEF CsSpec

\* Whatever sensor accesses failed, and whether or not their registers were
\* written, what is armed is the mode the descriptor reports at the clock the
\* display allows, the noted clock is the chip's, and a frame that may be read
\* is one of that mode.
THEOREM ArmedIsDescribed == CsSpec => []ArmedAsDescribed
<1>1. SensorInv => ArmedAsDescribed
  <2> SUFFICES ASSUME SensorInv PROVE ArmedAsDescribed
    OBVIOUS
  <2>1. Sound(c) /\ (armed # Unknown => ReadyFor(c, armed))
    BY DEF SensorInv
  <2>2. c.sensor.jpeg \in BOOLEAN /\ c.dcmiJpeg \in BOOLEAN /\ (c.fmt = "JPEG") \in BOOLEAN
    BY <2>1 DEF Sound, DriverState, SensorState
  <2>3. ModeIsProgrammed
    BY <2>1, <2>2 DEF ModeIsProgrammed, Sound, ConfiguredMode, ReadyFor
  <2>4. PclkKnown
    BY <2>1 DEF PclkKnown, Sound, ConfiguredMode
  <2>5. FrameMatchesMode
    BY <2>1 DEF FrameMatchesMode, Sound, FrameInv
  <2> QED
    BY <2>3, <2>4, <2>5 DEF ArmedAsDescribed
<1> QED
  BY <1>1, SensorInvariance, PTL

\* A live picture is taken with the settings last chosen, and the two dirty
\* flags of a live sensor miss nothing.
THEOREM SettingsStayCurrent == CsSpec => []SettingsCurrent
<1>1. SensorInv => SettingsCurrent
  <2> SUFFICES ASSUME SensorInv PROVE SettingsCurrent
    OBVIOUS
  <2>1. Sound(c) /\ (armed # Unknown => ReadyFor(c, armed))
    BY DEF SensorInv
  <2>2. DirtyFlagsSuffice
    BY <2>1 DEF DirtyFlagsSuffice, SettingsProgrammed, Sound, QualityInv, TimingInv, CeilingFor
  <2>3. armed = 0 => Live(c) /\ ~c.settingsDirty /\ ~c.timingDirty
    BY <2>1 DEF ReadyFor, Live, Unknown
  <2>4. LiveIsCurrent
    BY <2>2, <2>3 DEF LiveIsCurrent, DirtyFlagsSuffice
  <2> QED
    BY <2>2, <2>4 DEF SettingsCurrent
<1> QED
  BY <1>1, SensorInvariance, PTL
=============================================================================
