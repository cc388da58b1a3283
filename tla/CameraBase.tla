------------------------------ MODULE CameraBase ------------------------------
(***************************************************************************)
(* port/camera/camera.c, the base capture: `camera stream` start and stop, *)
(* the subscriber registry, the producer thread with its teardown and its  *)
(* recovery from overruns, and the interrupts that drive it.               *)
(*                                                                         *)
(* The public calls hold cam_lock from entry to return and are one action  *)
(* each, except that a start is seen half-way: cam_stream_active is set    *)
(* before the hardware is armed, and the producer and the interrupts read  *)
(* it without the lock.  The producer's own steps are separate actions     *)
(* wherever it reads shared flags, waits or takes the lock.                *)
(*                                                                         *)
(* Abstracted: the ring (module FramePipeline), the sensor (CameraSensor:  *)
(* a call that programs it may fail), pixel formats other than one raster  *)
(* and JPEG, and the two stop targets --frames and --secs, one flag here.  *)
(* A registered sink is an enabled one: the code keeps the two equal.      *)
(***************************************************************************)
EXTENDS Naturals, FiniteSets

CONSTANTS
    Sinks,      \* the sinks that may subscribe
    Oneshots,   \* those that use camera_subscribe_oneshot()
    Format,     \* sink -> the format it consumes
    Stat,       \* cam_stat_sink
    MaxSubs,    \* CAM_MAX_SUBS
    Giveup,     \* CAM_RECOVER_GIVEUP
    MaxPosts    \* bound: posts pending on a semaphore

Formats == {"RGB565", "JPEG"}

ASSUME BaseAssumption ==
    /\ IsFiniteSet(Sinks)
    /\ Oneshots \subseteq Sinks
    /\ Format \in [Sinks -> Formats]
    /\ Stat \notin Sinks
    /\ MaxSubs \in Nat /\ Giveup \in Nat \ {0} /\ MaxPosts \in Nat

VARIABLES
    active,         \* cam_stream_active
    stopReq,        \* cam_stop_req
    err,            \* cam_stream_err
    pending,        \* cam_recover_pending
    rapid,          \* cam_recover_rapid
    fmt,            \* mode.format
    target,         \* a --frames or --secs target is set
    due,            \* ... and reached
    streamSem,      \* cam_stream_sem
    startSem,       \* cam_start_sem
    subs,           \* the sinks in cam_subs[]
    attached,       \* those with attached = 1
    linked,         \* cam_pipe.sinks
    arming,         \* who holds cam_lock inside stream_start_locked()
    pc,             \* where the producer is
    userOff         \* history: camera_stream_stop() since the last start

ctlVars == <<active, stopReq, err, target, due>>
recVars == <<pending, rapid>>
semVars == <<streamSem, startSem>>
regVars == <<subs, attached, linked>>
vars == <<ctlVars, recVars, semVars, regVars, fmt, arming, pc, userOff>>

Unlocked == arming = "no"

Post(sem) == IF sem < MaxPosts THEN sem + 1 ELSE sem

\* cam_stream_should_stop()
ShouldStop == stopReq \/ err \/ (target /\ due)

\* Mutant: an overrun is recovered from even if a stop was asked for.
RecoversAnyway == err

\* cam_stream_teardown(): the stream was cut short and is wanted back.
Recovers == err /\ ~stopReq

\* cam_stream_recover()
GivesUp(n) == n >= Giveup

\* The subscribers cam_subs_attach_all() links.
Compatible == {s \in subs : Format[s] = fmt}

------------------------------------------------------------------------------
Init ==
    /\ active = FALSE /\ stopReq = FALSE /\ err = FALSE
    /\ pending = FALSE /\ rapid = 0
    /\ fmt = "RGB565"
    /\ target = FALSE /\ due = FALSE
    /\ streamSem = 0 /\ startSem = 0
    /\ subs = {} /\ attached = {} /\ linked = {}
    /\ arming = "no"
    /\ pc = "top"
    /\ userOff = FALSE

------------------------------------------------------------------------------
(* stream_start_locked() by `who`, the base being off.                     *)

\* It fails before or while it builds the pipeline: attach_all() has undone
\* what it attached.
StartRefused == UNCHANGED <<ctlVars, semVars, attached, linked, fmt, arming>>

\* Mutant: sinks of another format are linked, too.
StartRaisedAll(who, hasTarget, kept) ==
    /\ attached' = kept /\ linked' = {Stat} \cup attached'
    /\ err' = FALSE /\ stopReq' = FALSE
    /\ target' = hasTarget /\ due' = FALSE
    /\ streamSem' = 0 /\ startSem' = 0
    /\ active' = TRUE /\ arming' = who
    /\ UNCHANGED fmt

\* Ring, counters and subscribers are set up and cam_stream_active is raised;
\* the lock stays held while the hardware is armed.
StartRaised(who, hasTarget, kept) ==
    /\ attached' = {s \in kept : Format[s] = fmt}
    /\ linked' = {Stat} \cup attached'
    /\ err' = FALSE /\ stopReq' = FALSE
    /\ target' = hasTarget /\ due' = FALSE
    /\ streamSem' = 0 /\ startSem' = 0
    /\ active' = TRUE
    /\ arming' = who
    /\ UNCHANGED fmt

\* Mutant: the producer is not woken.
ArmedSilently ==
    /\ ~Unlocked
    /\ arming' = "no"
    /\ pc' = IF arming = "producer" THEN "top" ELSE pc
    /\ UNCHANGED <<ctlVars, recVars, semVars, regVars, fmt, userOff>>

\* The hardware runs: wake the producer.
Armed ==
    /\ ~Unlocked
    /\ startSem' = Post(startSem)
    /\ arming' = "no"
    /\ pc' = IF arming = "producer" THEN "top" ELSE pc
    /\ UNCHANGED <<ctlVars, recVars, streamSem, regVars, fmt, userOff>>

\* It does not: roll back by hand.  A JPEG arm also drains the semaphores,
\* a failed DMA start does not; a failed recovery releases the oneshots.
ArmFailed ==
    /\ ~Unlocked
    /\ active' = FALSE
    /\ attached' = {} /\ linked' = {}
    /\ IF fmt = "JPEG" THEN streamSem' = 0 /\ startSem' = 0
                       ELSE UNCHANGED semVars
    /\ subs' = IF arming = "producer" THEN subs \ Oneshots ELSE subs
    /\ arming' = "no"
    /\ pc' = IF arming = "producer" THEN "top" ELSE pc
    /\ UNCHANGED <<stopReq, err, target, due, recVars, fmt, userOff>>

------------------------------------------------------------------------------
(* Public API.                                                             *)

\* camera_stream_start(): an explicit start cancels a pending recovery.
Start(hasTarget) ==
    /\ Unlocked
    /\ pending' = FALSE
    /\ rapid' = 0
    /\ IF active
       THEN /\ UNCHANGED <<ctlVars, semVars, regVars, fmt, arming, userOff>>
       ELSE /\ subs' = subs \ Oneshots
            /\ \/ StartRefused /\ UNCHANGED userOff
               \/ StartRaised("caller", hasTarget, subs') /\ userOff' = FALSE
    /\ UNCHANGED pc

\* camera_stream_stop()
Stop ==
    /\ Unlocked
    /\ pending' = FALSE
    /\ userOff' = TRUE
    /\ IF active
       THEN /\ stopReq' = TRUE
            /\ streamSem' = Post(streamSem)
            /\ UNCHANGED subs
       ELSE /\ subs' = subs \ Oneshots
            /\ UNCHANGED <<stopReq, streamSem>>
    /\ UNCHANGED <<active, err, target, due, rapid, startSem, attached, linked,
                   fmt, arming, pc>>

\* camera_subscribe(): attach now if the base runs in the sink's format; an
\* attach that fails takes the registration with it.
Subscribe(s) ==
    /\ Unlocked
    /\ s \in Sinks \ Oneshots
    /\ s \in subs \/ Cardinality(subs) < MaxSubs
    /\ IF active /\ s \notin attached /\ Format[s] = fmt
       THEN \/ /\ subs' = subs \cup {s}
               /\ attached' = attached \cup {s}
               /\ linked' = linked \cup {s}
            \/ subs' = subs \ {s} /\ UNCHANGED <<attached, linked>>
       ELSE subs' = subs \cup {s} /\ UNCHANGED <<attached, linked>>
    /\ UNCHANGED <<ctlVars, recVars, semVars, fmt, arming, pc, userOff>>

\* camera_subscribe_oneshot(): only to a running base of the same format.
SubscribeOneshot(s) ==
    /\ Unlocked
    /\ s \in Oneshots
    /\ active
    /\ Format[s] = fmt
    /\ s \notin attached
    /\ s \in subs \/ Cardinality(subs) < MaxSubs
    /\ \/ /\ subs' = subs \cup {s}
          /\ attached' = attached \cup {s}
          /\ linked' = linked \cup {s}
       \/ subs' = subs \ {s} /\ UNCHANGED <<attached, linked>>
    /\ UNCHANGED <<ctlVars, recVars, semVars, fmt, arming, pc, userOff>>

\* camera_unsubscribe()
Unsubscribe(s) ==
    /\ Unlocked
    /\ s \in subs
    /\ subs' = subs \ {s}
    /\ attached' = attached \ {s}
    /\ linked' = linked \ {s}
    /\ UNCHANGED <<ctlVars, recVars, semVars, fmt, arming, pc, userOff>>

\* camera_power_off(): refused while streaming; the mode falls back.
PowerOff ==
    /\ Unlocked /\ ~active
    /\ pending' = FALSE
    /\ subs' = subs \ Oneshots
    /\ fmt' = "RGB565"
    /\ UNCHANGED <<ctlVars, rapid, semVars, attached, linked, arming, pc, userOff>>

\* camera_set_format(), refused while streaming; a failure falls back to the
\* default mode, as does camera_probe().
SetFormat(f) ==
    /\ Unlocked /\ ~active
    /\ fmt' \in {f, "RGB565"}
    /\ UNCHANGED <<ctlVars, recVars, semVars, regVars, arming, pc, userOff>>

------------------------------------------------------------------------------
(* Interrupts.                                                             *)

\* cam_stream_dma_cb(), HAL_DCMI_FrameEventCallback()
FrameInterrupt ==
    /\ active
    /\ streamSem < MaxPosts
    /\ streamSem' = streamSem + 1
    /\ UNCHANGED <<ctlVars, recVars, startSem, regVars, fmt, arming, pc, userOff>>

\* HAL_DCMI_ErrorCallback(), cam_stream_dma_err_cb() on a transfer error
ErrorInterrupt ==
    /\ active
    /\ err' = TRUE
    /\ streamSem' = Post(streamSem)
    /\ UNCHANGED <<active, stopReq, target, due, recVars, startSem, regVars, fmt,
                   arming, pc, userOff>>

\* The --secs target runs out.
TimeUp ==
    /\ active /\ target /\ ~due
    /\ due' = TRUE
    /\ UNCHANGED <<active, stopReq, err, target, recVars, semVars, regVars, fmt,
                   arming, pc, userOff>>

------------------------------------------------------------------------------
(* cam_producer_entry().                                                   *)

ProducerTop ==
    /\ pc = "top"
    /\ pc' = IF active THEN "wait" ELSE "off"
    /\ UNCHANGED <<ctlVars, recVars, semVars, regVars, fmt, arming, userOff>>

ProducerOff ==
    /\ pc = "off"
    /\ pc' = IF pending THEN "recover" ELSE "idle"
    /\ UNCHANGED <<ctlVars, recVars, semVars, regVars, fmt, arming, userOff>>

\* tx_semaphore_get(&cam_start_sem, TX_WAIT_FOREVER)
ProducerIdle ==
    /\ pc = "idle"
    /\ startSem > 0
    /\ startSem' = startSem - 1
    /\ pc' = "top"
    /\ UNCHANGED <<ctlVars, recVars, streamSem, regVars, fmt, arming, userOff>>

\* tx_semaphore_get(&cam_stream_sem, CAM_PRODUCER_TICK)
ProducerWait ==
    /\ pc = "wait"
    /\ IF streamSem > 0 THEN streamSem' = streamSem - 1 /\ pc' = "frame"
                        ELSE UNCHANGED streamSem /\ pc' = "tick"
    /\ UNCHANGED <<ctlVars, recVars, startSem, regVars, fmt, arming, userOff>>

\* Mutant: a wait that timed out does not lead to a look.
ServiceStopsOnFrame ==
    /\ pc = "frame"
    /\ ShouldStop
    /\ pc' = "teardown"
    /\ UNCHANGED <<ctlVars, recVars, semVars, regVars, fmt, arming, userOff>>

\* Both services look at the stop conditions first.
ServiceStops ==
    /\ pc \in {"frame", "tick"}
    /\ ShouldStop
    /\ pc' = "teardown"
    /\ UNCHANGED <<ctlVars, recVars, semVars, regVars, fmt, arming, userOff>>

\* cam_stream_service(): the extra completions are drained; a frame that
\* finds a slot is published and may be the last one wanted.
ServiceRaster ==
    /\ pc \in {"frame", "tick"}
    /\ ~ShouldStop
    /\ fmt # "JPEG"
    /\ streamSem' = 0
    /\ due' \in {due, target}
    /\ pc' = "top"
    /\ UNCHANGED <<active, stopReq, err, target, recVars, startSem, regVars, fmt,
                   arming, userOff>>

\* cam_stream_service_jpeg(): stop, publish or drop, look at the stop
\* conditions again, re-arm; the two hardware failures end the stream.
ServiceJpeg ==
    /\ pc \in {"frame", "tick"}
    /\ ~ShouldStop
    /\ fmt = "JPEG"
    /\ IF pc = "tick"
       THEN pc' = "top" /\ UNCHANGED <<due, err>>
       ELSE \/ /\ due' \in {due, target}
               /\ pc' = IF target /\ due' THEN "teardown" ELSE "top"
               /\ UNCHANGED err
            \/ err' = TRUE /\ pc' = "teardown" /\ UNCHANGED due
    /\ UNCHANGED <<active, stopReq, target, recVars, semVars, regVars, fmt,
                   arming, userOff>>

\* cam_stream_teardown()
Teardown ==
    /\ pc = "teardown"
    /\ Unlocked
    /\ pc' = "top"
    /\ IF active
       THEN /\ pending' = Recovers
            /\ active' = FALSE
            /\ attached' = {} /\ linked' = {}
            /\ subs' = IF pending' THEN subs ELSE subs \ Oneshots
            /\ streamSem' = 0 /\ startSem' = 0
       ELSE UNCHANGED <<pending, active, regVars, semVars>>
    /\ UNCHANGED <<stopReq, err, target, due, rapid, fmt, arming, userOff>>

\* cam_stream_recover(), overtaken by a start, a stop or a power-off
RecoverCancelled ==
    /\ pc = "recover"
    /\ Unlocked
    /\ ~pending \/ active
    /\ pending' = FALSE
    /\ subs' = IF active THEN subs ELSE subs \ Oneshots
    /\ pc' = "top"
    /\ UNCHANGED <<ctlVars, rapid, semVars, attached, linked, fmt, arming, userOff>>

\* cam_stream_recover(): give up after too many overruns in a row, else start
\* again with the mode, the source and the target there are.
Recover ==
    /\ pc = "recover"
    /\ Unlocked
    /\ pending /\ ~active
    /\ pending' = FALSE
    /\ rapid' \in {rapid + 1, 0}
    /\ IF GivesUp(rapid')
       THEN /\ subs' = subs \ Oneshots
            /\ pc' = "top"
            /\ UNCHANGED <<ctlVars, semVars, attached, linked, fmt, arming>>
       ELSE \/ StartRefused /\ subs' = subs \ Oneshots /\ pc' = "top"
            \/ StartRaised("producer", target, subs) /\ pc' = "arming"
               /\ UNCHANGED subs
    /\ UNCHANGED userOff

------------------------------------------------------------------------------
Request == \/ \E hasTarget \in BOOLEAN : Start(hasTarget)
           \/ Stop \/ PowerOff
           \/ \E s \in Sinks : Subscribe(s) \/ SubscribeOneshot(s) \/ Unsubscribe(s)
           \/ \E f \in Formats : SetFormat(f)

Interrupt == FrameInterrupt \/ ErrorInterrupt \/ TimeUp

ProducerStep == \/ ProducerTop \/ ProducerOff \/ ProducerIdle \/ ProducerWait
                \/ ServiceStops \/ ServiceRaster \/ ServiceJpeg
                \/ Teardown \/ RecoverCancelled \/ Recover

Next == Request \/ Interrupt \/ ProducerStep \/ Armed \/ ArmFailed

Spec == Init /\ [][Next]_vars

(* The producer thread runs (its wait ticks, and cam_lock is handed on), and *)
(* a start gets through its register writes.                                 *)
Fairness == SF_vars(ProducerStep) /\ WF_vars(Armed \/ ArmFailed)

FairSpec == Spec /\ Fairness

------------------------------------------------------------------------------
FlagTypes == /\ active \in BOOLEAN /\ stopReq \in BOOLEAN /\ err \in BOOLEAN
             /\ pending \in BOOLEAN /\ userOff \in BOOLEAN
             /\ target \in BOOLEAN /\ due \in BOOLEAN
CountTypes == /\ rapid \in 0 .. Giveup
              /\ streamSem \in 0 .. MaxPosts /\ startSem \in 0 .. MaxPosts
RegistryTypes == /\ subs \subseteq Sinks /\ attached \subseteq Sinks
                 /\ linked \subseteq Sinks \cup {Stat}
PlaceTypes == /\ fmt \in Formats
              /\ arming \in {"no", "caller", "producer"}
              /\ pc \in {"top", "off", "idle", "wait", "frame", "tick", "teardown",
                         "recover", "arming"}

TypeOK == FlagTypes /\ CountTypes /\ RegistryTypes /\ PlaceTypes

(* The registry and the pipeline never disagree: a sink is linked exactly    *)
(* when the registry says so, nothing is linked to a base that is off (the   *)
(* next start wipes the list), and a linked sink gets the format it consumes *)
(* -- through refused starts, failed arms, overruns and teardowns.           *)
RegistryMatchesPipeline ==
    /\ linked = IF active THEN attached \cup {Stat} ELSE {}
    /\ attached \subseteq linked \cap Compatible

(* A registered sink that fits the running base is attached to it: it never  *)
(* idles beside frames it asked for.                                         *)
CompatibleAttached == active => Compatible \subseteq attached

(* A oneshot subscriber does not outlive the base: once no recovery is due,  *)
(* none is left in the registry for a later start to attach again.           *)
NoGhost == ~active /\ ~pending => subs \cap Oneshots = {}

(* camera_stream_stop() is final: a recovery never brings the base back      *)
(* after it, whatever the stop raced with.                                   *)
StopIsFinal == active /\ userOff => stopReq

(* Whoever subscribed is where the base, its mode and its recovery put it:   *)
(* linked, waiting for a base that fits, or gone with the stream.            *)
RegistrySound == RegistryMatchesPipeline /\ CompatibleAttached /\ NoGhost

\* What the above rests on: a recovery is pending only while the base is off,
\* was not asked to be off and may still be tried; a start in progress holds
\* the lock with the base raised, and a caller's start has cleared the table.
LifecycleInv ==
    /\ pending => ~active /\ ~userOff
    /\ active \/ pending => rapid < Giveup
    /\ ~Unlocked => active
    /\ arming = "producer" <=> pc = "arming"
    /\ arming = "caller" => subs \cap Oneshots = {}

BaseInv == TypeOK /\ RegistryMatchesPipeline /\ CompatibleAttached /\ NoGhost
           /\ StopIsFinal /\ LifecycleInv

(* A running base has a producer: the start's wakeup is never lost, not even *)
(* to the teardown that drains both semaphores.                              *)
ProducerServes == active ~> pc # "idle" \/ ~active

(* Stop requests, errors and reached targets end the stream.                 *)
StreamEnds == active /\ ShouldStop ~> ~active \/ ~ShouldStop

(* A pending recovery is decided.                                            *)
RecoveryDecided == pending ~> ~pending

(* The producer brings every stream to its end, and back after an overrun or *)
(* not, whatever shells and interrupts do meanwhile.                         *)
StreamSettles == StreamEnds /\ RecoveryDecided

(* camera.c:2416: a oneshot sink that is still enabled although it is not    *)
(* attached has a recovery in flight (and waits for it).                     *)
WaitsForRecovery ==
    Unlocked /\ (subs \cap Oneshots) \ attached # {} => pending
=============================================================================
