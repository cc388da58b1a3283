-------------------------------- MODULE Dma2d --------------------------------
(***************************************************************************)
(* The Chrom-ART engine as port/ltdc/ltdc_display.c and                    *)
(* port/guix/guix_display.c share it: every fill, copy and blend runs      *)
(* under ltdc_lock, large ones wait for an interrupt and small ones poll,  *)
(* through one handle for the `lcd` commands and one for GUIX.             *)
(*                                                                         *)
(* ltdc_lock admits one transfer, so d2 stands for the thread inside; it   *)
(* interleaves with the engine and its interrupt. Abstracted: what is      *)
(* drawn. External: the HAL (a started transfer locks its handle, its      *)
(* completion or an abort unlocks it) and the engine, which ignores a new  *)
(* programme while an old one runs.                                        *)
(***************************************************************************)
EXTENDS Integers

CONSTANT D2MaxOps   \* bound: transfers
ASSUME D2Assumption == D2MaxOps \in Nat

Handles == {"hdma2d", "hdma2d_gui"}

VARIABLES
    d2,             \* the transfer under ltdc_lock
    locked, ready,  \* of each handle: __HAL_LOCK, and State == READY
    running,        \* CR.START: "none", "this" transfer, or an "old" one given up on
    flag,           \* "none", or the event raised: "tc" or "te"
    itOn,           \* the events that interrupt
    active,         \* dma2d_active
    d2Done,         \* the count of dma2d_done_sem
    finished,       \* ghost: how the engine ended this transfer
    excuse,         \* ghost: it was refused, was late, or erred
    abandoned,      \* ghost: a polled transfer was given up on while it ran
    d2Ops

engineVars == <<running, flag, itOn, finished>>
halVars == <<locked, ready>>
d2Vars == <<d2, halVars, engineVars, active, d2Done, excuse, abandoned, d2Ops>>

D2Idle == [pc |-> "idle"]

D2Init ==
    /\ d2 = D2Idle
    /\ locked = [h \in Handles |-> FALSE] /\ ready = [h \in Handles |-> TRUE]
    /\ running = "none" /\ flag = "none" /\ itOn = {} /\ active = "none" /\ d2Done = 0
    /\ finished = "no" /\ excuse = FALSE /\ abandoned = FALSE /\ d2Ops = 0

At(pc) == d2.pc = pc
Step(pc) == d2' = [d2 EXCEPT !.pc = pc]
Return(ok) == d2' = [d2 EXCEPT !.pc = "end", !.ok = ok]

------------------------------------------------------------------------------
\* The engine ends a transfer, well or with an error.
EngineEnds ==
    /\ running # "none" /\ running' = "none"
    /\ flag' \in {"tc", "te"}
    /\ finished' = IF running = "this" THEN flag' ELSE finished
    /\ excuse' = (excuse \/ flag' = "te")
    /\ UNCHANGED <<d2, halVars, itOn, active, d2Done, abandoned, d2Ops>>

\* DMA2D_IRQHandler(): to the handle in flight, and otherwise silence. The
\* HAL's handler masks the event that fired and no other.
D2Irq ==
    /\ flag \in itOn /\ flag' = "none"
    /\ IF active # "none"
       THEN /\ itOn' = itOn \ {flag} /\ d2Done' = d2Done + 1
            /\ locked' = [locked EXCEPT ![active] = FALSE]
            /\ ready' = [ready EXCEPT ![active] = (flag = "tc")]
       ELSE itOn' = {} /\ UNCHANGED <<halVars, d2Done>>
    /\ UNCHANGED <<d2, running, finished, active, excuse, abandoned, d2Ops>>

------------------------------------------------------------------------------
\* ltdc_dma2d_fill(), _blit(), guix_dma2d_fill(), _blit(), _blend(): HAL_DMA2D_Init()
\* would spin on a locked handle.
D2Begin ==
    /\ At("idle") /\ d2Ops < D2MaxOps /\ d2Ops' = d2Ops + 1
    /\ \E h \in Handles, big \in BOOLEAN, blend \in BOOLEAN :
          /\ blend => h = "hdma2d_gui"
          /\ d2' = [pc |-> "init", h |-> h, big |-> big, blend |-> blend, got |-> FALSE, ok |-> FALSE]
    /\ finished' = "no" /\ excuse' = FALSE
    /\ UNCHANGED <<halVars, running, flag, itOn, active, d2Done, abandoned>>

D2Configure ==
    /\ At("init") /\ ~ locked[d2.h]
    /\ ready' = [ready EXCEPT ![d2.h] = TRUE]
    /\ \/ Step(IF d2.big THEN "arm" ELSE "start") /\ UNCHANGED excuse
       \/ Return(FALSE) /\ excuse' = TRUE
    /\ UNCHANGED <<locked, engineVars, active, d2Done, abandoned, d2Ops>>

\* ltdc_dma2d_arm_it()
\* Mutant: a late post of an earlier transfer is not drained.
ArmUndrained ==
    /\ At("arm") /\ Step("start") /\ active' = d2.h
    /\ UNCHANGED <<d2Done, halVars, engineVars, excuse, abandoned, d2Ops>>
Arm ==
    /\ At("arm") /\ Step("start")
    /\ d2Done' = 0 /\ active' = d2.h
    /\ UNCHANGED <<halVars, engineVars, excuse, abandoned, d2Ops>>

\* HAL_DMA2D_Start(), HAL_DMA2D_Start_IT() and their refusal.
StartTransfer ==
    /\ At("start")
    /\ running' = IF running = "none" THEN "this" ELSE running
    /\ locked' = [locked EXCEPT ![d2.h] = TRUE] /\ ready' = [ready EXCEPT ![d2.h] = FALSE]
    /\ itOn' = IF d2.big THEN {"tc", "te"} ELSE itOn
    /\ Step(IF d2.big THEN "wait" ELSE "poll")
    /\ UNCHANGED <<flag, finished, active, d2Done, excuse, abandoned, d2Ops>>

StartRefused ==
    /\ At("start") /\ excuse' = TRUE
    /\ IF d2.big THEN Step("disarm") ELSE Return(FALSE)
    /\ UNCHANGED <<halVars, engineVars, active, d2Done, abandoned, d2Ops>>

\* ltdc_dma2d_wait_it(): a post, or 30 ms without one.
WentWell(got) == got /\ ready[d2.h]
WaitIt ==
    /\ At("wait")
    /\ LET got == d2Done > 0 IN
       /\ d2Done' = IF got THEN d2Done - 1 ELSE 0
       /\ d2' = [d2 EXCEPT !.pc = "disarm", !.got = got, !.ok = WentWell(got)]
       /\ excuse' = (excuse \/ ~ got)
    /\ UNCHANGED <<halVars, engineVars, active, abandoned, d2Ops>>

\* dma2d_disarm(): the interrupt is masked and the handle dropped; what did
\* not complete is aborted even if the engine has stopped by itself.
MustAbort(got) == ~ got \/ running # "none"
Disarm ==
    /\ At("disarm") /\ Step("end")
    /\ itOn' = {} /\ active' = "none" /\ flag' = "none"
    /\ IF MustAbort(d2.got)
       THEN /\ running' = "none"
            /\ locked' = [locked EXCEPT ![d2.h] = FALSE] /\ ready' = [ready EXCEPT ![d2.h] = TRUE]
       ELSE UNCHANGED <<running, halVars>>
    /\ UNCHANGED <<finished, d2Done, excuse, abandoned, d2Ops>>

\* HAL_DMA2D_PollForTransfer(): the flag, or 30 ms without it. Only GUIX's
\* fills and copies abort a transfer they give up on.
Poll ==
    /\ At("poll")
    /\ locked' = [locked EXCEPT ![d2.h] = FALSE]
    /\ IF flag # "none"
       THEN /\ Return(flag = "tc") /\ flag' = "none" /\ UNCHANGED <<running, excuse, abandoned>>
       ELSE /\ Return(FALSE) /\ excuse' = TRUE /\ UNCHANGED flag
            /\ IF d2.h = "hdma2d_gui" /\ ~ d2.blend
               THEN running' = "none" /\ UNCHANGED abandoned
               ELSE /\ running' = IF running = "this" THEN "old" ELSE running
                    /\ abandoned' = (abandoned \/ running # "none")
    /\ ready' = [ready EXCEPT ![d2.h] = TRUE]
    /\ UNCHANGED <<itOn, finished, active, d2Done, d2Ops>>

D2Return ==
    /\ At("end") /\ d2' = D2Idle
    /\ UNCHANGED <<halVars, engineVars, active, d2Done, excuse, abandoned, d2Ops>>

D2Thread == D2Configure \/ Arm \/ StartTransfer \/ StartRefused \/ WaitIt \/ Disarm \/ Poll \/ D2Return
D2Next == EngineEnds \/ D2Irq \/ D2Begin \/ D2Thread
D2Spec == D2Init /\ [][D2Next]_d2Vars

------------------------------------------------------------------------------
D2TypeOK ==
    /\ d2.pc \in {"idle", "init", "arm", "start", "wait", "poll", "disarm", "end"}
    /\ locked \in [Handles -> BOOLEAN] /\ ready \in [Handles -> BOOLEAN]
    /\ running \in {"none", "this", "old"} /\ flag \in {"none", "tc", "te"}
    /\ itOn \subseteq {"tc", "te"} /\ active \in Handles \cup {"none"} /\ d2Done \in 0 .. 2

\* A transfer that reports success was completed by the engine, and one that
\* reports failure failed: it is never answered by the completion of another,
\* unless a polled one was left running (`abandoned`). Between transfers
\* nothing interrupts and no handle stays locked.
Dma2dOwn ==
    /\ D2TypeOK
    /\ At("end") /\ ~ abandoned =>
          IF d2.ok THEN finished = "tc" ELSE excuse
    /\ At("idle") => active = "none" /\ itOn = {} /\ \A h \in Handles : ~ locked[h]
------------------------------------------------------------------------------
(* Why Dma2dOwn holds, for any number of transfers. *)

Transfers == [pc : {"init", "arm", "start", "wait", "poll", "disarm", "end"}, h : Handles,
              big : BOOLEAN, blend : BOOLEAN, got : BOOLEAN, ok : BOOLEAN]
InFlight == d2.pc \in {"wait", "disarm"}

\* The interrupt path serves one transfer: nothing is armed before it starts
\* or after it is disarmed, and no post of an earlier one is left.
ArmInv ==
    /\ d2 = D2Idle \/ d2 \in Transfers
    /\ (At("arm") \/ InFlight => d2.big) /\ (At("poll") => ~ d2.big)
    /\ active = IF InFlight \/ (At("start") /\ d2.big) THEN d2.h ELSE "none"
    /\ ~ InFlight => itOn = {}
    /\ At("start") /\ d2.big => d2Done = 0
    /\ InFlight => d2Done + (IF flag = "none" THEN 0 ELSE 1) + (IF running = "none" THEN 0 ELSE 1) \in 0 .. 2

\* Only the handle of the transfer under way is locked, and a post unlocked it.
LockInv ==
    /\ \A h \in Handles : locked[h] => (InFlight \/ At("poll")) /\ h = d2.h
    /\ d2.pc \in {"init", "arm", "start", "wait"} => ~ d2.got /\ ~ d2.ok
    /\ At("wait") /\ d2Done > 0 => ~ locked[d2.h]
    /\ At("disarm") /\ d2.got => ~ locked[d2.h]

\* Until a polled transfer is left running, the engine runs at most this one,
\* and what was raised, posted and recorded is how it ended.
EndInv ==
    /\ finished \in {"no", "tc", "te"} /\ (finished = "te" => excuse)
    /\ ~ abandoned =>
          /\ d2.pc \in {"idle", "init", "arm", "start", "end"} => running = "none" /\ flag = "none"
          /\ d2.pc \in {"init", "arm", "start"} => finished = "no"
          /\ d2.pc \in {"wait", "poll"} =>
                \/ running = "this" /\ flag = "none" /\ finished = "no" /\ (At("wait") => d2Done = 0)
                \/ running = "none" /\ flag # "none" /\ finished = flag /\ (At("wait") => d2Done = 0)
                \/ At("wait") /\ running = "none" /\ flag = "none" /\ d2Done = 1
                   /\ finished # "no" /\ (ready[d2.h] <=> finished = "tc")
          /\ d2.pc \in {"disarm", "end"} => IF d2.ok THEN finished = "tc" /\ running = "none" ELSE excuse

D2Inv == Dma2dOwn /\ ArmInv /\ LockInv /\ EndInv
==============================================================================
