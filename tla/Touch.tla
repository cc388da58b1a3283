--------------------------------- MODULE Touch ---------------------------------
(***************************************************************************)
(* The touch panel: port/touch/touch.c (interrupt-driven I2C transactions, *)
(* the INT wake), port/guix/guix_touch.c (the input thread) and the        *)
(* `touch` command. The input thread outranks the shell: what it does      *)
(* between two waits is one step. Abstracted: coordinates and more than    *)
(* one finger. External: the FT5336, which signals a new contact by an     *)
(* edge when told to and whose first samples of a contact may be off the   *)
(* panel, and the HAL's transfers.                                         *)
(***************************************************************************)
EXTENDS Integers

CONSTANTS Settle,       \* GUIX_TOUCH_SETTLE
          Sentinels,    \* samples of a new contact that are off the panel
          ToMaxPresses, ToMaxFaults, ToMaxStops   \* bounds
ASSUME TouchAssumption ==
    /\ Settle \in Nat /\ Sentinels \in Nat /\ Sentinels + ToMaxFaults < Settle
    /\ ToMaxPresses \in Nat /\ ToMaxFaults \in Nat /\ ToMaxStops \in Nat

Callers == {"input", "command"}
Txns == {"gmode", "td", "point"}

VARIABLES
    finger, unsettled,   \* the contact, and its samples that are still off the panel
    trigger, irqArmed,   \* FT5336 in trigger mode; touch_irq_armed and the EXTI line
    evtSem,              \* touch_evt_sem
    bus,                 \* who holds touch_lock, for which transaction
    i2cActive, i2cErr, i2cDone,   \* touch_i2c_active, _err, and the count of _done
    wire,                \* the transfer: "none", "runs", or how it ended, "ok" or "err"
    inp,                 \* the input thread: where it is
    touchActive, irqReady, wasDown, settle,   \* its flags
    cmd,                 \* the `touch` command, and the shell's `gui stop`
    edgeLost,            \* ghost: the edge of this contact was not heard, drained, or is spent
    toPresses, toFaults, toStops

panelVars == <<finger, unsettled, trigger, irqArmed>>
i2cVars == <<bus, i2cActive, i2cErr, i2cDone, wire>>
inputVars == <<inp, irqReady, wasDown, settle>>
toCounts == <<toPresses, toFaults, toStops>>
toVars == <<panelVars, evtSem, i2cVars, inputVars, touchActive, cmd, edgeLost, toCounts>>

Free == [by |-> "none"]

ToInit ==
    /\ finger = "up" /\ unsettled = 0 /\ trigger = FALSE /\ irqArmed = FALSE /\ evtSem = 0
    /\ bus = Free /\ i2cActive = FALSE /\ i2cErr = FALSE /\ i2cDone = 0 /\ wire = "none"
    /\ inp = "top" /\ touchActive = FALSE /\ irqReady = FALSE /\ wasDown = FALSE /\ settle = 0
    /\ cmd = "idle" /\ edgeLost = FALSE /\ toPresses = 0 /\ toFaults = 0 /\ toStops = 0

------------------------------------------------------------------------------
(* The panel. *)

Press ==
    /\ finger = "up" /\ toPresses < ToMaxPresses /\ toPresses' = toPresses + 1
    /\ finger' = "down" /\ unsettled' \in 0 .. Sentinels
    /\ LET heard == trigger /\ irqArmed IN
       edgeLost' = ~ heard /\ evtSem' = IF heard THEN evtSem + 1 ELSE evtSem
    /\ UNCHANGED <<trigger, irqArmed, i2cVars, inputVars, touchActive, cmd, toFaults, toStops>>

Lift ==
    /\ finger = "down" /\ finger' = "up"
    /\ UNCHANGED <<unsettled, trigger, irqArmed, evtSem, i2cVars, inputVars, touchActive, cmd, edgeLost, toCounts>>

------------------------------------------------------------------------------
(* touch_rd(), touch_wr(): one transaction, under touch_lock. *)

\* The lock, the drain, and the start of a transfer, which may be refused.
Begin(who, txn) ==
    /\ bus = Free /\ i2cDone' = 0 /\ i2cErr' = FALSE
    /\ bus' = [by |-> who, txn |-> txn, pc |-> "wait", ok |-> FALSE]
    /\ i2cActive' = TRUE /\ wire' = "runs"
Answers(who, txn) == bus.by = who /\ bus.txn = txn /\ bus.pc = "done"

\* I2C3's interrupts and their callbacks, which only an active transfer heeds.
I2cIrq ==
    /\ wire = "runs"
    /\ \/ wire' = "ok" /\ UNCHANGED <<i2cErr, toFaults>>
       \/ toFaults < ToMaxFaults /\ toFaults' = toFaults + 1 /\ wire' = "err" /\ i2cErr' = (i2cErr \/ i2cActive)
    /\ i2cDone' = IF i2cActive THEN i2cDone + 1 ELSE i2cDone
    /\ UNCHANGED <<panelVars, evtSem, bus, i2cActive, inputVars, touchActive, cmd, edgeLost, toPresses, toStops>>

\* touch_i2c_wait(): the post, or 100 ms without one; the bus is initialised
\* again after a timeout or an error.
Verdict == ~ i2cErr
I2cWait ==
    /\ bus # Free /\ bus.pc = "wait"
    /\ \/ /\ i2cDone > 0 /\ UNCHANGED toFaults
          /\ bus' = [bus EXCEPT !.pc = "done", !.ok = Verdict]
          /\ i2cDone' = (IF i2cErr THEN 0 ELSE i2cDone - 1) /\ i2cActive' = FALSE
       \/ /\ i2cDone = 0 /\ toFaults < ToMaxFaults /\ toFaults' = toFaults + 1
          /\ bus' = [bus EXCEPT !.pc = "late"] /\ UNCHANGED <<i2cDone, i2cActive>>
    /\ UNCHANGED <<panelVars, evtSem, i2cErr, wire, inputVars, touchActive, cmd, edgeLost, toPresses, toStops>>

I2cRecover ==
    /\ bus # Free /\ bus.pc = "late" /\ bus' = [bus EXCEPT !.pc = "done"]
    /\ i2cDone' = 0 /\ i2cActive' = FALSE /\ wire' = "none"
    /\ UNCHANGED <<panelVars, evtSem, i2cErr, inputVars, touchActive, cmd, edgeLost, toCounts>>

------------------------------------------------------------------------------
(* guix_touch_entry(). *)

DrainEvents == evtSem' = 0 /\ edgeLost' = (edgeLost \/ (evtSem > 0 /\ finger = "down"))

\* Parked: a held press is released, the wake disarmed.
Parks ==
    /\ inp = "top" /\ ~ touchActive
    /\ wasDown' = FALSE /\ irqReady' = FALSE /\ settle' = 0
    /\ irqArmed' = (irqArmed /\ ~ irqReady)
    /\ UNCHANGED <<finger, unsettled, trigger, evtSem, i2cVars, inp, touchActive, cmd, edgeLost, toCounts>>

\* touch_irq_enable(): the line first, then the trigger mode of the FT5336.
Arms ==
    /\ inp = "top" /\ touchActive /\ ~ irqReady
    /\ DrainEvents /\ irqArmed' = TRUE
    /\ Begin("input", "gmode") /\ inp' = "arming"
    /\ UNCHANGED <<finger, unsettled, trigger, irqReady, wasDown, settle, touchActive, cmd, toCounts>>

\* Mutant: the wake is trusted whether or not the panel was told.
WakeableAlways(ok) == TRUE
Wakeable(ok) == ok
Armed ==
    /\ inp = "arming" /\ Answers("input", "gmode") /\ bus' = Free
    /\ irqReady' = Wakeable(bus.ok) /\ irqArmed' = Wakeable(bus.ok) /\ trigger' = (trigger \/ wire = "ok")
    /\ inp' = "idle"
    /\ UNCHANGED <<finger, unsettled, evtSem, i2cActive, i2cErr, i2cDone, wire, wasDown, settle,
                   touchActive, cmd, edgeLost, toCounts>>

\* With no finger down and no window open: the wake, or a poll without one.
ToIdle ==
    /\ inp = "top" /\ touchActive /\ irqReady /\ inp' = "idle"
    /\ UNCHANGED <<panelVars, evtSem, i2cVars, irqReady, wasDown, settle, touchActive, cmd, edgeLost, toCounts>>

Wakes ==
    /\ inp = "idle"
    /\ IF wasDown \/ settle > 0
       THEN inp' = "read" /\ UNCHANGED <<evtSem, settle>>
       ELSE /\ IF irqReady THEN evtSem > 0 /\ evtSem' = evtSem - 1 ELSE UNCHANGED evtSem
            /\ IF touchActive THEN inp' = "read" /\ settle' = Settle ELSE inp' = "top" /\ UNCHANGED settle
    /\ UNCHANGED <<panelVars, i2cVars, irqReady, wasDown, touchActive, cmd, edgeLost, toCounts>>

\* touch_read(): the status, and the points it counts.
ReadsStatus ==
    /\ inp = "read" /\ Begin("input", "td") /\ inp' = "status"
    /\ UNCHANGED <<panelVars, evtSem, irqReady, wasDown, settle, touchActive, cmd, edgeLost, toCounts>>

ReadsPoint ==
    /\ inp = "status" /\ Answers("input", "td") /\ bus.ok /\ finger = "down"
    /\ bus' = [bus EXCEPT !.txn = "point", !.pc = "wait", !.ok = FALSE]
    /\ i2cDone' = 0 /\ i2cErr' = FALSE /\ i2cActive' = TRUE /\ wire' = "runs"
    /\ inp' = "point"
    /\ UNCHANGED <<panelVars, evtSem, irqReady, wasDown, settle, touchActive, cmd, edgeLost, toCounts>>

\* A valid point: PEN_DOWN or PEN_DRAG.
Touched ==
    /\ inp = "point" /\ Answers("input", "point") /\ bus.ok /\ unsettled = 0
    /\ bus' = Free /\ wasDown' = TRUE /\ settle' = 0 /\ inp' = "top"
    /\ UNCHANGED <<panelVars, evtSem, i2cActive, i2cErr, i2cDone, wire, irqReady, touchActive, cmd,
                   edgeLost, toCounts>>

\* None: PEN_UP after a press, or the window shrinks.
Untouched ==
    /\ \/ inp = "status" /\ Answers("input", "td") /\ (~ bus.ok \/ finger = "up")
       \/ inp = "point" /\ Answers("input", "point") /\ (~ bus.ok \/ unsettled > 0)
    /\ bus' = Free /\ inp' = "top" /\ wasDown' = FALSE
    /\ unsettled' = IF unsettled > 0 THEN unsettled - 1 ELSE 0
    /\ settle' = IF wasDown THEN 0 ELSE settle - 1
    /\ evtSem' = IF settle' = 0 THEN 0 ELSE evtSem
    /\ edgeLost' = (edgeLost \/ (finger = "down" /\ (wasDown \/ (settle' = 0 /\ evtSem > 0))))
    /\ UNCHANGED <<finger, trigger, irqArmed, i2cActive, i2cErr, i2cDone, wire, irqReady, touchActive, cmd, toCounts>>

------------------------------------------------------------------------------
(* The shell. *)

\* guix_touch_start() and guix_touch_set_active(); guix_stop() then kicks the wake.
TouchStart ==
    /\ ~ touchActive /\ cmd # "stop" /\ toStops < ToMaxStops /\ touchActive' = TRUE
    /\ UNCHANGED <<panelVars, evtSem, i2cVars, inputVars, cmd, edgeLost, toCounts>>

TouchStop ==
    /\ touchActive /\ cmd = "idle" /\ toStops < ToMaxStops /\ toStops' = toStops + 1
    /\ touchActive' = FALSE /\ cmd' = "stop"
    /\ UNCHANGED <<panelVars, evtSem, i2cVars, inputVars, edgeLost, toPresses, toFaults>>

\* Mutant: the stop does not wake the thread.
KickedNot == evtSem
Kicked == evtSem + 1
TouchKick ==
    /\ cmd = "stop" /\ cmd' = "idle" /\ evtSem' = Kicked
    /\ UNCHANGED <<panelVars, i2cVars, inputVars, touchActive, edgeLost, toCounts>>

\* `touch probe`, `touch read`: refused when the UI runs as they begin.
CommandBegins ==
    /\ cmd = "idle" /\ ~ touchActive /\ cmd' = "reading" /\ Begin("command", "td")
    /\ UNCHANGED <<panelVars, evtSem, inputVars, touchActive, edgeLost, toCounts>>

CommandEnds ==
    /\ cmd = "reading" /\ Answers("command", "td") /\ cmd' = "idle" /\ bus' = Free
    /\ UNCHANGED <<panelVars, evtSem, i2cActive, i2cErr, i2cDone, wire, inputVars, touchActive, edgeLost, toCounts>>

InputThread == Parks \/ Arms \/ Armed \/ ToIdle \/ Wakes \/ ReadsStatus \/ ReadsPoint \/ Touched \/ Untouched
Shell == TouchKick \/ CommandEnds
ToNext == Press \/ Lift \/ I2cIrq \/ I2cWait \/ I2cRecover \/ InputThread \/ TouchStart \/ TouchStop \/ CommandBegins \/ Shell
ToSpec == ToInit /\ [][ToNext]_toVars
          /\ SF_toVars(InputThread) /\ WF_toVars(Shell) /\ WF_toVars(I2cIrq) /\ WF_toVars(I2cWait \/ I2cRecover)

------------------------------------------------------------------------------
ToTypeOK ==
    /\ finger \in {"up", "down"} /\ bus.by \in Callers \cup {"none"} /\ i2cDone \in 0 .. 2
    /\ inp \in {"top", "arming", "idle", "read", "status", "point"} /\ settle \in 0 .. Settle

\* A transaction that reports success was completed by the panel, without an
\* error, and one left behind posts nothing to the next; the thread never
\* waits for edges the panel was not told to give.
TouchSound ==
    /\ ToTypeOK
    /\ bus # Free /\ bus.pc = "done" /\ bus.ok => wire = "ok"
    /\ inp = "idle" /\ irqReady => trigger /\ irqArmed

\* A stop parks the thread, wherever it waits, and a contact that is held is
\* reported, unless it began unheard, the drain after a press or a window
\* took its edge, or a failed read ended its press.
InputFlows ==
    /\ ~ touchActive ~> (touchActive \/ (~ irqReady /\ ~ wasDown))
    /\ (finger = "down" /\ touchActive /\ irqReady /\ ~ edgeLost)
          ~> (wasDown \/ finger = "up" \/ ~ touchActive \/ edgeLost)

------------------------------------------------------------------------------
(* Why TouchSound holds, for any number of presses and faults. *)

\* A transfer posts once, while somebody listens, and an error is noted
\* before the post that tells of it.
BusInv ==
    /\ bus = Free \/ bus \in [by : Callers, txn : Txns, pc : {"wait", "late", "done"}, ok : BOOLEAN]
    /\ i2cDone \in 0 .. 1
    /\ wire = "runs" => i2cDone = 0
    /\ bus # Free /\ bus.pc = "wait" => /\ i2cActive /\ ~ bus.ok /\ wire \in {"runs", "ok", "err"}
                                        /\ wire = "err" => i2cErr
    /\ bus # Free /\ bus.pc = "late" => ~ bus.ok

\* The wake is trusted only where both the line and the panel were told; a
\* read is owed to a press or to an open window.
InputInv ==
    /\ irqReady => trigger /\ irqArmed
    /\ inp = "arming" => ~ irqReady
    /\ inp \in {"read", "status", "point"} => wasDown \/ settle > 0

ToInv == TouchSound /\ BusInv /\ InputInv
==============================================================================
