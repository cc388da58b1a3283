------------------------------- MODULE QspiFlash -------------------------------
(***************************************************************************)
(* The QSPI NOR flash: port/qspi/qspi_flash.c, the LevelX callbacks of     *)
(* port/levelx/lx_nor_qspi_driver.c and the raw operations of              *)
(* shell/cmds/cmd_qspi.c.                                                  *)
(*                                                                         *)
(* qspi_lock admits one operation: qf is the one inside, and its steps     *)
(* interleave with the device, which executes one command at a time and    *)
(* ignores what it is sent meanwhile, and with warm resets of the          *)
(* processor, which the device does not notice. A cell is an erased word   *)
(* or what some write left there. The area is one erase unit.              *)
(***************************************************************************)
EXTENDS Integers

CONSTANTS QfPage, QfPages,   \* cells of a page, pages of the area
          QfMaxOps, QfMaxFaults, QfMaxResets   \* bounds
ASSUME QfAssumption ==
    /\ QfPage \in Nat \ {0} /\ QfPages \in Nat \ {0}
    /\ QfMaxOps \in Nat /\ QfMaxFaults \in Nat /\ QfMaxResets \in Nat

Cells == 0 .. QfPage * QfPages - 1

VARIABLES
    mem,       \* the cells: "ff", "new" (what the operation writes), "old"
    wip,       \* WIP: the cells being programmed or erased, and by what
    wel, fsr,  \* the write enable latch, and a sticky error flag
    vcr,       \* "quad", "default": the dummy cycles the device uses
    qready, quad,   \* qspi_ready; quad_mode and read_dummy
    qf,        \* the operation under the lock
    before,    \* ghost: mem when it began
    met,       \* ghost: the operation found the device working
    left,      \* ghost: an operation was given up on while the device worked
    qfOps, qfFaults, qfResets

chipVars == <<mem, wip, wel, fsr, vcr>>
readyVars == <<qready, quad>>
ghostVars == <<before, met, left>>
qfCounts == <<qfOps, qfFaults, qfResets>>
qfVars == <<chipVars, readyVars, qf, ghostVars, qfCounts>>

Wip(what, cells) == [what |-> what, cells |-> cells]
NoWip == Wip("no", {})
Working == wip.what # "no"

QfIdle == [pc |-> "idle"]
NewOp(kind, at, len) == [pc |-> "wren", kind |-> kind, from |-> at, at |-> at, len |-> len, ok |-> FALSE]
QfAt(pc) == qf.pc = pc
QfGo(pc) == qf' = [qf EXCEPT !.pc = pc]
QfEnds(ok) == qf' = [qf EXCEPT !.pc = "end", !.ok = ok]
SettingUp == qf.kind \in {"quad", "default"}

QfInit ==
    /\ mem = [c \in Cells |-> "ff"] /\ wip = NoWip /\ wel = FALSE /\ fsr = FALSE /\ vcr = "default"
    /\ qready = "booting" /\ quad = FALSE /\ qf = NewOp("quad", 0, 0)
    /\ before = mem /\ met = FALSE /\ left = FALSE
    /\ qfOps = 0 /\ qfFaults = 0 /\ qfResets = 0

------------------------------------------------------------------------------
(* The device. *)

\* It ends what it does, maybe with a program, erase or protection error.
QfDone ==
    /\ Working /\ wip' = NoWip /\ wel' = FALSE /\ left' = FALSE
    /\ \/ /\ mem' = [c \in Cells |-> IF c \notin wip.cells THEN mem[c]
                                     ELSE IF wip.what = "erase" THEN "ff"
                                     ELSE IF mem[c] = "ff" THEN "new" ELSE "old"]
          /\ UNCHANGED <<fsr, qfFaults>>
       \/ /\ wip.what # "vcr" /\ qfFaults < QfMaxFaults /\ qfFaults' = qfFaults + 1
          /\ fsr' = TRUE /\ mem' = [c \in Cells |-> IF c \in wip.cells THEN "old" ELSE mem[c]]
    /\ UNCHANGED <<vcr, readyVars, qf, before, met, qfOps, qfResets>>

\* A transfer on the bus fails (HAL_QSPI_Command(), _Receive(), _Transmit()).
BusFails == qfFaults < QfMaxFaults /\ qfFaults' = qfFaults + 1

\* What an operation leaves when it returns.
Leaves == left' = (left \/ Working)

------------------------------------------------------------------------------
(* The driver. *)

\* qspi_flash_read(), _write() with its page program loop, erase_common():
\* op_lock() refuses a driver that is not up.
QfBegin ==
    /\ QfAt("idle") /\ qready = "yes" /\ qfOps < QfMaxOps /\ qfOps' = qfOps + 1
    /\ \/ \E at \in Cells, len \in 1 .. QfPage + 1 :
             at + len - 1 \in Cells /\ qf' = NewOp("program", at, len)
       \/ qf' = NewOp("erase", 0, 0)
       \/ qf' = [NewOp("read", 0, 0) EXCEPT !.pc = "cmd"]
    /\ mem' = [c \in Cells |-> IF mem[c] = "ff" THEN "ff" ELSE "old"]
    /\ before' = mem' /\ met' = Working
    /\ UNCHANGED <<wip, wel, fsr, vcr, readyVars, left, qfFaults, qfResets>>

\* write_enable(): the latch is set, and read back.
WriteEnable ==
    /\ QfAt("wren")
    /\ \/ QfGo("wel") /\ wel' = (wel \/ ~ Working) /\ met' = (met \/ Working) /\ UNCHANGED <<left, qfFaults>>
       \/ BusFails /\ QfEnds(FALSE) /\ Leaves /\ UNCHANGED <<wel, met>>
    /\ UNCHANGED <<mem, wip, fsr, vcr, readyVars, before, qfOps, qfResets>>

ReadBackWel ==
    /\ QfAt("wel")
    /\ \/ UNCHANGED qfFaults /\ IF wel THEN QfGo("cmd") /\ UNCHANGED left ELSE QfEnds(FALSE) /\ Leaves
       \/ BusFails /\ QfEnds(FALSE) /\ Leaves
    /\ UNCHANGED <<chipVars, readyVars, before, met, qfOps, qfResets>>

\* One page program never crosses a page: the device would wrap inside it.
\* Mutant: the rest is sent at once.
ChunkOfRest(at, len) == len
Chunk1(at, len) ==
    LET room == QfPage - (at % QfPage) IN IF len > room THEN room ELSE len
Wrapped(at, len) == {(at \div QfPage) * QfPage + ((at + i) % QfPage) : i \in 0 .. len - 1}

\* The command and its data, if the device listens.
QfCommand ==
    /\ QfAt("cmd")
    /\ met' = (met \/ Working)
    /\ \/ LET cells == IF qf.kind = "erase" THEN Cells
                       ELSE IF qf.kind = "program" THEN Wrapped(qf.at, Chunk1(qf.at, qf.len)) ELSE {}
          IN /\ IF Working \/ ~ wel \/ qf.kind = "read" THEN UNCHANGED <<wip, vcr>>
                ELSE /\ wip' = Wip(IF SettingUp THEN "vcr" ELSE qf.kind, cells)
                     /\ vcr' = IF SettingUp THEN qf.kind ELSE vcr
             /\ IF qf.kind = "read" THEN QfEnds(TRUE) /\ Leaves ELSE QfGo("wait") /\ UNCHANGED left
             /\ UNCHANGED qfFaults
       \/ BusFails /\ QfEnds(FALSE) /\ Leaves /\ UNCHANGED <<wip, vcr>>
    /\ UNCHANGED <<mem, wel, fsr, readyVars, before, qfOps, qfResets>>

\* wait_ready(): until WIP clears, for a bounded time.
Ready == ~ Working
WaitReady ==
    /\ QfAt("wait")
    /\ \/ Ready /\ QfGo(IF SettingUp THEN "verify" ELSE "fsr") /\ UNCHANGED <<left, qfFaults>>
       \/ Working /\ BusFails /\ QfEnds(FALSE) /\ Leaves
    /\ UNCHANGED <<chipVars, readyVars, before, met, qfOps, qfResets>>

\* check_flag_status(), and the next page.
CheckFlags ==
    /\ QfAt("fsr")
    /\ \/ /\ fsr' = FALSE /\ UNCHANGED qfFaults
          /\ LET n == Chunk1(qf.at, qf.len) IN
             IF ~ fsr /\ qf.kind = "program" /\ n < qf.len
             THEN qf' = [qf EXCEPT !.pc = "wren", !.at = @ + n, !.len = @ - n] /\ UNCHANGED left
             ELSE QfEnds(~ fsr) /\ Leaves
       \/ BusFails /\ QfEnds(FALSE) /\ Leaves /\ UNCHANGED fsr
    /\ UNCHANGED <<mem, wip, wel, vcr, readyVars, before, met, qfOps, qfResets>>

QfReturn ==
    /\ QfAt("end") /\ ~ SettingUp /\ qf' = QfIdle
    /\ UNCHANGED <<chipVars, readyVars, ghostVars, qfCounts>>

------------------------------------------------------------------------------
(* quad_setup() before the driver is published. *)

\* write_reg_verified(): the register is read back.
Verified == vcr = qf.kind
VerifyVcr ==
    /\ QfAt("verify")
    /\ \/ QfEnds(Verified) /\ UNCHANGED qfFaults
       \/ BusFails /\ QfEnds(FALSE)
    /\ Leaves
    /\ UNCHANGED <<chipVars, readyVars, before, met, qfOps, qfResets>>

\* Quad, or else the default, or else no driver.
QuadSetup ==
    /\ QfAt("end") /\ SettingUp
    /\ IF qf.ok THEN qready' = "yes" /\ quad' = (qf.kind = "quad") /\ qf' = QfIdle
       ELSE IF qf.kind = "quad" THEN qf' = NewOp("default", 0, 0) /\ UNCHANGED readyVars
       ELSE qready' = "off" /\ qf' = QfIdle /\ UNCHANGED quad
    /\ UNCHANGED <<chipVars, ghostVars, qfCounts>>

\* A warm reset, whatever the device is doing.
QfReset ==
    /\ qfResets < QfMaxResets /\ qfResets' = qfResets + 1
    /\ qready' = "booting" /\ quad' = FALSE /\ qf' = NewOp("quad", 0, 0)
    /\ met' = FALSE /\ before' = mem /\ Leaves
    /\ UNCHANGED <<chipVars, qfOps, qfFaults>>

QfDriver == WriteEnable \/ ReadBackWel \/ QfCommand \/ WaitReady \/ CheckFlags \/ QfReturn
            \/ VerifyVcr \/ QuadSetup
QfNext == QfDone \/ QfBegin \/ QfDriver \/ QfReset
QfSpec == QfInit /\ [][QfNext]_qfVars

------------------------------------------------------------------------------
QfTypeOK ==
    /\ mem \in [Cells -> {"ff", "new", "old"}] /\ wip.what \in {"no", "program", "erase", "vcr"}
    /\ vcr \in {"quad", "default"} /\ qready \in {"booting", "yes", "off"}

\* A published driver reads with the dummy cycles the device uses, even after
\* a reset that struck while the device was erasing.
TimingKnown == qready = "yes" => (vcr = "quad") = quad

\* What an operation that succeeds promises, unless it met a device that an
\* earlier one had left working: an erase leaves every cell blank, a program
\* fills the blank cells of its range, and no other cell changes. And only an
\* operation that was given up on leaves the device working.
QfPromise ==
    /\ QfAt("end") /\ qf.ok /\ ~ met =>
          /\ qf.kind = "erase" => \A c \in Cells : mem[c] = "ff"
          /\ qf.kind = "program" =>
               \A c \in Cells : IF c \in qf.from .. qf.at + qf.len - 1
                               THEN before[c] = "ff" => mem[c] = "new"
                               ELSE mem[c] = before[c]
    /\ QfAt("idle") /\ Working => left
QspiSound == QfTypeOK /\ TimingKnown /\ QfPromise
==============================================================================
