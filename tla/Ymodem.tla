--------------------------------- MODULE Ymodem ------------------------------
(***************************************************************************)
(* svc/ymodem.c: the YMODEM sender, as shell/cmds/cmd_xfer.c runs it over  *)
(* the console, against a receiver on a serial line that loses and garbles *)
(* what it carries.  The sender alternates put() and getc(); a step is one *)
(* of these calls with the decision on what it returned.                   *)
(*                                                                         *)
(* The receiver is external: it acknowledges what it wants and what it     *)
(* just had, refuses a garbled block, cancels on a block out of order, and *)
(* may answer the first EOT with NAK.  Abstracted: a block is its number,  *)
(* the CRC a flag of the message, bytes and their padding are left out.    *)
(***************************************************************************)
EXTENDS Integers, Sequences

CONSTANTS
    NBlocks,    \* data blocks of the file
    BlockMod,   \* 256: the block number is a byte
    Retries,    \* YM_HANDSHAKE_RETRIES, YM_BLOCK_RETRIES
    RcvRetries, \* bound: how often the receiver asks before it gives up
    MaxFaults,  \* bound: losses, garblings and aborts
    Prompt      \* replies come within the sender's timeouts, and before stray bytes

ASSUME YmAssumption ==
    /\ NBlocks \in Nat /\ BlockMod \in Nat \ {0, 1, 2}
    /\ Retries \in Nat /\ RcvRetries \in Nat /\ MaxFaults \in Nat /\ Prompt \in BOOLEAN

VARIABLES
    ymPhase,    \* the part of ym_run() the sender is in
    ymMode,     \* "put", "get", "can" (is_double_can()) or "end"
    ymTries,    \* attempts, or timeouts
    ymBlock,    \* the data block under way
    ymResult,   \* what ymodem_send() returns
    toPC,       \* messages on their way to the receiver
    toBoard,    \* bytes on their way to the sender
    rcv,        \* the receiver's phase
    got,        \* how many data blocks it has stored
    asked,      \* how often it asked again
    faults

sender == <<ymPhase, ymMode, ymTries, ymBlock, ymResult>>
receiver == <<rcv, got, asked>>
ymVars == <<sender, toPC, toBoard, receiver, faults>>

Awaits == [start |-> "C", name |-> "ACK", first |-> "C", data |-> "ACK",
           eot |-> "ACK", last |-> "C", null |-> "ACK"]
Message ==
    CASE ymPhase = "data" -> [kind |-> "data", n |-> ymBlock % BlockMod]
      [] OTHER -> [kind |-> ymPhase, n |-> 0]

YmInit ==
    /\ ymPhase = "start" /\ ymMode = "get" /\ ymTries = 0 /\ ymBlock = 0
    /\ ymResult = "none"
    /\ toPC = <<>> /\ toBoard = <<>>
    /\ rcv = "start" /\ got = 0 /\ asked = 0 /\ faults = 0

------------------------------------------------------------------------------
\* Every exit but YM_OK emits the cancel sequence.
Finish(result) ==
    /\ ymResult' = result /\ ymMode' = "end"
    /\ toPC' = IF result = "OK" THEN toPC ELSE Append(toPC, [kind |-> "CAN", n |-> 0])
    /\ UNCHANGED <<ymPhase, ymTries, ymBlock>>

YmEnter(phase, block) ==
    /\ ymPhase' = phase /\ ymBlock' = block /\ ymTries' = 0
    /\ ymMode' = IF Awaits[phase] = "C" THEN "get" ELSE "put"
    /\ UNCHANGED <<ymResult, toPC>>

DataOrEot(block) ==
    IF block <= NBlocks THEN YmEnter("data", block) ELSE YmEnter("eot", ymBlock)

\* ym_run(): what follows the phase whose answer came.
Advance ==
    CASE ymPhase = "start" -> YmEnter("name", 0)
      [] ymPhase = "name" -> YmEnter("first", 0)
      [] ymPhase = "first" -> DataOrEot(1)
      [] ymPhase = "data" -> DataOrEot(ymBlock + 1)
      [] ymPhase = "eot" -> YmEnter("last", ymBlock)
      [] ymPhase = "last" -> YmEnter("null", ymBlock)
      [] OTHER -> Finish("OK")

\* Mutant: attempts and timeouts are not counted.
AgainForever(silence) ==
    /\ ymMode' = IF Awaits[ymPhase] = "C" THEN "get" ELSE "put"
    /\ UNCHANGED <<ymPhase, ymTries, ymBlock, ymResult, toPC>>

\* No answer, or not the one awaited: a block is sent again, a wait for 'C'
\* goes on; a block's attempts count both, a wait's timeouts only silence.
Again(silence) ==
    IF Awaits[ymPhase] = "C" /\ ~ silence
    THEN ymMode' = "get" /\ UNCHANGED <<ymPhase, ymTries, ymBlock, ymResult, toPC>>
    ELSE IF ymTries >= Retries THEN Finish("TIMEOUT")
    ELSE /\ ymTries' = ymTries + 1
         /\ ymMode' = IF Awaits[ymPhase] = "C" THEN "get" ELSE "put"
         /\ UNCHANGED <<ymPhase, ymBlock, ymResult, toPC>>

\* Mutant: a repeated 'C' is taken for an acknowledgement.
TakesC(b) ==
    CASE b \in {"C", Awaits[ymPhase]} -> Advance
      [] b = "ETX" -> Finish("CANCEL")
      [] b = "CAN" -> ymMode' = "can" /\ UNCHANGED <<ymPhase, ymTries, ymBlock, ymResult, toPC>>
      [] OTHER -> Again(FALSE)

\* The byte getc() returned, in send_block(), wait_start(), wait_c(), send_eot().
Takes(b) ==
    CASE b = Awaits[ymPhase] -> Advance
      [] b = "ETX" -> Finish("CANCEL")
      [] b = "CAN" -> ymMode' = "can" /\ UNCHANGED <<ymPhase, ymTries, ymBlock, ymResult, toPC>>
      [] OTHER -> Again(FALSE)

YmPut ==
    /\ ymMode = "put"
    /\ toPC' = Append(toPC, Message) /\ ymMode' = "get"
    /\ UNCHANGED <<ymPhase, ymTries, ymBlock, ymResult, toBoard, receiver, faults>>

\* put() fails (the terminal is gone), or the source does before a new block.
YmFails ==
    /\ ymMode = "put" /\ faults < MaxFaults /\ faults' = faults + 1
    /\ \/ Finish("IO")
       \/ ymPhase = "data" /\ ymTries = 0 /\ Finish("SOURCE")
    /\ UNCHANGED <<toBoard, receiver>>

YmGet ==
    /\ ymMode = "get" /\ toBoard # <<>>
    /\ toBoard' = Tail(toBoard) /\ Takes(Head(toBoard))
    /\ UNCHANGED <<receiver, faults>>

\* is_double_can() swallows the byte that follows a CAN, whatever it is.
YmSecondCan ==
    /\ ymMode = "can" /\ toBoard # <<>>
    /\ toBoard' = Tail(toBoard)
    /\ IF Head(toBoard) = "CAN" THEN Finish("CANCEL") ELSE Again(FALSE)
    /\ UNCHANGED <<receiver, faults>>

Silence == toBoard = <<>> /\ (Prompt => toPC = <<>>)

YmTimeout ==
    /\ Silence
    /\ \/ ymMode = "get" /\ Again(TRUE)
       \/ ymMode = "can" /\ Again(FALSE)
    /\ UNCHANGED <<toBoard, receiver, faults>>

------------------------------------------------------------------------------
Reply(bytes) == toBoard' = toBoard \o bytes
Hear(phase, n, bytes) == rcv' = phase /\ got' = n /\ Reply(bytes)

\* What the receiver does with a message; it may want EOT twice.
RcvHears(m) ==
    \/ m.kind = "CAN" /\ Hear("gone", got, <<>>)
    \/ m.kind = "garbled" /\ rcv \in {"start", "null"} /\ Hear(rcv, got, <<"C">>)
    \/ m.kind = "garbled" /\ rcv = "data" /\ Hear(rcv, got, <<"NAK">>)
    \/ rcv = "start" /\ m.kind = "name" /\ Hear("data", 0, <<"ACK", "C">>)
    \/ rcv = "data" /\ m.kind = "data" /\
          \/ m.n = (got + 1) % BlockMod /\ Hear("data", got + 1, <<"ACK">>)
          \/ m.n = got % BlockMod /\ Hear("data", got, <<"ACK">>)
          \/ m.n \notin {(got + 1) % BlockMod, got % BlockMod} /\ Hear("gone", got, <<"CAN", "CAN">>)
    \/ rcv = "data" /\ m.kind = "name" /\ Hear("data", got, <<"ACK">>)
    \/ rcv = "data" /\ m.kind = "eot" /\
          \/ Hear("null", got, <<"ACK", "C">>)
          \/ Hear("eot2", got, <<"NAK">>)
    \/ rcv \in {"eot2", "null"} /\ m.kind = "eot" /\ Hear("null", got, <<"ACK", "C">>)
    \/ rcv \in {"eot2", "null"} /\ m.kind = "data" /\ Hear(rcv, got, <<"ACK">>)
    \/ rcv = "eot2" /\ m.kind = "garbled" /\ Hear(rcv, got, <<"NAK">>)
    \/ rcv = "null" /\ m.kind = "null" /\ Hear("closed", got, <<"ACK">>)
    \/ /\ \/ rcv \in {"closed", "gone"} /\ m.kind # "CAN"
          \/ rcv = "start" /\ m.kind \notin {"name", "garbled", "CAN"}
          \/ rcv \in {"data", "eot2"} /\ m.kind = "null"
          \/ rcv \in {"eot2", "null"} /\ m.kind = "name"
       /\ Hear(rcv, got, <<>>)

RcvStep ==
    /\ toPC # <<>> /\ toPC' = Tail(toPC) /\ RcvHears(Head(toPC))
    /\ UNCHANGED <<sender, asked, faults>>

\* Silence on the line: the receiver asks again, until it gives up.
RcvAsks ==
    /\ toPC = <<>> /\ toBoard = <<>> /\ rcv \notin {"closed", "gone"}
    /\ ymMode = "get"
    /\ IF asked < RcvRetries
       THEN /\ asked' = asked + 1
            /\ Hear(rcv, got, <<IF rcv \in {"start", "null"} \/ got = 0 THEN "C" ELSE "NAK">>)
       ELSE asked' = asked /\ Hear("gone", got, <<"CAN", "CAN">>)
    /\ UNCHANGED <<sender, toPC, faults>>

\* The line loses or garbles what it carries; the user types Ctrl-C.
LineFault ==
    /\ faults < MaxFaults /\ faults' = faults + 1
    /\ \/ toPC # <<>> /\ UNCHANGED toBoard /\
             \/ toPC' = Tail(toPC)
             \/ toPC' = [toPC EXCEPT ![1] = [kind |-> "garbled", n |-> 0]]
       \/ toBoard # <<>> /\ UNCHANGED toPC /\
             \/ toBoard' = Tail(toBoard)
             \/ Head(toBoard) # "ETX" /\ toBoard' = [toBoard EXCEPT ![1] = "noise"]
       \/ ymMode \in {"get", "can"} /\ UNCHANGED toPC /\ toBoard' = Append(toBoard, "ETX")
    /\ UNCHANGED <<sender, receiver>>

\* Where no answer comes, another byte does, as often as it likes: keys of the
\* user, noise, or NAKs of a receiver that wants something else. A byte that
\* overtakes an answer acts like a late one, and is excluded with it (Prompt).
LineStray ==
    /\ Silence /\ ymMode \in {"get", "can"} /\ toBoard' = <<"noise">>
    /\ UNCHANGED <<sender, toPC, receiver, faults>>

YmSender == YmPut \/ YmFails \/ YmGet \/ YmSecondCan \/ YmTimeout
YmNext == YmSender \/ RcvStep \/ RcvAsks \/ LineFault \/ LineStray
YmFairness == WF_ymVars(YmPut \/ YmGet \/ YmSecondCan \/ YmTimeout) /\ WF_ymVars(RcvStep)
YmSpec == YmInit /\ [][YmNext]_ymVars /\ YmFairness

------------------------------------------------------------------------------
YmTypeOK ==
    /\ ymPhase \in DOMAIN Awaits /\ ymMode \in {"put", "get", "can", "end"}
    /\ ymTries \in 0 .. Retries /\ ymBlock \in 0 .. NBlocks
    /\ ymResult \in {"none", "OK", "CANCEL", "TIMEOUT", "SOURCE", "IO"}
    /\ got \in 0 .. NBlocks

\* YM_OK means what ymodem.h says of it, "file transferred": the receiver has
\* every block, each once and in order.
OkIsTransferred == ymResult = "OK" => got = NBlocks

\* While replies come within the timeouts, whatever the line loses or garbles,
\* a block is sent only once the receiver has the one before, and YM_OK means
\* that it has them all.
OkIsDelivered ==
    /\ YmTypeOK /\ OkIsTransferred
    /\ ymPhase = "data" => got \in {ymBlock - 1, ymBlock}

\* ymodem_send() returns, whatever is lost or garbled and wherever the receiver
\* gives up, but for one case: wait_start() and wait_c() count only timeouts, so
\* that they go on while stray bytes do. Blocks and EOT, whose attempts are
\* counted, end also then.
SendEnds ==
    \/ <>(ymMode = "end")
    \/ <>[](Awaits[ymPhase] = "C") /\ []<><<LineStray>>_ymVars
=============================================================================
