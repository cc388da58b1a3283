------------------------------ MODULE UartConsole ----------------------------
(***************************************************************************)
(* shell/backend/cli_backend_uart.c over cli_uart_ring.h, with what the    *)
(* shell thread does on it (cli_core.c, cli_session.c, cli_printf.c): one  *)
(* transmit ring filled by the shell and by printf() of other threads and  *)
(* drained in place by the UART, one receive ring filled by the interrupt. *)
(* A step is a PRIMASK section, an interrupt, or what the shell does       *)
(* between two of them; interrupts come anywhere outside the sections.     *)
(*                                                                         *)
(* Abstracted: the polling output before the console is enabled, framing   *)
(* errors, the output lock and background jobs (JobPool), raw transfers    *)
(* (Ymodem), and what a byte says, but for CR and Ctrl-C.                  *)
(***************************************************************************)
EXTENDS Integers, Sequences

CONSTANTS
    TxSize, RxSize,     \* the rings' sizes; one slot of each stays free
    MaxRx,              \* bound: bytes received
    Sends,              \* the lengths of what a command prints
    MaxSends,           \* bound: how often it prints
    MaxPrintf           \* bound: bytes printf() has to write

ASSUME UartAssumption ==
    /\ TxSize \in Nat \ {0, 1} /\ RxSize \in Nat \ {0, 1}
    /\ Sends \subseteq Nat \ {0}

VARIABLES
    txBuf, txHead, txTail,  \* u->tx_ring
    inFlight, chunk,        \* u->tx_in_flight, u->tx_chunk
    hal,                    \* what HAL_UART_Transmit_IT still has to send: [pos, left]
    rxBuf,                  \* u->rx_ring, oldest byte first
    flagRx, flagTx,         \* CLI_EVT_RX, CLI_EVT_TX
    con,                    \* where the shell thread is
    toSend,                 \* bytes of the output call not accepted yet
    cancelReq,              \* sh->cancel_req while a command runs
    sends, printed, received,   \* how much was done, against the bounds
    overrun,                \* the UART holds a byte no interrupt fetched
    accepted, wire          \* ghosts: the bytes queued, and the bytes sent

txVars == <<txBuf, txHead, txTail, inFlight, chunk, hal, accepted, wire>>
rxVars == <<rxBuf, flagRx, received, overrun>>
conVars == <<con, toSend, cancelReq, sends>>
uartVars == <<txVars, flagTx, rxVars, conVars, printed>>

UartInit ==
    /\ txBuf = [k \in 0 .. TxSize - 1 |-> 0] /\ txHead = 0 /\ txTail = 0
    /\ inFlight = FALSE /\ chunk = 0 /\ hal = [pos |-> 0, left |-> 0]
    /\ rxBuf = <<>> /\ flagRx = FALSE /\ flagTx = FALSE
    /\ con = "wait" /\ toSend = 0 /\ cancelReq = FALSE
    /\ sends = 0 /\ printed = 0 /\ received = 0 /\ overrun = FALSE
    /\ accepted = <<>> /\ wire = <<>>

------------------------------------------------------------------------------
\* cli_uart_ring.h
Count(head, tail) == IF head >= tail THEN head - tail ELSE TxSize - tail + head
Free == TxSize - 1 - Count(txHead, txTail)
Lesser(a, b) == IF a < b THEN a ELSE b
\* Mutant: the run does not stop at the end of the buffer.
ContigWrapping(head, tail) == Count(head, tail)
Contig(head, tail) == IF head >= tail THEN head - tail ELSE TxSize - tail

\* tx_start_locked() on the ring as it is after the caller's change.
StartTx(head, tail, busy) ==
    IF busy \/ Contig(head, tail) = 0
    THEN inFlight' = busy /\ chunk' = (IF busy THEN chunk ELSE 0) /\ UNCHANGED hal
    ELSE /\ inFlight' = TRUE /\ chunk' = Contig(head, tail)
         /\ hal' = [pos |-> tail, left |-> Contig(head, tail)]

\* Puts n bytes of one producer and starts transmission.
Enqueue(n) ==
    LET byte(k) == Len(accepted) + k IN
    /\ txBuf' = [k \in DOMAIN txBuf |->
                    LET d == (k - txHead) % TxSize
                    IN IF d < n THEN byte(d + 1) ELSE txBuf[k]]
    /\ txHead' = (txHead + n) % TxSize
    /\ accepted' = accepted \o [k \in 1 .. n |-> byte(k)]
    /\ StartTx((txHead + n) % TxSize, txTail, inFlight)
    /\ UNCHANGED <<txTail, wire>>

\* The UART sends one byte out of the ring's own memory; it knows nothing of
\* the ring's end, and past it would send what lies there (0 stands for it).
HalSends ==
    /\ hal.left > 0
    /\ wire' = Append(wire, IF hal.pos < TxSize THEN txBuf[hal.pos] ELSE 0)
    /\ hal' = [pos |-> hal.pos + 1, left |-> hal.left - 1]
    /\ UNCHANGED <<txBuf, txHead, txTail, inFlight, chunk, accepted, flagTx, rxVars, conVars, printed>>

\* Mutant: the freed space is not announced.
TxCompleteSilent ==
    /\ inFlight /\ hal.left = 0
    /\ txTail' = (txTail + chunk) % TxSize
    /\ StartTx(txHead, (txTail + chunk) % TxSize, FALSE)
    /\ UNCHANGED <<txBuf, txHead, accepted, wire, flagTx, rxVars, conVars, printed>>

\* HAL_UART_TxCpltCallback()
TxComplete ==
    /\ inFlight /\ hal.left = 0
    /\ txTail' = (txTail + chunk) % TxSize
    /\ StartTx(txHead, (txTail + chunk) % TxSize, FALSE)
    /\ flagTx' = TRUE
    /\ UNCHANGED <<txBuf, txHead, accepted, wire, rxVars, conVars, printed>>

\* _write() of another thread: a byte at a time, spinning while the ring is full.
Printf ==
    /\ printed < MaxPrintf /\ printed' = printed + 1
    /\ Free > 0 /\ Enqueue(1)
    /\ UNCHANGED <<flagTx, rxVars, conVars>>

------------------------------------------------------------------------------
\* HAL_UART_RxCpltCallback(): stored, or dropped when the ring is full.
RxByte ==
    /\ received < MaxRx /\ ~ overrun /\ received' = received + 1
    /\ \E b \in {"key", "cr", "etx"} :
          rxBuf' = IF Len(rxBuf) < RxSize - 1 THEN Append(rxBuf, b) ELSE rxBuf
    /\ flagRx' = TRUE
    /\ UNCHANGED <<overrun, txVars, flagTx, conVars, printed>>

\* A byte comes before the last was fetched, and is lost: reception stops,
\* until HAL_UART_ErrorCallback() arms it again.
RxOverrun ==
    /\ received < MaxRx /\ ~ overrun
    /\ overrun' = TRUE /\ received' = received + 1
    /\ UNCHANGED <<rxBuf, flagRx, txVars, flagTx, conVars, printed>>

RxError ==
    /\ overrun /\ overrun' = FALSE
    /\ UNCHANGED <<rxBuf, flagRx, received, txVars, flagTx, conVars, printed>>

------------------------------------------------------------------------------
\* The shell thread; dispatching while in "command", "send" or "full".
Con(from, to) ==
    /\ con = from /\ con' = to /\ UNCHANGED <<printed, received, overrun>>

\* cli_thread_entry(): wait for RX, then read until the ring is empty.
ConWakes ==
    /\ Con("wait", "read") /\ flagRx /\ flagRx' = FALSE
    /\ UNCHANGED <<txVars, flagTx, rxBuf, toSend, cancelReq, sends>>

ConReads ==
    /\ rxBuf # <<>> /\ rxBuf' = Tail(rxBuf)
    /\ Con("read", IF Head(rxBuf) = "cr" THEN "command" ELSE "read")
    /\ cancelReq' = FALSE
    /\ UNCHANGED <<txVars, flagTx, flagRx, toSend, sends>>

ConIdle ==
    /\ rxBuf = <<>> /\ Con("read", "wait")
    /\ UNCHANGED <<txVars, flagTx, flagRx, rxBuf, toSend, cancelReq, sends>>

\* A command prints: the output call is flushed through the transport.
CommandPrints ==
    /\ sends < MaxSends /\ sends' = sends + 1
    /\ \E n \in Sends : toSend' = n
    /\ Con("command", "send")
    /\ UNCHANGED <<txVars, flagTx, flagRx, rxBuf, cancelReq>>

\* cli_dispatch_line(): after a Ctrl-C the rest of the input is dropped.
CommandReturns ==
    /\ Con("command", "read")
    /\ rxBuf' = IF cancelReq THEN <<>> ELSE rxBuf
    /\ cancelReq' = FALSE
    /\ UNCHANGED <<txVars, flagTx, flagRx, toSend, sends>>

\* cli_tx_send_blocking(): one turn of the loop, with uart_write().
SendEnded ==
    /\ toSend = 0 \/ cancelReq
    /\ Con("send", "command") /\ toSend' = 0
    /\ UNCHANGED <<txVars, flagTx, flagRx, rxBuf, cancelReq, sends>>

SendWrites ==
    /\ toSend > 0 /\ ~ cancelReq
    /\ Con("send", IF Free > 0 THEN "send" ELSE "full")
    /\ toSend' = toSend - Lesser(toSend, Free)
    /\ Enqueue(Lesser(toSend, Free))
    /\ UNCHANGED <<flagTx, flagRx, rxBuf, cancelReq, sends>>

\* cli_cancel_poll(): everything buffered goes, a Ctrl-C latches the cancelReq.
PollRx ==
    /\ rxBuf' = <<>>
    /\ cancelReq' = (cancelReq \/ \E k \in DOMAIN rxBuf : rxBuf[k] = "etx")

\* The ring is full: poll, then wait for space or for a key.
FullPolls ==
    /\ PollRx
    /\ Con("full", IF cancelReq' THEN "send" ELSE "blocked")
    /\ UNCHANGED <<txVars, flagTx, flagRx, toSend, sends>>

FullWakes ==
    /\ flagTx \/ flagRx
    /\ flagTx' = FALSE /\ flagRx' = FALSE
    /\ Con("blocked", "send")
    /\ IF flagRx THEN PollRx ELSE UNCHANGED <<rxBuf, cancelReq>>
    /\ UNCHANGED <<txVars, toSend, sends>>

\* cli_cancel_requested() of a command that looks for Ctrl-C.
CommandPolls ==
    /\ Con("command", "command") /\ PollRx
    /\ UNCHANGED <<txVars, flagTx, flagRx, toSend, sends>>

Interrupts == HalSends \/ TxComplete \/ RxError
ShellThread ==
    \/ ConWakes \/ ConReads \/ ConIdle \/ SendEnded \/ SendWrites
    \/ FullPolls \/ FullWakes \/ CommandReturns
UartNext ==
    \/ Interrupts \/ ShellThread \/ Printf \/ RxByte \/ RxOverrun
    \/ CommandPrints \/ CommandPolls

\* The hardware runs, the shell is scheduled, a command returns, and a
\* printing thread spins until it gets its byte in.
UartFairness ==
    /\ WF_uartVars(HalSends \/ TxComplete) /\ WF_uartVars(RxError)
    /\ WF_uartVars(ShellThread) /\ SF_uartVars(Printf)
UartSpec == UartInit /\ [][UartNext]_uartVars /\ UartFairness

------------------------------------------------------------------------------
\* The bytes in the ring, as the UART will send them.
Queued ==
    [k \in 1 .. Count(txHead, txTail) |-> txBuf[(txTail + k - 1) % TxSize]]

UartTypeOK ==
    /\ txHead \in 0 .. TxSize - 1 /\ txTail \in 0 .. TxSize - 1
    /\ Len(rxBuf) \in 0 .. RxSize - 1 /\ chunk \in 0 .. TxSize - 1
    /\ inFlight = (chunk > 0)

\* Two producers, the in-place transmission and the completion interrupt keep
\* one stream: the bytes sent, then the ring past what is already sent, are the
\* bytes accepted, in order, none lost, doubled or overwritten while in flight.
TxIsFifo ==
    /\ UartTypeOK
    /\ wire \o SubSeq(Queued, chunk - hal.left + 1, Len(Queued)) = accepted

\* No wake-up is lost between the rings, the flags and the UART: bytes in the
\* ring have a run under way, who found the ring full has a completion to come
\* or one already announced, and who waits has been told of every byte received.
NoLostWakeUp ==
    /\ Count(txHead, txTail) > 0 => inFlight
    /\ con \in {"full", "blocked"} => inFlight \/ flagTx
    /\ con \in {"wait", "blocked"} /\ rxBuf # <<>> => flagRx

\* The two together: a stream in order, and always someone who moves it on.
ConsoleSound == TxIsFifo /\ NoLostWakeUp

\* The console does not hang: what was accepted is sent, what was received is
\* taken from the ring, and no output call waits for space for ever.
ConsoleFlows ==
    /\ []<>(wire = accepted)
    /\ rxBuf # <<>> ~> rxBuf = <<>>
    /\ con = "blocked" ~> con # "blocked"
    /\ <>(printed = MaxPrintf)
=============================================================================
