------------------------------- MODULE MCConsole -------------------------------
(* Instance of the console for TLC: the UART backend, the YMODEM sender and    *)
(* the background jobs of one shell. They have no variable in common; a run    *)
(* explores each of them (`explored`) by itself.                               *)
EXTENDS UartConsole, Ymodem, JobPool

CONSTANT uart
VARIABLE explored

OneShell == {uart}

ConsoleInit ==
    /\ explored \in {"uart", "ymodem", "jobs"}
    /\ UartInit /\ YmInit /\ Init

ConsoleNext ==
    /\ UNCHANGED explored
    /\ \/ explored = "uart" /\ UartNext /\ UNCHANGED <<ymVars, vars>>
       \/ explored = "ymodem" /\ YmNext /\ UNCHANGED <<uartVars, vars>>
       \/ explored = "jobs" /\ Next /\ UNCHANGED <<uartVars, ymVars>>

\* The fairness of the component explored: the others do not move. JobPool's
\* threads rest until a line is typed, so that its fairness is as is.
ConsoleSpec ==
    /\ ConsoleInit /\ [][ConsoleNext]_<<explored, uartVars, ymVars, vars>>
    /\ WF_uartVars(explored = "uart" /\ (HalSends \/ TxComplete))
    /\ WF_uartVars(explored = "uart" /\ RxError) /\ WF_uartVars(explored = "uart" /\ ShellThread)
    /\ SF_uartVars(explored = "uart" /\ Printf)
    /\ WF_ymVars(explored = "ymodem" /\ (YmPut \/ YmGet \/ YmSecondCan \/ YmTimeout))
    /\ WF_ymVars(explored = "ymodem" /\ RcvStep)
    /\ Fairness

\* The UART's and the sender's liveness, when they are explored.
UartFlows == explored = "uart" => ConsoleFlows
YmSendEnds == explored = "ymodem" => SendEnds
================================================================================
