------------------------------ MODULE TelnetShell ----------------------------
(***************************************************************************)
(* port/netxduo/nx_shell.c with the instance thread of shell/core/         *)
(* cli_core.c and the session reset of cli_session.c: the network shell,   *)
(* one client at a time on one static shell instance.  Three threads: the  *)
(* NetX IP thread runs the callbacks, the server thread accepts and closes,*)
(* the shell thread owns the session.  A step is what a thread does        *)
(* between two accesses to a variable another one writes: the IP thread    *)
(* preempts the server, and both preempt the shell, anywhere.              *)
(*                                                                         *)
(* Abstracted: NetX and its packets (a write may be dropped), telnet       *)
(* negotiation, the line editor (a line is the clients its bytes came      *)
(* from) and what commands do; background jobs are JobPool's.              *)
(***************************************************************************)
EXTENDS Integers, Sequences

CONSTANTS
    MaxClients,     \* bound: connections
    MaxBytes,       \* bound: bytes the clients send
    RxRing          \* NX_SHELL_RX_RING

ASSUME TelnetAssumption == MaxClients \in Nat \ {0} /\ MaxBytes \in Nat /\ RxRing \in Nat \ {0}

Clients == 1 .. MaxClients

VARIABLES
    client,     \* the last client that connected, 0 before the first
    sock,       \* the socket: "listen", "established" or "fin"
    live,       \* session_live
    connected,  \* tcp_ctx.connected, the write gate
    discSem,    \* disc_sem
    typed,      \* how many bytes the clients sent
    rxRing,     \* tcp_ctx.rx_ring: who sent the byte, and whether it is CR
    evRx, evConn,   \* CLI_EVT_RX, CLI_EVT_CONN
    srv,        \* where the server thread is
    shell,      \* where the shell thread is
    sampled,    \* session_live as session_begin() read it
    line,       \* sh->line: who typed it
    begun       \* ghost: the client there was when the session began

ipVars == <<client, sock, live, connected, discSem, evRx, evConn, typed>>
shellVars == <<shell, sampled, line, begun>>
tnVars == <<ipVars, rxRing, srv, shellVars>>

TnInit ==
    /\ client = 0 /\ sock = "listen" /\ live = FALSE /\ connected = FALSE
    /\ discSem = 0 /\ typed = 0 /\ rxRing = <<>> /\ evRx = FALSE /\ evConn = FALSE
    /\ srv = "drain" /\ shell = "wait" /\ sampled = FALSE /\ line = <<>>
    /\ begun = 0

------------------------------------------------------------------------------
\* The IP thread.
Connect ==
    /\ srv = "accept" /\ sock = "listen" /\ client < MaxClients
    /\ client' = client + 1 /\ sock' = "established"
    /\ UNCHANGED <<live, connected, discSem, evRx, evConn, typed, rxRing, srv, shellVars>>

\* shell_rx_notify(): the byte goes to the ring, or is dropped when it is full.
Receive(cr) ==
    /\ sock = "established" /\ typed < MaxBytes /\ typed' = typed + 1
    /\ rxRing' = IF Len(rxRing) < RxRing THEN Append(rxRing, [from |-> client, cr |-> cr])
                 ELSE rxRing
    /\ evRx' = TRUE
    /\ UNCHANGED <<client, sock, live, connected, discSem, evConn, srv, shellVars>>

\* shell_disconnect_cb()
Disconnect ==
    /\ sock = "established"
    /\ sock' = "fin" /\ live' = FALSE /\ connected' = FALSE /\ discSem' = discSem + 1
    /\ UNCHANGED <<client, evRx, evConn, typed, rxRing, srv, shellVars>>

------------------------------------------------------------------------------
\* shell_server_entry()
Serve(from, to) ==
    /\ srv = from /\ srv' = to
    /\ UNCHANGED <<client, evRx, typed, rxRing, shellVars>>

DrainStale ==
    /\ Serve("drain", "accept") /\ discSem' = 0
    /\ UNCHANGED <<sock, live, connected, evConn>>

\* The client may be gone by the time the server thread runs.
Accepted ==
    /\ Serve("accept", "bind") /\ sock # "listen"
    /\ UNCHANGED <<sock, live, connected, discSem, evConn>>

\* Mutant: accept does not tell the shell.
BindSilently ==
    /\ Serve("bind", "serve") /\ live' = TRUE
    /\ UNCHANGED <<sock, connected, discSem, evConn>>

Bind ==
    /\ Serve("bind", "serve") /\ live' = TRUE /\ evConn' = TRUE
    /\ UNCHANGED <<sock, connected, discSem>>

Unbind ==
    /\ Serve("serve", "close") /\ discSem > 0
    /\ discSem' = discSem - 1 /\ connected' = FALSE
    /\ UNCHANGED <<sock, live, evConn>>

Relisten ==
    /\ Serve("close", "drain") /\ sock' = "listen"
    /\ UNCHANGED <<live, connected, discSem, evConn>>

------------------------------------------------------------------------------
\* The shell thread: cli_thread_entry().
Shell(from, to) ==
    /\ shell = from /\ shell' = to
    /\ UNCHANGED <<client, sock, live, discSem, typed, srv>>

Wake ==
    /\ evRx \/ evConn
    /\ Shell("wait", IF evConn THEN "reset" ELSE "read")
    /\ evRx' = FALSE /\ evConn' = FALSE
    /\ UNCHANGED <<connected, rxRing, sampled, line, begun>>

\* cli_session_reset_state(), then the drain of tcp_session_begin()
ResetState ==
    /\ Shell("reset", "begin")
    /\ line' = <<>> /\ rxRing' = <<>>
    /\ UNCHANGED <<connected, evRx, evConn, sampled, begun>>

\* ... which reads session_live and stores it: two accesses.
SampleLive ==
    /\ Shell("begin", "store")
    /\ sampled' = live /\ begun' = client
    /\ UNCHANGED <<connected, evRx, evConn, rxRing, line>>

StoreConnected ==
    /\ Shell("store", "prompt")
    /\ connected' = sampled
    /\ UNCHANGED <<evRx, evConn, rxRing, sampled, line, begun>>

DrawPrompt ==
    /\ Shell("prompt", "read")
    /\ UNCHANGED <<connected, evRx, evConn, rxRing, sampled, line, begun>>

\* One byte at a time; CR dispatches the line from inside the loop.
ReadByte ==
    /\ rxRing # <<>> /\ rxRing' = Tail(rxRing)
    /\ line' = IF Head(rxRing).cr \/ Len(line) = RxRing THEN line
               ELSE Append(line, Head(rxRing).from)
    /\ Shell("read", IF Head(rxRing).cr THEN "command" ELSE "read")
    /\ UNCHANGED <<connected, evRx, evConn, sampled, begun>>

NoByte ==
    /\ rxRing = <<>>
    /\ Shell("read", "wait")
    /\ UNCHANGED <<connected, evRx, evConn, rxRing, sampled, line, begun>>

\* A command polls for Ctrl-C and drops what was typed ahead (what it prints,
\* tcp_write() drops or NetX takes).
Command ==
    /\ Shell("command", "command")
    /\ rxRing' = <<>>
    /\ UNCHANGED <<connected, evRx, evConn, sampled, line, begun>>

CommandEnds ==
    /\ Shell("command", "prompt")
    /\ line' = <<>>
    /\ UNCHANGED <<connected, evRx, evConn, rxRing, sampled, begun>>

Server == DrainStale \/ Accepted \/ Bind \/ Unbind \/ Relisten
Session ==
    \/ Wake \/ ResetState \/ SampleLive \/ StoreConnected \/ DrawPrompt
    \/ ReadByte \/ NoByte \/ CommandEnds
TnNext ==
    \/ Connect \/ Disconnect \/ Server \/ Session \/ Command
    \/ \E cr \in BOOLEAN : Receive(cr)

\* The threads run; commands end; clients owe nothing.
TnFairness == WF_tnVars(Server) /\ WF_tnVars(Session)
TnSpec == TnInit /\ [][TnNext]_tnVars /\ TnFairness

------------------------------------------------------------------------------

\* No word of a client is lost between the threads: who was served or is about
\* to be and has left is announced to the server once, and one that is served
\* has the gate of its own session open, that session on its way, or the accept
\* event that begins it still pending.
ClientKept ==
    /\ srv \in {"accept", "bind", "serve"} => discSem = (IF sock = "fin" THEN 1 ELSE 0)
    /\ srv = "serve" /\ sock = "established" =>
          \/ evConn \/ shell \in {"reset", "begin"}
          \/ begun = client /\ (IF shell = "store" THEN sampled ELSE connected)

\* A client that stays (and types MaxBytes at most) is served: whatever became
\* of the ones before it, its session begins and the write gate opens, also
\* when the accept event was still unhandled, or came twice, as clients came
\* and went.
ClientServed ==
    \A c \in Clients :
        (client = c /\ sock = "established")
            ~> (client # c \/ sock # "established" \/ (connected /\ begun = c))

=============================================================================
