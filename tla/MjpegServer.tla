------------------------------ MODULE MjpegServer ------------------------------
(***************************************************************************)
(* The MJPEG server: port/netxduo/nx_mjpeg.c and `net mjpeg`. The sink's   *)
(* callbacks run on the camera's threads, which outrank the server's, and  *)
(* are one step each. Abstracted: the HTTP text, the counters, the bytes   *)
(* of a frame (`copy` changes with each), frame_sem (every wait on it      *)
(* times out), commands of two shells at once: they share no lock, and one *)
(* comes after the other here. External: the camera as a sink sees it      *)
(* (CameraBase models it) and NetX's sockets.                              *)
(***************************************************************************)
EXTENDS Naturals

CONSTANTS MjMaxStarts, MjMaxOverruns, MjMaxRelistens   \* bounds
ASSUME MjpegAssumption == MjMaxStarts \in Nat /\ MjMaxOverruns \in Nat /\ MjMaxRelistens \in Nat

VARIABLES
    base, sink,            \* the base: "off" or "jpeg"; eth_sink: "none", "attached", "closed" while recovering
    run, active, listening,\* mjpeg_run, mjpeg_active, mjpeg_listening
    viewer, producerDead, bufBusy,            \* client_connected, producer_dead, buf_busy
    copy, sent,            \* the frame in mjpeg_buf, and the one mjpeg_send_frame() took up
    http, port,            \* the server thread; its socket: "none", "listen", "open", "gone"
    mj,                    \* the shell: where a command is
    stopOk,                \* ghost: the last command was a stop that returned 0
    mjStarts, mjOverruns, mjRelistens

cameraVars == <<base, sink>>
runVars == <<run, active, listening>>
handOff == <<viewer, producerDead, bufBusy, copy>>
serverVars == <<sent, http, port>>
commandVars == <<mj, stopOk, mjStarts>>
mjVars == <<cameraVars, runVars, handOff, serverVars, commandVars, mjOverruns, mjRelistens>>

MjInit ==
    /\ base = "off" /\ sink = "none" /\ run = FALSE /\ active = FALSE /\ listening = FALSE
    /\ viewer = FALSE /\ producerDead = FALSE /\ bufBusy = FALSE /\ copy = 0 /\ sent = 0
    /\ http = "parked" /\ port = "none" /\ mj = "idle" /\ stopOk = FALSE
    /\ mjStarts = 0 /\ mjOverruns = 0 /\ mjRelistens = 0

------------------------------------------------------------------------------
(* The sink: eth_open(), eth_consume(), eth_close(). *)

OpenClient == FALSE
EthOpen == producerDead' = FALSE /\ viewer' = OpenClient /\ bufBusy' = FALSE
EthClose == producerDead' = TRUE

\* Mutant: the frame being sent is not looked at.
MayCopyAny == run /\ viewer
MayCopy == run /\ viewer /\ ~ bufBusy
EthConsume ==
    /\ sink = "attached" /\ MayCopy /\ copy' = 1 - copy /\ bufBusy' = TRUE
    /\ UNCHANGED <<cameraVars, runVars, viewer, producerDead, serverVars, commandVars, mjOverruns, mjRelistens>>

\* External: the base starts, is stopped (which releases a one-shot sink),
\* or overruns, and recovers or gives up.
BaseRuns ==
    /\ base = "off" /\ base' = "jpeg"
    /\ UNCHANGED <<sink, runVars, handOff, serverVars, commandVars, mjOverruns, mjRelistens>>
BaseStop ==
    /\ base = "jpeg" /\ base' = "off" /\ sink' = "none"
    /\ IF sink = "attached" THEN EthClose ELSE UNCHANGED producerDead
    /\ UNCHANGED <<runVars, viewer, bufBusy, copy, serverVars, commandVars, mjOverruns, mjRelistens>>
BaseOverruns ==
    /\ sink = "attached" /\ mjOverruns < MjMaxOverruns /\ mjOverruns' = mjOverruns + 1
    /\ sink' = "closed" /\ EthClose
    /\ UNCHANGED <<base, runVars, viewer, bufBusy, copy, serverVars, commandVars, mjRelistens>>
BaseRecovers ==
    /\ sink = "closed" /\ sink' = "attached" /\ EthOpen
    /\ UNCHANGED <<base, runVars, copy, serverVars, commandVars, mjOverruns, mjRelistens>>

------------------------------------------------------------------------------
(* mjpeg_entry(). *)

Setup ==
    /\ http = "parked" /\ run
    /\ \/ http' = "accept" /\ port' = "listen" /\ listening' = TRUE /\ UNCHANGED <<run, active>>
       \/ run' = FALSE /\ active' = FALSE /\ UNCHANGED <<http, port, listening>>
    /\ UNCHANGED <<cameraVars, handOff, sent, commandVars, mjOverruns, mjRelistens>>

Accept ==
    /\ http = "accept" /\ run /\ ~ producerDead /\ http' = "gate" /\ port' = "open"
    /\ UNCHANGED <<cameraVars, runVars, handOff, sent, commandVars, mjOverruns, mjRelistens>>
AcceptEnds ==
    /\ http = "accept" /\ (~ run \/ producerDead) /\ http' = "after"
    /\ UNCHANGED <<cameraVars, runVars, handOff, sent, port, commandVars, mjOverruns, mjRelistens>>

\* mjpeg_serve(): an empty hand-off first, then the gate opens.
OpenGate ==
    /\ http = "gate" /\ bufBusy' = FALSE /\ http' = "gated"
    /\ UNCHANGED <<cameraVars, runVars, viewer, producerDead, copy, sent, port, commandVars, mjOverruns, mjRelistens>>
Gated ==
    /\ http = "gated" /\ viewer' = TRUE /\ http' = "header"
    /\ UNCHANGED <<cameraVars, runVars, producerDead, bufBusy, copy, sent, port, commandVars, mjOverruns, mjRelistens>>

\* mjpeg_send(): a chunk is refused once the server stops or the viewer went.
MaySend == run /\ viewer
SendHeader ==
    /\ http = "header" /\ http' \in (IF MaySend /\ port = "open" THEN {"wait", "leave"} ELSE {"leave"})
    /\ UNCHANGED <<cameraVars, runVars, handOff, sent, port, commandVars, mjOverruns, mjRelistens>>

\* Mutant: the loop does not look at the producer.
ServesOnClient == run /\ viewer
Serves == run /\ viewer /\ ~ producerDead
AwaitFrame ==
    /\ http = "wait"
    /\ IF Serves THEN IF bufBusy THEN http' = "send" /\ sent' = copy /\ UNCHANGED bufBusy
                                 ELSE UNCHANGED <<http, sent, bufBusy>>
                 ELSE http' = "leave" /\ bufBusy' = FALSE /\ UNCHANGED sent
    /\ UNCHANGED <<cameraVars, runVars, viewer, producerDead, copy, port, commandVars, mjOverruns, mjRelistens>>

\* mjpeg_send_frame(): chunk after chunk.
SendChunk ==
    /\ http = "send" /\ MaySend /\ port = "open"
    /\ http' \in {"send", "sent"}
    /\ UNCHANGED <<cameraVars, runVars, handOff, sent, port, commandVars, mjOverruns, mjRelistens>>
SendFails ==
    /\ http = "send" /\ http' = "failed"       \* stopped, disconnected, or no packet, no window
    /\ UNCHANGED <<cameraVars, runVars, handOff, sent, port, commandVars, mjOverruns, mjRelistens>>
FrameGone ==
    /\ http \in {"sent", "failed"} /\ bufBusy' = FALSE
    /\ http' = (IF http = "sent" THEN "wait" ELSE "leave")
    /\ UNCHANGED <<cameraVars, runVars, viewer, producerDead, copy, sent, port, commandVars, mjOverruns, mjRelistens>>
Leave ==
    /\ http = "leave" /\ viewer' = FALSE /\ http' = "relisten"
    /\ UNCHANGED <<cameraVars, runVars, producerDead, bufBusy, copy, sent, port, commandVars, mjOverruns, mjRelistens>>

\* The socket listens again, or not: a viewer that queued up meanwhile is
\* NX_CONNECTION_PENDING, which is not NX_SUCCESS.
MjRelisten ==
    /\ http = "relisten" /\ port' = "listen"
    /\ \/ http' = "accept" /\ UNCHANGED mjRelistens
       \/ mjRelistens < MjMaxRelistens /\ mjRelistens' = mjRelistens + 1 /\ http' = "after"
    /\ UNCHANGED <<cameraVars, runVars, handOff, sent, commandVars, mjOverruns>>

\* Why the inner loop ended: a stop, a failed relisten, a base that is gone
\* for good, or one that recovers.
After ==
    /\ http = "after"
    /\ \/ (~ run \/ ~ producerDead) /\ http' = "teardown" /\ UNCHANGED run
       \/ run /\ producerDead /\ sink = "none" /\ http' = "teardown" /\ run' = FALSE
       \/ run /\ producerDead /\ sink # "none" /\ http' = "paused" /\ UNCHANGED run
    /\ UNCHANGED <<cameraVars, active, listening, handOff, sent, port, commandVars, mjOverruns, mjRelistens>>
Paused ==
    /\ http = "paused" /\ ~ (run /\ producerDead /\ sink # "none")
    /\ http' = (IF run THEN "accept" ELSE "teardown")
    /\ UNCHANGED <<cameraVars, runVars, handOff, sent, port, commandVars, mjOverruns, mjRelistens>>

Teardown ==
    /\ http = "teardown" /\ http' = "inactive" /\ listening' = FALSE /\ port' = "none"
    /\ UNCHANGED <<cameraVars, run, active, handOff, sent, commandVars, mjOverruns, mjRelistens>>
Inactive ==
    /\ http = "inactive" /\ http' = "parked" /\ active' = FALSE
    /\ UNCHANGED <<cameraVars, run, listening, handOff, sent, port, commandVars, mjOverruns, mjRelistens>>

\* External: the browser goes; mjpeg_disconnect_cb() on the IP thread.
ViewerLeaves ==
    /\ port = "open" /\ port' = "gone" /\ viewer' = FALSE
    /\ UNCHANGED <<cameraVars, runVars, producerDead, bufBusy, copy, sent, http, commandVars, mjOverruns, mjRelistens>>

------------------------------------------------------------------------------
(* nx_mjpeg_start() and nx_mjpeg_stop(), from a shell. *)

\* Refused while a server runs or a stop is still under way.
StartChecks ==
    /\ mj = "idle" /\ ~ run /\ ~ active /\ base = "jpeg" /\ mjStarts < MjMaxStarts
    /\ mjStarts' = mjStarts + 1 /\ mj' = "subscribe" /\ stopOk' = FALSE
    /\ UNCHANGED <<cameraVars, runVars, handOff, serverVars, mjOverruns, mjRelistens>>
StartSubscribes ==
    /\ mj = "subscribe"
    /\ IF base = "jpeg" THEN mj' = "claim" /\ sink' = "attached" /\ EthOpen
                        ELSE mj' = "idle" /\ UNCHANGED <<sink, producerDead, viewer, bufBusy>>
    /\ UNCHANGED <<base, runVars, copy, serverVars, stopOk, mjStarts, mjOverruns, mjRelistens>>
StartClaims ==
    /\ mj = "claim" /\ mj' = "await" /\ run' = TRUE /\ active' = TRUE /\ listening' = FALSE
    /\ UNCHANGED <<cameraVars, handOff, serverVars, stopOk, mjStarts, mjOverruns, mjRelistens>>

\* It waits for the port up to a second, and then for the base's word.
StartWaits ==
    /\ mj = "await"
    /\ \/ listening /\ mj' = "verify" /\ UNCHANGED run
       \/ ~ listening /\ mj' = "undo" /\ run' = FALSE
    /\ UNCHANGED <<cameraVars, active, listening, handOff, serverVars, stopOk, mjStarts, mjOverruns, mjRelistens>>
StartVerifies ==
    /\ mj = "verify"
    /\ IF sink # "none" THEN mj' = "idle" /\ UNCHANGED run ELSE mj' = "undo" /\ run' = FALSE
    /\ UNCHANGED <<cameraVars, active, listening, handOff, serverVars, stopOk, mjStarts, mjOverruns, mjRelistens>>

\* camera_unsubscribe(): on a failed start, or a stop.
Unsubscribe ==
    /\ mj \in {"undo", "detach"} /\ sink' = "none"
    /\ mj' = (IF mj = "undo" THEN "idle" ELSE "park")
    /\ IF sink = "attached" THEN EthClose ELSE UNCHANGED producerDead
    /\ UNCHANGED <<base, runVars, viewer, bufBusy, copy, serverVars, stopOk, mjStarts, mjOverruns, mjRelistens>>

StopGates ==
    /\ mj = "idle" /\ (run \/ active) /\ mj' = "stop" /\ viewer' = FALSE
    /\ UNCHANGED <<cameraVars, runVars, producerDead, bufBusy, copy, serverVars, stopOk, mjStarts, mjOverruns, mjRelistens>>
StopRuns ==
    /\ mj = "stop" /\ mj' = "detach" /\ run' = FALSE
    /\ UNCHANGED <<cameraVars, active, listening, handOff, serverVars, stopOk, mjStarts, mjOverruns, mjRelistens>>
\* Up to three seconds for the thread to park.
StopWaits ==
    /\ mj = "park" /\ mj' = "idle" /\ stopOk' = ~ active
    /\ UNCHANGED <<cameraVars, runVars, handOff, serverVars, mjStarts, mjOverruns, mjRelistens>>

Camera == EthConsume \/ BaseRuns \/ BaseStop \/ BaseOverruns \/ BaseRecovers
HttpThread == Setup \/ Accept \/ AcceptEnds \/ OpenGate \/ Gated \/ SendHeader \/ AwaitFrame \/ SendChunk
              \/ SendFails \/ FrameGone \/ Leave \/ MjRelisten \/ After \/ Paused \/ Teardown \/ Inactive
MjCommand == StartChecks \/ StartSubscribes \/ StartClaims \/ StartWaits \/ StartVerifies \/ Unsubscribe
             \/ StopGates \/ StopRuns \/ StopWaits
MjNext == Camera \/ HttpThread \/ ViewerLeaves \/ MjCommand
MjSpec == MjInit /\ [][MjNext]_mjVars /\ WF_mjVars(HttpThread)

------------------------------------------------------------------------------
MjTypeOK ==
    /\ base \in {"off", "jpeg"} /\ sink \in {"none", "attached", "closed"} /\ (base = "off" => sink = "none")
    /\ port \in {"none", "listen", "open", "gone"}

\* The frame being sent is not overwritten, whatever the camera and the shell
\* do meanwhile.
MjSound == MjTypeOK /\ (http \in {"send", "sent"} => copy = sent)

\* Why MjSound holds: a frame being sent keeps the copy busy, or its viewer
\* is gone and with it every licence to copy.
HandOffInv == http \in {"send", "sent"} => bufBusy \/ ~ viewer
MjInv == MjSound /\ HandOffInv

\* The port is let go after a stop, whatever the viewer does, and a server
\* the camera released stops by itself.
MjStops ==
    /\ ~ run ~> (run \/ port = "none")
    /\ (run /\ sink = "none" /\ mj = "idle") ~> (~ run \/ sink # "none" \/ mj # "idle")

==============================================================================
