--------------------------------- MODULE MCNet ---------------------------------
(* Instance of the network side for TLC: the Ethernet driver under NetX, the   *)
(* telnet shell and the MJPEG server. They have no variable in common; a run   *)
(* explores each of them (`explored`) by itself.                               *)
EXTENDS EthNet, TelnetShell, MjpegServer

VARIABLE explored

Init ==
    /\ explored \in {"ethernet", "telnet", "mjpeg"}
    /\ EnInit /\ TnInit /\ MjInit

Next ==
    /\ UNCHANGED explored
    /\ \/ explored = "ethernet" /\ EnNext /\ UNCHANGED <<tnVars, mjVars>>
       \/ explored = "telnet" /\ TnNext /\ UNCHANGED <<enVars, mjVars>>
       \/ explored = "mjpeg" /\ MjNext /\ UNCHANGED <<enVars, tnVars>>

\* The fairness of the component explored; the others do not move.
Spec ==
    /\ Init /\ [][Next]_<<explored, enVars, tnVars, mjVars>>
    /\ WF_enVars(explored = "ethernet" /\ LinkThread) /\ WF_enVars(explored = "ethernet" /\ Sender)
    /\ SF_enVars(explored = "ethernet" /\ (EthInitialize \/ EthEnable))
    /\ SF_enVars(explored = "ethernet" /\ LinkStatus) /\ SF_enVars(explored = "ethernet" /\ DeferredBegins)
    /\ WF_enVars(explored = "ethernet" /\ (DrainFrame \/ DrainEnds \/ Reclaim))
    /\ WF_tnVars(explored = "telnet" /\ Server) /\ WF_tnVars(explored = "telnet" /\ Session)
    /\ WF_mjVars(explored = "mjpeg" /\ HttpThread)

\* LinkFollows, of a run of the Ethernet driver.
DriverLinkFollows == explored = "ethernet" => LinkFollows
================================================================================
