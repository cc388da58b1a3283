---------------------------------- MODULE MCNn ----------------------------------
(* Instance of the neural-network side for TLC: live inference, and the model  *)
(* with its swap at run time. They have no variable in common; a run explores  *)
(* each of them (`explored`) by itself.                                        *)
EXTENDS NnCamera, NnModel, TLC

CONSTANTS uart, telnet
VARIABLE explored

TwoShells == {uart, telnet}

NnInit ==
    /\ explored \in {"camera", "model"}
    /\ Init /\ NmInit
    /\ explored = "camera" => backend = "tflm"
    /\ explored = "model" => ~ base

NnNext ==
    /\ UNCHANGED explored
    /\ \/ explored = "camera" /\ Next /\ UNCHANGED nmVars
       \/ explored = "model" /\ NmNext /\ UNCHANGED vars

\* Nothing runs by itself until a command begins, so that the fairness is as is.
NnSpec == NnInit /\ [][NnNext]_<<explored, vars, nmVars>> /\ Fairness /\ NmFairness
================================================================================
