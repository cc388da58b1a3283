------------------------------- MODULE MCCamera -------------------------------
(* Instance of the camera driver for TLC: the base capture with its producer   *)
(* and subscribers, and the programming of the sensor. They have no variable   *)
(* in common; a run explores each of them (`explored`) by itself.              *)
EXTENDS CameraBase, CameraSensor

CONSTANTS gui, nncam, mjpeg
VARIABLE explored

\* The three sinks of the firmware; the MJPEG sink is its only oneshot.  The
\* registry is one entry short of them, so that it can be full.
AllSinks == {gui, nncam, mjpeg}
MjpegOnly == {mjpeg}
SinkFormat == [s \in AllSinks |-> IF s = mjpeg THEN "JPEG" ELSE "RGB565"]
TwoLevels == {0, 1}

CameraInit ==
    /\ explored \in {"base", "sensor"}
    /\ Init /\ CsInit
    /\ explored = "base" => ~ scanout

CameraNext ==
    /\ UNCHANGED explored
    /\ \/ explored = "base" /\ Next /\ UNCHANGED csVars
       \/ explored = "sensor" /\ CsNext /\ UNCHANGED vars

\* The fairness of the base, when it is explored: it does not move otherwise.
CameraSpec ==
    /\ CameraInit /\ [][CameraNext]_<<explored, vars, csVars>>
    /\ SF_vars(explored = "base" /\ ProducerStep)
    /\ WF_vars(explored = "base" /\ (Armed \/ ArmFailed))
================================================================================
