------------------------------- MODULE MCDevices -------------------------------
(* Instance of the device drivers for TLC: the SD card, the file systems over  *)
(* it and over the flash, the flash, the DMA2D engine, the display with the    *)
(* GUI on it, and the touch panel. They have no variable in common; a run      *)
(* explores each of them (`explored`) by itself.                               *)
EXTENDS SdCard, FsMedia, QspiFlash, Dma2d, Display, Touch, TLC

VARIABLE explored

SdBlocksVal == ("a" :> 3) @@ ("b" :> 2)

storageVars == <<sdVars, fsVars, qfVars>>
panelSideVars == <<d2Vars, dpVars, toVars>>

\* The two cards of the file systems are alike: "b" need not be the one in
\* the slot at first, nor the only one with a volume when the slot is empty.
DevInit ==
    /\ explored \in {"sd card", "file systems", "flash", "engine", "display", "touch"}
    /\ SdInit /\ FsInit /\ QfInit /\ D2Init /\ DpInit /\ ToInit
    /\ explored # "sd card" => slot = "a"
    /\ explored # "file systems" => medium = "qspi" /\ volumes = {}
    /\ explored = "file systems" => inSlot # "b" /\ (inSlot = "none" => volumes # {"b"})

\* The threads of the file systems are alike: "t1" gives the first command.
DevNext ==
    /\ UNCHANGED explored
    /\ \/ explored = "sd card" /\ SdNext /\ UNCHANGED <<fsVars, qfVars, panelSideVars>>
       \/ /\ explored = "file systems" /\ FsNext /\ UNCHANGED <<sdVars, qfVars, panelSideVars>>
          /\ cmds = 0 => th'["t2"].pc = "idle"
       \/ explored = "flash" /\ QfNext /\ UNCHANGED <<sdVars, fsVars, panelSideVars>>
       \/ explored = "engine" /\ D2Next /\ UNCHANGED <<storageVars, dpVars, toVars>>
       \/ explored = "display" /\ DpNext /\ UNCHANGED <<storageVars, d2Vars, toVars>>
       \/ explored = "touch" /\ ToNext /\ UNCHANGED <<storageVars, d2Vars, dpVars>>

\* The fairness of the component explored: the others do not move. Nothing of
\* the storage runs by itself until a command begins, so that theirs is as is.
DevSpec ==
    /\ DevInit /\ [][DevNext]_<<explored, storageVars, panelSideVars>>
    /\ SdFairness /\ FsFairness
    /\ WF_dpVars(explored = "display" /\ GuixThread)
    /\ SF_toVars(explored = "touch" /\ InputThread)
    /\ WF_toVars(explored = "touch" /\ Shell) /\ WF_toVars(explored = "touch" /\ I2cIrq)
    /\ WF_toVars(explored = "touch" /\ (I2cWait \/ I2cRecover))
================================================================================
