-------------------------------- MODULE NnModel --------------------------------
(***************************************************************************)
(* The one model of port/nn/nn.c and its swap at run time, by the backend  *)
(* that is built in: tflm/nn_tflm.cc, which rebuilds the one interpreter   *)
(* over the one arena and, when that fails, the previous one again; or     *)
(* nn_stedgeai_reloc.c, which builds the new network beside the old one    *)
(* and runs code out of the slot. The `ai` commands come from shells and   *)
(* their background jobs. A step is what a thread does between two points  *)
(* where another may use the model; "reload", "build" and "run" are places *)
(* that take time. Abstracted: a model is a name, its tensors are its name *)
(* again; how a stream stops is NnCamera's.                                *)
(***************************************************************************)
EXTENDS Integers

CONSTANTS
    Users,          \* the threads that run `ai` commands
    Files,          \* the model files on the card
    Verified,       \* ... that pass the verifier,
    Buildable,      \* ... and fit in the arena
    MaxCommands     \* bound: commands begun
ASSUME ModelAssumption ==
    /\ Buildable \subseteq Verified /\ Verified \subseteq Files
    /\ {"builtin", "torn", "none"} \cap Files = {} /\ MaxCommands \in Nat

VARIABLES
    backend,        \* nn_backend_vt_selected
    opened, opening,    \* g_model.open; g_opening
    session,        \* nn_session_busy
    slot, content,  \* g_sd_slot (g_reloc.slot); what the two slots hold
    nets, tensors,  \* of what each slot's network was built; what the tensors describe
    place, doing, target,   \* of each user: where it is, its command, its slot
    streaming, latched,     \* nncam_run; the model whose input nncam_in_* describe
    commands

modelVars == <<opened, opening, slot, nets, tensors>>
streamVars == <<streaming, latched>>
nmVars == <<backend, modelVars, session, content, place, doing, target, streamVars, commands>>

Slots == {-1, 0, 1}
Held(s) == IF s = -1 THEN "builtin" ELSE content[s]
Only(s) == [t \in Slots |-> IF t = s THEN Held(s) ELSE "none"]
NoNet == [t \in Slots |-> "none"]

NmInit ==
    /\ backend \in {"tflm", "reloc"}
    /\ opened = FALSE /\ opening = FALSE /\ session = FALSE
    /\ slot = -1 /\ content = [s \in {0, 1} |-> "torn"]
    /\ nets = NoNet /\ tensors = "none"
    /\ place = [u \in Users |-> "idle"] /\ doing = [u \in Users |-> "info"] /\ target = [u \in Users |-> 0]
    /\ streaming = FALSE /\ latched = "none" /\ commands = 0

Goes(u, p) == place' = [place EXCEPT ![u] = p]

------------------------------------------------------------------------------
(* nn_model_open(). *)

\* A command begins (cmd_ai_*); what it prints when it is refused is left out.
Begins(u) ==
    /\ place[u] = "idle" /\ commands < MaxCommands
    /\ commands' = commands + 1
    /\ \E what \in {"info", "bench", "load", "builtin", "stream"} :
         /\ what \in {"load", "builtin", "stream"} => ~ streaming
         /\ doing' = [doing EXCEPT ![u] = what]
    /\ Goes(u, "open")
    /\ UNCHANGED <<backend, modelVars, session, content, target, streamVars>>

\* The model is open: `ai bench` and a start want tensors, and a start
\* (nncam_open_model) takes down the geometry of its input.
Opened(u) ==
    /\ place[u] = "open" /\ opened
    /\ Goes(u, IF doing[u] = "info" \/ (doing[u] \in {"bench", "stream"} /\ tensors = "none") THEN "idle" ELSE "claim")
    /\ latched' = IF doing[u] = "stream" /\ tensors # "none" THEN tensors ELSE latched
    /\ UNCHANGED <<backend, modelVars, session, content, doing, target, streaming, commands>>

\* One thread opens it, the others sleep and look again.
Opens(u) ==
    /\ place[u] = "open" /\ ~ opened /\ ~ opening
    /\ opening' = TRUE /\ Goes(u, "build")
    /\ UNCHANGED <<backend, opened, slot, nets, tensors, session, content, doing, target, streamVars, commands>>

\* build_interp(), reloc_bin_verify() and reloc_build().
Verifies(model) == model \in Verified \cup {"builtin"}
Builds(model) == model \in Buildable \cup {"builtin"}

\* The backend's open(): tflm's builds the active model, reloc's has none.
BackendOpens(u) ==
    /\ place[u] = "build"
    /\ opening' = FALSE
    /\ IF backend = "tflm" /\ ~ Builds(Held(slot))
       THEN Goes(u, "idle") /\ UNCHANGED <<opened, nets, tensors>>
       ELSE /\ opened' = TRUE /\ Goes(u, "open")
            /\ IF backend = "reloc" THEN UNCHANGED <<nets, tensors>>
               ELSE nets' = Only(slot) /\ tensors' = Held(slot)
    /\ UNCHANGED <<backend, slot, session, content, doing, target, streamVars, commands>>

------------------------------------------------------------------------------
(* The session. *)

Claimed(what) ==
    CASE what = "load" -> "region" [] what = "builtin" -> "reload" [] what = "bench" -> "run" [] what = "stream" -> "idle"

\* nn_session_try_acquire(); a start enables the stream, which keeps the session.
Acquires(u) ==
    /\ place[u] = "claim"
    /\ IF session THEN Goes(u, "idle") /\ UNCHANGED <<session, streaming>>
       ELSE /\ session' = TRUE /\ Goes(u, Claimed(doing[u]))
            /\ streaming' = (doing[u] = "stream")
    /\ UNCHANGED <<backend, modelVars, content, doing, target, latched, commands>>

Release(u) ==
    /\ place[u] = "release"
    /\ session' = FALSE /\ Goes(u, "idle")
    /\ UNCHANGED <<backend, modelVars, content, doing, target, streamVars, commands>>

\* nn_run(), of `ai bench`; and of the stream, until a command stops it.
Bench(u) ==
    /\ place[u] = "run" /\ Goes(u, "release")
    /\ UNCHANGED <<backend, modelVars, session, content, doing, target, streamVars, commands>>
StreamStops(u) ==
    /\ place[u] = "idle" /\ streaming
    /\ streaming' = FALSE /\ Goes(u, "release")
    /\ UNCHANGED <<backend, modelVars, session, content, doing, target, latched, commands>>

------------------------------------------------------------------------------
(* `ai model load` and `ai model builtin`. *)

\* load_region(). Mutant: always the first slot.
InactiveFirst == 0
Inactive == IF slot = 0 THEN 1 ELSE 0

Region(u) ==
    /\ place[u] = "region"
    /\ target' = [target EXCEPT ![u] = Inactive]
    /\ content' = [content EXCEPT ![Inactive] = "torn"]
    /\ Goes(u, "read")
    /\ UNCHANGED <<backend, modelVars, session, doing, streamVars, commands>>

\* fs_core_read_file(): it may fail part of the way.
ReadFile(u) ==
    /\ place[u] = "read"
    /\ \/ Goes(u, "release") /\ UNCHANGED content
       \/ \E f \in Files : content' = [content EXCEPT ![target[u]] = f] /\ Goes(u, "reload")
    /\ UNCHANGED <<backend, modelVars, session, doing, target, streamVars, commands>>

\* tflm_bk_reload(), its second half. Mutant: it gives up at the first failure.
RestoresNever == FALSE
Restores == Builds(Held(slot))

ReloadTflm(new) ==
    IF Builds(Held(new))
    THEN slot' = new /\ nets' = Only(new) /\ tensors' = Held(new) /\ UNCHANGED opened
    ELSE IF Restores THEN nets' = Only(slot) /\ tensors' = Held(slot) /\ UNCHANGED <<slot, opened>>
    ELSE /\ opened' = FALSE /\ UNCHANGED <<slot, tensors>>
         /\ nets' = IF Verifies(Held(new)) THEN NoNet ELSE nets

\* reloc_bk_reload(): unload, or build beside what runs and then retire it.
ReloadReloc(new) ==
    /\ UNCHANGED opened
    /\ IF new = -1 THEN slot' = -1 /\ nets' = NoNet /\ tensors' = "none"
       ELSE IF new = slot \/ ~ Builds(Held(new)) THEN UNCHANGED <<slot, nets, tensors>>
       ELSE slot' = new /\ tensors' = Held(new)
            /\ nets' = [nets EXCEPT ![new] = Held(new), ![slot] = "none"]

\* nn_model_reload()
Reload(u) ==
    /\ place[u] = "reload"
    /\ LET new == IF doing[u] = "load" THEN target[u] ELSE -1 IN
       IF ~ opened THEN UNCHANGED <<opened, slot, nets, tensors>>
       ELSE \/ backend = "tflm" /\ ReloadTflm(new)
            \/ backend = "reloc" /\ ReloadReloc(new)
    /\ Goes(u, "release")
    /\ UNCHANGED <<backend, opening, session, content, doing, target, streamVars, commands>>

------------------------------------------------------------------------------
GoesOn(u) ==
    \/ Opened(u) \/ Opens(u) \/ BackendOpens(u) \/ Acquires(u) \/ Release(u) \/ Bench(u)
    \/ Region(u) \/ ReadFile(u) \/ Reload(u)

NmNext == \E u \in Users : Begins(u) \/ StreamStops(u) \/ GoesOn(u)

\* Every thread gets to run, and files are read or fail to be.
NmFairness == \A u \in Users : WF_nmVars(GoesOn(u))
NmSpec == NmInit /\ [][NmNext]_nmVars /\ NmFairness

------------------------------------------------------------------------------
NmTypeOK ==
    /\ slot \in Slots /\ content \in [{0, 1} -> Files \cup {"torn"}]
    /\ nets \in [Slots -> Files \cup {"builtin", "none"}] /\ tensors \in Files \cup {"builtin", "none"}
    /\ place \in [Users -> {"idle", "open", "build", "claim", "region", "read", "reload", "run", "release"}]
    /\ doing \in [Users -> {"info", "bench", "load", "builtin", "stream"}] /\ target \in [Users -> {0, 1}]
    /\ opened \in BOOLEAN /\ opening \in BOOLEAN /\ session \in BOOLEAN /\ streaming \in BOOLEAN
    /\ backend \in {"tflm", "reloc"}

\* Nothing is read into a slot under the network that lives in it: TFLM reads
\* the flatbuffer, reloc runs the code in place.
NetsIntact == \A s \in Slots : nets[s] # "none" => nets[s] = Held(s)

\* There is no network but the active one, and the tensors are its tensors.
TensorsOfActive ==
    opened => /\ nets[slot] = tensors
              /\ \A s \in Slots \ {slot} : nets[s] = "none"

\* Who runs the model, rebuilds it or fills its other slot is alone with it.
Uses(u) == place[u] \in {"build", "run", "region", "read", "reload"}
UsedAlone ==
    /\ \A u, v \in Users : Uses(u) /\ Uses(v) => u = v
    /\ streaming => session /\ \A u \in Users : ~ Uses(u)

\* The model runs as it was loaded, whoever loads the next one meanwhile.
ModelSound == NmTypeOK /\ NetsIntact /\ TensorsOfActive /\ UsedAlone

\* What it rests on: nothing is in use before the model is open; the session
\* has one holder, a command or the stream; what is active was built; and a
\* load fills the other slot.
OpenInv ==
    /\ opening => ~ opened
    /\ \A u \in Users : place[u] = "build" => opening
    /\ \A u, v \in Users : place[u] = "build" /\ place[v] = "build" => u = v
    /\ ~ opened => /\ slot = -1 /\ nets = NoNet /\ tensors = "none" /\ ~ session /\ ~ streaming
                   /\ \A u \in Users : place[u] \in {"idle", "open", "build"}

Holds(u) == place[u] \in {"run", "region", "read", "reload", "release"}
SessionInv ==
    /\ \A u \in Users : Holds(u) => session /\ ~ streaming
    /\ \A u, v \in Users : Holds(u) /\ Holds(v) => u = v
    /\ streaming => session

LoadInv ==
    /\ slot # -1 => content[slot] \in Buildable
    /\ \A u \in Users :
         /\ place[u] = "claim" => doing[u] # "info"
         /\ place[u] \in {"region", "read"} => doing[u] = "load"
         /\ place[u] = "reload" => doing[u] \in {"load", "builtin"}
         /\ place[u] = "read" \/ (place[u] = "reload" /\ doing[u] = "load") => target[u] # slot

ModelInv == NmTypeOK /\ NetsIntact /\ TensorsOfActive /\ OpenInv /\ SessionInv /\ LoadInv

\* nn_model_reload(): "on failure the previous model stays active"; and every
\* command returns, also those that wait for another to open the model.
StaysOpen == [][opened => opened']_nmVars
CommandsReturn == \A u \in Users : place[u] # "idle" ~> place[u] = "idle"
ModelSettles == StaysOpen /\ CommandsReturn

\* nn_camera_start(): "Claim the single inference session first": the input
\* that a stream prepares its frames for is that of the model it runs.
LatchedFits == streaming => latched = tensors
================================================================================
