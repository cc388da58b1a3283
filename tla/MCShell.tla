-------------------------------- MODULE MCShell --------------------------------
(* Instance of the shell's services for TLC: the background jobs of two        *)
(* shells, the line editor and the RAM log. They have no variable in common; a *)
(* run explores each of them (`explored`) by itself.                           *)
EXTENDS JobPool, LineEditor, LogRing, TLC

CONSTANTS uart, telnet
VARIABLE explored

TwoShells == {uart, telnet}
\* Nothing tells the shells apart.
ShellSymmetry == Permutations(TwoShells)

\* A short word, and one that it is the beginning of.
PromptVal == <<">">>
RootsVal == {<<"a">>, <<"a", "a">>}
SubsVal == [n \in RootsVal |-> IF n = <<"a">> THEN {<<"a", "a">>} ELSE {}]

\* The ring's offsets at zero, and just below where they wrap.
StartsVal == {0, 29}

ShellInit ==
    /\ explored \in {"jobs", "editor", "log"}
    /\ Init /\ EdInit /\ LogInit
    /\ explored # "log" => head = 0 /\ header = 0

ShellNext ==
    /\ UNCHANGED explored
    /\ \/ explored = "jobs" /\ Next /\ UNCHANGED <<edVars, logVars>>
       \/ explored = "editor" /\ EdNext /\ UNCHANGED <<vars, logVars>>
       \/ explored = "log" /\ LogNext /\ UNCHANGED <<vars, edVars>>
       \/ explored = "log" /\ UNCHANGED <<vars, edVars, logVars>>   \* its bounds end it

ShellSpec == ShellInit /\ [][ShellNext]_<<explored, vars, edVars, logVars>>
================================================================================
