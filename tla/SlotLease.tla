------------------------------ MODULE SlotLease ------------------------------
(***************************************************************************)
(* What the frame ring promises, without counters, callbacks or threads:   *)
(* a slot is either being written by the producer or readable, a writer    *)
(* gets a slot only when nobody reads it and it is not the newest frame,   *)
(* and a party starts reading only a frame that has just become, or is,    *)
(* the newest one.                                                         *)
(***************************************************************************)
CONSTANTS Slots, Parties, None

VARIABLES
    writing,    \* the slots the producer is filling
    newest,     \* the last published slot
    holders     \* slot -> the parties that may read it

vars == <<writing, newest, holders>>

Init == /\ writing = {}
        /\ newest = None
        /\ holders = [i \in Slots |-> {}]

\* The producer borrows a slot.
Lend(i) == /\ i \notin writing
           /\ holders[i] = {}
           /\ i # newest
           /\ writing' = writing \cup {i}
           /\ UNCHANGED <<newest, holders>>

\* The producer's frame becomes readable and the newest; the parties that
\* get it may lose a frame it supersedes.
Publish(i) == /\ i \in writing
              /\ writing' = writing \ {i}
              /\ newest' = i
              /\ holders' \in [Slots -> SUBSET Parties]
              /\ \A j \in Slots \ {i} : holders'[j] \subseteq holders[j]

\* A party reads the newest frame.
Take(p) == /\ newest # None
           /\ holders' = [holders EXCEPT ![newest] = @ \cup {p}]
           /\ UNCHANGED <<writing, newest>>

\* A party is done with a frame.
Release(i, p) == /\ p \in holders[i]
                 /\ holders' = [holders EXCEPT ![i] = @ \ {p}]
                 /\ UNCHANGED <<writing, newest>>

\* The ring is cleared while nobody reads.
Reset == /\ \A i \in Slots : holders[i] = {}
         /\ writing' = {}
         /\ newest' = None
         /\ UNCHANGED holders

Next == \/ \E i \in Slots : Lend(i) \/ Publish(i)
        \/ \E p \in Parties : Take(p)
        \/ \E i \in Slots, p \in Parties : Release(i, p)
        \/ Reset

Spec == Init /\ [][Next]_vars
=============================================================================
