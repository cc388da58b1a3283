------------------------------- MODULE LossyLog ------------------------------
(***************************************************************************)
(* What svc/log.c promises its users: a sequence of records that grows at  *)
(* its end by records never seen before, and shrinks at its front only,    *)
(* except that it may be emptied.  Nothing else happens to it -- a reset   *)
(* of the board is a stutter.                                              *)
(***************************************************************************)
EXTENDS Integers, Sequences

CONSTANT Record     \* a record has a field seq
VARIABLE log

Append1(r) ==
    /\ \A k \in DOMAIN log : log[k].seq < r.seq
    /\ log' = Append(log, r)
DropOldest == log # <<>> /\ log' = Tail(log)
Empty == log' = <<>>

Init == log = <<>>
Next == (\E r \in Record : Append1(r)) \/ DropOldest \/ Empty
Spec == Init /\ [][Next]_log
=============================================================================
