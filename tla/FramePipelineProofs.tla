------------------------- MODULE FramePipelineProofs -------------------------
(***************************************************************************)
(* Theorems about FramePipeline, for every number of slots, every set of   *)
(* sinks and readers, and every mix of policies and sink behaviours.       *)
(*                                                                         *)
(* The inductive invariant is TypeOK, PinsBalanced, NoTornFrame,           *)
(* PendingWillMove and RegistryInv together: acquire() looks only at the   *)
(* counter refcount, so that a slot with refcount 0 has no holder follows  *)
(* only while every pin is counted, and that stays so through attach()     *)
(* (which clears the counters) only because a sink being attached holds    *)
(* nothing.                                                                *)
(*                                                                         *)
(* The refinement of SlotLease then takes one step: every critical section *)
(* is a step of the lease, or moves no frame.                              *)
(*                                                                         *)
(* That frames come in order, and that the counters account for all of     *)
(* them, takes a second invariant, DeliveryInv, on top of the first: what  *)
(* the call stacks look like, and that at most one frame is on its way to  *)
(* a sink beside the pending one, which is newer.                          *)
(***************************************************************************)
EXTENDS FramePipeline, FiniteSetTheorems, SequenceTheorems, TLAPS

------------------------------------------------------------------------------
(* Sequences of calls.                                                     *)

\* The call put() starts is a call record, if it starts one.
LEMMA TransferType ==
    ASSUME TypeOK, NEW s \in Sinks
    PROVE  Transfer(s) \in Seq(CallRecord)
<1>1. pending[s] \in Slots \cup {None}
  BY DEF TypeOK
<1>2. CASE pending[s] = None
  BY <1>2 DEF Transfer
<1>3. CASE pending[s] # None
  <2>1. Call(s, pending[s], "due") \in CallRecord
    BY <1>1, <1>3 DEF Call, CallRecord
  <2> QED
    BY <2>1, <1>3 DEF Transfer
<1> QED
  BY <1>2, <1>3

\* Replacing the innermost call of a thread.
LEMMA ReplaceTop ==
    ASSUME NEW c \in CallRecord, NEW q \in Seq(CallRecord), q # <<>>
    PROVE  <<c>> \o Tail(q) \in Seq(CallRecord)
<1>1. <<c>> \in Seq(CallRecord)
  OBVIOUS
<1>2. Tail(q) \in Seq(CallRecord)
  BY HeadTailProperties
<1> QED
  BY <1>1, <1>2, ConcatProperties

\* The innermost call of a thread, its type.
LEMMA TopType ==
    ASSUME TypeOK, NEW t \in Threads, calls[t] # <<>>
    PROVE  /\ Head(calls[t]) \in CallRecord
           /\ Head(calls[t]).sink \in Sinks
           /\ Head(calls[t]).frame \in Slots
           /\ Tail(calls[t]) \in Seq(CallRecord)
<1>1. calls[t] \in Seq(CallRecord)
  BY DEF TypeOK
<1>2. Head(calls[t]) \in CallRecord /\ Tail(calls[t]) \in Seq(CallRecord)
  BY <1>1, HeadTailProperties
<1> QED
  BY <1>2 DEF CallRecord

------------------------------------------------------------------------------
(* Type correctness.                                                       *)

\* A counter that unpin_locked() lowers stays a natural number.
LEMMA LessType ==
    ASSUME NEW n \in Nat, NEW k \in Nat
    PROVE  Less(n, k) \in Nat
BY DEF Less

\* With enough pins to take back the guard in unpin_locked() does not bite.
LEMMA LessIs ==
    ASSUME NEW n \in Nat, NEW k \in Nat, k <= n
    PROVE  Less(n, k) = n - k
BY DEF Less

\* put() keeps the types, whatever the calling thread goes on with.
LEMMA PutType ==
    ASSUME TypeOK, NEW t \in Threads, NEW s \in Sinks, NEW f \in Slots,
           NEW rest \in Seq(CallRecord), Put(t, s, f, rest),
           owed' \in [Sinks -> SUBSET Slots], extra' \in [Sinks -> SUBSET Slots]
    PROVE  TypeOK'
<1>1. Transfer(s) \o rest \in Seq(CallRecord)
  BY TransferType, ConcatProperties
<1>2. calls' \in [Threads -> Seq(CallRecord)]
  BY <1>1 DEF TypeOK, Put
<1>a. refcount \in [Slots -> Nat] /\ pins \in [Sinks -> Nat]
  BY DEF TypeOK
<1>3. refcount' \in [Slots -> Nat] /\ pins' \in [Sinks -> Nat]
  BY <1>a, LessType DEF Put
<1>4. busy' \in [Sinks -> BOOLEAN] /\ pending' \in [Sinks -> Slots \cup {None}]
  BY DEF TypeOK, Put
<1> QED
  BY <1>2, <1>3, <1>4 DEF TypeOK, Put, histVars

\* The frames a sink owes after put() settled one.
LEMMA SettleType ==
    ASSUME TypeOK, NEW s \in Sinks, NEW f \in Slots, Settle(s, f)
    PROVE  owed' \in [Sinks -> SUBSET Slots]
BY DEF TypeOK, Settle

\* publish() keeps the types.
LEMMA PublishType ==
    ASSUME TypeOK, NEW i \in Slots, Publish(i)
    PROVE  TypeOK'
<1>1. /\ IsFiniteSet(Targets) /\ IsFiniteSet(Coalesce)
      /\ \A j \in Slots : IsFiniteSet(Superseded(j))
  BY PipelineAssumption, FS_Subset DEF TypeOK, Targets, Coalesce, Superseded
<1>2. /\ Cardinality(Targets) \in Nat /\ Cardinality(Coalesce) \in Nat
      /\ \A j \in Slots : Cardinality(Superseded(j)) \in Nat
  BY <1>1, FS_CardinalityType
<1>a. /\ refcount \in [Slots -> Nat] /\ pins \in [Sinks -> Nat]
      /\ dropped \in [Sinks -> Nat] /\ offered \in [Sinks -> Nat]
  BY DEF TypeOK
<1>3. refcount' \in [Slots -> Nat]
  <2>1. \A j \in Slots : Less(refcount[j], Cardinality(Superseded(j))) \in Nat
    BY <1>2, <1>a, LessType
  <2> QED
    BY <2>1, <1>2 DEF Publish
<1>4. pins' \in [Sinks -> Nat] /\ dropped' \in [Sinks -> Nat]
      /\ offered' \in [Sinks -> Nat]
  <2>1. pins' \in [Sinks -> Nat]
    <3>1. \A s \in Sinks : Less(pins[s], 1) \in Nat
      BY <1>a, LessType
    <3> QED
      BY <1>a, <3>1 DEF Publish
  <2> QED
    BY <1>a, <2>1 DEF Publish
<1>5. gen' \in 0 .. MaxGen /\ stamp' \in [Slots -> 0 .. MaxGen]
  BY PipelineAssumption DEF TypeOK, Publish
<1>6. /\ busy' \in [Sinks -> BOOLEAN] /\ pending' \in [Sinks -> Slots \cup {None}]
      /\ owed' \in [Sinks -> SUBSET Slots]
  BY DEF TypeOK, Publish
<1>7. /\ filling' \subseteq Slots /\ latest' \in Slots \cup {None}
      /\ fan' \in Slots \cup {None} /\ todo' \subseteq Sinks
      /\ todo' # {} => fan' # None
  BY PipelineAssumption DEF TypeOK, Publish, Targets, Slots
<1> QED
  BY <1>3, <1>4, <1>5, <1>6, <1>7 DEF TypeOK, Publish

\* Every step keeps the types.
LEMMA TypeStep == TypeOK /\ [Next]_vars => TypeOK'
<1> SUFFICES ASSUME TypeOK, [Next]_vars PROVE TypeOK'
  OBVIOUS
<1>1. CASE Reinit
  <2>1. gen' \in 0 .. MaxGen /\ stamp' \in [Slots -> 0 .. MaxGen]
        /\ seen' \in [Sinks -> 0 .. MaxGen] /\ refcount' \in [Slots -> Nat]
    BY <1>1, PipelineAssumption DEF Reinit
  <2>2. todo' = {}
    BY <1>1 DEF Reinit, ProducerFree
  <2> QED
    BY <1>1, <2>1, <2>2 DEF Reinit, TypeOK, sinkVars, useVars
<1>2. CASE Acquire
  BY <1>2 DEF Acquire, Acquirable, TypeOK, sinkVars, callVars, useVars, histVars
<1>3. ASSUME NEW i \in Slots, Publish(i) PROVE TypeOK'
  BY <1>3, PublishType
<1>4. ASSUME NEW s \in Sinks, Deliver(s) PROVE TypeOK'
  <2>1. fan \in Slots
    BY <1>4 DEF Deliver, TypeOK
  <2>2. <<Call(s, fan, "in")>> \in Seq(CallRecord)
    BY <2>1 DEF Call, CallRecord
  <2>3. calls' \in [Threads -> Seq(CallRecord)]
    BY <1>4, <2>2 DEF Deliver, TypeOK
  <2> QED
    BY <1>4, <2>1, <2>3 DEF Deliver, TypeOK, slotVars, sinkVars, useVars
<1>5. ASSUME NEW t \in Threads, CallStep(t) PROVE TypeOK'
  <2> DEFINE c == Head(calls[t])
  <2>0. calls[t] # <<>> /\ calls[t] \in Seq(CallRecord)
    BY <1>5 DEF TypeOK, CallStep, Redeliver, SyncPut, HandOver, Return
  <2>1. c.sink \in Sinks /\ c.frame \in Slots /\ Tail(calls[t]) \in Seq(CallRecord)
    BY <2>0, TopType
  <2>2. \A g \in {"due", "in", "out"} :
           <<Call(c.sink, c.frame, g)>> \o Tail(calls[t]) \in Seq(CallRecord)
    <3> TAKE g \in {"due", "in", "out"}
    <3>1. Call(c.sink, c.frame, g) \in CallRecord
      BY <2>1 DEF Call, CallRecord
    <3> QED
      BY <2>0, <3>1, ReplaceTop
  <2>3. CASE Redeliver(t)
    BY <2>1, <2>2, <2>3 DEF Redeliver, TypeOK, slotVars, sinkVars, useVars
  <2>4. CASE SyncPut(t)
    BY <2>1, <2>2, <2>4, PutType, SettleType DEF SyncPut, TypeOK
  <2>5. CASE HandOver(t)
    BY <2>1, <2>2, <2>5 DEF HandOver, TypeOK, slotVars, sinkVars, useVars,
       histVars
  <2>6. CASE Return(t)
    <3>a. delivered \in [Sinks -> Nat]
      BY DEF TypeOK
    <3>1. delivered' \in [Sinks -> Nat]
      BY <3>a, <2>1, <2>6 DEF Return
    <3>2. calls' \in [Threads -> Seq(CallRecord)]
      BY <2>1, <2>6 DEF Return, TypeOK
    <3> QED
      BY <3>1, <3>2, <2>6 DEF Return, TypeOK, slotVars, useVars, histVars
  <2> QED
    BY <1>5, <2>3, <2>4, <2>5, <2>6 DEF CallStep
<1>6. ASSUME NEW s \in Sinks, NEW f \in Slots, AsyncPut(s, f) PROVE TypeOK'
  <2>1. s \in Threads /\ <<>> \in Seq(CallRecord) /\ extra' \in [Sinks -> SUBSET Slots]
    BY <1>6 DEF AsyncPut, Threads, TypeOK
  <2> QED
    BY <1>6, <2>1, PutType, SettleType DEF AsyncPut
<1>7. ASSUME NEW s \in Sinks, NEW f \in Slots, Get(s, f) PROVE TypeOK'
  <2>1. refcount \in [Slots -> Nat] /\ pins \in [Sinks -> Nat]
    BY DEF TypeOK
  <2>2. refcount' \in [Slots -> Nat] /\ pins' \in [Sinks -> Nat]
    BY <1>7, <2>1 DEF Get
  <2> QED
    BY <1>7, <2>2 DEF Get, TypeOK, callVars, histVars
<1>8. ASSUME NEW s \in Sinks, NEW f \in Slots, PutExtra(s, f) PROVE TypeOK'
  <2>1. s \in Threads /\ <<>> \in Seq(CallRecord)
    BY DEF Threads
  <2>2. owed' \in [Sinks -> SUBSET Slots] /\ extra' \in [Sinks -> SUBSET Slots]
    BY <1>8 DEF PutExtra, TypeOK
  <2> QED
    BY <1>8, <2>1, <2>2, PutType DEF PutExtra
<1>9. ASSUME NEW r \in Readers, ReaderStep(r) PROVE TypeOK'
  <2>1. refcount \in [Slots -> Nat] /\ pulled \in [Readers -> Slots \cup {None}]
        /\ latest \in Slots \cup {None}
    BY DEF TypeOK
  <2>2. CASE PinLatest(r)
    <3>1. refcount' \in [Slots -> Nat] /\ pulled' \in [Readers -> Slots \cup {None}]
      BY <2>1, <2>2 DEF PinLatest
    <3> QED
      BY <2>2, <3>1 DEF PinLatest, TypeOK, sinkVars, callVars, histVars
  <2>3. CASE PullPut(r)
    <3>1. refcount' \in [Slots -> Nat] /\ pulled' \in [Readers -> Slots \cup {None}]
      BY <2>1, <2>3, LessType DEF PullPut
    <3> QED
      BY <2>3, <3>1 DEF PullPut, TypeOK, sinkVars, callVars, histVars
  <2> QED
    BY <1>9, <2>2, <2>3 DEF ReaderStep
<1>10. ASSUME NEW s \in Sinks, AttachOpen(s) \/ AttachLink(s) PROVE TypeOK'
  <2>1. CASE AttachOpen(s)
    BY <2>1 DEF AttachOpen, TypeOK, slotVars, sinkVars, callVars, useVars,
       histVars
  <2>2. CASE AttachLink(s)
    <3>1. /\ busy' \in [Sinks -> BOOLEAN] /\ pending' \in [Sinks -> Slots \cup {None}]
          /\ pins' \in [Sinks -> Nat] /\ delivered' \in [Sinks -> Nat]
          /\ dropped' \in [Sinks -> Nat] /\ offered' \in [Sinks -> Nat]
      BY <2>2 DEF AttachLink, TypeOK
    <3> QED
      BY <2>2, <3>1 DEF AttachLink, Idle, TypeOK, slotVars, callVars, useVars
  <2> QED
    BY <1>10, <2>1, <2>2
<1>11. ASSUME NEW s \in Sinks, Detach(s) PROVE TypeOK'
  <2>1. refcount \in [Slots -> Nat] /\ pins \in [Sinks -> Nat]
    BY DEF TypeOK
  <2>2. refcount' \in [Slots -> Nat] /\ pins' \in [Sinks -> Nat]
    BY <1>11, <2>1, LessType DEF Detach
  <2> QED
    BY <1>11, <2>2 DEF Detach, TypeOK, callVars, useVars, histVars
<1>12. CASE AttachRefused \/ DetachReturn
  BY <1>12 DEF AttachRefused, DetachReturn, Idle, TypeOK, slotVars, sinkVars,
     callVars, useVars, histVars
<1>13. CASE UNCHANGED vars
  BY <1>13 DEF vars, TypeOK, slotVars, sinkVars, callVars, useVars, histVars
<1> QED
  BY <1>1, <1>2, <1>3, <1>4, <1>5, <1>6, <1>7, <1>8, <1>9, <1>10, <1>11, <1>12,
     <1>13
     DEF Next, ProducerStep, SinkStep, ReaderStep, RegistryStep

(* The types of all state of the ring, its sinks and their threads.        *)
THEOREM TypeCorrect == Spec => []TypeOK
<1>1. Init => TypeOK
  BY PipelineAssumption DEF Init, TypeOK, Idle, Slots
<1>2. TypeOK /\ [Next]_vars => TypeOK'
  BY TypeStep
<1> QED
  BY <1>1, <1>2, PTL DEF Spec

------------------------------------------------------------------------------
(* Counting pins.                                                          *)

\* The sets of pin holders are finite, and so are the frames of a sink.
LEMMA HoldersFinite ==
    ASSUME TypeOK
    PROVE  /\ \A i \in Slots : /\ IsFiniteSet(OwedOn(i)) /\ IsFiniteSet(ExtraOn(i))
                               /\ IsFiniteSet(PendingOn(i)) /\ IsFiniteSet(PulledOn(i))
           /\ \A s \in Sinks : IsFiniteSet(owed[s]) /\ IsFiniteSet(extra[s])
<1>1. IsFiniteSet(Slots)
  BY PipelineAssumption, FS_Interval DEF Slots
<1>2. \A s \in Sinks : owed[s] \in SUBSET Slots /\ extra[s] \in SUBSET Slots
  BY DEF TypeOK
<1>3. \A i \in Slots : /\ OwedOn(i) \in SUBSET Sinks /\ ExtraOn(i) \in SUBSET Sinks
                       /\ PendingOn(i) \in SUBSET Sinks
                       /\ PulledOn(i) \in SUBSET Readers
  BY DEF OwedOn, ExtraOn, PendingOn, PulledOn
<1> QED
  BY <1>1, <1>2, <1>3, PipelineAssumption, FS_Subset

\* Their sizes are natural numbers.
LEMMA HoldersCount ==
    ASSUME TypeOK
    PROVE  /\ \A i \in Slots : /\ Cardinality(OwedOn(i)) \in Nat
                               /\ Cardinality(ExtraOn(i)) \in Nat
                               /\ Cardinality(PendingOn(i)) \in Nat
                               /\ Cardinality(PulledOn(i)) \in Nat
           /\ \A s \in Sinks : /\ Cardinality(owed[s]) \in Nat
                               /\ Cardinality(extra[s]) \in Nat
BY HoldersFinite, FS_CardinalityType

\* Adding a new element, removing a present one.
LEMMA CountAdd ==
    ASSUME NEW S, IsFiniteSet(S), NEW x, x \notin S
    PROVE  Cardinality(S \cup {x}) = Cardinality(S) + 1
BY FS_AddElement

LEMMA CountRemove ==
    ASSUME NEW S, IsFiniteSet(S), NEW x, x \in S
    PROVE  /\ Cardinality(S \ {x}) = Cardinality(S) - 1
           /\ Cardinality(S) >= 1
<1>1. Cardinality(S) \in Nat /\ Cardinality(S \ {x}) \in Nat
  BY FS_RemoveElement, FS_CardinalityType
<1> QED
  BY <1>1, FS_RemoveElement

\* A slot whose refcount is 0 has no holder of any kind.
LEMMA NoPinNoHolder ==
    ASSUME TypeOK, PinsBalanced, NEW i \in Slots, refcount[i] = 0
    PROVE  OwedOn(i) = {} /\ ExtraOn(i) = {} /\ PendingOn(i) = {} /\ PulledOn(i) = {}
<1>1. /\ Cardinality(OwedOn(i)) = 0 /\ Cardinality(ExtraOn(i)) = 0
      /\ Cardinality(PendingOn(i)) = 0 /\ Cardinality(PulledOn(i)) = 0
  BY HoldersCount DEF PinsBalanced
<1> QED
  BY <1>1, HoldersFinite, FS_EmptySet

------------------------------------------------------------------------------
(* put().                                                                  *)

\* What a put() that leaves sink s with the pending frame p (if it has one)
\* does to the holders of every slot.
LEMMA PendingMoves ==
    ASSUME TypeOK, NEW s \in Sinks,
           pending' = [pending EXCEPT ![s] = None]
    PROVE  /\ \A i \in Slots : PendingOn(i)' =
                  IF i = pending[s] THEN PendingOn(i) \ {s} ELSE PendingOn(i)
           /\ pending[s] \in Slots => s \in PendingOn(pending[s])
<1>1. pending \in [Sinks -> Slots \cup {None}] /\ None \notin Slots
  BY PipelineAssumption DEF TypeOK, Slots
<1> QED
  BY <1>1 DEF PendingOn

\* The put() of a delivered frame keeps the books.
LEMMA SettleBalanced ==
    ASSUME PipelineInv, NEW t \in Threads, NEW s \in Sinks, NEW f \in Slots,
           NEW rest, Put(t, s, f, rest), f \in owed[s], Settle(s, f), UNCHANGED extra
    PROVE  PinsBalanced'
<1> DEFINE p == pending[s]
<1>1. TypeOK /\ PinsBalanced /\ RegistryInv
  BY DEF PipelineInv
<1>2. /\ refcount \in [Slots -> Nat] /\ pins \in [Sinks -> Nat]
      /\ owed \in [Sinks -> SUBSET Slots] /\ p \in Slots \cup {None}
      /\ None \notin Slots
  BY <1>1, PipelineAssumption DEF TypeOK, Slots
<1>3. p \notin owed[s] /\ p # f
  BY <1>1 DEF RegistryInv
<1>4. /\ \A i \in Slots : ExtraOn(i)' = ExtraOn(i) /\ PulledOn(i)' = PulledOn(i)
      /\ \A u \in Sinks : extra'[u] = extra[u]
  BY DEF ExtraOn, PulledOn, Put
<1>5. /\ \A i \in Slots : PendingOn(i)' =
             IF i = p THEN PendingOn(i) \ {s} ELSE PendingOn(i)
      /\ p \in Slots => s \in PendingOn(p)
  BY <1>1, PendingMoves DEF Put
<1>6. /\ \A i \in Slots : OwedOn(i)' = IF i = f THEN OwedOn(i) \ {s}
                                       ELSE IF i = p THEN OwedOn(i) \cup {s}
                                       ELSE OwedOn(i)
      /\ s \in OwedOn(f)
      /\ p \in Slots => s \notin OwedOn(p)
  BY <1>2, <1>3 DEF OwedOn, Settle
<1>7. ASSUME NEW i \in Slots
      PROVE  refcount'[i] = Cardinality(OwedOn(i)') + Cardinality(ExtraOn(i)')
                            + Cardinality(PendingOn(i)') + Cardinality(PulledOn(i)')
  <2>1. refcount[i] = Cardinality(OwedOn(i)) + Cardinality(ExtraOn(i))
                      + Cardinality(PendingOn(i)) + Cardinality(PulledOn(i))
    BY <1>1 DEF PinsBalanced
  <2>2. /\ Cardinality(OwedOn(i)) \in Nat /\ Cardinality(ExtraOn(i)) \in Nat
        /\ Cardinality(PendingOn(i)) \in Nat /\ Cardinality(PulledOn(i)) \in Nat
        /\ IsFiniteSet(OwedOn(i)) /\ IsFiniteSet(PendingOn(i))
    BY <1>1, HoldersCount, HoldersFinite
  <2>3. CASE i = f
    <3>1. Cardinality(OwedOn(i) \ {s}) = Cardinality(OwedOn(i)) - 1
          /\ Cardinality(OwedOn(i)) >= 1
      BY <2>2, <2>3, <1>6, CountRemove
    <3>2. refcount'[i] = refcount[i] - 1
      BY <2>1, <2>2, <2>3, <3>1, <1>2 DEF Put, Less
    <3>3. /\ OwedOn(i)' = OwedOn(i) \ {s} /\ PendingOn(i)' = PendingOn(i)
          /\ ExtraOn(i)' = ExtraOn(i) /\ PulledOn(i)' = PulledOn(i)
      BY <2>3, <1>3, <1>4, <1>5, <1>6
    <3> HIDE DEF p
    <3> QED
      BY <2>1, <2>2, <3>1, <3>2, <3>3
  <2>4. CASE i = p
    <3>1. Cardinality(OwedOn(i) \cup {s}) = Cardinality(OwedOn(i)) + 1
      BY <2>2, <2>4, <1>6, CountAdd
    <3>2. Cardinality(PendingOn(i) \ {s}) = Cardinality(PendingOn(i)) - 1
      BY <2>2, <2>4, <1>5, CountRemove
    <3>3. refcount'[i] = refcount[i]
      BY <2>4, <1>2, <1>3 DEF Put
    <3>4. /\ OwedOn(i)' = OwedOn(i) \cup {s} /\ PendingOn(i)' = PendingOn(i) \ {s}
          /\ ExtraOn(i)' = ExtraOn(i) /\ PulledOn(i)' = PulledOn(i)
      BY <2>4, <1>3, <1>4, <1>5, <1>6
    <3> HIDE DEF p
    <3> QED
      BY <2>1, <2>2, <3>1, <3>2, <3>3, <3>4
  <2>5. CASE i # f /\ i # p
    <3>1. refcount'[i] = refcount[i]
      BY <2>5, <1>2 DEF Put
    <3> QED
      BY <2>1, <2>5, <3>1, <1>4, <1>5, <1>6
  <2> QED
    BY <2>3, <2>4, <2>5
<1>8. ASSUME NEW u \in Sinks
      PROVE  pins'[u] = Cardinality(owed'[u]) + Cardinality(extra'[u])
                          + IF pending'[u] = None THEN 0 ELSE 1
  <2>1. pins[u] = Cardinality(owed[u]) + Cardinality(extra[u])
                    + IF pending[u] = None THEN 0 ELSE 1
    BY <1>1 DEF PinsBalanced
  <2>2. /\ Cardinality(owed[u]) \in Nat /\ Cardinality(extra[u]) \in Nat
        /\ IsFiniteSet(owed[u])
    BY <1>1, HoldersCount, HoldersFinite
  <2>3. CASE u # s
    <3>1. pins'[u] = pins[u] /\ owed'[u] = owed[u] /\ pending'[u] = pending[u]
      BY <2>3, <1>1, <1>2 DEF Put, Settle, TypeOK
    <3> QED
      BY <2>1, <3>1, <1>4
  <2>4. CASE u = s
    <3>1. Cardinality(owed[s] \ {f}) = Cardinality(owed[s]) - 1
          /\ Cardinality(owed[s]) >= 1 /\ IsFiniteSet(owed[s] \ {f})
      BY <2>2, <2>4, CountRemove, FS_RemoveElement
    <3>2. pins'[s] = pins[s] - 1 /\ pending'[s] = None
      BY <2>1, <2>2, <2>4, <3>1, <1>1, <1>2 DEF Put, Less, TypeOK
    <3>3. CASE p = None
      <4>1. owed'[s] = owed[s] \ {f}
        BY <3>3, <1>2 DEF Settle
      <4> QED
        BY <2>1, <2>2, <2>4, <3>1, <3>2, <3>3, <4>1, <1>4
    <3>4. CASE p # None
      <4>1. owed'[s] = (owed[s] \ {f}) \cup {p}
        BY <3>4, <1>2 DEF Settle
      <4>2. Cardinality(owed'[s]) = Cardinality(owed[s] \ {f}) + 1
        BY <4>1, <3>1, <1>3, CountAdd
      <4> QED
        BY <2>1, <2>2, <2>4, <3>1, <3>2, <3>4, <4>2, <1>4
    <3> QED
      BY <3>3, <3>4
  <2> QED
    BY <2>3, <2>4
<1> QED
  BY <1>7, <1>8 DEF PinsBalanced

\* The rest of the invariant after the put() of a delivered frame.
LEMMA SettleRest ==
    ASSUME PipelineInv, NEW t \in Threads, NEW s \in Sinks, NEW f \in Slots,
           NEW rest, Put(t, s, f, rest), f \in owed[s], Settle(s, f), UNCHANGED extra
    PROVE  NoTornFrame' /\ PendingWillMove' /\ RegistryInv'
<1>1. TypeOK /\ NoTornFrame /\ PendingWillMove /\ RegistryInv
  BY DEF PipelineInv
<1>2. /\ owed \in [Sinks -> SUBSET Slots] /\ busy \in [Sinks -> BOOLEAN]
      /\ pending \in [Sinks -> Slots \cup {None}] /\ None \notin Slots
      /\ filling \subseteq Slots
  BY <1>1, PipelineAssumption DEF TypeOK, Slots
<1>3. \A u \in Sinks : /\ u # s => owed'[u] = owed[u] /\ pending'[u] = pending[u]
                                    /\ busy'[u] = busy[u]
                       /\ pending'[s] = None
                       /\ owed'[s] = (owed[s] \ {f}) \cup
                              (IF pending[s] = None THEN {} ELSE {pending[s]})
  BY <1>2 DEF Put, Settle
<1>4. NoTornFrame'
  <2>1. \A i \in filling : OwedOn(i)' = {} /\ PendingOn(i)' = {}
    BY <1>1, <1>2, <1>3 DEF NoTornFrame, OwedOn, PendingOn
  <2>2. \A i \in filling : ExtraOn(i)' = {} /\ PulledOn(i)' = {} /\ i # latest'
    BY <1>1 DEF NoTornFrame, ExtraOn, PulledOn, Put
  <2> QED
    BY <2>1, <2>2 DEF NoTornFrame, Put
<1>5. PendingWillMove'
  BY <1>1, <1>3 DEF PendingWillMove
<1>6. RegistryInv'
  <2>1. \A u \in Sinks : pending'[u] # None => u \in attached'
    BY <1>1, <1>3 DEF RegistryInv, Put
  <2>2. \A u \in Sinks : pending'[u] \notin owed'[u]
    BY <1>1, <1>2, <1>3 DEF RegistryInv
  <2>4. \A u \in Sinks : busy'[u] => owed'[u] # {}
    BY <1>1, <1>2, <1>3 DEF RegistryInv, Put
  <2>3. registry'.op = "open" => /\ registry'.sink \in Sinks \ attached'
                                 /\ owed'[registry'.sink] = {}
                                 /\ extra'[registry'.sink] = {}
    BY <1>1, <1>3 DEF RegistryInv, Put
  <2> QED
    BY <2>1, <2>2, <2>3, <2>4 DEF RegistryInv
<1> QED
  BY <1>4, <1>5, <1>6

\* The put() of an additional pin.
LEMMA PutExtraInv ==
    ASSUME PipelineInv, NEW s \in Sinks, NEW f \in Slots, PutExtra(s, f)
    PROVE  PinsBalanced' /\ NoTornFrame' /\ PendingWillMove' /\ RegistryInv'
<1> DEFINE p == pending[s]
<1>1. TypeOK /\ PinsBalanced /\ NoTornFrame /\ PendingWillMove /\ RegistryInv
  BY DEF PipelineInv
<1>2. /\ refcount \in [Slots -> Nat] /\ pins \in [Sinks -> Nat]
      /\ owed \in [Sinks -> SUBSET Slots] /\ extra \in [Sinks -> SUBSET Slots]
      /\ pending \in [Sinks -> Slots \cup {None}] /\ p \in Slots \cup {None}
      /\ busy \in [Sinks -> BOOLEAN]
      /\ None \notin Slots /\ filling \subseteq Slots
  BY <1>1, PipelineAssumption DEF TypeOK, Slots
<1>3. p \notin owed[s]
  BY <1>1 DEF RegistryInv
<1>4. \A u \in Sinks : /\ u # s => /\ owed'[u] = owed[u] /\ extra'[u] = extra[u]
                                    /\ pending'[u] = pending[u] /\ busy'[u] = busy[u]
                       /\ pending'[s] = None
                       /\ extra'[s] = extra[s] \ {f}
                       /\ owed'[s] = owed[s] \cup (IF p = None THEN {} ELSE {p})
  BY <1>2 DEF PutExtra, Put
<1>5. /\ \A i \in Slots : PendingOn(i)' =
             IF i = p THEN PendingOn(i) \ {s} ELSE PendingOn(i)
      /\ p \in Slots => s \in PendingOn(p)
  BY <1>1, PendingMoves DEF PutExtra, Put
<1>6. \A i \in Slots :
         /\ OwedOn(i)' = IF i = p THEN OwedOn(i) \cup {s} ELSE OwedOn(i)
         /\ ExtraOn(i)' = IF i = f THEN ExtraOn(i) \ {s} ELSE ExtraOn(i)
         /\ PulledOn(i)' = PulledOn(i)
         /\ i = p => s \notin OwedOn(i)
         /\ i = f => s \in ExtraOn(i)
  <2>1. f \in extra[s] /\ pulled' = pulled
    BY DEF PutExtra, Put
  <2> QED
    BY <2>1, <1>2, <1>3, <1>4 DEF OwedOn, ExtraOn, PulledOn
<1>7. ASSUME NEW i \in Slots
      PROVE  refcount'[i] = Cardinality(OwedOn(i)') + Cardinality(ExtraOn(i)')
                            + Cardinality(PendingOn(i)') + Cardinality(PulledOn(i)')
  <2>1. refcount[i] = Cardinality(OwedOn(i)) + Cardinality(ExtraOn(i))
                      + Cardinality(PendingOn(i)) + Cardinality(PulledOn(i))
    BY <1>1 DEF PinsBalanced
  <2>2. /\ Cardinality(OwedOn(i)) \in Nat /\ Cardinality(ExtraOn(i)) \in Nat
        /\ Cardinality(PendingOn(i)) \in Nat /\ Cardinality(PulledOn(i)) \in Nat
        /\ IsFiniteSet(OwedOn(i)) /\ IsFiniteSet(PendingOn(i)) /\ IsFiniteSet(ExtraOn(i))
    BY <1>1, HoldersCount, HoldersFinite
  <2>3. Cardinality(OwedOn(i)') + Cardinality(PendingOn(i)')
            = Cardinality(OwedOn(i)) + Cardinality(PendingOn(i))
        /\ Cardinality(OwedOn(i)') \in Nat /\ Cardinality(PendingOn(i)') \in Nat
    <3>1. CASE i = p
      <4>1. Cardinality(OwedOn(i) \cup {s}) = Cardinality(OwedOn(i)) + 1
        BY <2>2, <3>1, <1>6, CountAdd
      <4>2. Cardinality(PendingOn(i) \ {s}) = Cardinality(PendingOn(i)) - 1
            /\ Cardinality(PendingOn(i)) >= 1
        BY <2>2, <3>1, <1>5, CountRemove
      <4>3. OwedOn(i)' = OwedOn(i) \cup {s} /\ PendingOn(i)' = PendingOn(i) \ {s}
        BY <3>1, <1>5, <1>6
      <4> HIDE DEF p
      <4> QED
        BY <2>2, <4>1, <4>2, <4>3
    <3>2. CASE i # p
      <4>1. OwedOn(i)' = OwedOn(i) /\ PendingOn(i)' = PendingOn(i)
        BY <3>2, <1>5, <1>6
      <4> QED
        BY <2>2, <4>1
    <3> QED
      BY <3>1, <3>2
  <2>4. PulledOn(i)' = PulledOn(i)
    BY <1>6
  <2>5. CASE i = f
    <3>1. Cardinality(ExtraOn(i) \ {s}) = Cardinality(ExtraOn(i)) - 1
          /\ Cardinality(ExtraOn(i)) >= 1
      BY <2>2, <2>5, <1>6, CountRemove
    <3>2. refcount'[i] = refcount[i] - 1
      BY <2>1, <2>2, <2>5, <3>1, <1>2 DEF PutExtra, Put, Less
    <3>3. ExtraOn(i)' = ExtraOn(i) \ {s}
      BY <2>5, <1>6
    <3> HIDE DEF p
    <3> QED
      BY <2>1, <2>2, <2>3, <2>4, <3>1, <3>2, <3>3
  <2>6. CASE i # f
    <3>1. refcount'[i] = refcount[i] /\ ExtraOn(i)' = ExtraOn(i)
      BY <2>6, <1>2, <1>6 DEF PutExtra, Put
    <3> HIDE DEF p
    <3> QED
      BY <2>1, <2>2, <2>3, <2>4, <3>1
  <2> QED
    BY <2>5, <2>6
<1>8. ASSUME NEW u \in Sinks
      PROVE  pins'[u] = Cardinality(owed'[u]) + Cardinality(extra'[u])
                          + IF pending'[u] = None THEN 0 ELSE 1
  <2>1. pins[u] = Cardinality(owed[u]) + Cardinality(extra[u])
                    + IF pending[u] = None THEN 0 ELSE 1
    BY <1>1 DEF PinsBalanced
  <2>2. /\ Cardinality(owed[u]) \in Nat /\ Cardinality(extra[u]) \in Nat
        /\ IsFiniteSet(owed[u]) /\ IsFiniteSet(extra[u])
    BY <1>1, HoldersCount, HoldersFinite
  <2>3. CASE u # s
    <3>1. pins'[u] = pins[u]
      BY <2>3, <1>2 DEF PutExtra, Put
    <3> QED
      BY <2>1, <2>3, <3>1, <1>4
  <2>4. CASE u = s
    <3>1. Cardinality(extra[s] \ {f}) = Cardinality(extra[s]) - 1
          /\ Cardinality(extra[s]) >= 1
      BY <2>2, <2>4, CountRemove DEF PutExtra
    <3>2. pins'[s] = pins[s] - 1
      BY <2>1, <2>2, <2>4, <3>1, <1>2 DEF PutExtra, Put, Less
    <3>3. pending'[s] = None /\ extra'[s] = extra[s] \ {f}
      BY <1>4
    <3>4. CASE p = None
      <4>1. owed'[s] = owed[s]
        BY <3>4, <1>4
      <4> QED
        BY <2>1, <2>2, <2>4, <3>1, <3>2, <3>3, <3>4, <4>1
    <3>5. CASE p # None
      <4>1. owed'[s] = owed[s] \cup {p}
        BY <3>5, <1>4
      <4>2. Cardinality(owed'[s]) = Cardinality(owed[s]) + 1
        BY <4>1, <2>2, <2>4, <1>3, CountAdd
      <4> QED
        BY <2>1, <2>2, <2>4, <3>1, <3>2, <3>3, <3>5, <4>2
    <3> QED
      BY <3>4, <3>5
  <2> QED
    BY <2>3, <2>4
<1>9. NoTornFrame'
  <2>1. \A i \in filling : /\ OwedOn(i)' = {} /\ PendingOn(i)' = {}
                           /\ ExtraOn(i)' = {} /\ PulledOn(i)' = {}
    <3> TAKE i \in filling
    <3>1. /\ i \in Slots /\ OwedOn(i) = {} /\ ExtraOn(i) = {}
          /\ PendingOn(i) = {} /\ PulledOn(i) = {}
      BY <1>1, <1>2 DEF NoTornFrame
    <3>2. i # p
      BY <3>1, <1>5
    <3> QED
      BY <3>1, <3>2, <1>5, <1>6
  <2> QED
    BY <2>1, <1>1 DEF NoTornFrame, PutExtra, Put
<1>10. PendingWillMove'
  BY <1>1, <1>4 DEF PendingWillMove
<1>11. RegistryInv'
  <2>1. \A u \in Sinks : pending'[u] # None => u \in attached'
    BY <1>1, <1>4 DEF RegistryInv, PutExtra, Put
  <2>2. \A u \in Sinks : pending'[u] \notin owed'[u]
    BY <1>1, <1>2, <1>4 DEF RegistryInv
  <2>4. \A u \in Sinks : busy'[u] => owed'[u] # {}
    BY <1>1, <1>2, <1>4 DEF RegistryInv, PutExtra, Put
  <2>3. registry'.op = "open" => /\ registry'.sink \in Sinks \ attached'
                                 /\ owed'[registry'.sink] = {}
                                 /\ extra'[registry'.sink] = {}
    BY <1>1, <1>4 DEF RegistryInv, PutExtra, Put
  <2> QED
    BY <2>1, <2>2, <2>3, <2>4 DEF RegistryInv
<1> QED
  BY <1>7, <1>8, <1>9, <1>10, <1>11 DEF PinsBalanced

------------------------------------------------------------------------------
(* publish().                                                              *)

\* Who holds which slot after publish(i).
LEMMA PublishHolders ==
    ASSUME PipelineInv, NEW i \in Slots, Publish(i)
    PROVE  /\ Targets \in SUBSET Sinks /\ Coalesce \in SUBSET Sinks
           /\ Targets \cap Coalesce = {}
           /\ \A u \in Sinks : /\ i \notin owed[u] /\ pending[u] # i
                               /\ owed'[u] = IF u \in Targets THEN owed[u] \cup {i}
                                                             ELSE owed[u]
                               /\ pending'[u] = IF u \in Coalesce THEN i ELSE pending[u]
           /\ \A j \in Slots :
                 /\ OwedOn(j)' = IF j = i THEN Targets ELSE OwedOn(j)
                 /\ PendingOn(j)' = IF j = i THEN Coalesce
                                    ELSE PendingOn(j) \ Superseded(j)
                 /\ Superseded(j) \in SUBSET PendingOn(j)
                 /\ ExtraOn(j)' = ExtraOn(j)
                 /\ PulledOn(j)' = PulledOn(j)
           /\ OwedOn(i) = {} /\ PendingOn(i) = {} /\ ExtraOn(i) = {} /\ PulledOn(i) = {}
<1>1. /\ owed \in [Sinks -> SUBSET Slots] /\ attached \subseteq Sinks
      /\ pending \in [Sinks -> Slots \cup {None}] /\ None \notin Slots
  BY PipelineAssumption DEF PipelineInv, TypeOK, Slots
<1>2. OwedOn(i) = {} /\ PendingOn(i) = {} /\ ExtraOn(i) = {} /\ PulledOn(i) = {}
  BY DEF PipelineInv, NoTornFrame, Publish
<1>3. /\ Targets \in SUBSET Sinks /\ Coalesce \in SUBSET Sinks
      /\ Targets \cap Coalesce = {}
  BY <1>1 DEF Targets, Coalesce
<1>4. \A u \in Sinks : /\ i \notin owed[u] /\ pending[u] # i
                       /\ owed'[u] = IF u \in Targets THEN owed[u] \cup {i} ELSE owed[u]
                       /\ pending'[u] = IF u \in Coalesce THEN i ELSE pending[u]
  BY <1>2 DEF OwedOn, PendingOn, Publish
<1>5. ASSUME NEW j \in Slots
      PROVE  OwedOn(j)' = IF j = i THEN Targets ELSE OwedOn(j)
  BY <1>3, <1>4 DEF OwedOn
<1>6. ASSUME NEW j \in Slots
      PROVE  PendingOn(j)' = IF j = i THEN Coalesce ELSE PendingOn(j) \ Superseded(j)
  BY <1>3, <1>4 DEF PendingOn, Superseded
<1>7. \A j \in Slots : Superseded(j) \in SUBSET PendingOn(j)
  BY <1>3 DEF Superseded, PendingOn
<1>8. \A j \in Slots : ExtraOn(j)' = ExtraOn(j) /\ PulledOn(j)' = PulledOn(j)
  BY DEF ExtraOn, PulledOn, Publish
<1> QED
  BY <1>2, <1>3, <1>4, <1>5, <1>6, <1>7, <1>8

\* publish() counts every pin it takes and every pin it gives back.
LEMMA PublishBalanced ==
    ASSUME PipelineInv, NEW i \in Slots, Publish(i)
    PROVE  PinsBalanced'
<1>1. TypeOK /\ PinsBalanced
  BY DEF PipelineInv
<1>2. /\ refcount \in [Slots -> Nat] /\ pins \in [Sinks -> Nat]
      /\ None \notin Slots
  BY <1>1, PipelineAssumption DEF TypeOK, Slots
<1>3. /\ Cardinality(Targets) \in Nat /\ Cardinality(Coalesce) \in Nat
  BY PublishHolders, PipelineAssumption, FS_Subset, FS_CardinalityType
<1>4. ASSUME NEW j \in Slots
      PROVE  refcount'[j] = Cardinality(OwedOn(j)') + Cardinality(ExtraOn(j)')
                            + Cardinality(PendingOn(j)') + Cardinality(PulledOn(j)')
  <2>1. refcount[j] = Cardinality(OwedOn(j)) + Cardinality(ExtraOn(j))
                      + Cardinality(PendingOn(j)) + Cardinality(PulledOn(j))
    BY <1>1 DEF PinsBalanced
  <2>2. /\ Cardinality(OwedOn(j)) \in Nat /\ Cardinality(ExtraOn(j)) \in Nat
        /\ Cardinality(PendingOn(j)) \in Nat /\ Cardinality(PulledOn(j)) \in Nat
        /\ IsFiniteSet(PendingOn(j))
    BY <1>1, HoldersCount, HoldersFinite
  <2>3. /\ Cardinality(Superseded(j)) \in Nat
        /\ Cardinality(Superseded(j)) <= Cardinality(PendingOn(j))
        /\ Cardinality(PendingOn(j) \ Superseded(j))
              = Cardinality(PendingOn(j)) - Cardinality(Superseded(j))
    <3>1. Superseded(j) \in SUBSET PendingOn(j)
      BY PublishHolders
    <3>2. PendingOn(j) \cap Superseded(j) = Superseded(j)
      BY <3>1
    <3> QED
      BY <2>2, <3>1, <3>2, FS_Difference, FS_Subset, FS_CardinalityType
  <2>4. Less(refcount[j], Cardinality(Superseded(j)))
           = refcount[j] - Cardinality(Superseded(j))
    <3>1. refcount[j] \in Nat /\ Cardinality(Superseded(j)) <= refcount[j]
      BY <2>1, <2>2, <2>3
    <3> QED
      BY <3>1, <2>3, LessIs
  <2>5. CASE j = i
    <3>1. /\ Cardinality(OwedOn(j)) = 0 /\ Cardinality(ExtraOn(j)) = 0
          /\ Cardinality(PendingOn(j)) = 0 /\ Cardinality(PulledOn(j)) = 0
      BY <2>5, PublishHolders, FS_EmptySet
    <3>2. refcount'[j] = Cardinality(Targets) + Cardinality(Coalesce)
      BY <2>1, <2>3, <2>4, <2>5, <3>1, <1>3 DEF Publish
    <3>3. /\ OwedOn(j)' = Targets /\ PendingOn(j)' = Coalesce
          /\ ExtraOn(j)' = ExtraOn(j) /\ PulledOn(j)' = PulledOn(j)
      BY <2>5, PublishHolders
    <3> QED
      BY <3>1, <3>2, <3>3, <1>3
  <2>6. CASE j # i
    <3>1. refcount'[j] = refcount[j] - Cardinality(Superseded(j))
      BY <2>1, <2>2, <2>3, <2>4, <2>6 DEF Publish
    <3>2. /\ OwedOn(j)' = OwedOn(j) /\ PendingOn(j)' = PendingOn(j) \ Superseded(j)
          /\ ExtraOn(j)' = ExtraOn(j) /\ PulledOn(j)' = PulledOn(j)
      BY <2>6, PublishHolders
    <3> QED
      BY <2>1, <2>2, <2>3, <3>1, <3>2
  <2> QED
    BY <2>5, <2>6
<1>5. ASSUME NEW u \in Sinks
      PROVE  pins'[u] = Cardinality(owed'[u]) + Cardinality(extra'[u])
                          + IF pending'[u] = None THEN 0 ELSE 1
  <2>1. pins[u] = Cardinality(owed[u]) + Cardinality(extra[u])
                    + IF pending[u] = None THEN 0 ELSE 1
    BY <1>1 DEF PinsBalanced
  <2>2. /\ Cardinality(owed[u]) \in Nat /\ Cardinality(extra[u]) \in Nat
        /\ IsFiniteSet(owed[u])
    BY <1>1, HoldersCount, HoldersFinite
  <2>3. extra'[u] = extra[u] /\ pins[u] \in Nat
    BY <1>2 DEF Publish
  <2>4. CASE u \in Targets
    <3>1. /\ owed'[u] = owed[u] \cup {i} /\ i \notin owed[u]
          /\ pending'[u] = pending[u]
      BY <2>4, PublishHolders
    <3>2. Cardinality(owed'[u]) = Cardinality(owed[u]) + 1
      BY <2>2, <3>1, CountAdd
    <3>3. pins'[u] = pins[u] + 1
      BY <2>4 DEF Publish
    <3> QED
      BY <2>1, <2>2, <2>3, <3>1, <3>2, <3>3
  <2>5. CASE u \in Coalesce
    <3>1. owed'[u] = owed[u] /\ pending'[u] = i /\ u \notin Targets /\ i # None
      BY <2>5, <1>2, PublishHolders
    <3>2. pins'[u] = (IF pending[u] = None THEN pins[u] ELSE Less(pins[u], 1)) + 1
      BY <2>5, <3>1 DEF Publish
    <3>a. pending[u] # None => pins[u] >= 1
      BY <2>1, <2>2
    <3>3. pending[u] # None => Less(pins[u], 1) = pins[u] - 1
      BY <3>a, <2>3 DEF Less
    <3> QED
      BY <2>1, <2>2, <2>3, <3>1, <3>2, <3>3
  <2>6. CASE u \notin Targets /\ u \notin Coalesce
    <3>1. owed'[u] = owed[u] /\ pending'[u] = pending[u] /\ pins'[u] = pins[u]
      BY <2>6, PublishHolders DEF Publish
    <3> QED
      BY <2>1, <2>3, <3>1
  <2> QED
    BY <2>4, <2>5, <2>6
<1> QED
  BY <1>4, <1>5 DEF PinsBalanced

\* The rest of the invariant after publish().
LEMMA PublishRest ==
    ASSUME PipelineInv, NEW i \in Slots, Publish(i)
    PROVE  NoTornFrame' /\ PendingWillMove' /\ RegistryInv'
<1>1. TypeOK /\ NoTornFrame /\ PendingWillMove /\ RegistryInv
  BY DEF PipelineInv
<1>2. filling \subseteq Slots /\ busy \in [Sinks -> BOOLEAN]
  BY <1>1 DEF TypeOK
<1>3. \A u \in Sinks : busy'[u] = (busy[u] \/ u \in Targets)
  BY DEF Publish
<1>4. \A u \in Sinks : /\ u \in Targets => u \in attached /\ ~busy[u]
                       /\ u \in Coalesce => u \in attached /\ busy[u]
  BY DEF Targets, Coalesce
<1>5. NoTornFrame'
  <2>1. \A j \in filling \ {i} :
           /\ OwedOn(j)' = {} /\ PendingOn(j)' = {}
           /\ ExtraOn(j)' = {} /\ PulledOn(j)' = {}
    BY <1>1, <1>2, PublishHolders DEF NoTornFrame
  <2> QED
    BY <2>1 DEF NoTornFrame, Publish
<1>6. ASSUME NEW u \in Sinks
      PROVE  /\ owed[u] \subseteq owed'[u]
             /\ u \in Targets => owed'[u] # {}
  <2>1. owed'[u] = IF u \in Targets THEN owed[u] \cup {i} ELSE owed[u]
    BY PublishHolders
  <2> QED
    BY <2>1
<1>7. PendingWillMove'
  BY <1>1, <1>3, <1>4, <1>6, PublishHolders DEF PendingWillMove, RegistryInv
<1>8. RegistryInv'
  <2>1. ASSUME NEW u \in Sinks, busy'[u] PROVE owed'[u] # {}
    <3>1. CASE busy[u]
      BY <3>1, <1>1, <1>6 DEF RegistryInv
    <3>2. CASE u \in Targets
      BY <3>2, <1>6
    <3> QED
      BY <2>1, <3>1, <3>2, <1>3
  <2>2. \A u \in Sinks : pending'[u] # None => u \in attached'
    BY <1>1, <1>4, PublishHolders DEF RegistryInv, Publish
  <2>3. ASSUME NEW u \in Sinks PROVE pending'[u] \notin owed'[u]
    <3>1. /\ i \notin owed[u] /\ pending[u] # i
          /\ owed'[u] = IF u \in Targets THEN owed[u] \cup {i} ELSE owed[u]
          /\ pending'[u] = IF u \in Coalesce THEN i ELSE pending[u]
          /\ ~(u \in Targets /\ u \in Coalesce)
      BY PublishHolders
    <3>2. pending[u] \notin owed[u]
      BY <1>1 DEF RegistryInv
    <3> QED
      BY <3>1, <3>2
  <2>4. registry'.op = "open" => /\ registry'.sink \in Sinks \ attached'
                                 /\ owed'[registry'.sink] = {}
                                 /\ extra'[registry'.sink] = {}
    BY <1>1, <1>4, PublishHolders DEF RegistryInv, Publish
  <2> QED
    BY <2>1, <2>2, <2>3, <2>4 DEF RegistryInv
<1> QED
  BY <1>5, <1>7, <1>8

------------------------------------------------------------------------------
(* The invariant.                                                          *)

\* What a step that leaves the pins alone preserves.
LEMMA PinsUntouched ==
    ASSUME PipelineInv,
           UNCHANGED <<refcount, pins, owed, extra, pending, pulled, busy, attached>>
    PROVE  PinsBalanced' /\ PendingWillMove'
BY DEF PipelineInv, PinsBalanced, PendingWillMove, OwedOn, ExtraOn, PendingOn,
   PulledOn

\* pin_latest() and its put(): one pin more or less on one slot.
LEMMA ReaderInv ==
    ASSUME PipelineInv, NEW r \in Readers, ReaderStep(r)
    PROVE  PinsBalanced' /\ NoTornFrame' /\ PendingWillMove' /\ RegistryInv'
<1>1. TypeOK /\ PinsBalanced /\ NoTornFrame /\ PendingWillMove /\ RegistryInv
  BY DEF PipelineInv
<1>2. /\ refcount \in [Slots -> Nat] /\ pulled \in [Readers -> Slots \cup {None}]
      /\ latest \in Slots \cup {None} /\ None \notin Slots /\ filling \subseteq Slots
  BY <1>1, PipelineAssumption DEF TypeOK, Slots
<1>3. UNCHANGED <<pins, owed, extra, pending, busy, attached, filling, latest, registry>>
  BY DEF ReaderStep, PinLatest, PullPut, sinkVars
<1>4. \A i \in Slots : /\ OwedOn(i)' = OwedOn(i) /\ ExtraOn(i)' = ExtraOn(i)
                       /\ PendingOn(i)' = PendingOn(i)
  BY <1>3 DEF OwedOn, ExtraOn, PendingOn
<1>6. PICK i \in Slots :
         \/ /\ i \notin filling /\ r \notin PulledOn(i)
            /\ refcount' = [refcount EXCEPT ![i] = @ + 1]
            /\ \A j \in Slots : PulledOn(j)' =
                  IF j = i THEN PulledOn(j) \cup {r} ELSE PulledOn(j)
         \/ /\ r \in PulledOn(i)
            /\ refcount' = [refcount EXCEPT ![i] = Less(@, 1)]
            /\ \A j \in Slots : PulledOn(j)' =
                  IF j = i THEN PulledOn(j) \ {r} ELSE PulledOn(j)
  <2>1. CASE PinLatest(r)
    <3>1. latest \in Slots /\ latest \notin filling /\ r \notin PulledOn(latest)
      BY <2>1, <1>1, <1>2 DEF PinLatest, NoTornFrame, PulledOn
    <3>2. \A j \in Slots : PulledOn(j)' =
             IF j = latest THEN PulledOn(j) \cup {r} ELSE PulledOn(j)
      BY <2>1, <1>2 DEF PinLatest, PulledOn
    <3> QED
      BY <2>1, <3>1, <3>2 DEF PinLatest
  <2>2. CASE PullPut(r)
    <3>1. pulled[r] \in Slots /\ r \in PulledOn(pulled[r])
      BY <2>2, <1>2 DEF PullPut, PulledOn
    <3>2. \A j \in Slots : PulledOn(j)' =
             IF j = pulled[r] THEN PulledOn(j) \ {r} ELSE PulledOn(j)
      BY <2>2, <1>2 DEF PullPut, PulledOn
    <3> QED
      BY <2>2, <3>1, <3>2 DEF PullPut
  <2> QED
    BY <2>1, <2>2 DEF ReaderStep
<1>7. ASSUME NEW j \in Slots
      PROVE  refcount'[j] = Cardinality(OwedOn(j)') + Cardinality(ExtraOn(j)')
                            + Cardinality(PendingOn(j)') + Cardinality(PulledOn(j)')
  <2>1. refcount[j] = Cardinality(OwedOn(j)) + Cardinality(ExtraOn(j))
                      + Cardinality(PendingOn(j)) + Cardinality(PulledOn(j))
    BY <1>1 DEF PinsBalanced
  <2>2. /\ Cardinality(OwedOn(j)) \in Nat /\ Cardinality(ExtraOn(j)) \in Nat
        /\ Cardinality(PendingOn(j)) \in Nat /\ Cardinality(PulledOn(j)) \in Nat
        /\ IsFiniteSet(PulledOn(j))
    BY <1>1, HoldersCount, HoldersFinite
  <2>3. CASE j # i
    <3>1. refcount'[j] = refcount[j] /\ PulledOn(j)' = PulledOn(j)
      BY <2>3, <1>2, <1>6
    <3> QED
      BY <2>1, <3>1, <1>4
  <2>4. CASE j = i /\ r \notin PulledOn(i)
    <3>1. refcount'[j] = refcount[j] + 1 /\ PulledOn(j)' = PulledOn(j) \cup {r}
      BY <2>4, <1>2, <1>6
    <3>2. Cardinality(PulledOn(j) \cup {r}) = Cardinality(PulledOn(j)) + 1
      BY <2>2, <2>4, CountAdd
    <3> QED
      BY <2>1, <2>2, <3>1, <3>2, <1>4
  <2>5. CASE j = i /\ r \in PulledOn(i)
    <3>1. Cardinality(PulledOn(j) \ {r}) = Cardinality(PulledOn(j)) - 1
          /\ Cardinality(PulledOn(j)) >= 1
      BY <2>2, <2>5, CountRemove
    <3>2. refcount'[j] = refcount[j] - 1 /\ PulledOn(j)' = PulledOn(j) \ {r}
      <4>1. refcount'[j] = Less(refcount[j], 1) /\ PulledOn(j)' = PulledOn(j) \ {r}
        BY <2>5, <1>2, <1>6
      <4>2. refcount[j] \in Nat /\ 1 <= refcount[j]
        BY <2>1, <2>2, <3>1
      <4> QED
        BY <4>1, <4>2, LessIs
    <3> QED
      BY <2>1, <2>2, <3>1, <3>2, <1>4
  <2> QED
    BY <2>3, <2>4, <2>5
<1>8. PinsBalanced'
  BY <1>1, <1>3, <1>7 DEF PinsBalanced
<1>9. NoTornFrame'
  <2>1. \A j \in filling : PulledOn(j)' = {}
    BY <1>1, <1>2, <1>6 DEF NoTornFrame
  <2> QED
    BY <2>1, <1>1, <1>2, <1>3, <1>4 DEF NoTornFrame
<1> QED
  BY <1>1, <1>3, <1>8, <1>9 DEF PendingWillMove, RegistryInv

\* get(): one pin more on a frame the sink has.
LEMMA GetInv ==
    ASSUME PipelineInv, NEW s \in Sinks, NEW f \in Slots, Get(s, f)
    PROVE  PinsBalanced' /\ NoTornFrame' /\ PendingWillMove' /\ RegistryInv'
<1>1. TypeOK /\ PinsBalanced /\ NoTornFrame /\ PendingWillMove /\ RegistryInv
  BY DEF PipelineInv
<1>2. /\ refcount \in [Slots -> Nat] /\ pins \in [Sinks -> Nat]
      /\ extra \in [Sinks -> SUBSET Slots] /\ filling \subseteq Slots
  BY <1>1 DEF TypeOK
<1>3. UNCHANGED <<owed, pending, busy, attached, filling, latest, registry, pulled>>
  BY DEF Get
<1>4. f \in owed[s] /\ f \notin extra[s] /\ f \notin filling
  BY <1>1 DEF Get, InHand, NoTornFrame, OwedOn
<1>5. \A i \in Slots :
         /\ OwedOn(i)' = OwedOn(i) /\ PendingOn(i)' = PendingOn(i)
         /\ PulledOn(i)' = PulledOn(i)
         /\ ExtraOn(i)' = IF i = f THEN ExtraOn(i) \cup {s} ELSE ExtraOn(i)
         /\ s \notin ExtraOn(f)
  BY <1>2, <1>3, <1>4 DEF OwedOn, ExtraOn, PendingOn, PulledOn, Get
<1>6. ASSUME NEW j \in Slots
      PROVE  refcount'[j] = Cardinality(OwedOn(j)') + Cardinality(ExtraOn(j)')
                            + Cardinality(PendingOn(j)') + Cardinality(PulledOn(j)')
  <2>1. refcount[j] = Cardinality(OwedOn(j)) + Cardinality(ExtraOn(j))
                      + Cardinality(PendingOn(j)) + Cardinality(PulledOn(j))
    BY <1>1 DEF PinsBalanced
  <2>2. /\ Cardinality(OwedOn(j)) \in Nat /\ Cardinality(ExtraOn(j)) \in Nat
        /\ Cardinality(PendingOn(j)) \in Nat /\ Cardinality(PulledOn(j)) \in Nat
        /\ IsFiniteSet(ExtraOn(j))
    BY <1>1, HoldersCount, HoldersFinite
  <2>3. CASE j # f
    BY <2>1, <2>3, <1>2, <1>5 DEF Get
  <2>4. CASE j = f
    <3>1. Cardinality(ExtraOn(j) \cup {s}) = Cardinality(ExtraOn(j)) + 1
      BY <2>2, <2>4, <1>5, CountAdd
    <3>2. refcount'[j] = refcount[j] + 1 /\ ExtraOn(j)' = ExtraOn(j) \cup {s}
      BY <2>4, <1>2, <1>5 DEF Get
    <3> QED
      BY <2>1, <2>2, <3>1, <3>2, <1>5
  <2> QED
    BY <2>3, <2>4
<1>7. ASSUME NEW u \in Sinks
      PROVE  pins'[u] = Cardinality(owed'[u]) + Cardinality(extra'[u])
                          + IF pending'[u] = None THEN 0 ELSE 1
  <2>1. pins[u] = Cardinality(owed[u]) + Cardinality(extra[u])
                    + IF pending[u] = None THEN 0 ELSE 1
    BY <1>1 DEF PinsBalanced
  <2>2. /\ Cardinality(owed[u]) \in Nat /\ Cardinality(extra[u]) \in Nat
        /\ IsFiniteSet(extra[u])
    BY <1>1, HoldersCount, HoldersFinite
  <2>3. CASE u # s
    BY <2>1, <2>3, <1>2, <1>3 DEF Get
  <2>4. CASE u = s
    <3>1. Cardinality(extra[u] \cup {f}) = Cardinality(extra[u]) + 1
      BY <2>2, <2>4, <1>4, CountAdd
    <3>2. pins'[u] = pins[u] + 1 /\ extra'[u] = extra[u] \cup {f}
      BY <2>4, <1>2 DEF Get
    <3> QED
      BY <2>1, <2>2, <3>1, <3>2, <1>3
  <2> QED
    BY <2>3, <2>4
<1>8. NoTornFrame'
  BY <1>1, <1>2, <1>3, <1>4, <1>5 DEF NoTornFrame
<1>9. RegistryInv'
  <2>1. registry.op = "open" => registry.sink # s
    BY <1>1, <1>4 DEF RegistryInv
  <2>2. \A u \in Sinks : u # s => extra'[u] = extra[u]
    BY <1>2 DEF Get
  <2> QED
    BY <1>1, <1>3, <2>1, <2>2 DEF RegistryInv
<1> QED
  BY <1>1, <1>3, <1>6, <1>7, <1>8, <1>9 DEF PinsBalanced, PendingWillMove

\* detach(): the pin of the pending frame, if there is one, is given back.
LEMMA DetachInv ==
    ASSUME PipelineInv, NEW s \in Sinks, Detach(s)
    PROVE  PinsBalanced' /\ NoTornFrame' /\ PendingWillMove' /\ RegistryInv'
<1> DEFINE p == pending[s]
<1>1. TypeOK /\ PinsBalanced /\ NoTornFrame /\ PendingWillMove /\ RegistryInv
  BY DEF PipelineInv
<1>2. /\ refcount \in [Slots -> Nat] /\ pins \in [Sinks -> Nat]
      /\ pending \in [Sinks -> Slots \cup {None}] /\ None \notin Slots
      /\ p \in Slots \cup {None} /\ filling \subseteq Slots
      /\ owed \in [Sinks -> SUBSET Slots]
  BY <1>1, PipelineAssumption DEF TypeOK, Slots
<1>3. UNCHANGED <<owed, extra, busy, filling, latest, pulled>>
  BY DEF Detach, useVars
<1>4. \A i \in Slots : /\ OwedOn(i)' = OwedOn(i) /\ ExtraOn(i)' = ExtraOn(i)
                       /\ PulledOn(i)' = PulledOn(i)
  BY <1>3 DEF OwedOn, ExtraOn, PulledOn
<1>5. /\ \A i \in Slots : PendingOn(i)' =
             IF i = p THEN PendingOn(i) \ {s} ELSE PendingOn(i)
      /\ p \in Slots => s \in PendingOn(p)
  BY <1>1, PendingMoves DEF Detach
<1>6. \A u \in Sinks : pending'[u] = IF u = s THEN None ELSE pending[u]
  BY <1>2 DEF Detach
<1>7. ASSUME NEW j \in Slots
      PROVE  refcount'[j] = Cardinality(OwedOn(j)') + Cardinality(ExtraOn(j)')
                            + Cardinality(PendingOn(j)') + Cardinality(PulledOn(j)')
  <2>1. refcount[j] = Cardinality(OwedOn(j)) + Cardinality(ExtraOn(j))
                      + Cardinality(PendingOn(j)) + Cardinality(PulledOn(j))
    BY <1>1 DEF PinsBalanced
  <2>2. /\ Cardinality(OwedOn(j)) \in Nat /\ Cardinality(ExtraOn(j)) \in Nat
        /\ Cardinality(PendingOn(j)) \in Nat /\ Cardinality(PulledOn(j)) \in Nat
        /\ IsFiniteSet(PendingOn(j))
    BY <1>1, HoldersCount, HoldersFinite
  <2>3. CASE j = p
    <3>1. Cardinality(PendingOn(j) \ {s}) = Cardinality(PendingOn(j)) - 1
          /\ Cardinality(PendingOn(j)) >= 1
      BY <2>2, <2>3, <1>5, CountRemove
    <3>2. refcount'[j] = refcount[j] - 1
      <4>1. refcount'[j] = Less(refcount[j], 1)
        BY <2>3 DEF Detach
      <4>2. refcount[j] \in Nat /\ 1 <= refcount[j]
        BY <2>1, <2>2, <3>1
      <4> QED
        BY <4>1, <4>2, LessIs
    <3>3. /\ PendingOn(j)' = PendingOn(j) \ {s} /\ OwedOn(j)' = OwedOn(j)
          /\ ExtraOn(j)' = ExtraOn(j) /\ PulledOn(j)' = PulledOn(j)
      BY <2>3, <1>4, <1>5
    <3> HIDE DEF p
    <3> QED
      BY <2>1, <2>2, <3>1, <3>2, <3>3
  <2>4. CASE j # p
    <3>1. refcount'[j] = refcount[j]
      BY <2>4 DEF Detach
    <3> QED
      BY <2>1, <2>4, <3>1, <1>4, <1>5
  <2> QED
    BY <2>3, <2>4
<1>8. ASSUME NEW u \in Sinks
      PROVE  pins'[u] = Cardinality(owed'[u]) + Cardinality(extra'[u])
                          + IF pending'[u] = None THEN 0 ELSE 1
  <2>1. pins[u] = Cardinality(owed[u]) + Cardinality(extra[u])
                    + IF pending[u] = None THEN 0 ELSE 1
    BY <1>1 DEF PinsBalanced
  <2>2. Cardinality(owed[u]) \in Nat /\ Cardinality(extra[u]) \in Nat
    BY <1>1, HoldersCount
  <2>3. CASE u # s
    <3>1. pins'[u] = pins[u]
      BY <2>3, <1>2 DEF Detach
    <3> QED
      BY <2>1, <2>3, <3>1, <1>3, <1>6
  <2>4. CASE u = s /\ p = None
    <3>1. pins'[u] = pins[u]
      BY <2>4, <1>2 DEF Detach
    <3> QED
      BY <2>1, <2>4, <3>1, <1>3, <1>6
  <2>5. CASE u = s /\ p # None
    <3>1. pins'[u] = Less(pins[u], 1)
      BY <2>5, <1>2 DEF Detach
    <3>2. pins[u] = Cardinality(owed[u]) + Cardinality(extra[u]) + 1
      BY <2>1, <2>5
    <3>3. Less(pins[u], 1) = pins[u] - 1
      <4>1. pins[u] \in Nat /\ 1 <= pins[u]
        BY <3>2, <2>2
      <4> QED
        BY <4>1, LessIs
    <3>4. pending'[u] = None /\ owed'[u] = owed[u] /\ extra'[u] = extra[u]
      BY <2>5, <1>3, <1>6
    <3> HIDE DEF p
    <3> QED
      BY <2>2, <3>1, <3>2, <3>3, <3>4
  <2> QED
    BY <2>3, <2>4, <2>5
<1>9. NoTornFrame'
  BY <1>1, <1>2, <1>3, <1>4, <1>5 DEF NoTornFrame
<1>10. PendingWillMove'
  BY <1>1, <1>3, <1>6 DEF PendingWillMove
<1>11. RegistryInv'
  <2>1. attached' = attached \ {s} /\ registry' = [op |-> "close", sink |-> s]
    BY DEF Detach
  <2>2. \A u \in Sinks : pending'[u] \notin owed'[u]
    BY <1>1, <1>2, <1>3, <1>6 DEF RegistryInv
  <2> QED
    BY <1>1, <1>3, <1>6, <2>1, <2>2 DEF RegistryInv
<1> QED
  BY <1>7, <1>8, <1>9, <1>10, <1>11 DEF PinsBalanced

\* attach(): the counters it clears were zero, for the sink holds nothing.
LEMMA AttachInv ==
    ASSUME PipelineInv, NEW s \in Sinks, AttachOpen(s) \/ AttachLink(s)
    PROVE  PinsBalanced' /\ NoTornFrame' /\ PendingWillMove' /\ RegistryInv'
<1>1. TypeOK /\ PinsBalanced /\ NoTornFrame /\ PendingWillMove /\ RegistryInv
  BY DEF PipelineInv
<1>2. CASE AttachOpen(s)
  <2>1. UNCHANGED <<refcount, pins, owed, extra, pending, pulled, busy, attached,
                    filling, latest>>
    BY <1>2 DEF AttachOpen, slotVars, sinkVars, useVars
  <2>2. PinsBalanced' /\ PendingWillMove'
    BY <2>1, PinsUntouched
  <2>3. NoTornFrame'
    BY <1>1, <2>1 DEF NoTornFrame, OwedOn, ExtraOn, PendingOn, PulledOn
  <2>4. RegistryInv'
    BY <1>1, <1>2, <2>1 DEF RegistryInv, AttachOpen, Drained
  <2> QED
    BY <2>2, <2>3, <2>4
<1>3. CASE AttachLink(s)
  <2>1. /\ registry.op = "open" /\ registry.sink = s
        /\ owed[s] = {} /\ extra[s] = {} /\ s \notin attached
    BY <1>1, <1>3 DEF AttachLink, RegistryInv
  <2>2. pending[s] = None /\ ~busy[s]
    BY <1>1, <2>1 DEF RegistryInv
  <2>3. /\ pending \in [Sinks -> Slots \cup {None}] /\ busy \in [Sinks -> BOOLEAN]
        /\ pins \in [Sinks -> Nat]
    BY <1>1 DEF TypeOK
  <2>4. pins[s] = 0
    <3>1. Cardinality({}) = 0
      BY FS_EmptySet
    <3> QED
      BY <1>1, <2>1, <2>2, <3>1 DEF PinsBalanced
  <2>5. UNCHANGED <<refcount, pins, owed, extra, pending, pulled, busy, filling, latest>>
    BY <1>3, <2>2, <2>3, <2>4 DEF AttachLink, slotVars, useVars
  <2>6. PinsBalanced' /\ PendingWillMove'
    BY <1>1, <2>5 DEF PinsBalanced, PendingWillMove, OwedOn, ExtraOn,
       PendingOn, PulledOn
  <2>7. NoTornFrame'
    BY <1>1, <2>5 DEF NoTornFrame, OwedOn, ExtraOn, PendingOn, PulledOn
  <2>8. RegistryInv'
    BY <1>1, <1>3, <2>5 DEF RegistryInv, AttachLink, Idle
  <2> QED
    BY <2>6, <2>7, <2>8
<1> QED
  BY <1>2, <1>3

\* frame_pipeline_init() clears counters that were zero.
LEMMA ReinitInv ==
    ASSUME PipelineInv, Reinit
    PROVE  PinsBalanced' /\ NoTornFrame' /\ PendingWillMove' /\ RegistryInv'
<1>1. TypeOK /\ PinsBalanced /\ PendingWillMove /\ RegistryInv
  BY DEF PipelineInv
<1>2. /\ \A s \in Sinks : owed[s] = {} /\ extra[s] = {} /\ pending[s] = None
      /\ \A r \in Readers : pulled[r] = None
      /\ None \notin Slots
  BY <1>1, PipelineAssumption DEF Reinit, Drained, RegistryInv, Slots
<1>3. UNCHANGED <<pins, owed, extra, pending, pulled, busy, attached, registry>>
  BY DEF Reinit, sinkVars, useVars
<1>4. \A i \in Slots : /\ OwedOn(i)' = {} /\ ExtraOn(i)' = {}
                       /\ PendingOn(i)' = {} /\ PulledOn(i)' = {}
  BY <1>2, <1>3 DEF OwedOn, ExtraOn, PendingOn, PulledOn
<1>5. PinsBalanced'
  <2>1. Cardinality({}) = 0
    BY FS_EmptySet
  <2>2. \A i \in Slots : refcount'[i] = 0
    BY DEF Reinit
  <2> QED
    BY <1>1, <1>3, <1>4, <2>1, <2>2 DEF PinsBalanced
<1>6. NoTornFrame'
  BY DEF NoTornFrame, Reinit
<1> QED
  BY <1>1, <1>3, <1>5, <1>6 DEF PendingWillMove, RegistryInv

\* Every step keeps the invariant.
LEMMA InvStep == PipelineInv /\ [Next]_vars => PipelineInv'
<1> SUFFICES ASSUME PipelineInv, [Next]_vars
             PROVE  PinsBalanced' /\ NoTornFrame' /\ PendingWillMove' /\ RegistryInv'
  BY TypeStep DEF PipelineInv
<1>1. TypeOK /\ PinsBalanced /\ NoTornFrame /\ PendingWillMove /\ RegistryInv
  BY DEF PipelineInv
<1>2. ASSUME UNCHANGED <<refcount, pins, owed, extra, pending, pulled, busy, attached,
                         filling, latest>>,
             registry' \in {registry, Idle}
      PROVE  PinsBalanced' /\ NoTornFrame' /\ PendingWillMove' /\ RegistryInv'
  <2>1. PinsBalanced' /\ PendingWillMove'
    BY <1>2, PinsUntouched
  <2>2. NoTornFrame'
    BY <1>1, <1>2 DEF NoTornFrame, OwedOn, ExtraOn, PendingOn, PulledOn
  <2>3. RegistryInv'
    BY <1>1, <1>2 DEF RegistryInv, Idle
  <2> QED
    BY <2>1, <2>2, <2>3
<1>3. CASE Acquire
  <2>1. UNCHANGED <<refcount, pins, owed, extra, pending, pulled, busy, attached,
                    latest, registry>>
    BY <1>3 DEF Acquire, sinkVars, useVars
  <2>2. PinsBalanced' /\ PendingWillMove'
    BY <2>1, PinsUntouched
  <2>3. \A i \in filling' : \/ i \in filling
                            \/ i \in Slots /\ refcount[i] = 0 /\ i # latest
    BY <1>3 DEF Acquire, Acquirable
  <2>4. \A i \in filling' : /\ OwedOn(i) = {} /\ ExtraOn(i) = {}
                            /\ PendingOn(i) = {} /\ PulledOn(i) = {}
                            /\ i # latest
    BY <1>1, <2>3, NoPinNoHolder DEF NoTornFrame
  <2>5. NoTornFrame'
    BY <2>1, <2>4 DEF NoTornFrame, OwedOn, ExtraOn, PendingOn, PulledOn
  <2>6. RegistryInv'
    BY <1>1, <2>1 DEF RegistryInv
  <2> QED
    BY <2>2, <2>5, <2>6
<1>4. ASSUME NEW t \in Threads, SyncPut(t)
      PROVE  PinsBalanced' /\ NoTornFrame' /\ PendingWillMove' /\ RegistryInv'
  <2> DEFINE c == Head(calls[t])
  <2>1. c.sink \in Sinks /\ c.frame \in Slots
    BY <1>1, <1>4, TopType DEF SyncPut
  <2> QED
    BY <1>4, <2>1, SettleBalanced, SettleRest DEF SyncPut
<1>5. ASSUME NEW s \in Sinks, NEW f \in Slots, AsyncPut(s, f)
      PROVE  PinsBalanced' /\ NoTornFrame' /\ PendingWillMove' /\ RegistryInv'
  <2>1. s \in Threads /\ f \in owed[s]
    BY <1>5 DEF AsyncPut, InHand, Threads
  <2> QED
    BY <1>5, <2>1, SettleBalanced, SettleRest DEF AsyncPut
<1>6. ASSUME NEW s \in Sinks, Deliver(s)
      PROVE  PinsBalanced' /\ NoTornFrame' /\ PendingWillMove' /\ RegistryInv'
  BY <1>2, <1>6 DEF Deliver, slotVars, sinkVars, useVars
<1>7. ASSUME NEW t \in Threads, Redeliver(t) \/ HandOver(t) \/ Return(t)
      PROVE  PinsBalanced' /\ NoTornFrame' /\ PendingWillMove' /\ RegistryInv'
  BY <1>2, <1>7 DEF Redeliver, HandOver, Return, slotVars, sinkVars, useVars
<1>8. CASE AttachRefused \/ DetachReturn
  BY <1>2, <1>8 DEF AttachRefused, DetachReturn, slotVars, sinkVars, useVars
<1>9. CASE UNCHANGED vars
  BY <1>2, <1>9 DEF vars, slotVars, sinkVars, useVars
<1>10. CASE ProducerStep
  BY <1>3, <1>6, <1>10, PublishBalanced, PublishRest DEF ProducerStep
<1>11. ASSUME NEW t \in Threads, CallStep(t)
       PROVE  PinsBalanced' /\ NoTornFrame' /\ PendingWillMove' /\ RegistryInv'
  BY <1>4, <1>7, <1>11 DEF CallStep
<1>12. ASSUME NEW s \in Sinks, SinkStep(s)
       PROVE  PinsBalanced' /\ NoTornFrame' /\ PendingWillMove' /\ RegistryInv'
  BY <1>5, <1>12, GetInv, PutExtraInv DEF SinkStep
<1>13. CASE RegistryStep
  BY <1>8, <1>13, AttachInv, DetachInv DEF RegistryStep
<1> QED
  BY <1>9, <1>10, <1>11, <1>12, <1>13, ReaderInv, ReinitInv DEF Next

\* The fresh ring of frame_pipeline_init() satisfies the invariant.
LEMMA InvInit == Init => PipelineInv
<1> SUFFICES ASSUME Init PROVE PipelineInv
  OBVIOUS
<1>1. TypeOK
  BY PipelineAssumption DEF Init, TypeOK, Idle, Slots
<1>2. None \notin Slots /\ Cardinality({}) = 0
  BY PipelineAssumption, FS_EmptySet DEF Slots
<1>3. \A i \in Slots : /\ OwedOn(i) = {} /\ ExtraOn(i) = {}
                       /\ PendingOn(i) = {} /\ PulledOn(i) = {}
  BY <1>2 DEF Init, OwedOn, ExtraOn, PendingOn, PulledOn
<1>4. PinsBalanced
  <2>1. ASSUME NEW i \in Slots
        PROVE  refcount[i] = Cardinality(OwedOn(i)) + Cardinality(ExtraOn(i))
                             + Cardinality(PendingOn(i)) + Cardinality(PulledOn(i))
    <3>1. refcount[i] = 0
      BY DEF Init
    <3> QED
      BY <1>2, <1>3, <3>1
  <2>2. ASSUME NEW s \in Sinks
        PROVE  /\ owed[s] = {} /\ extra[s] = {}
               /\ pending[s] = None /\ pins[s] = 0
    BY DEF Init
  <2>3. ASSUME NEW s \in Sinks
        PROVE  pins[s] = Cardinality(owed[s]) + Cardinality(extra[s])
                           + IF pending[s] = None THEN 0 ELSE 1
    BY <1>2, <2>2
  <2> QED
    BY <2>1, <2>3 DEF PinsBalanced
<1>5. NoTornFrame /\ PendingWillMove /\ RegistryInv
  BY DEF Init, NoTornFrame, PendingWillMove, RegistryInv, Idle
<1> QED
  BY <1>1, <1>4, <1>5 DEF PipelineInv

\* The inductive invariant.
LEMMA Invariance == Spec => []PipelineInv
BY InvInit, InvStep, PTL DEF Spec

(* refcount and _pins count the pins exactly: what acquire() reads before   *)
(* it recycles a slot, and what detach() reports to the caller that drains. *)
THEOREM PinsAreBalanced == Spec => []PinsBalanced
<1>1. PipelineInv => PinsBalanced
  BY DEF PipelineInv
<1> QED
  BY <1>1, Invariance, PTL

(* The producer never fills a slot somebody may still read.                 *)
THEOREM NoFrameIsTorn == Spec => []NoTornFrame
<1>1. PipelineInv => NoTornFrame
  BY DEF PipelineInv
<1> QED
  BY <1>1, Invariance, PTL

(* The slots are safe: no frame changes under its readers.                  *)
THEOREM SlotsAreSafe == Spec => []SlotsSafe
<1>1. PinsBalanced /\ NoTornFrame => SlotsSafe
  BY DEF SlotsSafe
<1> QED
  BY <1>1, PinsAreBalanced, NoFrameIsTorn, PTL

(* A coalesced frame always has a put() coming that delivers it.            *)
THEOREM PendingNeverStranded == Spec => []PendingWillMove
<1>1. PipelineInv => PendingWillMove
  BY DEF PipelineInv
<1> QED
  BY <1>1, Invariance, PTL

------------------------------------------------------------------------------
(* The refinement of SlotLease.                                             *)

\* The parties that read a slot, as SlotLease counts them.
HoldersOn(i) == SinksOn(i) \cup PulledOn(i)

\* A step that moves no frame between parties is a stutter of the lease.
LEMMA LeaseStays ==
    ASSUME UNCHANGED <<filling, latest>>, \A i \in Slots : HoldersOn(i)' = HoldersOn(i)
    PROVE  UNCHANGED Lease!vars
<1>1. [i \in Slots |-> SinksOn(i)' \cup PulledOn(i)'] = [i \in Slots |-> SinksOn(i) \cup PulledOn(i)]
  BY DEF HoldersOn
<1> QED
  BY <1>1 DEF Lease!vars

\* A party that lets go of one frame, and of nothing else.
LEMMA LeaseReleases ==
    ASSUME UNCHANGED <<filling, latest>>, NEW f \in Slots, NEW p \in Sinks \cup Readers,
           p \in HoldersOn(f),
           \A i \in Slots : HoldersOn(i)' = IF i = f THEN HoldersOn(i) \ {p} ELSE HoldersOn(i)
    PROVE  Lease!Next
<1> DEFINE H == [i \in Slots |-> SinksOn(i) \cup PulledOn(i)]
           H1 == [i \in Slots |-> SinksOn(i)' \cup PulledOn(i)']
<1>1. H1 = [H EXCEPT ![f] = @ \ {p}] /\ p \in H[f]
  BY DEF HoldersOn
<1>2. Lease!Release(f, p)
  BY <1>1 DEF Lease!Release
<1> QED
  BY <1>2 DEF Lease!Next

\* The put() of a delivered frame, or of a get()'s, lets go of it unless the
\* sink holds it otherwise; the pending frame only becomes an owed one.
LEMMA SinkLetsGo ==
    ASSUME PipelineInv, NEW s \in Sinks, NEW f \in Slots,
           UNCHANGED <<filling, latest, pulled>>,
           f \in owed[s] \cup extra[s] \/ pending[s] = f,
           \A u \in Sinks : u # s => owed'[u] = owed[u] /\ extra'[u] = extra[u] /\ pending'[u] = pending[u],
           \A i \in Slots : i # f =>
              (s \in SinksOn(i)' <=> s \in SinksOn(i))
    PROVE  [Lease!Next]_Lease!vars
<1>1. \A i \in Slots : PulledOn(i)' = PulledOn(i)
  BY DEF PulledOn
<1>2. \A i \in Slots, u \in Sinks : u # s => (u \in SinksOn(i)' <=> u \in SinksOn(i))
  BY DEF SinksOn
<1>3. \A i \in Slots : i # f => SinksOn(i)' = SinksOn(i)
  BY <1>2 DEF SinksOn
<1>4. s \in SinksOn(f)
  BY DEF SinksOn
<1>5. CASE s \in SinksOn(f)'
  <2>1. SinksOn(f)' = SinksOn(f)
    BY <1>2, <1>4, <1>5 DEF SinksOn
  <2> QED
    BY <1>1, <1>3, <2>1, LeaseStays DEF HoldersOn
<1>6. CASE s \notin SinksOn(f)'
  <2>1. SinksOn(f)' = SinksOn(f) \ {s}
    BY <1>2, <1>6 DEF SinksOn
  <2>2. s \notin PulledOn(f)
    BY PipelineAssumption DEF PulledOn
  <2>3. \A i \in Slots : HoldersOn(i)' = IF i = f THEN HoldersOn(i) \ {s} ELSE HoldersOn(i)
    BY <1>1, <1>3, <2>1, <2>2 DEF HoldersOn
  <2> QED
    BY <1>4, <2>3, LeaseReleases DEF HoldersOn
<1> QED
  BY <1>5, <1>6

\* put() inside consume(), or by the sink's thread.
LEMMA PutLeases ==
    ASSUME PipelineInv, NEW t \in Threads, NEW s \in Sinks, NEW f \in Slots, NEW rest,
           Put(t, s, f, rest), Settle(s, f), f \in owed[s], UNCHANGED extra
    PROVE  [Lease!Next]_Lease!vars
<1>1. /\ owed \in [Sinks -> SUBSET Slots] /\ extra \in [Sinks -> SUBSET Slots]
      /\ pending \in [Sinks -> Slots \cup {None}] /\ None \notin Slots
  BY PipelineAssumption DEF PipelineInv, TypeOK, Slots
<1>2. UNCHANGED <<filling, latest, pulled>>
  BY DEF Put
<1>3. \A u \in Sinks : u # s => owed'[u] = owed[u] /\ extra'[u] = extra[u] /\ pending'[u] = pending[u]
  BY <1>1 DEF Put, Settle
<1>4. /\ extra'[s] = extra[s] /\ pending'[s] = None
      /\ owed'[s] = (owed[s] \ {f}) \cup (IF pending[s] = None THEN {} ELSE {pending[s]})
  BY <1>1 DEF Put, Settle
<1>5. \A i \in Slots : i # f => (s \in SinksOn(i)' <=> s \in SinksOn(i))
  BY <1>1, <1>4 DEF SinksOn
<1> QED
  BY <1>2, <1>3, <1>5, SinkLetsGo

\* put() of a pin that get() took.
LEMMA PutExtraLeases ==
    ASSUME PipelineInv, NEW s \in Sinks, NEW f \in Slots, PutExtra(s, f)
    PROVE  [Lease!Next]_Lease!vars
<1>1. /\ owed \in [Sinks -> SUBSET Slots] /\ extra \in [Sinks -> SUBSET Slots]
      /\ pending \in [Sinks -> Slots \cup {None}] /\ None \notin Slots
  BY PipelineAssumption DEF PipelineInv, TypeOK, Slots
<1>2. UNCHANGED <<filling, latest, pulled>> /\ f \in extra[s]
  BY DEF PutExtra, Put
<1>3. \A u \in Sinks : u # s => owed'[u] = owed[u] /\ extra'[u] = extra[u] /\ pending'[u] = pending[u]
  BY <1>1 DEF PutExtra, Put
<1>4. /\ extra'[s] = extra[s] \ {f} /\ pending'[s] = None
      /\ owed'[s] = owed[s] \cup (IF pending[s] = None THEN {} ELSE {pending[s]})
  BY <1>1 DEF PutExtra, Put
<1>5. \A i \in Slots : i # f => (s \in SinksOn(i)' <=> s \in SinksOn(i))
  BY <1>1, <1>4 DEF SinksOn
<1> QED
  BY <1>2, <1>3, <1>5, SinkLetsGo

\* detach() drops a pending frame, if there is one.
LEMMA DetachLeases ==
    ASSUME PipelineInv, NEW s \in Sinks, Detach(s)
    PROVE  [Lease!Next]_Lease!vars
<1>1. /\ pending \in [Sinks -> Slots \cup {None}] /\ None \notin Slots
  BY PipelineAssumption DEF PipelineInv, TypeOK, Slots
<1>2. UNCHANGED <<filling, latest, pulled, owed, extra>> /\ pending' = [pending EXCEPT ![s] = None]
  BY DEF Detach, useVars
<1>3. CASE pending[s] = None
  <2>1. UNCHANGED pending
    BY <1>1, <1>2, <1>3
  <2> QED
    BY <1>2, <2>1, LeaseStays DEF HoldersOn, SinksOn, PulledOn
<1>4. CASE pending[s] # None
  <2>1. pending[s] \in Slots
    BY <1>1, <1>4
  <2>2. \A u \in Sinks : u # s => owed'[u] = owed[u] /\ extra'[u] = extra[u] /\ pending'[u] = pending[u]
    BY <1>1, <1>2
  <2>3. \A i \in Slots : i # pending[s] => (s \in SinksOn(i)' <=> s \in SinksOn(i))
    BY <1>1, <1>2 DEF SinksOn
  <2> QED
    BY <1>2, <2>1, <2>2, <2>3, SinkLetsGo
<1> QED
  BY <1>3, <1>4

\* acquire() lends a slot that nobody reads and that is not the newest.
LEMMA AcquireLeases ==
    ASSUME PipelineInv, Acquire
    PROVE  Lease!Next
<1>1. PICK i \in Acquirable : filling' = filling \cup {i}
  BY DEF Acquire
<1>2. i \in Slots /\ i \notin filling /\ refcount[i] = 0 /\ i # latest
  BY <1>1 DEF Acquirable
<1>3. OwedOn(i) = {} /\ ExtraOn(i) = {} /\ PendingOn(i) = {} /\ PulledOn(i) = {}
  BY <1>2, NoPinNoHolder DEF PipelineInv
<1>4. SinksOn(i) = {}
  BY <1>3 DEF SinksOn, OwedOn, ExtraOn, PendingOn
<1>5. UNCHANGED <<latest, owed, extra, pending, pulled>>
  BY DEF Acquire, sinkVars, useVars
<1>6. \A j \in Slots : SinksOn(j)' = SinksOn(j) /\ PulledOn(j)' = PulledOn(j)
  BY <1>5 DEF SinksOn, PulledOn
<1>7. Lease!Lend(i)
  BY <1>1, <1>2, <1>3, <1>4, <1>5, <1>6 DEF Lease!Lend
<1> QED
  BY <1>2, <1>7 DEF Lease!Next

\* publish() hands its frame out; what it supersedes is let go of.
LEMMA PublishLeases ==
    ASSUME PipelineInv, NEW i \in Slots, Publish(i)
    PROVE  Lease!Next
<1>1. i \in filling /\ filling' = filling \ {i} /\ latest' = i /\ UNCHANGED <<extra, pulled>>
  BY DEF Publish
<1>2. \A j \in Slots : PulledOn(j)' = PulledOn(j)
  BY <1>1 DEF PulledOn
<1>3. \A u \in Sinks : /\ owed'[u] = IF u \in Targets THEN owed[u] \cup {i} ELSE owed[u]
                       /\ pending'[u] = IF u \in Coalesce THEN i ELSE pending[u]
  BY PublishHolders
<1>4. \A j \in Slots \ {i} : SinksOn(j)' \subseteq SinksOn(j)
  BY <1>1, <1>3 DEF SinksOn
<1> DEFINE H == [j \in Slots |-> SinksOn(j) \cup PulledOn(j)]
           H1 == [j \in Slots |-> SinksOn(j)' \cup PulledOn(j)']
<1>5. H1 \in [Slots -> SUBSET (Sinks \cup Readers)]
  BY DEF SinksOn, PulledOn
<1>6. \A j \in Slots \ {i} : H1[j] \subseteq H[j]
  BY <1>2, <1>4
<1>7. Lease!Publish(i)
  BY <1>1, <1>5, <1>6 DEF Lease!Publish
<1> QED
  BY <1>7 DEF Lease!Next

\* pin_latest() takes the newest frame, its put() lets go of it.
LEMMA ReaderLeases ==
    ASSUME PipelineInv, NEW r \in Readers, ReaderStep(r)
    PROVE  Lease!Next
<1>1. /\ pulled \in [Readers -> Slots \cup {None}] /\ None \notin Slots /\ latest \in Slots \cup {None}
  BY PipelineAssumption DEF PipelineInv, TypeOK, Slots
<1>2. UNCHANGED <<owed, extra, pending, filling, latest>>
  BY DEF ReaderStep, PinLatest, PullPut, sinkVars
<1>3. \A i \in Slots : SinksOn(i)' = SinksOn(i) /\ r \notin SinksOn(i)
  BY <1>2, PipelineAssumption DEF SinksOn
<1>4. CASE PinLatest(r)
  <2>1. latest \in Slots /\ latest # None /\ pulled' = [pulled EXCEPT ![r] = latest] /\ pulled[r] = None
    BY <1>1, <1>4 DEF PinLatest
  <2>2. \A i \in Slots : PulledOn(i)' = IF i = latest THEN PulledOn(i) \cup {r} ELSE PulledOn(i)
    BY <1>1, <2>1 DEF PulledOn
  <2> DEFINE H == [i \in Slots |-> SinksOn(i) \cup PulledOn(i)]
             H1 == [i \in Slots |-> SinksOn(i)' \cup PulledOn(i)']
  <2>3. H1 = [H EXCEPT ![latest] = @ \cup {r}]
    BY <1>3, <2>1, <2>2
  <2>4. Lease!Take(r)
    BY <1>2, <2>1, <2>3 DEF Lease!Take
  <2> QED
    BY <2>4 DEF Lease!Next
<1>5. CASE PullPut(r)
  <2>1. pulled[r] \in Slots /\ pulled' = [pulled EXCEPT ![r] = None]
    BY <1>1, <1>5 DEF PullPut
  <2>2. \A i \in Slots : PulledOn(i)' = IF i = pulled[r] THEN PulledOn(i) \ {r} ELSE PulledOn(i)
    BY <1>1, <2>1 DEF PulledOn
  <2>3. r \in HoldersOn(pulled[r])
    BY DEF HoldersOn, PulledOn
  <2>4. \A i \in Slots : HoldersOn(i)' = IF i = pulled[r] THEN HoldersOn(i) \ {r} ELSE HoldersOn(i)
    BY <1>3, <2>2 DEF HoldersOn
  <2> QED
    BY <1>2, <2>1, <2>3, <2>4, LeaseReleases
<1> QED
  BY <1>4, <1>5 DEF ReaderStep

\* init() finds nobody reading.
LEMMA ReinitLeases ==
    ASSUME PipelineInv, Reinit
    PROVE  Lease!Next
<1>1. /\ \A s \in Sinks : owed[s] = {} /\ extra[s] = {} /\ pending[s] = None
      /\ \A r \in Readers : pulled[r] = None
      /\ None \notin Slots
  BY PipelineAssumption DEF PipelineInv, Reinit, Drained, RegistryInv, Slots
<1>2. filling' = {} /\ latest' = None /\ UNCHANGED <<owed, extra, pending, pulled>>
  BY DEF Reinit, sinkVars, useVars
<1>3. \A i \in Slots : SinksOn(i) = {} /\ PulledOn(i) = {} /\ SinksOn(i)' = {} /\ PulledOn(i)' = {}
  BY <1>1, <1>2 DEF SinksOn, PulledOn
<1>4. Lease!Reset
  BY <1>2, <1>3 DEF Lease!Reset
<1> QED
  BY <1>4 DEF Lease!Next

\* get() pins a frame the sink has already; the registry and the calls
\* between critical sections move none.
LEMMA OthersStay ==
    ASSUME PipelineInv,
           \/ \E s \in Sinks, f \in Slots : Get(s, f)
           \/ \E s \in Sinks : Deliver(s) \/ AttachOpen(s) \/ AttachLink(s)
           \/ \E t \in Threads : Redeliver(t) \/ HandOver(t) \/ Return(t)
           \/ AttachRefused \/ DetachReturn \/ UNCHANGED vars
    PROVE  UNCHANGED Lease!vars
<1>1. /\ owed \in [Sinks -> SUBSET Slots] /\ extra \in [Sinks -> SUBSET Slots]
      /\ pending \in [Sinks -> Slots \cup {None}]
  BY DEF PipelineInv, TypeOK
<1>2. ASSUME UNCHANGED <<filling, latest, owed, extra, pending, pulled>>
      PROVE  UNCHANGED Lease!vars
  BY <1>2, LeaseStays DEF HoldersOn, SinksOn, PulledOn
<1>3. ASSUME NEW s \in Sinks, NEW f \in Slots, Get(s, f)
      PROVE  UNCHANGED Lease!vars
  <2>1. UNCHANGED <<filling, latest, owed, pending, pulled>> /\ extra' = [extra EXCEPT ![s] = @ \cup {f}] /\ f \in owed[s]
    BY <1>3 DEF Get, InHand
  <2>2. \A i \in Slots : SinksOn(i)' = SinksOn(i) /\ PulledOn(i)' = PulledOn(i)
    BY <1>1, <2>1 DEF SinksOn, PulledOn
  <2> QED
    BY <2>1, <2>2, LeaseStays DEF HoldersOn
<1>4. ASSUME NEW s \in Sinks, AttachLink(s)
      PROVE  UNCHANGED Lease!vars
  <2>1. pending[s] = None
    BY <1>4 DEF AttachLink, PipelineInv, RegistryInv
  <2>2. UNCHANGED <<filling, latest, owed, extra, pending, pulled>>
    BY <1>1, <1>4, <2>1 DEF AttachLink, slotVars, useVars
  <2> QED
    BY <1>2, <2>2
<1>5. \/ \E s \in Sinks : Deliver(s) \/ AttachOpen(s)
      \/ \E t \in Threads : Redeliver(t) \/ HandOver(t) \/ Return(t)
      \/ AttachRefused \/ DetachReturn \/ UNCHANGED vars
      => UNCHANGED <<filling, latest, owed, extra, pending, pulled>>
  BY DEF Deliver, AttachOpen, Redeliver, HandOver, Return, AttachRefused, DetachReturn, vars, slotVars,
         sinkVars, useVars
<1> QED
  BY <1>2, <1>3, <1>4, <1>5

\* Every step of the ring is one of the lease's, or none.
LEMMA LeaseStep == PipelineInv /\ [Next]_vars => [Lease!Next]_Lease!vars
<1> SUFFICES ASSUME PipelineInv, [Next]_vars
             PROVE  [Lease!Next]_Lease!vars
  OBVIOUS
<1>1. ASSUME NEW t \in Threads, SyncPut(t)
      PROVE  [Lease!Next]_Lease!vars
  <2>1. Head(calls[t]).sink \in Sinks /\ Head(calls[t]).frame \in Slots
    BY <1>1, TopType DEF SyncPut, PipelineInv
  <2> QED
    BY <1>1, <2>1, PutLeases DEF SyncPut
<1>2. ASSUME NEW s \in Sinks, NEW f \in Slots, AsyncPut(s, f)
      PROVE  [Lease!Next]_Lease!vars
  <2>1. s \in Threads /\ f \in owed[s]
    BY <1>2 DEF AsyncPut, InHand, Threads
  <2> QED
    BY <1>2, <2>1, PutLeases DEF AsyncPut
<1>3. CASE ProducerStep
  BY <1>3, AcquireLeases, PublishLeases, OthersStay DEF ProducerStep
<1>4. ASSUME NEW t \in Threads, CallStep(t)
      PROVE  [Lease!Next]_Lease!vars
  BY <1>1, <1>4, OthersStay DEF CallStep
<1>5. ASSUME NEW s \in Sinks, SinkStep(s)
      PROVE  [Lease!Next]_Lease!vars
  BY <1>2, <1>5, OthersStay, PutExtraLeases DEF SinkStep
<1>6. CASE RegistryStep
  BY <1>6, OthersStay, DetachLeases DEF RegistryStep
<1>7. CASE UNCHANGED vars
  BY <1>7, OthersStay
<1> QED
  BY <1>3, <1>4, <1>5, <1>6, <1>7, ReaderLeases, ReinitLeases DEF Next

\* A fresh ring is a fresh lease.
LEMMA LeaseInit == Init => Lease!Init
<1> SUFFICES ASSUME Init
             PROVE  Lease!Init
  OBVIOUS
<1>1. None \notin Slots
  BY PipelineAssumption DEF Slots
<1>2. \A i \in Slots : SinksOn(i) = {} /\ PulledOn(i) = {}
  BY <1>1 DEF Init, SinksOn, PulledOn
<1> QED
  BY <1>2 DEF Init, Lease!Init

(* The ring implements the slot lease, for any slots, sinks and readers:    *)
(* however publish(), put(), get(), attach() and detach() interleave with   *)
(* the callbacks they make, a slot is lent for writing only while nobody    *)
(* reads it, and a party comes to read only what is just published or the   *)
(* newest frame.                                                            *)
THEOREM SlotsAreLeased == Spec => LeaseSpec
<1>1. Lease!Init /\ [][Lease!Next]_Lease!vars => Lease!Spec
  BY DEF Lease!Spec
<1> QED
  BY LeaseInit, LeaseStep, Invariance, <1>1, PTL DEF Spec, LeaseSpec

------------------------------------------------------------------------------
(* What the order of frames and the accounts rest on: the shape of the     *)
(* call stacks, and where the frames still to be delivered are.            *)

\* put() made the call and has not entered consume() yet.
Due(s) == calls[s] # <<>> /\ Head(calls[s]).stage = "due"

\* publish() is inside the consume() of s.
ProducerFor(s) == calls[Producer] # <<>> /\ Head(calls[Producer]).sink = s

\* The calls of q are for s; all have put their frame.
AllOut(q, s) == \A k \in 1 .. Len(q) : q[k].sink = s /\ q[k].stage = "out"

\* The calls of q are for s; below the innermost all have put their frame.
Nested(q, s) == \A k \in 1 .. Len(q) : q[k].sink = s /\ (k > 1 => q[k].stage = "out")

\* No call for s is made or about to be made.
Quiet(s) == s \notin todo /\ ~ProducerFor(s) /\ calls[s] = <<>>

\* At most one frame is on its way to s beside the pending one: publish()
\* takes no busy sink, and put() hands over the pending frame.
OneDelivery(s) ==
    /\ Nested(calls[s], s)
    /\ s \in todo \/ ProducerFor(s) => pending[s] = None
    /\ Due(s) => /\ busy[s] /\ s \notin todo /\ ~ProducerFor(s)
                 /\ Head(calls[s]).frame \in owed[s]

\* A frame on its way is newer than the last one seen, the pending one is
\* newer still.
NewerComes(s) ==
    /\ seen[s] <= gen
    /\ s \in todo => stamp[fan] > seen[s]
    /\ Due(s) => stamp[Head(calls[s]).frame] > seen[s]
    /\ pending[s] # None => stamp[pending[s]] > seen[s]
    /\ pending[s] # None /\ Due(s) => stamp[pending[s]] > stamp[Head(calls[s]).frame]

\* The calls a thread is in.
Depth(s) == Len(calls[s])

\* The started calls of s that are not counted as delivered yet.
Started(s) == (IF s \in todo THEN 1 ELSE 0) + (IF ProducerFor(s) THEN 1 ELSE 0)
                + Depth(s)

Waiting(s) == IF pending[s] = None THEN 0 ELSE 1

\* The counters of an attached sink add up to the frames published to it.
Accounted(s) ==
    /\ Depth(s) <= gen
    /\ s \in attached => /\ offered[s] <= gen
                         /\ offered[s] = delivered[s] + dropped[s] + Started(s) + Waiting(s)

\* publish() makes one call at a time, and only after the frame is pinned.
ProducerCalls ==
    calls[Producer] # <<>> => /\ Len(calls[Producer]) = 1
                              /\ Head(calls[Producer]).stage # "due"

DeliveryInv ==
    /\ ProducerCalls
    /\ \A i \in Slots : stamp[i] <= gen
    /\ \A s \in Sinks : OneDelivery(s) /\ NewerComes(s) /\ Accounted(s)
    /\ registry.op = "open" => Quiet(registry.sink)

\* A call put in front of a thread's other calls.
LEMMA Prepend ==
    ASSUME NEW c \in CallRecord, NEW q \in Seq(CallRecord)
    PROVE  /\ <<c>> \o q \in Seq(CallRecord)
           /\ <<c>> \o q # <<>>
           /\ Len(<<c>> \o q) = Len(q) + 1
           /\ Head(<<c>> \o q) = c
           /\ \A k \in 1 .. Len(q) + 1 : (<<c>> \o q)[k] = IF k = 1 THEN c ELSE q[k - 1]
<1>1. <<c>> \in Seq(CallRecord) /\ Len(<<c>>) = 1 /\ <<c>>[1] = c
  OBVIOUS
<1>2. /\ <<c>> \o q \in Seq(CallRecord) /\ Len(<<c>> \o q) = 1 + Len(q)
      /\ \A k \in 1 .. 1 + Len(q) : (<<c>> \o q)[k] = IF k <= 1 THEN <<c>>[k] ELSE q[k - 1]
  BY <1>1, ConcatProperties
<1>3. Len(q) \in Nat
  BY LenProperties
<1>4. <<c>> \o q # <<>> /\ Head(<<c>> \o q) = (<<c>> \o q)[1]
  BY <1>2, <1>3, EmptySeq, HeadTailProperties
<1>5. \A k \in 1 .. Len(q) + 1 : (<<c>> \o q)[k] = IF k = 1 THEN c ELSE q[k - 1]
  BY <1>1, <1>2, <1>3
<1> QED
  BY <1>2, <1>3, <1>4, <1>5

\* The calls a thread goes back to.
LEMMA PopCall ==
    ASSUME NEW q \in Seq(CallRecord), q # <<>>
    PROVE  /\ Tail(q) \in Seq(CallRecord)
           /\ Head(q) \in CallRecord /\ Head(q) = q[1]
           /\ Len(q) \in Nat /\ Len(q) >= 1
           /\ Len(Tail(q)) = Len(q) - 1
           /\ \A k \in 1 .. Len(Tail(q)) : Tail(q)[k] = q[k + 1]
BY HeadTailProperties, LenProperties, EmptySeq

\* Under the innermost call all have put their frame.
LEMMA TailOut ==
    ASSUME NEW q \in Seq(CallRecord), q # <<>>, NEW s, Nested(q, s)
    PROVE  AllOut(Tail(q), s) /\ Nested(Tail(q), s) /\ Head(q).sink = s
<1>1. \A k \in 1 .. Len(Tail(q)) : Tail(q)[k] = q[k + 1] /\ k + 1 \in 1 .. Len(q) /\ k + 1 > 1
  BY PopCall
<1>2. AllOut(Tail(q), s)
  BY <1>1 DEF AllOut, Nested
<1>3. Head(q) = q[1] /\ 1 \in 1 .. Len(q)
  BY PopCall
<1> QED
  BY <1>2, <1>3 DEF AllOut, Nested

\* A new innermost call.
LEMMA PrependNested ==
    ASSUME NEW q \in Seq(CallRecord), NEW s, AllOut(q, s), NEW c \in CallRecord, c.sink = s
    PROVE  /\ Nested(<<c>> \o q, s)
           /\ c.stage = "out" => AllOut(<<c>> \o q, s)
<1>1. Len(q) \in Nat /\ Len(<<c>> \o q) = Len(q) + 1
  BY Prepend, LenProperties
<1>2. \A k \in 1 .. Len(q) + 1 :
         \/ k = 1 /\ (<<c>> \o q)[k] = c
         \/ k > 1 /\ k - 1 \in 1 .. Len(q) /\ (<<c>> \o q)[k] = q[k - 1]
  BY <1>1, Prepend
<1> QED
  BY <1>1, <1>2 DEF Nested, AllOut

\* The innermost call moves on to its next stage.
LEMMA NewTop ==
    ASSUME NEW q \in Seq(CallRecord), q # <<>>, NEW s, AllOut(Tail(q), s),
           NEW c \in CallRecord, c.sink = s
    PROVE  /\ <<c>> \o Tail(q) # <<>> /\ Head(<<c>> \o Tail(q)) = c
           /\ Len(<<c>> \o Tail(q)) = Len(q)
           /\ Nested(<<c>> \o Tail(q), s)
<1>1. Tail(q) \in Seq(CallRecord) /\ Len(Tail(q)) = Len(q) - 1 /\ Len(q) \in Nat
  BY PopCall
<1>2. /\ <<c>> \o Tail(q) # <<>> /\ Head(<<c>> \o Tail(q)) = c
      /\ Len(<<c>> \o Tail(q)) = Len(Tail(q)) + 1
  BY <1>1, Prepend
<1>3. Nested(<<c>> \o Tail(q), s)
  BY <1>1, PrependNested
<1> QED
  BY <1>1, <1>2, <1>3

\* No call on the stack, none in the list.
LEMMA NestedEmpty == \A s : Nested(<<>>, s) /\ AllOut(<<>>, s)
BY DEF Nested, AllOut

\* The types and the invariants of the ring that the proofs below use.
LEMMA DeliveryTypes ==
    ASSUME PipelineInv
    PROVE  /\ calls \in [Threads -> Seq(CallRecord)]
           /\ Producer \in Threads /\ Producer \notin Sinks /\ Sinks \subseteq Threads
           /\ pending \in [Sinks -> Slots \cup {None}] /\ None \notin Slots /\ None \notin Sinks
           /\ busy \in [Sinks -> BOOLEAN]
           /\ owed \in [Sinks -> SUBSET Slots] /\ extra \in [Sinks -> SUBSET Slots]
           /\ gen \in Nat /\ stamp \in [Slots -> Nat] /\ seen \in [Sinks -> Nat]
           /\ todo \subseteq Sinks /\ attached \subseteq Sinks
           /\ todo # {} => fan \in Slots
           /\ delivered \in [Sinks -> Nat] /\ dropped \in [Sinks -> Nat]
           /\ offered \in [Sinks -> Nat]
           /\ \A s \in Sinks : Len(calls[s]) \in Nat
           /\ \A s \in Sinks : pending[s] # None => s \in attached /\ busy[s]
<1>1. TypeOK /\ RegistryInv /\ PendingWillMove
  BY DEF PipelineInv
<1>2. None \notin Slots /\ None \notin Sinks /\ Producer \notin Sinks /\ MaxGen \in Nat
  BY PipelineAssumption DEF Slots
<1>3. calls \in [Threads -> Seq(CallRecord)] /\ Producer \in Threads /\ Sinks \subseteq Threads
  BY <1>1 DEF TypeOK, Threads
<1>4. \A s \in Sinks : Len(calls[s]) \in Nat
  BY <1>3, LenProperties
<1>5. gen \in Nat /\ stamp \in [Slots -> Nat] /\ seen \in [Sinks -> Nat]
  BY <1>1, <1>2 DEF TypeOK
<1>6. \A s \in Sinks : pending[s] # None => s \in attached /\ busy[s]
  BY <1>1 DEF RegistryInv, PendingWillMove
<1> QED
  BY <1>1, <1>2, <1>3, <1>4, <1>5, <1>6 DEF TypeOK

\* A sink none of whose state changes, beside the registry's.
LEMMA SinkStays ==
    ASSUME NEW s \in Sinks, OneDelivery(s), NewerComes(s), Accounted(s),
           UNCHANGED <<gen, stamp>>, s \in attached' => s \in attached,
           calls'[s] = calls[s], pending'[s] = pending[s], busy'[s] = busy[s],
           owed'[s] = owed[s], seen'[s] = seen[s], delivered'[s] = delivered[s],
           dropped'[s] = dropped[s], offered'[s] = offered[s],
           s \in todo' <=> s \in todo, s \in todo => fan' = fan,
           ProducerFor(s)' <=> ProducerFor(s)
    PROVE  OneDelivery(s)' /\ NewerComes(s)' /\ Accounted(s)'
<1>1. Due(s)' <=> Due(s)
  BY DEF Due
<1>2. OneDelivery(s)'
  BY <1>1 DEF OneDelivery, Nested
<1>3. NewerComes(s)'
  BY <1>1 DEF NewerComes
<1>4. Started(s)' = Started(s) /\ Waiting(s)' = Waiting(s)
  BY DEF Started, Waiting, Depth
<1>5. Accounted(s)'
  BY <1>4 DEF Accounted, Depth
<1> QED
  BY <1>2, <1>3, <1>5

\* The same for all sinks and the producer: a step that moves no frame.
LEMMA DeliveryStays ==
    ASSUME DeliveryInv,
           UNCHANGED <<gen, stamp, calls, pending, busy, owed, seen, delivered, dropped,
                       offered, todo, fan>>,
           attached' \subseteq attached,
           registry'.op = "open" => Quiet(registry'.sink)
    PROVE  DeliveryInv'
<1>1. \A s \in Sinks : ProducerFor(s)' <=> ProducerFor(s)
  BY DEF ProducerFor
<1>2. \A s \in Sinks : OneDelivery(s)' /\ NewerComes(s)' /\ Accounted(s)'
  BY <1>1, SinkStays DEF DeliveryInv
<1>3. ProducerCalls'
  BY DEF DeliveryInv, ProducerCalls
<1>4. registry'.op = "open" => Quiet(registry.sink)'
  BY DEF Quiet, ProducerFor
<1>5. \A i \in Slots : stamp'[i] <= gen'
  BY DEF DeliveryInv
<1> QED
  BY <1>2, <1>3, <1>4, <1>5 DEF DeliveryInv

\* A sink without a frame on its way, by its call stack.
LEMMA NoCallQuiet ==
    ASSUME PipelineInv, DeliveryInv, NEW s \in Sinks, NoCall(s)
    PROVE  Quiet(s)
<1>1. calls[s] \in Seq(CallRecord) /\ calls[Producer] \in Seq(CallRecord)
      /\ s \in Threads /\ Producer \in Threads
  BY DeliveryTypes
<1>2. ASSUME calls[s] # <<>> PROVE FALSE
  <2>1. 1 \in 1 .. Len(calls[s])
    BY <1>1, <1>2, PopCall
  <2>2. calls[s][1].sink = s
    BY <2>1 DEF DeliveryInv, OneDelivery, Nested
  <2> QED
    BY <1>1, <2>1, <2>2 DEF NoCall
<1>3. ASSUME ProducerFor(s) PROVE FALSE
  <2>1. 1 \in 1 .. Len(calls[Producer]) /\ Head(calls[Producer]) = calls[Producer][1]
    BY <1>1, <1>3, PopCall DEF ProducerFor
  <2> QED
    BY <1>1, <1>3, <2>1 DEF NoCall, ProducerFor
<1> QED
  BY <1>2, <1>3 DEF NoCall, Quiet

------------------------------------------------------------------------------
(* put().                                                                  *)

\* A put() that s makes on its own thread: it may start the call with the
\* pending frame.
LEMMA OwnPut ==
    ASSUME PipelineInv, DeliveryInv, NEW s \in Sinks, NEW f \in Slots,
           NEW rest \in Seq(CallRecord), Put(s, s, f, rest),
           AllOut(rest, s), Len(rest) = Len(calls[s]), ~Due(s),
           owed[s] # {} \/ extra[s] # {},
           \A u \in Sinks \ {s} : owed'[u] = owed[u],
           pending[s] # None => pending[s] \in owed'[s]
    PROVE  DeliveryInv'
<1> DEFINE p == pending[s]
<1>t. /\ calls \in [Threads -> Seq(CallRecord)] /\ s \in Threads /\ Producer \in Threads
      /\ Producer # s /\ Producer \notin Sinks /\ Sinks \subseteq Threads
      /\ p \in Slots \cup {None} /\ None \notin Slots
      /\ gen \in Nat /\ Len(calls[s]) \in Nat
      /\ offered[s] \in Nat /\ delivered[s] \in Nat /\ dropped[s] \in Nat
      /\ p # None => s \in attached
      /\ pending \in [Sinks -> Slots \cup {None}] /\ busy \in [Sinks -> BOOLEAN]
  BY DeliveryTypes
<1>u. /\ UNCHANGED <<gen, stamp, delivered, dropped, fan, todo, attached, registry, offered, seen>>
      /\ calls'[s] = Transfer(s) \o rest
      /\ \A t \in Threads \ {s} : calls'[t] = calls[t]
      /\ pending'[s] = None /\ (busy'[s] <=> p # None)
      /\ \A u \in Sinks \ {s} : pending'[u] = pending[u] /\ busy'[u] = busy[u]
  BY <1>t DEF Put, histVars
<1>i. OneDelivery(s) /\ NewerComes(s) /\ Accounted(s)
  BY DEF DeliveryInv
<1>1. calls'[Producer] = calls[Producer]
  BY <1>t, <1>u
<1>2. \A u \in Sinks : ProducerFor(u)' <=> ProducerFor(u)
  BY <1>1 DEF ProducerFor
<1>3. \A u \in Sinks \ {s} : OneDelivery(u)' /\ NewerComes(u)' /\ Accounted(u)'
  <2> TAKE u \in Sinks \ {s}
  <2>1. calls'[u] = calls[u]
    BY <1>t, <1>u
  <2>2. OneDelivery(u) /\ NewerComes(u) /\ Accounted(u)
    BY DEF DeliveryInv
  <2> QED
    BY <1>u, <1>2, <2>1, <2>2, SinkStays
<1>4. ASSUME p = None PROVE OneDelivery(s)' /\ NewerComes(s)' /\ Accounted(s)'
  <2>1. calls'[s] = rest
    BY <1>4, <1>u, ConcatEmptySeq DEF Transfer
  <2>2. ~Due(s)'
    <3>1. rest # <<>> => Head(rest).stage = "out"
      <4>1. rest # <<>> => Head(rest) = rest[1] /\ 1 \in 1 .. Len(rest)
        BY PopCall
      <4> QED
        BY <4>1 DEF AllOut
    <3> QED
      BY <2>1, <3>1 DEF Due
  <2>3. Nested(calls[s], s)'
    BY <2>1 DEF AllOut, Nested
  <2>4. OneDelivery(s)'
    BY <1>u, <2>2, <2>3 DEF OneDelivery
  <2>5. NewerComes(s)'
    BY <1>i, <1>u, <2>2 DEF NewerComes
  <2>6. Started(s)' = Started(s) /\ Waiting(s)' = Waiting(s)
    BY <1>2, <1>4, <1>u, <2>1 DEF Started, Waiting, Depth
  <2>7. Accounted(s)'
    BY <1>i, <1>u, <2>1, <2>6 DEF Accounted, Depth
  <2> QED
    BY <2>4, <2>5, <2>7
<1>5. ASSUME p # None PROVE OneDelivery(s)' /\ NewerComes(s)' /\ Accounted(s)'
  <2> DEFINE c == Call(s, p, "due")
  <2>1. c \in CallRecord /\ c.sink = s /\ c.frame = p /\ c.stage = "due"
    BY <1>5, <1>t DEF Call, CallRecord
  <2>2. calls'[s] = <<c>> \o rest
    BY <1>5, <1>u DEF Transfer
  <2>3. /\ calls'[s] # <<>> /\ Head(calls'[s]) = c /\ Len(calls'[s]) = Len(calls[s]) + 1
    BY <2>1, <2>2, Prepend
  <2>4. Nested(calls[s], s)'
    BY <2>1, <2>2, PrependNested
  <2>5. s \notin todo /\ ~ProducerFor(s)
    BY <1>5, <1>i DEF OneDelivery
  <2>6. Head(calls'[s]).frame = p
    BY <2>1, <2>3
  <2>7. OneDelivery(s)'
    <3>1. busy'[s] /\ s \notin todo' /\ ~ProducerFor(s)' /\ Head(calls'[s]).frame \in owed'[s]
      BY <1>2, <1>5, <1>u, <2>5, <2>6
    <3> QED
      BY <1>u, <2>4, <3>1 DEF OneDelivery
  <2>8. NewerComes(s)'
    BY <1>5, <1>i, <1>u, <2>5, <2>6 DEF NewerComes
  <2>9. Started(s)' = Started(s) + 1 /\ Waiting(s)' = 0 /\ Waiting(s) = 1 /\ Started(s) \in Nat
        /\ Started(s) >= Len(calls[s])
    BY <1>2, <1>5, <1>t, <1>u, <2>3, <2>5 DEF Started, Waiting, Depth
  <2>10. Accounted(s)'
    <3>1. s \in attached
      BY <1>5, <1>t
    <3>2. offered[s] <= gen /\ offered[s] = delivered[s] + dropped[s] + Started(s) + 1
      BY <1>i, <2>9, <3>1 DEF Accounted
    <3>3. Len(calls[s]) + 1 <= gen
      BY <1>t, <2>9, <3>2
    <3>4. offered[s] = delivered[s] + dropped[s] + (Started(s) + 1) + 0
      BY <1>t, <2>9, <3>2
    <3> HIDE DEF p
    <3> QED
      BY <1>u, <2>3, <2>9, <3>2, <3>3, <3>4 DEF Accounted, Depth
  <2> QED
    BY <2>7, <2>8, <2>10
<1>6. ProducerCalls'
  BY <1>1 DEF DeliveryInv, ProducerCalls
<1>7. registry'.op = "open" => Quiet(registry.sink)'
  <2> SUFFICES ASSUME registry.op = "open" PROVE Quiet(registry.sink)'
    BY <1>u
  <2>1. Quiet(registry.sink)
    BY DEF DeliveryInv
  <2>2. registry.sink \in Sinks /\ registry.sink # s
    BY DEF PipelineInv, RegistryInv
  <2> QED
    BY <1>2, <1>t, <1>u, <2>1, <2>2 DEF Quiet
<1>8. \A i \in Slots : stamp'[i] <= gen'
  BY <1>u DEF DeliveryInv
<1> QED
  BY <1>3, <1>4, <1>5, <1>6, <1>7, <1>8 DEF DeliveryInv

\* A put() from inside the consume() that publish() called.
LEMMA ProducerPut ==
    ASSUME PipelineInv, DeliveryInv, SyncPut(Producer)
    PROVE  DeliveryInv'
<1>t. /\ calls \in [Threads -> Seq(CallRecord)] /\ Producer \in Threads
      /\ Producer \notin Sinks /\ Sinks \subseteq Threads
      /\ pending \in [Sinks -> Slots \cup {None}] /\ None \notin Slots
      /\ busy \in [Sinks -> BOOLEAN] /\ owed \in [Sinks -> SUBSET Slots]
  BY DeliveryTypes
<1>c. PICK c \in CallRecord : c = Head(calls[Producer]) /\ calls[Producer] # <<>>
  BY <1>t, TopType DEF SyncPut, PipelineInv
<1>s. PICK s \in Sinks : s = c.sink
  BY DEF CallRecord
<1>1. calls[Producer] # <<>> /\ c.frame \in owed[s]
  BY <1>c, <1>s DEF SyncPut
<1>2. s \in Sinks /\ c.frame \in Slots /\ c \in CallRecord
  BY <1>c DEF CallRecord
<1>3. Len(calls[Producer]) = 1 /\ ProducerFor(s)
  BY <1>1, <1>c, <1>s DEF DeliveryInv, ProducerCalls, ProducerFor
<1>4. pending[s] = None /\ ~Due(s)
  BY <1>2, <1>3 DEF DeliveryInv, OneDelivery
<1> DEFINE d == Call(s, c.frame, "out")
<1>5. d \in CallRecord /\ d.sink = s /\ d.stage = "out"
  BY <1>2 DEF Call, CallRecord
<1>6. Tail(calls[Producer]) = <<>>
  <2>1. Tail(calls[Producer]) \in Seq(CallRecord) /\ Len(Tail(calls[Producer])) = 0
    BY <1>1, <1>3, <1>t, PopCall
  <2> QED
    BY <2>1, EmptySeq
<1>7. <<d>> \o Tail(calls[Producer]) = <<d>>
  <2>1. <<d>> \in Seq(CallRecord)
    BY <1>5
  <2> QED
    BY <2>1, <1>6, ConcatEmptySeq
<1>8. Put(Producer, s, c.frame, <<d>> \o Tail(calls[Producer])) /\ Settle(s, c.frame)
  BY <1>c, <1>s DEF SyncPut
<1>9. calls' = [calls EXCEPT ![Producer] = <<d>>]
  <2>1. <<>> \o <<d>> = <<d>>
    <3>1. <<d>> \in Seq(CallRecord)
      BY <1>5
    <3> QED
      BY <3>1, ConcatEmptySeq
  <2> QED
    BY <1>4, <1>7, <1>8, <2>1 DEF Put, Transfer
<1>10. /\ UNCHANGED <<gen, stamp, delivered, dropped, fan, todo, attached, registry, offered, seen>>
       /\ UNCHANGED pending
       /\ \A u \in Sinks \ {s} : busy'[u] = busy[u] /\ owed'[u] = owed[u]
  BY <1>2, <1>4, <1>8, <1>t DEF Put, Settle, histVars
<1>11. calls'[Producer] = <<d>> /\ \A u \in Sinks : calls'[u] = calls[u]
  BY <1>9, <1>t
<1>12. calls'[Producer] # <<>> /\ Head(calls'[Producer]) = d /\ Len(calls'[Producer]) = 1
  BY <1>5, <1>11
<1>13. \A u \in Sinks : ProducerFor(u)' <=> ProducerFor(u)
  BY <1>1, <1>c, <1>s, <1>5, <1>12 DEF ProducerFor
<1> HIDE DEF d
<1>14. \A u \in Sinks \ {s} : OneDelivery(u)' /\ NewerComes(u)' /\ Accounted(u)'
  <2> TAKE u \in Sinks \ {s}
  <2>2. OneDelivery(u) /\ NewerComes(u) /\ Accounted(u)
    BY DEF DeliveryInv
  <2> QED
    BY <1>10, <1>11, <1>13, <2>2, SinkStays
<1>15. OneDelivery(s)' /\ NewerComes(s)' /\ Accounted(s)'
  <2>1. OneDelivery(s) /\ NewerComes(s) /\ Accounted(s)
    BY <1>2 DEF DeliveryInv
  <2>2. ~Due(s)'
    BY <1>2, <1>4, <1>11 DEF Due
  <2>3. OneDelivery(s)'
    BY <1>2, <1>4, <1>10, <1>11, <2>1, <2>2 DEF OneDelivery, Nested
  <2>4. NewerComes(s)'
    BY <1>4, <1>10, <2>1, <2>2 DEF NewerComes
  <2>5. Started(s)' = Started(s) /\ Waiting(s)' = Waiting(s)
    BY <1>2, <1>10, <1>11, <1>13 DEF Started, Waiting, Depth
  <2>6. Accounted(s)'
    BY <1>2, <1>10, <1>11, <2>1, <2>5 DEF Accounted, Depth
  <2> QED
    BY <2>3, <2>4, <2>6
<1>16. ProducerCalls'
  BY <1>5, <1>12 DEF ProducerCalls
<1>17. registry'.op = "open" => Quiet(registry.sink)'
  <2>1. registry.op = "open" => Quiet(registry.sink) /\ registry.sink \in Sinks
    BY DEF DeliveryInv, PipelineInv, RegistryInv
  <2> QED
    BY <1>10, <1>11, <1>13, <2>1 DEF Quiet
<1>18. \A i \in Slots : stamp'[i] <= gen'
  BY <1>10 DEF DeliveryInv
<1> QED
  BY <1>14, <1>15, <1>16, <1>17, <1>18 DEF DeliveryInv

\* A put() from inside a call that put() made.
LEMMA NestedPut ==
    ASSUME PipelineInv, DeliveryInv, NEW t \in Sinks, SyncPut(t)
    PROVE  DeliveryInv'
<1>t. /\ calls \in [Threads -> Seq(CallRecord)] /\ t \in Threads
      /\ pending \in [Sinks -> Slots \cup {None}] /\ owed \in [Sinks -> SUBSET Slots]
      /\ None \notin Slots
  BY DeliveryTypes
<1>c. PICK c \in CallRecord : c = Head(calls[t]) /\ calls[t] # <<>>
  BY <1>t, TopType DEF SyncPut, PipelineInv
<1>1. Nested(calls[t], t) /\ calls[t] \in Seq(CallRecord)
  BY <1>t DEF DeliveryInv, OneDelivery
<1>2. c.sink = t /\ AllOut(Tail(calls[t]), t) /\ Tail(calls[t]) \in Seq(CallRecord)
      /\ Len(Tail(calls[t])) = Len(calls[t]) - 1 /\ Len(calls[t]) \in Nat
  BY <1>1, <1>c, TailOut, PopCall
<1>3. c.frame \in Slots /\ c.stage = "in" /\ c.frame \in owed[t] /\ ~Due(t)
  BY <1>c, <1>2 DEF CallRecord, SyncPut, Due
<1> DEFINE d == Call(t, c.frame, "out")
           rest == <<d>> \o Tail(calls[t])
<1>4. d \in CallRecord /\ d.sink = t /\ d.stage = "out"
  BY <1>3 DEF Call, CallRecord
<1>5. rest \in Seq(CallRecord) /\ Len(rest) = Len(calls[t]) /\ AllOut(rest, t)
  <2> HIDE DEF d
  <2>1. <<d>> \o Tail(calls[t]) \in Seq(CallRecord)
        /\ Len(<<d>> \o Tail(calls[t])) = Len(Tail(calls[t])) + 1
    BY <1>2, <1>4, Prepend
  <2>2. AllOut(<<d>> \o Tail(calls[t]), t)
    BY <1>2, <1>4, PrependNested
  <2> QED
    BY <1>2, <2>1, <2>2
<1>6. Put(t, t, c.frame, rest) /\ Settle(t, c.frame)
  BY <1>2, <1>c DEF SyncPut
<1>7. /\ \A u \in Sinks \ {t} : owed'[u] = owed[u]
      /\ pending[t] # None => pending[t] \in owed'[t]
  BY <1>6, <1>t DEF Settle
<1> HIDE DEF rest
<1> QED
  BY <1>3, <1>5, <1>6, <1>7, OwnPut

\* A put() that the sink's thread makes outside every call.
LEMMA FreePut ==
    ASSUME PipelineInv, DeliveryInv, NEW s \in Sinks, NEW f \in Slots,
           AsyncPut(s, f) \/ PutExtra(s, f)
    PROVE  DeliveryInv'
<1>t. /\ pending \in [Sinks -> Slots \cup {None}] /\ owed \in [Sinks -> SUBSET Slots]
      /\ None \notin Slots
  BY DeliveryTypes
<1>1. calls[s] = <<>> /\ ~Due(s) /\ Put(s, s, f, <<>>)
  BY DEF AsyncPut, PutExtra, Due
<1>2. <<>> \in Seq(CallRecord) /\ AllOut(<<>>, s) /\ Len(<<>>) = Len(calls[s])
  BY <1>1, NestedEmpty
<1>3. owed[s] # {} \/ extra[s] # {}
  BY DEF AsyncPut, PutExtra, InHand
<1>4. /\ \A u \in Sinks \ {s} : owed'[u] = owed[u]
      /\ pending[s] # None => pending[s] \in owed'[s]
  BY <1>t DEF AsyncPut, PutExtra, Settle
<1> QED
  BY <1>1, <1>2, <1>3, <1>4, OwnPut

------------------------------------------------------------------------------
(* consume().                                                              *)

\* A step of a call that s is in and that leaves every other thread alone.
LEMMA OwnCall ==
    ASSUME PipelineInv, DeliveryInv, NEW s \in Sinks,
           UNCHANGED <<gen, stamp, pending, busy, owed, dropped, offered, todo, fan,
                       attached, registry>>,
           ~Quiet(s), \A t \in Threads \ {s} : calls'[t] = calls[t],
           \A u \in Sinks \ {s} : seen'[u] = seen[u] /\ delivered'[u] = delivered[u],
           Nested(calls'[s], s), ~Due(s)',
           seen'[s] \in Nat, seen'[s] <= gen, s \in todo => stamp[fan] > seen'[s],
           pending[s] # None => stamp[pending[s]] > seen'[s],
           Depth(s)' \in Nat, delivered'[s] \in Nat,
           Depth(s)' <= Depth(s),
           Depth(s)' + delivered'[s] = Depth(s) + delivered[s]
    PROVE  DeliveryInv'
<1>t. /\ s \in Threads /\ Producer \in Threads /\ Producer \notin Sinks /\ Sinks \subseteq Threads
      /\ gen \in Nat /\ Depth(s) \in Nat
      /\ offered[s] \in Nat /\ delivered[s] \in Nat /\ dropped[s] \in Nat
  BY DeliveryTypes DEF Depth
<1>1. calls'[Producer] = calls[Producer] /\ \A u \in Sinks \ {s} : calls'[u] = calls[u]
  BY <1>t
<1>2. \A u \in Sinks : ProducerFor(u)' <=> ProducerFor(u)
  BY <1>1 DEF ProducerFor
<1>3. \A u \in Sinks \ {s} : OneDelivery(u)' /\ NewerComes(u)' /\ Accounted(u)'
  <2> TAKE u \in Sinks \ {s}
  <2>1. OneDelivery(u) /\ NewerComes(u) /\ Accounted(u)
    BY DEF DeliveryInv
  <2> QED
    BY <1>1, <1>2, <2>1, SinkStays
<1>i. OneDelivery(s) /\ NewerComes(s) /\ Accounted(s)
  BY DEF DeliveryInv
<1>4. OneDelivery(s)'
  BY <1>2, <1>i DEF OneDelivery
<1>5. NewerComes(s)'
  BY <1>i DEF NewerComes
<1>6. Accounted(s)'
  <2>1. PICK a \in Nat : a = (IF s \in todo THEN 1 ELSE 0) + (IF ProducerFor(s) THEN 1 ELSE 0)
    OBVIOUS
  <2>2. PICK w \in Nat : w = Waiting(s)
    BY DEF Waiting
  <2>3. /\ Started(s) = a + Depth(s) /\ Started(s)' = a + Depth(s)'
        /\ Waiting(s)' = w
    BY <1>2, <2>1, <2>2 DEF Started, Waiting
  <2>4. Depth(s)' <= gen
    BY <1>i, <1>t DEF Accounted
  <2>5. s \in attached =>
           offered[s] = delivered'[s] + dropped[s] + (a + Depth(s)') + w
    BY <1>i, <1>t, <2>2, <2>3 DEF Accounted
  <2> QED
    BY <1>i, <2>3, <2>4, <2>5 DEF Accounted
<1>7. ProducerCalls'
  BY <1>1 DEF DeliveryInv, ProducerCalls
<1>8. registry'.op = "open" => Quiet(registry.sink)'
  <2>1. registry.op = "open" => Quiet(registry.sink) /\ registry.sink \in Sinks
    BY DEF DeliveryInv, PipelineInv, RegistryInv
  <2>2. registry.op = "open" => registry.sink # s
    BY <2>1
  <2> QED
    BY <1>1, <1>2, <2>1, <2>2 DEF Quiet
<1>9. \A i \in Slots : stamp'[i] <= gen'
  BY DEF DeliveryInv
<1> QED
  BY <1>3, <1>4, <1>5, <1>6, <1>7, <1>8, <1>9 DEF DeliveryInv

\* The call that put() made enters consume().
LEMMA RedeliverInv ==
    ASSUME PipelineInv, DeliveryInv, NEW t \in Threads, Redeliver(t)
    PROVE  DeliveryInv' /\ t \in Sinks /\ Due(t) /\ seen' = [seen EXCEPT ![t] = stamp[Head(calls[t]).frame]]
<1>t. /\ calls \in [Threads -> Seq(CallRecord)] /\ Threads = Sinks \cup {Producer}
      /\ seen \in [Sinks -> Nat] /\ stamp \in [Slots -> Nat] /\ gen \in Nat
      /\ pending \in [Sinks -> Slots \cup {None}] /\ None \notin Slots
      /\ delivered \in [Sinks -> Nat] /\ \A u \in Sinks : Len(calls[u]) \in Nat
  BY DeliveryTypes DEF Threads
<1>c. PICK c \in CallRecord : c = Head(calls[t]) /\ calls[t] # <<>>
  BY <1>t, TopType DEF Redeliver, PipelineInv
<1>1. t \in Sinks /\ Due(t)
  BY <1>c, <1>t DEF Redeliver, DeliveryInv, ProducerCalls, Due
<1>2. OneDelivery(t) /\ NewerComes(t) /\ calls[t] \in Seq(CallRecord)
  BY <1>1, <1>t DEF DeliveryInv
<1>3. c.sink = t /\ AllOut(Tail(calls[t]), t) /\ Tail(calls[t]) \in Seq(CallRecord)
      /\ Len(Tail(calls[t])) = Len(calls[t]) - 1 /\ Len(calls[t]) \in Nat
  BY <1>2, <1>c, TailOut, PopCall DEF OneDelivery
<1>q. ~Quiet(t)
  BY <1>c DEF Quiet
<1>4. c.frame \in Slots
  BY DEF CallRecord
<1> DEFINE d == Call(t, c.frame, "in")
<1>5. d \in CallRecord /\ d.sink = t /\ d.stage = "in"
  BY <1>1, <1>4 DEF Call, CallRecord
<1>6. calls' = [calls EXCEPT ![t] = <<d>> \o Tail(calls[t])]
      /\ seen' = [seen EXCEPT ![t] = stamp[c.frame]]
  BY <1>c, <1>3 DEF Redeliver
<1> HIDE DEF d
<1>7. calls'[t] = <<d>> \o Tail(calls[t]) /\ \A u \in Threads \ {t} : calls'[u] = calls[u]
  BY <1>6, <1>t
<1>8. /\ calls'[t] # <<>> /\ Head(calls'[t]) = d /\ Len(calls'[t]) = Len(calls[t])
      /\ Nested(calls'[t], t)
  BY <1>3, <1>5, <1>7, NewTop
<1>9. ~Due(t)'
  BY <1>5, <1>8 DEF Due
<1>10. UNCHANGED <<gen, stamp, pending, busy, owed, delivered, dropped, offered, todo, fan,
                   attached, registry>>
  BY DEF Redeliver, slotVars, sinkVars, useVars
<1>11. seen'[t] = stamp[c.frame] /\ seen'[t] \in Nat /\ seen'[t] <= gen
       /\ \A u \in Sinks \ {t} : seen'[u] = seen[u]
  BY <1>1, <1>4, <1>6, <1>t DEF DeliveryInv
<1>12. t \notin todo /\ (pending[t] # None => stamp[pending[t]] > seen'[t])
  BY <1>1, <1>2, <1>11, <1>c DEF OneDelivery, NewerComes
<1>13. DeliveryInv'
  <2>1. \A u \in Sinks \ {t} : seen'[u] = seen[u] /\ delivered'[u] = delivered[u]
    BY <1>10, <1>11
  <2>2. delivered'[t] = delivered[t] /\ delivered'[t] \in Nat /\ Depth(t)' \in Nat
    BY <1>1, <1>t, <1>8, <1>10 DEF Depth
  <2>3. /\ Depth(t)' <= Depth(t)
        /\ Depth(t)' + delivered'[t] = Depth(t) + delivered[t]
    BY <1>3, <1>8, <2>2 DEF Depth
  <2> QED
    BY <1>1, <1>q, <1>7, <1>8, <1>9, <1>10, <1>11, <1>12, <2>1, <2>2, <2>3, OwnCall
<1> QED
  BY <1>1, <1>6, <1>13, <1>c

\* consume() hands its frame over, or returns, on the sink's own thread.
LEMMA CallGoesOn ==
    ASSUME PipelineInv, DeliveryInv, NEW t \in Sinks, HandOver(t) \/ Return(t)
    PROVE  DeliveryInv'
<1>t. /\ calls \in [Threads -> Seq(CallRecord)] /\ t \in Threads
      /\ seen \in [Sinks -> Nat] /\ stamp \in [Slots -> Nat] /\ gen \in Nat
      /\ delivered \in [Sinks -> Nat] /\ \A u \in Sinks : Len(calls[u]) \in Nat
  BY DeliveryTypes
<1>c. PICK c \in CallRecord : c = Head(calls[t]) /\ calls[t] # <<>>
  BY <1>t, TopType DEF HandOver, Return, PipelineInv
<1>2. OneDelivery(t) /\ NewerComes(t) /\ calls[t] \in Seq(CallRecord)
  BY <1>t DEF DeliveryInv
<1>3. c.sink = t /\ AllOut(Tail(calls[t]), t) /\ Tail(calls[t]) \in Seq(CallRecord)
      /\ Nested(Tail(calls[t]), t)
      /\ Len(Tail(calls[t])) = Len(calls[t]) - 1 /\ Len(calls[t]) \in Nat
      /\ Len(calls[t]) >= 1
  BY <1>2, <1>c, TailOut, PopCall DEF OneDelivery
<1>q. ~Quiet(t)
  BY <1>c DEF Quiet
<1>4. UNCHANGED <<gen, stamp, pending, busy, owed, dropped, offered, todo, fan,
                  attached, registry, seen>>
  BY DEF HandOver, Return, slotVars, sinkVars, useVars, histVars
<1>5. CASE HandOver(t)
  <2> DEFINE d == Call(t, c.frame, "out")
  <2>1. d \in CallRecord /\ d.sink = t /\ d.stage = "out"
    BY DEF Call, CallRecord
  <2>2. calls' = [calls EXCEPT ![t] = <<d>> \o Tail(calls[t])] /\ UNCHANGED delivered
    BY <1>5, <1>c, <1>3 DEF HandOver, sinkVars
  <2> HIDE DEF d
  <2>3. calls'[t] = <<d>> \o Tail(calls[t]) /\ \A u \in Threads \ {t} : calls'[u] = calls[u]
    BY <2>2, <1>t
  <2>4. /\ calls'[t] # <<>> /\ Head(calls'[t]) = d /\ Len(calls'[t]) = Len(calls[t])
        /\ Nested(calls'[t], t)
    BY <1>3, <2>1, <2>3, NewTop
  <2>5. ~Due(t)'
    BY <2>1, <2>4 DEF Due
  <2>6. delivered'[t] = delivered[t] /\ seen'[t] = seen[t]
        /\ \A u \in Sinks \ {t} : seen'[u] = seen[u] /\ delivered'[u] = delivered[u]
    BY <1>4, <2>2
  <2>7. seen'[t] \in Nat /\ delivered'[t] \in Nat /\ Depth(t)' \in Nat
    BY <1>t, <2>4, <2>6 DEF Depth
  <2>8. Depth(t)' <= Depth(t)
        /\ Depth(t)' + delivered'[t] = Depth(t) + delivered[t]
    BY <1>3, <2>4, <2>6 DEF Depth
  <2> QED
    BY <1>q, <1>2, <1>4, <2>3, <2>4, <2>5, <2>6, <2>7, <2>8, OwnCall DEF NewerComes
<1>6. CASE Return(t)
  <2>1. calls' = [calls EXCEPT ![t] = Tail(calls[t])]
        /\ delivered' = [delivered EXCEPT ![t] = @ + 1]
    BY <1>6, <1>c, <1>3 DEF Return
  <2>2. calls'[t] = Tail(calls[t]) /\ \A u \in Threads \ {t} : calls'[u] = calls[u]
    BY <2>1, <1>t
  <2>3. ~Due(t)'
    <3>1. Tail(calls[t]) # <<>> => Head(Tail(calls[t])).stage = "out"
      <4>1. Tail(calls[t]) # <<>> => /\ Head(Tail(calls[t])) = Tail(calls[t])[1]
                                     /\ 1 \in 1 .. Len(Tail(calls[t]))
        BY <1>3, PopCall
      <4> QED
        BY <4>1, <1>3 DEF AllOut
    <3> QED
      BY <2>2, <3>1 DEF Due
  <2>4. delivered'[t] = delivered[t] + 1 /\ seen'[t] = seen[t]
        /\ \A u \in Sinks \ {t} : seen'[u] = seen[u] /\ delivered'[u] = delivered[u]
    BY <1>4, <2>1, <1>t
  <2>5. seen'[t] \in Nat /\ delivered'[t] \in Nat /\ Depth(t)' \in Nat
    BY <1>t, <1>3, <2>2, <2>4 DEF Depth
  <2>6. Depth(t)' <= Depth(t)
        /\ Depth(t)' + delivered'[t] = Depth(t) + delivered[t]
    <3>1. delivered[t] \in Nat /\ Len(calls'[t]) = Len(calls[t]) - 1
      BY <1>t, <1>3, <2>2
    <3> QED
      BY <1>3, <2>4, <3>1 DEF Depth
  <2> QED
    BY <1>q, <1>2, <1>3, <1>4, <2>2, <2>3, <2>4, <2>5, <2>6, OwnCall DEF NewerComes
<1> QED
  BY <1>5, <1>6

\* The consume() call that publish() made goes on or returns.
LEMMA ProducerGoesOn ==
    ASSUME PipelineInv, DeliveryInv, HandOver(Producer) \/ Return(Producer)
    PROVE  DeliveryInv'
<1>t. /\ calls \in [Threads -> Seq(CallRecord)] /\ Producer \in Threads
      /\ Producer \notin Sinks /\ Sinks \subseteq Threads
      /\ delivered \in [Sinks -> Nat] /\ dropped \in [Sinks -> Nat]
      /\ \A u \in Sinks : Len(calls[u]) \in Nat
  BY DeliveryTypes
<1>c. PICK c \in CallRecord : c = Head(calls[Producer]) /\ calls[Producer] # <<>>
  BY <1>t, TopType DEF HandOver, Return, PipelineInv
<1>s. PICK s \in Sinks : s = c.sink
  BY DEF CallRecord
<1>1. Tail(calls[Producer]) = <<>> /\ \A u \in Sinks : ProducerFor(u) <=> u = s
  <2>1. Tail(calls[Producer]) \in Seq(CallRecord) /\ Len(Tail(calls[Producer])) = 0
    BY <1>c, <1>t, PopCall DEF DeliveryInv, ProducerCalls
  <2> QED
    BY <2>1, <1>c, <1>s, EmptySeq DEF ProducerFor
<1>2. UNCHANGED <<gen, stamp, pending, busy, owed, dropped, offered, todo, fan,
                  attached, registry, seen>>
  BY DEF HandOver, Return, slotVars, sinkVars, useVars, histVars
<1>3. \A u \in Sinks : calls'[u] = calls[u]
  BY <1>t DEF HandOver, Return
<1>4. registry.op = "open" => Quiet(registry.sink) /\ registry.sink \in Sinks
  BY DEF DeliveryInv, PipelineInv, RegistryInv
<1>5. \A i \in Slots : stamp'[i] <= gen'
  BY <1>2 DEF DeliveryInv
<1>6. \A u \in Sinks : OneDelivery(u) /\ NewerComes(u) /\ Accounted(u)
  BY DEF DeliveryInv
<1>7. CASE HandOver(Producer)
  <2>1. PICK d \in CallRecord : d.sink = s /\ d.stage = "out"
                                /\ calls' = [calls EXCEPT ![Producer] = <<d>> \o Tail(calls[Producer])]
    BY <1>7, <1>c, <1>s DEF HandOver, Call, CallRecord
  <2>2. <<d>> \o Tail(calls[Producer]) = <<d>>
    <3>1. <<d>> \in Seq(CallRecord)
      OBVIOUS
    <3> QED
      BY <3>1, <1>1, ConcatEmptySeq
  <2>3. calls'[Producer] = <<d>>
    BY <2>1, <2>2, <1>t
  <2>4. calls'[Producer] # <<>> /\ Head(calls'[Producer]) = d /\ Len(calls'[Producer]) = 1
    BY <2>3
  <2>5. \A u \in Sinks : ProducerFor(u)' <=> ProducerFor(u)
    BY <1>1, <2>1, <2>4 DEF ProducerFor
  <2>6. UNCHANGED delivered
    BY <1>7 DEF HandOver, sinkVars
  <2>7. \A u \in Sinks : OneDelivery(u)' /\ NewerComes(u)' /\ Accounted(u)'
    BY <1>2, <1>3, <1>6, <2>5, <2>6, SinkStays
  <2>8. ProducerCalls'
    BY <2>1, <2>4 DEF ProducerCalls
  <2>9. registry'.op = "open" => Quiet(registry.sink)'
    BY <1>2, <1>3, <1>4, <2>5 DEF Quiet
  <2> QED
    BY <1>5, <2>7, <2>8, <2>9 DEF DeliveryInv
<1>8. CASE Return(Producer)
  <2>1. calls' = [calls EXCEPT ![Producer] = <<>>] /\ delivered' = [delivered EXCEPT ![s] = @ + 1]
    BY <1>8, <1>c, <1>s, <1>1 DEF Return
  <2>2. calls'[Producer] = <<>> /\ \A u \in Sinks : ~ProducerFor(u)'
    BY <2>1, <1>t DEF ProducerFor
  <2>3. \A u \in Sinks \ {s} : OneDelivery(u)' /\ NewerComes(u)' /\ Accounted(u)'
    <3> TAKE u \in Sinks \ {s}
    <3>1. delivered'[u] = delivered[u] /\ (ProducerFor(u)' <=> ProducerFor(u))
      BY <1>1, <2>1, <2>2, <1>t
    <3> QED
      BY <1>2, <1>3, <1>6, <3>1, SinkStays
  <2>4. OneDelivery(s)' /\ NewerComes(s)' /\ Accounted(s)'
    <3>1. ~Due(s)' /\ ~Due(s)
      BY <1>1, <1>3, <1>6 DEF OneDelivery, Due
    <3>2. OneDelivery(s)'
      BY <1>1, <1>2, <1>3, <1>6, <3>1 DEF OneDelivery, Nested
    <3>3. NewerComes(s)'
      BY <1>2, <1>6, <3>1 DEF NewerComes
    <3>4. Depth(s)' = Depth(s) /\ Depth(s) \in Nat
      BY <1>3, <1>t DEF Depth
    <3>5. Started(s) = Started(s)' + 1 /\ Started(s)' \in Nat
          /\ Waiting(s)' = Waiting(s) /\ Waiting(s) \in Nat
      BY <1>1, <1>2, <2>2, <3>4 DEF Started, Waiting
    <3>6. delivered'[s] = delivered[s] + 1 /\ delivered[s] \in Nat /\ dropped[s] \in Nat
      BY <2>1, <1>t
    <3>7. Accounted(s)'
      BY <1>2, <1>6, <3>4, <3>5, <3>6 DEF Accounted
    <3> QED
      BY <3>2, <3>3, <3>7
  <2>5. ProducerCalls'
    BY <2>2 DEF ProducerCalls
  <2>6. registry'.op = "open" => Quiet(registry.sink)'
    BY <1>2, <1>3, <1>4, <2>2 DEF Quiet
  <2> QED
    BY <1>5, <2>3, <2>4, <2>5, <2>6 DEF DeliveryInv
<1> QED
  BY <1>7, <1>8

\* publish() calls the next consume().
LEMMA DeliverInv ==
    ASSUME PipelineInv, DeliveryInv, NEW s \in Sinks, Deliver(s)
    PROVE  DeliveryInv' /\ stamp[fan] > seen[s] /\ seen' = [seen EXCEPT ![s] = stamp[fan]]
<1>t. /\ calls \in [Threads -> Seq(CallRecord)] /\ Producer \in Threads
      /\ Producer \notin Sinks /\ Sinks \subseteq Threads
      /\ seen \in [Sinks -> Nat] /\ fan \in Slots /\ None \notin Sinks
  BY DeliveryTypes DEF Deliver
<1>1. s \in todo /\ todo' = todo \ {s} /\ calls[Producer] = <<>>
      /\ UNCHANGED <<gen, stamp, pending, busy, owed, delivered, dropped, offered, fan,
                     attached, registry>>
  BY DEF Deliver, slotVars, sinkVars, useVars
<1>2. calls'[Producer] = <<Call(s, fan, "in")>> /\ \A u \in Sinks : calls'[u] = calls[u]
  BY <1>t DEF Deliver
<1>3. /\ calls'[Producer] # <<>> /\ Len(calls'[Producer]) = 1
      /\ Head(calls'[Producer]).sink = s /\ Head(calls'[Producer]).stage = "in"
  BY <1>2 DEF Call
<1>4. \A u \in Sinks : ~ProducerFor(u) /\ (ProducerFor(u)' <=> u = s)
  BY <1>1, <1>3 DEF ProducerFor
<1>5. seen' = [seen EXCEPT ![s] = stamp[fan]]
  BY DEF Deliver
<1>6. \A u \in Sinks : OneDelivery(u) /\ NewerComes(u) /\ Accounted(u)
  BY DEF DeliveryInv
<1>7. \A u \in Sinks \ {s} : OneDelivery(u)' /\ NewerComes(u)' /\ Accounted(u)'
  <2> TAKE u \in Sinks \ {s}
  <2>1. seen'[u] = seen[u] /\ (ProducerFor(u)' <=> ProducerFor(u)) /\ (u \in todo' <=> u \in todo)
    BY <1>1, <1>4, <1>5, <1>t
  <2> QED
    BY <1>1, <1>2, <1>6, <2>1, SinkStays
<1>8. OneDelivery(s)' /\ NewerComes(s)' /\ Accounted(s)'
  <2>1. ~Due(s) /\ ~Due(s)' /\ pending[s] = None
    BY <1>1, <1>2, <1>6 DEF OneDelivery, Due
  <2>2. OneDelivery(s)'
    BY <1>1, <1>2, <1>6, <2>1 DEF OneDelivery, Nested
  <2>3. seen'[s] = stamp[fan] /\ stamp[fan] <= gen
    BY <1>5, <1>t DEF DeliveryInv
  <2>4. NewerComes(s)'
    BY <1>1, <2>1, <2>3 DEF NewerComes
  <2>5. Started(s)' = Started(s) /\ Waiting(s)' = Waiting(s)
    <3>1. Depth(s)' = Depth(s) /\ Depth(s) \in Nat
      BY <1>2, DeliveryTypes DEF Depth
    <3> QED
      BY <1>1, <1>4, <3>1 DEF Started, Waiting
  <2>6. Accounted(s)'
    BY <1>1, <1>2, <1>6, <2>5 DEF Accounted, Depth
  <2> QED
    BY <2>2, <2>4, <2>6
<1>9. ProducerCalls'
  BY <1>3 DEF ProducerCalls
<1>10. registry'.op = "open" => Quiet(registry.sink)'
  <2>1. registry.op = "open" => Quiet(registry.sink) /\ registry.sink \in Sinks
    BY DEF DeliveryInv, PipelineInv, RegistryInv
  <2>2. registry.op = "open" => registry.sink # s
    BY <1>1, <2>1 DEF Quiet
  <2> QED
    BY <1>1, <1>2, <1>4, <2>1, <2>2 DEF Quiet
<1>11. \A i \in Slots : stamp'[i] <= gen'
  BY <1>1 DEF DeliveryInv
<1> QED
  BY <1>1, <1>5, <1>6, <1>7, <1>8, <1>9, <1>10, <1>11 DEF DeliveryInv, NewerComes

------------------------------------------------------------------------------
(* publish(), the registry and init().                                     *)

\* A frame newer than every other: the frames on their way keep their stamps,
\* because their slots are not the one that was filled.
LEMMA PublishDelivery ==
    ASSUME PipelineInv, DeliveryInv, NEW i \in Slots, Publish(i)
    PROVE  DeliveryInv'
<1>t. /\ gen \in Nat /\ stamp \in [Slots -> Nat] /\ seen \in [Sinks -> Nat]
      /\ pending \in [Sinks -> Slots \cup {None}] /\ None \notin Slots
      /\ owed \in [Sinks -> SUBSET Slots]
      /\ busy \in [Sinks -> BOOLEAN] /\ attached \subseteq Sinks
      /\ \A s \in Sinks : Len(calls[s]) \in Nat
      /\ delivered \in [Sinks -> Nat] /\ dropped \in [Sinks -> Nat] /\ offered \in [Sinks -> Nat]
      /\ \A s \in Sinks : pending[s] # None => s \in attached /\ busy[s]
  BY DeliveryTypes
<1>1. /\ todo = {} /\ calls[Producer] = <<>> /\ todo' = Targets /\ fan' = i
      /\ gen' = gen + 1 /\ stamp' = [stamp EXCEPT ![i] = gen + 1]
      /\ UNCHANGED <<delivered, calls, attached, registry, seen>>
  BY DEF Publish, ProducerFree
<1>2. \A s \in Sinks : /\ i \notin owed[s] /\ pending[s] # i
                       /\ owed[s] \subseteq owed'[s]
                       /\ pending'[s] = IF s \in Coalesce THEN i ELSE pending[s]
                       /\ busy[s] => busy'[s]
  <2>1. \A s \in Sinks : busy[s] => busy'[s]
    BY DEF Publish
  <2>2. \A s \in Sinks : owed'[s] = IF s \in Targets THEN owed[s] \cup {i} ELSE owed[s]
    BY PublishHolders
  <2>3. \A s \in Sinks : owed[s] \subseteq owed'[s]
    BY <2>2
  <2>4. \A s \in Sinks : /\ i \notin owed[s] /\ pending[s] # i
                         /\ pending'[s] = IF s \in Coalesce THEN i ELSE pending[s]
    BY PublishHolders
  <2> QED
    BY <2>1, <2>3, <2>4
<1>3. \A s \in Sinks : ~ProducerFor(s) /\ ~ProducerFor(s)' /\ (Due(s)' <=> Due(s))
  BY <1>1 DEF ProducerFor, Due
<1>4. \A j \in Slots : stamp'[j] <= gen' /\ (j # i => stamp'[j] = stamp[j])
  BY <1>1, <1>t DEF DeliveryInv
<1>5. ASSUME NEW s \in Sinks
      PROVE  OneDelivery(s)' /\ NewerComes(s)' /\ Accounted(s)'
  <2>1. OneDelivery(s) /\ NewerComes(s) /\ Accounted(s)
    BY DEF DeliveryInv
  <2>2. /\ s \in Targets <=> s \in attached /\ ~busy[s]
        /\ s \in Coalesce <=> s \in attached /\ busy[s] /\ s \in Coalescers
    BY <1>t DEF Targets, Coalesce
  <2>3. Due(s) => Head(calls[s]).frame \in Slots /\ Head(calls[s]).frame # i
    BY <1>2, <1>t, <2>1 DEF OneDelivery
  <2>4. OneDelivery(s)'
    <3>1. s \in todo' => pending'[s] = None
      BY <1>1, <1>2, <1>t, <2>2
    <3>2. Due(s) => busy'[s] /\ s \notin todo' /\ Head(calls[s]).frame \in owed'[s]
      BY <1>1, <1>2, <2>1, <2>2 DEF OneDelivery
    <3> QED
      BY <1>1, <1>3, <2>1, <3>1, <3>2 DEF OneDelivery, Nested
  <2>5. NewerComes(s)'
    <3>1. seen'[s] <= gen' /\ seen'[s] = seen[s] /\ stamp'[i] = gen + 1 /\ stamp'[i] > seen'[s]
      BY <1>1, <1>t, <2>1 DEF NewerComes
    <3>2. Due(s) => /\ stamp'[Head(calls[s]).frame] = stamp[Head(calls[s]).frame]
                    /\ stamp'[Head(calls[s]).frame] \in Nat
                    /\ stamp'[i] > stamp'[Head(calls[s]).frame]
      <4>1. \A j \in Slots : j # i => stamp'[j] \in Nat /\ stamp'[j] = stamp[j] /\ stamp[j] <= gen
        BY <1>4, <1>t DEF DeliveryInv
      <4> QED
        BY <3>1, <4>1, <2>3, <1>t
    <3>3. CASE s \in Coalesce
      <4>1. pending'[s] = i /\ s \notin todo'
        BY <3>3, <1>1, <1>2, <2>2
      <4> QED
        BY <1>1, <1>3, <2>1, <3>1, <3>2, <4>1 DEF NewerComes
    <3>4. CASE s \notin Coalesce
      <4>1. pending'[s] = pending[s] /\ (s \in todo' => stamp'[fan'] > seen'[s])
        BY <3>1, <3>4, <1>1, <1>2
      <4>2. pending[s] # None => stamp'[pending[s]] = stamp[pending[s]]
        BY <1>2, <1>4, <1>t
      <4> QED
        BY <1>1, <1>3, <2>1, <3>1, <3>2, <4>1, <4>2 DEF NewerComes
    <3> QED
      BY <3>3, <3>4
  <2>6. Accounted(s)'
    <3>1. Depth(s)' = Depth(s) /\ Depth(s) \in Nat
      BY <1>1, <1>t DEF Depth
    <3>2. /\ Started(s) = Depth(s)
          /\ Started(s)' = Depth(s) + IF s \in Targets THEN 1 ELSE 0
      BY <1>1, <1>3, <3>1 DEF Started
    <3>3. /\ offered'[s] = IF s \in attached THEN offered[s] + 1 ELSE offered[s]
          /\ dropped'[s] = IF /\ s \in attached /\ busy[s]
                              /\ s \in Coalescers => pending[s] # None
                           THEN dropped[s] + 1 ELSE dropped[s]
      BY DEF Publish
    <3>4. offered[s] \in Nat /\ dropped[s] \in Nat /\ delivered[s] \in Nat
      BY <1>t
    <3>5. Depth(s)' <= gen'
      BY <1>1, <1>t, <2>1, <3>1 DEF Accounted
    <3>6. s \in attached' => offered'[s] <= gen'
      BY <1>1, <1>t, <2>1, <3>3, <3>4 DEF Accounted
    <3>7. s \in attached =>
             offered'[s] = delivered[s] + dropped'[s] + Started(s)' + Waiting(s)'
      <4> SUFFICES ASSUME s \in attached
                   PROVE  offered'[s] = delivered[s] + dropped'[s] + Started(s)' + Waiting(s)'
        OBVIOUS
      <4>1. offered[s] = delivered[s] + dropped[s] + Depth(s) + Waiting(s)
        BY <2>1, <3>2 DEF Accounted
      <4>2. CASE s \in Targets
        <5>1. Waiting(s) = 0 /\ Waiting(s)' = 0 /\ Started(s)' = Depth(s) + 1
              /\ offered'[s] = offered[s] + 1 /\ dropped'[s] = dropped[s]
          BY <4>2, <1>2, <1>t, <2>2, <3>2, <3>3 DEF Waiting
        <5> QED
          BY <3>1, <3>4, <4>1, <5>1
      <4>3. CASE s \in Coalesce
        <5>1. Waiting(s)' = 1 /\ Started(s)' = Depth(s) /\ offered'[s] = offered[s] + 1
              /\ dropped'[s] = dropped[s] + Waiting(s) /\ Waiting(s) \in Nat
          <6>1. Waiting(s)' = 1
            BY <4>3, <1>2, <1>t DEF Waiting
          <6>2. Started(s)' = Depth(s) /\ offered'[s] = offered[s] + 1
            BY <4>3, <2>2, <3>1, <3>2, <3>3
          <6>3. dropped'[s] = dropped[s] + Waiting(s) /\ Waiting(s) \in Nat
            BY <4>3, <2>2, <3>3, <3>4 DEF Waiting
          <6> QED
            BY <6>1, <6>2, <6>3
        <5> QED
          BY <3>1, <3>4, <4>1, <5>1
      <4>4. CASE s \notin Targets /\ s \notin Coalesce
        <5>1. Waiting(s)' = Waiting(s) /\ Started(s)' = Depth(s) /\ offered'[s] = offered[s] + 1
              /\ dropped'[s] = dropped[s] + 1 /\ Waiting(s) \in Nat
          BY <4>4, <1>2, <1>t, <2>2, <3>1, <3>2, <3>3 DEF Waiting
        <5> QED
          BY <3>1, <3>4, <4>1, <5>1
      <4> QED
        BY <4>2, <4>3, <4>4
    <3> QED
      BY <1>1, <3>5, <3>6, <3>7 DEF Accounted
  <2> QED
    BY <2>4, <2>5, <2>6
<1>6. ProducerCalls'
  BY <1>1 DEF ProducerCalls
<1>7. registry'.op = "open" => Quiet(registry.sink)'
  <2>1. registry.op = "open" => /\ Quiet(registry.sink)
                                /\ registry.sink \in Sinks \ attached
    BY DEF DeliveryInv, PipelineInv, RegistryInv
  <2> QED
    BY <1>1, <1>3, <2>1 DEF Quiet, Targets
<1> QED
  BY <1>4, <1>5, <1>6, <1>7 DEF DeliveryInv

\* attach() links a sink that holds nothing; its counters start afresh.
LEMMA AttachDelivery ==
    ASSUME PipelineInv, DeliveryInv, NEW s \in Sinks, AttachLink(s)
    PROVE  DeliveryInv'
<1>t. /\ gen \in Nat /\ pending \in [Sinks -> Slots \cup {None}] /\ busy \in [Sinks -> BOOLEAN]
      /\ delivered \in [Sinks -> Nat] /\ dropped \in [Sinks -> Nat] /\ offered \in [Sinks -> Nat]
      /\ None \notin Slots
  BY DeliveryTypes
<1>1. Quiet(s) /\ s \notin attached /\ pending[s] = None
  BY DEF AttachLink, DeliveryInv, PipelineInv, RegistryInv
<1>2. /\ UNCHANGED <<gen, stamp, seen, fan, todo, calls, owed>>
      /\ attached' = attached \cup {s} /\ registry' = Idle
      /\ pending'[s] = None /\ delivered'[s] = 0 /\ dropped'[s] = 0 /\ offered'[s] = 0
  BY <1>t DEF AttachLink, slotVars, callVars, useVars
<1>3. \A u \in Sinks \ {s} : /\ pending'[u] = pending[u] /\ busy'[u] = busy[u]
                             /\ delivered'[u] = delivered[u] /\ dropped'[u] = dropped[u]
                             /\ offered'[u] = offered[u]
  BY <1>t DEF AttachLink
<1>4. \A u \in Sinks : (ProducerFor(u)' <=> ProducerFor(u)) /\ (Due(u)' <=> Due(u))
  BY <1>2 DEF ProducerFor, Due
<1>5. \A u \in Sinks \ {s} : OneDelivery(u)' /\ NewerComes(u)' /\ Accounted(u)'
  <2> TAKE u \in Sinks \ {s}
  <2>1. OneDelivery(u) /\ NewerComes(u) /\ Accounted(u)
    BY DEF DeliveryInv
  <2> QED
    BY <1>2, <1>3, <1>4, <2>1, SinkStays
<1>6. OneDelivery(s)' /\ NewerComes(s)' /\ Accounted(s)'
  <2>1. ~Due(s)' /\ s \notin todo' /\ ~ProducerFor(s)' /\ Depth(s)' = 0
    BY <1>1, <1>2, <1>4 DEF Quiet, Due, Depth
  <2>2. OneDelivery(s) /\ NewerComes(s)
    BY DEF DeliveryInv
  <2>3. OneDelivery(s)'
    BY <1>2, <2>1, <2>2 DEF OneDelivery, Nested
  <2>4. NewerComes(s)'
    BY <1>2, <2>1, <2>2 DEF NewerComes
  <2>5. Started(s)' = 0 /\ Waiting(s)' = 0
    BY <1>2, <2>1 DEF Started, Waiting
  <2>6. Accounted(s)'
    BY <1>2, <1>t, <2>1, <2>5 DEF Accounted
  <2> QED
    BY <2>3, <2>4, <2>6
<1>7. ProducerCalls' /\ \A i \in Slots : stamp'[i] <= gen'
  BY <1>2 DEF DeliveryInv, ProducerCalls
<1>8. registry'.op # "open"
  BY <1>2 DEF Idle
<1> QED
  BY <1>5, <1>6, <1>7, <1>8 DEF DeliveryInv

\* detach() drops the pending frame; the calls for the sink go on.
LEMMA DetachDelivery ==
    ASSUME PipelineInv, DeliveryInv, NEW s \in Sinks, Detach(s)
    PROVE  DeliveryInv'
<1>t. pending \in [Sinks -> Slots \cup {None}]
  BY DeliveryTypes
<1>1. /\ UNCHANGED <<gen, stamp, seen, fan, todo, calls, owed, busy, delivered, dropped, offered>>
      /\ attached' = attached \ {s} /\ registry' = [op |-> "close", sink |-> s]
      /\ pending'[s] = None /\ \A u \in Sinks \ {s} : pending'[u] = pending[u]
  BY <1>t DEF Detach, callVars, useVars, histVars
<1>2. \A u \in Sinks : (ProducerFor(u)' <=> ProducerFor(u)) /\ (Due(u)' <=> Due(u))
  BY <1>1 DEF ProducerFor, Due
<1>3. \A u \in Sinks \ {s} : OneDelivery(u)' /\ NewerComes(u)' /\ Accounted(u)'
  <2> TAKE u \in Sinks \ {s}
  <2>1. OneDelivery(u) /\ NewerComes(u) /\ Accounted(u)
    BY DEF DeliveryInv
  <2> QED
    BY <1>1, <1>2, <2>1, SinkStays
<1>4. OneDelivery(s)' /\ NewerComes(s)' /\ Accounted(s)'
  <2>1. OneDelivery(s) /\ NewerComes(s) /\ Accounted(s)
    BY DEF DeliveryInv
  <2>2. OneDelivery(s)'
    BY <1>1, <1>2, <2>1 DEF OneDelivery, Nested
  <2>3. NewerComes(s)'
    BY <1>1, <1>2, <2>1 DEF NewerComes
  <2>4. Accounted(s)'
    BY <1>1, <2>1 DEF Accounted, Depth
  <2> QED
    BY <2>2, <2>3, <2>4
<1>5. ProducerCalls' /\ \A i \in Slots : stamp'[i] <= gen'
  BY <1>1 DEF DeliveryInv, ProducerCalls
<1>6. registry'.op # "open"
  BY <1>1
<1> QED
  BY <1>3, <1>4, <1>5, <1>6 DEF DeliveryInv

\* init() starts a new stream when nothing is on its way.
LEMMA ReinitDelivery ==
    ASSUME PipelineInv, DeliveryInv, Reinit
    PROVE  DeliveryInv'
<1>1. /\ attached = {} /\ registry = Idle /\ calls[Producer] = <<>>
      /\ gen' = 0 /\ stamp' = [i \in Slots |-> 0] /\ seen' = [s \in Sinks |-> 0]
      /\ UNCHANGED <<todo, calls, attached, registry, pending>>
  BY DEF Reinit, ProducerFree, sinkVars
<1>2. \A s \in Sinks : Quiet(s) /\ pending[s] = None
  <2>1. \A s \in Sinks : NoCall(s)
    BY DEF Reinit, Drained
  <2> QED
    BY <1>1, <2>1, NoCallQuiet, DeliveryTypes
<1>3. \A s \in Sinks : OneDelivery(s)' /\ NewerComes(s)' /\ Accounted(s)'
  <2> TAKE s \in Sinks
  <2>1. calls'[s] = <<>> /\ s \notin todo' /\ ~ProducerFor(s)' /\ pending'[s] = None
    BY <1>1, <1>2 DEF Quiet, ProducerFor
  <2>2. ~Due(s)' /\ Depth(s)' = 0
    BY <2>1 DEF Due, Depth
  <2>3. OneDelivery(s)'
    BY <2>1, <2>2, NestedEmpty DEF OneDelivery
  <2>4. NewerComes(s)'
    BY <1>1, <2>1, <2>2 DEF NewerComes
  <2>5. Accounted(s)'
    BY <1>1, <2>2 DEF Accounted
  <2> QED
    BY <2>3, <2>4, <2>5
<1>4. ProducerCalls' /\ \A i \in Slots : stamp'[i] <= gen'
  BY <1>1 DEF ProducerCalls
<1>5. registry'.op # "open"
  BY <1>1 DEF Idle
<1> QED
  BY <1>3, <1>4, <1>5 DEF DeliveryInv

\* The other steps move no frame towards a consume().
LEMMA OthersDelivery ==
    ASSUME PipelineInv, DeliveryInv,
           \/ Acquire
           \/ \E s \in Sinks, f \in Slots : Get(s, f)
           \/ \E r \in Readers : ReaderStep(r)
           \/ \E s \in Sinks : AttachOpen(s)
           \/ AttachRefused \/ DetachReturn
           \/ UNCHANGED vars
    PROVE  DeliveryInv'
<1>1. /\ UNCHANGED <<gen, stamp, calls, pending, busy, owed, seen, delivered, dropped,
                     offered, todo, fan>>
      /\ attached' = attached
  BY DEF Acquire, Get, ReaderStep, PinLatest, PullPut, AttachOpen, AttachRefused, DetachReturn,
         vars, slotVars, sinkVars, callVars, useVars, histVars
<1>2. registry'.op = "open" => Quiet(registry'.sink)
  <2>1. ASSUME NEW s \in Sinks, AttachOpen(s)
        PROVE  registry'.op = "open" => Quiet(registry'.sink)
    <3>1. NoCall(s) /\ registry'.sink = s
      BY <2>1 DEF AttachOpen, Drained
    <3> QED
      BY <3>1, NoCallQuiet
  <2>2. CASE AttachRefused \/ DetachReturn
    BY <2>2 DEF AttachRefused, DetachReturn, Idle
  <2>3. CASE UNCHANGED registry
    BY <2>3 DEF DeliveryInv
  <2>4. \/ Acquire
        \/ \E s \in Sinks, f \in Slots : Get(s, f)
        \/ \E r \in Readers : ReaderStep(r)
        \/ UNCHANGED vars
        => UNCHANGED registry
    BY DEF Acquire, Get, ReaderStep, PinLatest, PullPut, vars
  <2> QED
    BY <2>1, <2>2, <2>3, <2>4
<1> QED
  BY <1>1, <1>2, DeliveryStays

\* Every step keeps what is on its way in order and counted.
LEMMA DeliveryStep == PipelineInv /\ DeliveryInv /\ [Next]_vars => DeliveryInv'
<1> SUFFICES ASSUME PipelineInv, DeliveryInv, [Next]_vars
             PROVE  DeliveryInv'
  OBVIOUS
<1>1. CASE ProducerStep
  BY <1>1, OthersDelivery, PublishDelivery, DeliverInv DEF ProducerStep
<1>2. ASSUME NEW t \in Threads, CallStep(t)
      PROVE  DeliveryInv'
  <2>1. CASE t = Producer
    BY <1>2, <2>1, RedeliverInv, ProducerPut, ProducerGoesOn DEF CallStep
  <2>2. CASE t \in Sinks
    BY <1>2, <2>2, RedeliverInv, NestedPut, CallGoesOn DEF CallStep
  <2> QED
    BY <2>1, <2>2 DEF Threads
<1>3. ASSUME NEW s \in Sinks, SinkStep(s)
      PROVE  DeliveryInv'
  BY <1>3, FreePut, OthersDelivery DEF SinkStep
<1>4. CASE RegistryStep
  BY <1>4, OthersDelivery, AttachDelivery, DetachDelivery DEF RegistryStep
<1>5. CASE \E r \in Readers : ReaderStep(r)
  BY <1>5, OthersDelivery
<1>6. CASE Reinit
  BY <1>6, ReinitDelivery
<1>7. CASE UNCHANGED vars
  BY <1>7, OthersDelivery
<1> QED
  BY <1>1, <1>2, <1>3, <1>4, <1>5, <1>6, <1>7 DEF Next

\* Nothing is on its way at first.
LEMMA DeliveryInit == Init => DeliveryInv
<1> SUFFICES ASSUME Init
             PROVE  DeliveryInv
  OBVIOUS
<1>1. Producer \in Threads /\ Sinks \subseteq Threads
  BY DEF Threads
<1>2. calls[Producer] = <<>> /\ \A s \in Sinks : calls[s] = <<>> /\ ~ProducerFor(s)
  BY <1>1 DEF Init, ProducerFor
<1>3. \A s \in Sinks : ~Due(s) /\ Depth(s) = 0
  BY <1>2 DEF Due, Depth
<1>4. \A s \in Sinks : OneDelivery(s)
  BY <1>2, <1>3, NestedEmpty DEF Init, OneDelivery
<1>5. \A s \in Sinks : NewerComes(s) /\ Accounted(s)
  BY <1>3 DEF Init, NewerComes, Accounted
<1>6. ProducerCalls /\ (\A i \in Slots : stamp[i] <= gen) /\ registry.op # "open"
  BY <1>2 DEF Init, ProducerCalls, Idle
<1> QED
  BY <1>4, <1>5, <1>6 DEF DeliveryInv

LEMMA DeliveryInvariance == Spec => []DeliveryInv
BY DeliveryInit, DeliveryStep, Invariance, PTL DEF Spec

(* A sink sees frames in the order they were published: put() and publish() *)
(* call consume() from two threads, without the mutex, and still the frame  *)
(* that enters consume() is always newer than the last one that did. Only   *)
(* a new stream starts over.                                                *)
THEOREM FramesInOrder == Spec => InOrder
<1>1. ASSUME PipelineInv, DeliveryInv, [Next]_vars
      PROVE  [\A s \in Sinks : seen'[s] # seen[s] => seen'[s] > seen[s] \/ gen' = 0]_vars
  <2>t. seen \in [Sinks -> Nat] /\ Threads = Sinks \cup {Producer}
    BY <1>1, DeliveryTypes DEF Threads
  <2>1. ASSUME NEW s \in Sinks, Deliver(s)
        PROVE  \A u \in Sinks : seen'[u] # seen[u] => seen'[u] > seen[u]
    <3>1. stamp[fan] > seen[s] /\ seen' = [seen EXCEPT ![s] = stamp[fan]]
      BY <1>1, <2>1, DeliverInv
    <3> QED
      BY <3>1, <2>t
  <2>2. ASSUME NEW t \in Threads, Redeliver(t)
        PROVE  \A u \in Sinks : seen'[u] # seen[u] => seen'[u] > seen[u]
    <3>1. t \in Sinks /\ Due(t) /\ seen' = [seen EXCEPT ![t] = stamp[Head(calls[t]).frame]]
      BY <1>1, <2>2, RedeliverInv
    <3>2. stamp[Head(calls[t]).frame] > seen[t]
      BY <1>1, <3>1 DEF DeliveryInv, NewerComes
    <3> QED
      BY <3>1, <3>2, <2>t
  <2>3. Reinit => gen' = 0
    BY DEF Reinit
  <2>4. \/ Acquire
        \/ \E i \in Slots : Publish(i)
        \/ \E t \in Threads : SyncPut(t) \/ HandOver(t) \/ Return(t)
        \/ \E s \in Sinks, f \in Slots : AsyncPut(s, f) \/ Get(s, f) \/ PutExtra(s, f)
        \/ \E r \in Readers : ReaderStep(r)
        \/ RegistryStep
        => UNCHANGED seen
    BY DEF Acquire, Publish, SyncPut, HandOver, Return, AsyncPut, Get, PutExtra, Put, ReaderStep,
           PinLatest, PullPut, RegistryStep, AttachOpen, AttachLink, AttachRefused, Detach,
           DetachReturn, histVars
  <2> QED
    BY <1>1, <2>1, <2>2, <2>3, <2>4 DEF Next, ProducerStep, CallStep, SinkStep
<1> QED
  BY <1>1, Invariance, DeliveryInvariance, PTL DEF Spec, InOrder

\* The calls that are started and not counted, one by one.
LEMMA UncountedIsStarted ==
    ASSUME PipelineInv, DeliveryInv, NEW s \in Sinks
    PROVE  Uncounted(s) = Started(s)
<1>t. /\ calls \in [Threads -> Seq(CallRecord)] /\ Producer \in Threads
      /\ Producer \notin Sinks /\ s \in Threads /\ Threads = Sinks \cup {Producer}
      /\ gen \in Nat /\ \A u \in Sinks : Len(calls[u]) \in Nat
  BY DeliveryTypes DEF Threads
<1>g. gen <= MaxGen /\ MaxGen \in Nat
  BY PipelineAssumption DEF PipelineInv, TypeOK
<1> DEFINE T == {c \in Threads \X (1 .. MaxGen + 1) :
                    c[2] <= Len(calls[c[1]]) /\ calls[c[1]][c[2]].sink = s}
           P == IF ProducerFor(s) THEN {<<Producer, 1>>} ELSE {}
           Q == {s} \X (1 .. Depth(s))
<1>1. Depth(s) \in Nat /\ Depth(s) <= MaxGen
  BY <1>t, <1>g DEF DeliveryInv, Accounted, Depth
<1>2. \A u \in Sinks : \A k \in 1 .. Len(calls[u]) : calls[u][k].sink = u
  BY DEF DeliveryInv, OneDelivery, Nested
<1>3. calls[Producer] # <<>> => /\ Len(calls[Producer]) = 1
                                /\ Head(calls[Producer]) = calls[Producer][1]
  BY <1>t, PopCall DEF DeliveryInv, ProducerCalls
<1>4. T = P \cup Q
  <2>1. ASSUME NEW t \in Threads, NEW k \in 1 .. MaxGen + 1
        PROVE  <<t, k>> \in T <=> <<t, k>> \in P \cup Q
    <3>1. CASE t = Producer
      <4>1. calls[t] = <<>> => Len(calls[t]) = 0
        OBVIOUS
      <4>2. <<t, k>> \in T <=> k = 1 /\ ProducerFor(s)
        BY <3>1, <4>1, <1>3, <1>g DEF ProducerFor
      <4> QED
        BY <3>1, <4>2, <1>t
    <3>2. CASE t \in Sinks
      <4>1. <<t, k>> \in T <=> t = s /\ k <= Len(calls[t])
        BY <3>2, <1>2, <1>t, <1>g
      <4> QED
        BY <3>2, <4>1, <1>t DEF Depth
    <3> QED
      BY <3>1, <3>2, <1>t
  <2>2. P \subseteq Threads \X (1 .. MaxGen + 1) /\ Q \subseteq Threads \X (1 .. MaxGen + 1)
    BY <1>1, <1>g, <1>t
  <2>3. T \subseteq Threads \X (1 .. MaxGen + 1)
    OBVIOUS
  <2>4. \A c \in Threads \X (1 .. MaxGen + 1) :
           \E t \in Threads, k \in 1 .. MaxGen + 1 : c = <<t, k>>
    OBVIOUS
  <2> HIDE DEF T, P, Q
  <2> QED
    BY <2>1, <2>2, <2>3, <2>4
<1>5. IsFiniteSet(P) /\ Cardinality(P) = IF ProducerFor(s) THEN 1 ELSE 0
  BY FS_EmptySet, FS_Singleton
<1>6. IsFiniteSet(Q) /\ Cardinality(Q) = Depth(s)
  <2>1. IsFiniteSet(1 .. Depth(s)) /\ Cardinality(1 .. Depth(s)) = Depth(s)
    BY <1>1, FS_Interval
  <2>2. IsFiniteSet({s}) /\ Cardinality({s}) = 1
    BY FS_Singleton
  <2>3. IsFiniteSet(Q) /\ Cardinality(Q) = 1 * Depth(s)
    BY <2>1, <2>2, FS_Product
  <2> QED
    BY <1>1, <2>3
<1>7. P \cap Q = {}
  BY <1>t
<1>8. Cardinality(T) = Cardinality(P) + Cardinality(Q)
  <2> HIDE DEF T, P, Q
  <2>1. Cardinality(P \cup Q) = Cardinality(P) + Cardinality(Q) - Cardinality(P \cap Q)
    BY <1>5, <1>6, FS_Union
  <2>2. Cardinality(P) \in Nat /\ Cardinality(Q) \in Nat /\ Cardinality(P \cap Q) = 0
    BY <1>5, <1>6, <1>7, FS_CardinalityType, FS_EmptySet
  <2> QED
    BY <1>4, <2>1, <2>2
<1>9. Uncounted(s) = (IF s \in todo THEN 1 ELSE 0) + Cardinality(T)
  BY DEF Uncounted
<1> HIDE DEF T, P, Q
<1> QED
  BY <1>1, <1>5, <1>6, <1>8, <1>9 DEF Started

(* The counters account for every frame: what was published since the sink  *)
(* was attached is delivered, dropped, in a call of consume(), or pending,  *)
(* through every coalesced frame, nested call, detach and re-attach.        *)
THEOREM EveryFrameCounted == Spec => []FramesAccounted
<1>1. PipelineInv /\ DeliveryInv => FramesAccounted
  <2> SUFFICES ASSUME PipelineInv, DeliveryInv, NEW s \in attached
               PROVE  offered[s] = delivered[s] + dropped[s] + Uncounted(s)
                                     + IF pending[s] = None THEN 0 ELSE 1
    BY DEF FramesAccounted
  <2>1. s \in Sinks
    BY DeliveryTypes
  <2> QED
    BY <2>1, UncountedIsStarted DEF DeliveryInv, Accounted, Waiting
<1> QED
  BY <1>1, Invariance, DeliveryInvariance, PTL
=============================================================================
