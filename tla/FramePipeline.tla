---------------------------- MODULE FramePipeline ----------------------------
(***************************************************************************)
(* svc/frame_pipeline.c: the ring of SDRAM frame slots between the camera  *)
(* producer and its consumers.                                             *)
(*                                                                         *)
(* Every section the code runs under the injected (non-recursive) mutex is *)
(* one action; whatever it does with the mutex released -- the consume()   *)
(* callbacks of publish() and put(), the open() and close() callbacks of   *)
(* the registry -- lies between two actions, so other threads interleave   *)
(* there.                                                                  *)
(*                                                                         *)
(* The callbacks are the environment.  A sink keeps the header's contract: *)
(* one put() for every delivery and for every get(), from inside consume() *)
(* or from a thread of its own.  The registry has one caller at a time     *)
(* (the camera's cam_lock) that re-attaches a sink only once it is drained.*)
(*                                                                         *)
(* Left out: frame payload and geometry, the error and overrun tallies     *)
(* (nothing reads them back), and the order of the sink list, which        *)
(* Deliver replaces by an arbitrary order.                                 *)
(***************************************************************************)
EXTENDS Naturals, Sequences, FiniteSets

CONSTANTS
    NSlots,     \* slots in the ring
    Sinks,      \* the push sinks
    Coalescers, \* the sinks whose policy is LATEST; the others DROP
    Async,      \* the sinks that may hand a frame to a thread of their own
    Getters,    \* the sinks that take additional pins with get()
    Readers,    \* the callers of pin_latest()
    Producer,   \* the producer thread; a sink's thread is named by the sink
    MaxSinks,   \* FRAME_PIPELINE_MAX_SINKS
    MaxFilling, \* slots the producer fills at a time (two DMA targets)
    MaxGen,     \* bound: frames published between two inits
    None

ASSUME PipelineAssumption ==
    /\ NSlots \in Nat \ {0}
    /\ MaxGen \in Nat
    /\ MaxFilling \in Nat
    /\ MaxSinks \in Nat
    /\ IsFiniteSet(Sinks)
    /\ IsFiniteSet(Readers)
    /\ Coalescers \subseteq Sinks
    /\ Async \subseteq Sinks
    /\ Getters \subseteq Sinks
    /\ Producer \notin Sinks
    /\ Sinks \cap Readers = {}
    /\ None \notin 0 .. NSlots - 1
    /\ None \notin Sinks

Slots == 0 .. NSlots - 1
Threads == Sinks \cup {Producer}

VARIABLES
    filling,    \* slots in state SLOT_FILLING; the others are SLOT_FREE
    refcount,   \* slot -> refcount
    latest,     \* last published slot
    gen,        \* publish counter
    stamp,      \* slot -> desc.gen
    attached,   \* the sinks linked in p->sinks
    busy,       \* sink -> _busy
    pending,    \* sink -> _pending
    pins,       \* sink -> _pins
    delivered,  \* sink -> delivered
    dropped,    \* sink -> dropped
    fan,        \* the frame publish() is fanning out
    todo,       \* the rest of publish()'s deliver[]
    calls,      \* thread -> the consume() calls it is in, innermost first
    registry,   \* what attach() or detach() is doing with the mutex released
    owed,       \* sink -> frames it was given and has not put() yet
    extra,      \* sink -> frames it took get() pins on
    pulled,     \* reader -> the frame it holds from pin_latest()
    offered,    \* history: frames published since the sink was attached
    seen        \* history: stamp of the last frame handed to consume()

slotVars == <<filling, refcount, latest, gen, stamp>>
sinkVars == <<busy, pending, pins, delivered, dropped>>
callVars == <<fan, todo, calls>>
useVars  == <<owed, extra, pulled>>
histVars == <<offered, seen>>
vars == <<slotVars, sinkVars, callVars, attached, registry, useVars, histVars>>

Idle == [op |-> "idle", sink |-> None]

Call(s, f, stage) == [sink |-> s, frame |-> f, stage |-> stage]

------------------------------------------------------------------------------
(* The mutex sections' shared parts.                                       *)

\* unpin_locked() guards both counters against going below zero.
Less(n, k) == IF n > k THEN n - k ELSE 0

\* Mutant: acquire() may hand out the newest frame.
AcquirableLatest == {i \in Slots \ filling : refcount[i] = 0}

\* A slot acquire() may hand out.
Acquirable == {i \in Slots \ filling : refcount[i] = 0 /\ i # latest}

\* Mutant: publish() ignores _busy.
TargetsBusy == attached

\* The attached sinks publish() delivers to, and the ones it leaves a
\* pending frame with.
Targets == {s \in attached : ~busy[s]}
Coalesce == {s \in attached : busy[s] /\ s \in Coalescers}

\* Mutant: the pin on the replaced frame leaks.
SupersededNone(j) == {}

\* The pins publish() takes back from slot j because a newer frame replaces
\* it as somebody's pending frame.
Superseded(j) == {s \in Coalesce : pending[s] = j}

\* Mutant: put() takes the pending frame and makes no call.
TransferNever(s) == <<>>

\* put() hands the pending pin to the next delivery: the consume() call it
\* makes once the mutex is released.
Transfer(s) == IF pending[s] = None THEN <<>>
                                    ELSE <<Call(s, pending[s], "due")>>

\* The put() a sink owes for frame f is not owed by a call that is still to
\* be made or still has to decide: f waits for the sink's own thread.
InHand(s, f) ==
    /\ f \in owed[s]
    /\ ~(s \in todo /\ fan = f)
    /\ \A t \in Threads : \A k \in 1 .. Len(calls[t]) :
          ~(/\ calls[t][k].sink = s
            /\ calls[t][k].frame = f
            /\ calls[t][k].stage \in {"due", "in"})

ProducerFree == todo = {} /\ calls[Producer] = <<>>

\* No consume() runs or is about to run for s.
NoCall(s) == /\ s \notin todo
             /\ \A t \in Threads : \A k \in 1 .. Len(calls[t]) :
                   calls[t][k].sink # s

\* The caller of detach() has drained the sink.
Drained(s) == NoCall(s) /\ owed[s] = {} /\ extra[s] = {}

------------------------------------------------------------------------------
Init ==
    /\ filling = {}
    /\ refcount = [i \in Slots |-> 0]
    /\ latest = None
    /\ gen = 0
    /\ stamp = [i \in Slots |-> 0]
    /\ attached = {}
    /\ busy = [s \in Sinks |-> FALSE]
    /\ pending = [s \in Sinks |-> None]
    /\ pins = [s \in Sinks |-> 0]
    /\ delivered = [s \in Sinks |-> 0]
    /\ dropped = [s \in Sinks |-> 0]
    /\ fan = None
    /\ todo = {}
    /\ calls = [t \in Threads |-> <<>>]
    /\ registry = Idle
    /\ owed = [s \in Sinks |-> {}]
    /\ extra = [s \in Sinks |-> {}]
    /\ pulled = [r \in Readers |-> None]
    /\ offered = [s \in Sinks |-> 0]
    /\ seen = [s \in Sinks |-> 0]

(* frame_pipeline_init(): a new stream clears the ring.  The camera does so *)
(* with every sink detached and drained and no reader holding a pin.        *)
Reinit ==
    /\ attached = {} /\ registry = Idle /\ ProducerFree
    /\ \A s \in Sinks : Drained(s)
    /\ \A r \in Readers : pulled[r] = None
    /\ filling' = {}
    /\ refcount' = [i \in Slots |-> 0]
    /\ latest' = None
    /\ gen' = 0
    /\ stamp' = [i \in Slots |-> 0]
    /\ fan' = None
    /\ seen' = [s \in Sinks |-> 0]
    /\ UNCHANGED <<sinkVars, todo, calls, attached, registry, useVars, offered>>

------------------------------------------------------------------------------
(* Producer side.                                                          *)

\* frame_pipeline_acquire(): the first free slot; with none it only counts.
Acquire ==
    /\ ProducerFree
    /\ Cardinality(filling) < MaxFilling
    /\ \E i \in Acquirable :
          /\ \A j \in Acquirable : i <= j
          /\ filling' = filling \cup {i}
    /\ UNCHANGED <<refcount, latest, gen, stamp, sinkVars, callVars, attached,
                   registry, useVars, histVars>>

\* frame_pipeline_publish(), under the mutex: stamp the frame, pre-pin it for
\* every idle sink, replace the pending frame of every busy LATEST sink.
Publish(i) ==
    /\ ProducerFree
    /\ i \in filling
    /\ gen < MaxGen
    /\ gen' = gen + 1
    /\ stamp' = [stamp EXCEPT ![i] = gen + 1]
    /\ filling' = filling \ {i}
    /\ latest' = i
    /\ refcount' = [j \in Slots |->
          Less(refcount[j], Cardinality(Superseded(j)))
            + IF j = i THEN Cardinality(Targets) + Cardinality(Coalesce) ELSE 0]
    /\ pins' = [s \in Sinks |->
          IF s \in Targets THEN pins[s] + 1
          ELSE IF s \in Coalesce
               THEN (IF pending[s] = None THEN pins[s] ELSE Less(pins[s], 1)) + 1
               ELSE pins[s]]
    /\ pending' = [s \in Sinks |-> IF s \in Coalesce THEN i ELSE pending[s]]
    /\ busy' = [s \in Sinks |-> busy[s] \/ s \in Targets]
    /\ dropped' = [s \in Sinks |->
          IF /\ s \in attached /\ busy[s]
             /\ s \in Coalescers => pending[s] # None
          THEN dropped[s] + 1 ELSE dropped[s]]
    /\ owed' = [s \in Sinks |->
          IF s \in Targets THEN owed[s] \cup {i} ELSE owed[s]]
    /\ offered' = [s \in Sinks |->
          IF s \in attached THEN offered[s] + 1 ELSE offered[s]]
    /\ fan' = i
    /\ todo' = Targets
    /\ UNCHANGED <<delivered, calls, attached, registry, extra, pulled, seen>>

\* Mutant: publish() stops at the first sink it delivers to.
DeliverOnce(s) ==
    /\ s \in todo
    /\ calls[Producer] = <<>>
    /\ todo' = {}
    /\ calls' = [calls EXCEPT ![Producer] = <<Call(s, fan, "in")>>]
    /\ seen' = [seen EXCEPT ![s] = stamp[fan]]
    /\ UNCHANGED <<slotVars, sinkVars, fan, attached, registry, useVars, offered>>

\* publish() calls the next sink's consume(), the mutex released.
Deliver(s) ==
    /\ s \in todo
    /\ calls[Producer] = <<>>
    /\ todo' = todo \ {s}
    /\ calls' = [calls EXCEPT ![Producer] = <<Call(s, fan, "in")>>]
    /\ seen' = [seen EXCEPT ![s] = stamp[fan]]
    /\ UNCHANGED <<slotVars, sinkVars, fan, attached, registry, useVars, offered>>

------------------------------------------------------------------------------
(* A sink's side.                                                          *)

\* put() calls consume() with the frame whose pin it transferred.
Redeliver(t) ==
    /\ calls[t] # <<>>
    /\ Head(calls[t]).stage = "due"
    /\ LET c == Head(calls[t]) IN
          /\ calls' = [calls EXCEPT ![t] =
                <<Call(c.sink, c.frame, "in")>> \o Tail(calls[t])]
          /\ seen' = [seen EXCEPT ![c.sink] = stamp[c.frame]]
    /\ UNCHANGED <<slotVars, sinkVars, fan, todo, attached, registry, useVars,
                   offered>>

\* frame_pipeline_put(s, f), under the mutex.  rest is what the calling
\* thread goes on with after the delivery put() may start.
Put(t, s, f, rest) ==
    /\ refcount' = [refcount EXCEPT ![f] = Less(refcount[f], 1)]
    /\ pins' = [pins EXCEPT ![s] = Less(pins[s], 1)]
    /\ busy' = [busy EXCEPT ![s] = pending[s] # None]
    /\ pending' = [pending EXCEPT ![s] = None]
    /\ calls' = [calls EXCEPT ![t] = Transfer(s) \o rest]
    /\ UNCHANGED <<filling, latest, gen, stamp, delivered, dropped, fan, todo,
                   attached, registry, pulled, histVars>>

\* The frame a put() settles leaves owed[s]; a transferred one enters it.
Settle(s, f) ==
    owed' = [owed EXCEPT ![s] =
        (owed[s] \ {f}) \cup (IF pending[s] = None THEN {} ELSE {pending[s]})]

\* consume() puts the frame itself before it returns.
SyncPut(t) ==
    /\ calls[t] # <<>>
    /\ Head(calls[t]).stage = "in"
    /\ LET c == Head(calls[t]) IN
          /\ c.frame \in owed[c.sink]
          /\ Put(t, c.sink, c.frame,
                 <<Call(c.sink, c.frame, "out")>> \o Tail(calls[t]))
          /\ Settle(c.sink, c.frame)
    /\ UNCHANGED extra

\* consume() hands the frame to the sink's own thread.
HandOver(t) ==
    /\ calls[t] # <<>>
    /\ Head(calls[t]).stage = "in"
    /\ LET c == Head(calls[t]) IN
          /\ c.sink \in Async
          /\ calls' = [calls EXCEPT ![t] =
                <<Call(c.sink, c.frame, "out")>> \o Tail(calls[t])]
    /\ UNCHANGED <<slotVars, sinkVars, fan, todo, attached, registry, useVars,
                   histVars>>

\* consume() returns; publish() or put() counts the delivery.
Return(t) ==
    /\ calls[t] # <<>>
    /\ Head(calls[t]).stage = "out"
    /\ delivered' = [delivered EXCEPT ![Head(calls[t]).sink] = @ + 1]
    /\ calls' = [calls EXCEPT ![t] = Tail(calls[t])]
    /\ UNCHANGED <<slotVars, busy, pending, pins, dropped, fan, todo, attached,
                   registry, useVars, histVars>>

\* The sink's thread puts a frame it was handed.
AsyncPut(s, f) ==
    /\ s \in Async
    /\ calls[s] = <<>>
    /\ InHand(s, f)
    /\ Put(s, s, f, <<>>)
    /\ Settle(s, f)
    /\ UNCHANGED extra

\* frame_pipeline_get(): the sink's thread pins a frame it has once more ...
Get(s, f) ==
    /\ s \in Getters
    /\ calls[s] = <<>>
    /\ InHand(s, f) /\ f \notin extra[s]
    /\ refcount' = [refcount EXCEPT ![f] = @ + 1]
    /\ pins' = [pins EXCEPT ![s] = @ + 1]
    /\ extra' = [extra EXCEPT ![s] = @ \cup {f}]
    /\ UNCHANGED <<filling, latest, gen, stamp, busy, pending, delivered,
                   dropped, callVars, attached, registry, owed, pulled, histVars>>

\* ... and balances that pin by a put() of its own.
PutExtra(s, f) ==
    /\ calls[s] = <<>>
    /\ f \in extra[s]
    /\ Put(s, s, f, <<>>)
    /\ extra' = [extra EXCEPT ![s] = @ \ {f}]
    /\ owed' = [owed EXCEPT ![s] =
          @ \cup (IF pending[s] = None THEN {} ELSE {pending[s]})]

------------------------------------------------------------------------------
(* Pull access.                                                            *)

\* frame_pipeline_pin_latest()
PinLatest(r) ==
    /\ pulled[r] = None
    /\ latest # None
    /\ refcount' = [refcount EXCEPT ![latest] = @ + 1]
    /\ pulled' = [pulled EXCEPT ![r] = latest]
    /\ UNCHANGED <<filling, latest, gen, stamp, sinkVars, callVars, attached,
                   registry, owed, extra, histVars>>

\* frame_pipeline_put(NULL, f)
PullPut(r) ==
    /\ pulled[r] # None
    /\ refcount' = [refcount EXCEPT ![pulled[r]] = Less(@, 1)]
    /\ pulled' = [pulled EXCEPT ![r] = None]
    /\ UNCHANGED <<filling, latest, gen, stamp, sinkVars, callVars, attached,
                   registry, owed, extra, histVars>>

------------------------------------------------------------------------------
(* Sink registry.                                                          *)

\* frame_pipeline_attach(): room in the registry; open() runs unlocked.
AttachOpen(s) ==
    /\ registry = Idle
    /\ s \notin attached
    /\ Drained(s)
    /\ Cardinality(attached) < MaxSinks
    /\ registry' = [op |-> "open", sink |-> s]
    /\ UNCHANGED <<slotVars, sinkVars, callVars, attached, useVars, histVars>>

\* open() refuses the format.
AttachRefused ==
    /\ registry.op = "open"
    /\ registry' = Idle
    /\ UNCHANGED <<slotVars, sinkVars, callVars, attached, useVars, histVars>>

\* open() accepts: reset the sink and link it.
AttachLink(s) ==
    /\ registry = [op |-> "open", sink |-> s]
    /\ registry' = Idle
    /\ attached' = attached \cup {s}
    /\ busy' = [busy EXCEPT ![s] = FALSE]
    /\ pending' = [pending EXCEPT ![s] = None]
    /\ pins' = [pins EXCEPT ![s] = 0]
    /\ delivered' = [delivered EXCEPT ![s] = 0]
    /\ dropped' = [dropped EXCEPT ![s] = 0]
    /\ offered' = [offered EXCEPT ![s] = 0]
    /\ UNCHANGED <<slotVars, callVars, useVars, seen>>

\* frame_pipeline_detach(), under the mutex: unlink, drop the pending frame.
Detach(s) ==
    /\ registry = Idle
    /\ s \in attached
    /\ registry' = [op |-> "close", sink |-> s]
    /\ attached' = attached \ {s}
    /\ refcount' = [i \in Slots |->
          IF i = pending[s] THEN Less(refcount[i], 1) ELSE refcount[i]]
    /\ pins' = [pins EXCEPT ![s] = IF pending[s] = None THEN @ ELSE Less(@, 1)]
    /\ pending' = [pending EXCEPT ![s] = None]
    /\ UNCHANGED <<filling, latest, gen, stamp, busy, delivered, dropped,
                   callVars, useVars, histVars>>

\* detach() has called close() and returns.
DetachReturn ==
    /\ registry.op = "close"
    /\ registry' = Idle
    /\ UNCHANGED <<slotVars, sinkVars, callVars, attached, useVars, histVars>>

------------------------------------------------------------------------------
ProducerStep == \/ Acquire
                \/ \E i \in Slots : Publish(i)
                \/ \E s \in Sinks : Deliver(s)

\* What thread t does inside the consume() call it is in.
CallStep(t) == Redeliver(t) \/ SyncPut(t) \/ HandOver(t) \/ Return(t)

\* What the thread of sink s does of its own accord.
SinkStep(s) == \E f \in Slots : AsyncPut(s, f) \/ Get(s, f) \/ PutExtra(s, f)

RegistryStep == \/ \E s \in Sinks : AttachOpen(s) \/ AttachLink(s) \/ Detach(s)
                \/ AttachRefused
                \/ DetachReturn

ReaderStep(r) == PinLatest(r) \/ PullPut(r)

Next == \/ ProducerStep
        \/ \E t \in Threads : CallStep(t)
        \/ \E s \in Sinks : SinkStep(s)
        \/ \E r \in Readers : ReaderStep(r)
        \/ RegistryStep
        \/ Reinit

Spec == Init /\ [][Next]_vars

(* The threads run: publish() works off its deliver[], a consume() call     *)
(* comes back, and a sink puts every frame it was handed.  Nobody is        *)
(* obliged to publish, to attach, to detach or to pin.                      *)
Fairness ==
    /\ \A s \in Sinks : WF_vars(Deliver(s))
    /\ \A t \in Threads : WF_vars(CallStep(t))
    /\ \A s \in Sinks : \A f \in Slots : WF_vars(AsyncPut(s, f))
    /\ \A s \in Sinks : \A f \in Slots : WF_vars(PutExtra(s, f))
    /\ \A r \in Readers : WF_vars(PullPut(r))

FairSpec == Spec /\ Fairness

------------------------------------------------------------------------------
CallRecord == [sink : Sinks, frame : Slots, stage : {"due", "in", "out"}]

TypeOK ==
    /\ filling \subseteq Slots
    /\ refcount \in [Slots -> Nat]
    /\ latest \in Slots \cup {None}
    /\ gen \in 0 .. MaxGen
    /\ stamp \in [Slots -> 0 .. MaxGen]
    /\ attached \subseteq Sinks
    /\ busy \in [Sinks -> BOOLEAN]
    /\ pending \in [Sinks -> Slots \cup {None}]
    /\ pins \in [Sinks -> Nat]
    /\ delivered \in [Sinks -> Nat]
    /\ dropped \in [Sinks -> Nat]
    /\ fan \in Slots \cup {None}
    /\ todo \subseteq Sinks
    /\ todo # {} => fan # None
    /\ calls \in [Threads -> Seq(CallRecord)]
    /\ registry \in [op : {"idle", "open", "close"}, sink : Sinks \cup {None}]
    /\ owed \in [Sinks -> SUBSET Slots]
    /\ extra \in [Sinks -> SUBSET Slots]
    /\ pulled \in [Readers -> Slots \cup {None}]
    /\ offered \in [Sinks -> Nat]
    /\ seen \in [Sinks -> 0 .. MaxGen]

\* Who has a pin on slot i, by the kind of the pin.
OwedOn(i) == {s \in Sinks : i \in owed[s]}
ExtraOn(i) == {s \in Sinks : i \in extra[s]}
PendingOn(i) == {s \in Sinks : pending[s] = i}
PulledOn(i) == {r \in Readers : pulled[r] = i}

(* Every slot's refcount is the number of pins on it, and every sink's _pins *)
(* is the number of pins it holds (the count detach() reports), whatever the *)
(* order of publish(), put(), pin_latest(), attach() and detach().           *)
PinsBalanced ==
    /\ \A i \in Slots :
          refcount[i] = Cardinality(OwedOn(i)) + Cardinality(ExtraOn(i))
                        + Cardinality(PendingOn(i)) + Cardinality(PulledOn(i))
    /\ \A s \in Sinks :
          pins[s] = Cardinality(owed[s]) + Cardinality(extra[s])
                      + IF pending[s] = None THEN 0 ELSE 1

(* The producer never writes a slot that a sink, a coalesced delivery or a   *)
(* pull reader still refers to, nor the frame a pull reader would get next.  *)
NoTornFrame == \A i \in filling :
    /\ OwedOn(i) = {} /\ ExtraOn(i) = {} /\ PendingOn(i) = {} /\ PulledOn(i) = {}
    /\ i # latest

(* No frame changes under its readers, through every attach, detach,         *)
(* coalesced delivery and pull: the pins on a slot are exactly its holders'. *)
SlotsSafe == PinsBalanced /\ NoTornFrame

(* A coalesced frame is never stranded: as long as one is pending, the sink  *)
(* is busy and owes the put() that will deliver it.                          *)
PendingWillMove ==
    \A s \in Sinks : pending[s] # None => busy[s] /\ owed[s] # {}

\* What the above rests on: a busy sink owes a put(), only an attached sink
\* has a pending frame and it is not one the sink owes, and a sink being
\* attached still holds nothing when it is linked.
RegistryInv ==
    /\ \A s \in Sinks : busy[s] => owed[s] # {}
    /\ \A s \in Sinks : pending[s] # None => s \in attached
    /\ \A s \in Sinks : pending[s] \notin owed[s]
    /\ registry.op = "open" => /\ registry.sink \in Sinks \ attached
                               /\ owed[registry.sink] = {}
                               /\ extra[registry.sink] = {}

PipelineInv == TypeOK /\ PinsBalanced /\ NoTornFrame /\ PendingWillMove /\ RegistryInv

\* consume() calls for s that were started by a pin and are not counted yet.
Uncounted(s) ==
    (IF s \in todo THEN 1 ELSE 0)
    + Cardinality({c \in Threads \X (1 .. MaxGen + 1) :
          c[2] <= Len(calls[c[1]]) /\ calls[c[1]][c[2]].sink = s})

(* Every frame published to an attached sink is delivered, dropped, being    *)
(* delivered or pending: the sink's counters account for all of them.        *)
FramesAccounted ==
    \A s \in attached :
        offered[s] = delivered[s] + dropped[s] + Uncounted(s)
                       + IF pending[s] = None THEN 0 ELSE 1

(* A sink sees frames in the order they were published, although publish()   *)
(* and put() call consume() from different threads with the mutex released.  *)
InOrder ==
    [][\A s \in Sinks : seen'[s] # seen[s] => seen'[s] > seen[s] \/ gen' = 0]_vars

(* The sinks that hold the frame of a slot, in hand or coalesced.            *)
SinksOn(i) == {s \in Sinks : i \in owed[s] \cup extra[s] \/ pending[s] = i}

\* The state of the lease, in the ring's.
Lease == INSTANCE SlotLease WITH
    Parties <- Sinks \cup Readers,
    writing <- filling,
    newest  <- latest,
    holders <- [i \in Slots |-> SinksOn(i) \cup PulledOn(i)]

(* The ring implements the slot lease: a slot is lent for writing only while *)
(* nobody reads it, and only the published frame is ever taken.              *)
LeaseSpec == Lease!Spec

(* A pending frame is eventually delivered, superseded or dropped.           *)
PendingSettles == \A s \in Sinks : \A f \in Slots :
    pending[s] = f ~> pending[s] # f

(* A sink that has a frame eventually gives its slot back.                   *)
FramesComeBack == \A s \in Sinks : \A f \in Slots :
    f \in owed[s] ~> f \notin owed[s]

(* Frames move on, whether the sink keeps up with the producer or not.       *)
FramesSettle == PendingSettles /\ FramesComeBack
=============================================================================
