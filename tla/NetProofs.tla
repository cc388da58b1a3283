------------------------------ MODULE NetProofs -------------------------------
(***************************************************************************)
(* Proofs about the network: EthNet for any pool, rings and packets, and   *)
(* MjpegServer for any number of starts, overruns and failed relistens.    *)
(* EnInv is inductive for EthNet (MacInv: the MAC fits the link it was     *)
(* told of; TxInv: who is in eth_tx() and what the ring holds; PoolInv:    *)
(* every packet is in one place). MjInv adds HandOffInv, which frame is    *)
(* handed to the server's thread. TnInv, of TelnetShell for any number of  *)
(* clients, adds ServerInv: where the server stands with its socket.       *)
(***************************************************************************)
EXTENDS EthNet, MjpegServer, TelnetShell, FiniteSetTheorems, TLAPS
------------------------------------------------------------------------------
(* EthNet: the MAC follows the link, packets come back as they were lent. *)

\* apply_mac_state() leaves a MAC that fits the link it was told of.
LEMMA ApplyMacFits ==
  ASSUME mac \in [run : BOOLEAN, speed : {"10", "100"}], NEW enabled \in BOOLEAN, NEW l \in Links, ApplyMac(enabled, l)
  PROVE  /\ mac' \in [run : BOOLEAN, speed : {"10", "100"}]
         /\ mac'.run => enabled /\ LinkUp(l) /\ mac'.speed = SpeedOf(l)
<1> DEFINE want == enabled /\ LinkUp(l)
<1>1. SpeedOf(l) \in {"10", "100"} /\ want \in BOOLEAN
  BY DEF SpeedOf, LinkUp
<1>2. CASE MustStart(want, SpeedOf(l)) /\ mac' = [run |-> TRUE, speed |-> SpeedOf(l)]
  BY <1>1, <1>2 DEF MustStart
<1>3. CASE mac' = [mac EXCEPT !.run = FALSE]
  BY <1>3
<1>4. CASE ~ MustStart(want, SpeedOf(l)) /\ mac' = [mac EXCEPT !.run = mac.run /\ want]
  <2>1. mac' \in [run : BOOLEAN, speed : {"10", "100"}] /\ mac'.run = (mac.run /\ want) /\ mac'.speed = mac.speed
    BY <1>1, <1>4
  <2> QED
    BY <1>4, <2>1 DEF MustStart
<1> QED
  BY <1>2, <1>3, <1>4 DEF ApplyMac

\* Only polls and the start apply a link to the MAC.
LEMMA MacKeeps ==
  ASSUME MacInv, started \in BOOLEAN, [EnNext]_enVars
  PROVE  MacInv' /\ started' \in BOOLEAN
<1> USE DEF MacInv
<1>1. CASE PhyChanges
  BY <1>1 DEF PhyChanges, linkVars, drvVars
<1>2. CASE LinkPoll
  BY <1>2 DEF LinkPoll, drvVars
<1>3. CASE LinkNotify
  <2>1. ApplyMac(started, polled) /\ phyLink' = polled /\ UNCHANGED <<phy, polled, started>>
    BY <1>3 DEF LinkNotify
  <2> QED
    BY <2>1, ApplyMacFits
<1>4. CASE EthEnable
  <2>1. ApplyMac(TRUE, phyLink) /\ started' = TRUE /\ UNCHANGED <<phy, polled, phyLink>>
    BY <1>4 DEF EthEnable, linkVars
  <2> QED
    BY <2>1, ApplyMacFits
<1>5. CASE UNCHANGED <<phy, polled, phyLink, started, mac>>
  BY <1>5
<1>6. LinkKick \/ EthInitialize \/ LinkStatus \/ DeferredBegins \/ DrainFrame \/ DrainEnds \/ Reclaim \/ Sender
        \/ FrameArrives \/ FrameSent \/ NetUser \/ UNCHANGED enVars
        => UNCHANGED <<phy, polled, phyLink, started, mac>>
  BY DEF LinkKick, EthInitialize, LinkStatus, DeferredBegins, DrainFrame, DrainEnds, Reclaim, Sender, TxPosts, TxChecks,
         FrameArrives, FrameSent, NetUser, UserReleases, UserSends, Acknowledged, enVars, linkVars, drvVars
<1> QED
  BY <1>1, <1>2, <1>3, <1>4, <1>5, <1>6 DEF EnNext, LinkThread, IpThread

\* The packets in descriptors, and all that are lent, are finitely many.
Lent == {p \in TxPackets : tx[p].at # "none"}

LEMMA PacketsFinite ==
  /\ IsFiniteSet(InRing) /\ Cardinality(InRing) \in Nat
  /\ IsFiniteSet(Lent) /\ Cardinality(Lent) \in Nat
<1>1. InRing \in SUBSET TxPackets /\ Lent \in SUBSET TxPackets /\ IsFiniteSet(TxPackets)
  BY EthAssumption DEF InRing, Lent
<1> QED
  BY <1>1, FS_Subset, FS_CardinalityType

\* So are they after a step.
LEMMA PacketsFiniteNext ==
  /\ IsFiniteSet(InRing') /\ Cardinality(InRing') \in Nat
  /\ IsFiniteSet(Lent') /\ Cardinality(Lent') \in Nat
<1>1. InRing' \in SUBSET TxPackets /\ Lent' \in SUBSET TxPackets /\ IsFiniteSet(TxPackets)
  BY EthAssumption DEF InRing, Lent
<1> QED
  BY <1>1, FS_Subset, FS_CardinalityType

\* A packet let go is in no descriptor and has no header.
LEMMA ReleasedType ==
  ASSUME NEW r \in [at : {"none", "new", "ring", "sent", "kept"}, l2 : BOOLEAN, tcp : BOOLEAN]
  PROVE  /\ Released(r) \in [at : {"none", "new", "ring", "sent", "kept"}, l2 : BOOLEAN, tcp : BOOLEAN]
         /\ Released(r).at \in {"none", "kept"} /\ Released(r).l2 = FALSE
BY DEF Released, Unsent, HeaderAfter

\* The ring of a step that moves only packet p, into the ring or not.
LEMMA RingOfStep ==
  ASSUME TxInv, NEW p \in TxPackets, NEW r \in [at : {"none", "new", "ring", "sent", "kept"}, l2 : BOOLEAN, tcp : BOOLEAN],
         tx' = [tx EXCEPT ![p] = r], txPc' \in {txPc, "none", p}, txPc \in {txPc', "none", p},
         txPc' = p => r.at = "new",
         r.l2 <=> r.at \in {"ring", "sent"} \/ txPc' = p,
         r.at \in {"ring", "sent"} => p \in InRing \/ Cardinality(InRing) < TxDescs
  PROVE  TxInv' /\ (r.at # "none" /\ p \notin Lent => Lent' = Lent \cup {p}) /\ (r.at = "none" \/ p \in Lent => Lent' \subseteq Lent)
<1>1. /\ tx' \in [TxPackets -> [at : {"none", "new", "ring", "sent", "kept"}, l2 : BOOLEAN, tcp : BOOLEAN]]
      /\ tx'[p] = r /\ \A q \in TxPackets : q # p => tx'[q] = tx[q]
  BY DEF TxInv
<1>2. /\ r.at \in {"ring", "sent"} => InRing' = InRing \cup {p}
      /\ r.at \notin {"ring", "sent"} => InRing' = InRing \ {p}
  BY <1>1 DEF InRing
<1>3. Cardinality(InRing') \in 0 .. TxDescs
  BY <1>2, PacketsFinite, PacketsFiniteNext, FS_AddElement, FS_RemoveElement, EthAssumption DEF TxInv
<1>4. txPc' \in TxPackets \cup {"none"} /\ (txPc' # "none" => tx'[txPc'].at = "new")
  BY <1>1, EthAssumption DEF TxInv
<1>5. \A q \in TxPackets : tx'[q].l2 <=> q \in InRing' \/ txPc' = q
  <2>1. tx'[p].l2 <=> p \in InRing' \/ txPc' = p
    BY <1>1, <1>2
  <2>2. ASSUME NEW q \in TxPackets, q # p
        PROVE  tx'[q].l2 <=> q \in InRing' \/ txPc' = q
    <3>1. tx'[q] = tx[q] /\ (q \in InRing' <=> q \in InRing)
      BY <1>1, <1>2, <2>2
    <3>2. txPc' = q <=> txPc = q
      BY <2>2, EthAssumption DEF TxInv
    <3> QED
      BY <3>1, <3>2 DEF TxInv
  <2> QED
    BY <2>1, <2>2
<1> QED
  BY <1>1, <1>3, <1>4, <1>5 DEF TxInv, Lent

\* The steps of packets being sent: a packet more is lent only out of the pool.
LEMMA TxKeeps ==
  ASSUME TxInv, TxPosts \/ FrameSent \/ \E p \in TxPackets : TxChecks(p) \/ UserSends(p) \/ Acknowledged(p)
  PROVE  TxInv' /\ (Lent' \subseteq Lent \/ (InPool > 0 /\ \E p \in TxPackets \ Lent : Lent' = Lent \cup {p}))
<1> DEFINE Recs == [at : {"none", "new", "ring", "sent", "kept"}, l2 : BOOLEAN, tcp : BOOLEAN]
<1>1. \A p \in TxPackets : tx[p] \in Recs /\ p # "none"
  BY EthAssumption DEF TxInv
<1>2. ASSUME NEW p \in TxPackets, TxChecks(p)
      PROVE  TxInv' /\ Lent' \subseteq Lent
  <2>1. tx[p].at = "new" /\ txPc = "none" /\ p \notin InRing /\ p \in Lent
    BY <1>1, <1>2 DEF TxChecks, InRing, Lent
  <2>2. CASE mac.run
    <3> DEFINE r == [tx[p] EXCEPT !.l2 = TRUE]
    <3>1. tx' = [tx EXCEPT ![p] = r] /\ txPc' = p /\ r \in Recs /\ r.at = "new" /\ r.l2 = TRUE
      BY <1>1, <1>2, <2>1, <2>2 DEF TxChecks
    <3> HIDE DEF r
    <3> QED
      BY <2>1, <3>1, RingOfStep
  <2>3. CASE ~ mac.run
    <3> DEFINE r == Released(tx[p])
    <3>1. tx' = [tx EXCEPT ![p] = r] /\ txPc' = txPc /\ r \in Recs /\ r.at \in {"none", "kept"} /\ r.l2 = FALSE
      BY <1>1, <1>2, <2>1, <2>3, ReleasedType DEF TxChecks
    <3> HIDE DEF r
    <3> QED
      BY <1>1, <2>1, <3>1, RingOfStep
  <2> QED
    BY <2>2, <2>3
<1>3. ASSUME TxPosts
      PROVE  TxInv' /\ Lent' \subseteq Lent
  <2>1. txPc \in TxPackets /\ tx[txPc].at = "new" /\ txPc' = "none" /\ txPc \in Lent /\ tx[txPc].l2 /\ tx[txPc] \in Recs
    BY <1>1, <1>3 DEF TxPosts, TxInv, Lent
  <2>2. CASE Cardinality(InRing) < TxDescs /\ tx' = [tx EXCEPT ![txPc].at = "ring"]
    <3> DEFINE r == [tx[txPc] EXCEPT !.at = "ring"]
    <3>1. tx' = [tx EXCEPT ![txPc] = r] /\ r \in Recs /\ r.at = "ring" /\ r.l2 = TRUE
      BY <2>1, <2>2
    <3> HIDE DEF r
    <3> QED
      BY <1>1, <2>1, <2>2, <3>1, RingOfStep
  <2>3. CASE tx' = [tx EXCEPT ![txPc] = Released(@)]
    <3> DEFINE r == Released(tx[txPc])
    <3>1. tx' = [tx EXCEPT ![txPc] = r] /\ r \in Recs /\ r.at \in {"none", "kept"} /\ r.l2 = FALSE
      BY <2>1, <2>3, ReleasedType
    <3> HIDE DEF r
    <3> QED
      BY <1>1, <2>1, <3>1, RingOfStep
  <2> QED
    BY <1>3, <2>2, <2>3 DEF TxPosts
<1>4. ASSUME FrameSent
      PROVE  TxInv' /\ Lent' \subseteq Lent
  <2>1. PICK p \in TxPackets : tx[p].at = "ring" /\ tx' = [tx EXCEPT ![p].at = "sent"] /\ txPc' = txPc
    BY <1>4 DEF FrameSent
  <2> DEFINE r == [tx[p] EXCEPT !.at = "sent"]
  <2>2. tx' = [tx EXCEPT ![p] = r] /\ r \in Recs /\ r.at = "sent" /\ r.l2 = tx[p].l2
    BY <1>1, <2>1
  <2>3. p \in InRing /\ p \in Lent /\ txPc # p /\ tx[p].l2
    BY <1>1, <2>1 DEF InRing, Lent, TxInv
  <2> HIDE DEF r
  <2> QED
    BY <1>1, <2>1, <2>2, <2>3, RingOfStep
<1>5. ASSUME NEW p \in TxPackets, UserSends(p)
      PROVE  TxInv' /\ (Lent' \subseteq Lent \/ (InPool > 0 /\ \E q \in TxPackets \ Lent : Lent' = Lent \cup {q}))
  <2>1. txPc' = txPc /\ tx[p].at \in {"none", "kept"}
    BY <1>5 DEF UserSends
  <2>2. p \notin InRing /\ txPc # p /\ ~ tx[p].l2
    BY <1>1, <2>1 DEF InRing, TxInv
  <2>3. CASE tx[p].at = "none" /\ InPool > 0 /\ \E t \in BOOLEAN : tx' = [tx EXCEPT ![p] = [at |-> "new", l2 |-> FALSE, tcp |-> t]]
    <3>1. PICK t \in BOOLEAN : tx' = [tx EXCEPT ![p] = [at |-> "new", l2 |-> FALSE, tcp |-> t]]
      BY <2>3
    <3> DEFINE r == [at |-> "new", l2 |-> FALSE, tcp |-> t]
    <3>2. r \in Recs /\ r.at = "new" /\ r.l2 = FALSE /\ tx' = [tx EXCEPT ![p] = r]
      BY <3>1
    <3>3. p \notin Lent
      BY <2>3 DEF Lent
    <3> HIDE DEF r
    <3>4. TxInv' /\ Lent' = Lent \cup {p}
      BY <1>1, <2>1, <2>2, <3>2, <3>3, RingOfStep
    <3> QED
      BY <2>3, <3>3, <3>4
  <2>4. CASE tx[p].at = "kept" /\ tx' = [tx EXCEPT ![p].at = "new"]
    <3> DEFINE r == [tx[p] EXCEPT !.at = "new"]
    <3>1. tx' = [tx EXCEPT ![p] = r] /\ r \in Recs /\ r.at = "new" /\ r.l2 = tx[p].l2
      BY <1>1, <2>4
    <3>2. p \in Lent
      BY <2>4 DEF Lent
    <3> HIDE DEF r
    <3> QED
      BY <1>1, <2>1, <2>2, <3>1, <3>2, RingOfStep
  <2> QED
    BY <1>5, <2>3, <2>4 DEF UserSends
<1>6. ASSUME NEW p \in TxPackets, Acknowledged(p)
      PROVE  TxInv' /\ Lent' \subseteq Lent
  <2>1. txPc' = txPc /\ txPc # p /\ tx[p].at # "new"
    BY <1>6 DEF Acknowledged
  <2>2. tx[p].l2 <=> tx[p].at \in {"ring", "sent"}
    BY <2>1 DEF TxInv, InRing
  <2>3. CASE tx[p].at = "kept"
    <3>1. tx' = [tx EXCEPT ![p] = Unsent] /\ Unsent \in Recs /\ Unsent.at = "none" /\ Unsent.l2 = FALSE
      BY <1>6, <2>3 DEF Acknowledged, Unsent
    <3> QED
      BY <1>1, <2>1, <2>2, <3>1, RingOfStep
  <2>4. CASE tx[p].at # "kept"
    <3> DEFINE r == [tx[p] EXCEPT !.tcp = FALSE]
    <3>1. tx' = [tx EXCEPT ![p] = r] /\ r \in Recs /\ r.at = tx[p].at /\ r.l2 = tx[p].l2
      BY <1>1, <1>6, <2>4 DEF Acknowledged
    <3>2. r.at \in {"ring", "sent"} => p \in InRing
      BY <3>1 DEF InRing
    <3>3. r.at # "none" => p \in Lent
      BY <3>1 DEF Lent
    <3> HIDE DEF r
    <3> QED
      BY <1>1, <2>1, <2>2, <3>1, <3>2, <3>3, RingOfStep
  <2> QED
    BY <2>3, <2>4
<1> QED
  BY <1>2, <1>3, <1>4, <1>5, <1>6

\* What was transmitted is let go, all at once.
LEMMA ReclaimKeeps ==
  ASSUME TxInv, Reclaim
  PROVE  TxInv' /\ Lent' \subseteq Lent
<1> DEFINE Recs == [at : {"none", "new", "ring", "sent", "kept"}, l2 : BOOLEAN, tcp : BOOLEAN]
<1>1. \A p \in TxPackets : tx[p] \in Recs /\ tx'[p] = IF tx[p].at = "sent" THEN Released(tx[p]) ELSE tx[p]
  BY DEF TxInv, Reclaim
<1>2. ASSUME NEW p \in TxPackets
      PROVE  /\ tx'[p] \in Recs
             /\ tx[p].at = "sent" => tx'[p].at \in {"none", "kept"} /\ tx'[p].l2 = FALSE
             /\ tx[p].at # "sent" => tx'[p] = tx[p]
  <2>1. tx[p] \in Recs /\ tx'[p] = IF tx[p].at = "sent" THEN Released(tx[p]) ELSE tx[p]
    BY <1>1
  <2>2. Released(tx[p]) \in Recs /\ Released(tx[p]).at \in {"none", "kept"} /\ Released(tx[p]).l2 = FALSE
    BY <2>1, ReleasedType
  <2> HIDE DEF Recs
  <2>3. CASE tx[p].at = "sent"
    BY <2>1, <2>2, <2>3
  <2>4. CASE tx[p].at # "sent"
    BY <2>1, <2>4
  <2> QED
    BY <2>3, <2>4
<1> HIDE DEF Recs
<1>3. tx' \in [TxPackets -> Recs]
  <2>1. tx' = [p \in TxPackets |-> tx'[p]]
    BY DEF Reclaim
  <2> QED
    BY <1>2, <2>1
<1>4. InRing' \subseteq InRing /\ Lent' \subseteq Lent
  <2>1. ASSUME NEW p \in TxPackets
        PROVE  /\ tx'[p].at \in {"ring", "sent"} => tx[p].at \in {"ring", "sent"}
               /\ tx'[p].at # "none" => tx[p].at # "none"
    BY <1>2
  <2> QED
    BY <2>1 DEF InRing, Lent
<1>5. Cardinality(InRing') \in 0 .. TxDescs
  BY <1>4, PacketsFinite, PacketsFiniteNext, FS_Subset, EthAssumption DEF TxInv
<1>6. txPc' = txPc /\ (txPc # "none" => tx'[txPc].at = "new")
  BY <1>2 DEF Reclaim, TxInv
<1>7. ASSUME NEW p \in TxPackets
      PROVE  tx'[p].l2 <=> p \in InRing' \/ txPc' = p
  <2>1. CASE tx[p].at = "sent"
    <3>1. tx'[p].l2 = FALSE /\ p \notin InRing'
      BY <1>2, <2>1 DEF InRing
    <3>2. txPc' # p
      BY <1>6, <2>1, EthAssumption DEF TxInv
    <3> QED
      BY <3>1, <3>2
  <2>2. CASE tx[p].at # "sent"
    <3>1. tx'[p] = tx[p]
      BY <1>2, <2>2
    <3>2. p \in InRing' <=> p \in InRing
      BY <3>1 DEF InRing
    <3> QED
      BY <1>6, <3>1, <3>2 DEF TxInv
  <2> QED
    BY <2>1, <2>2
<1> USE DEF Recs
<1> QED
  BY <1>3, <1>4, <1>5, <1>6, <1>7 DEF TxInv

\* A step that touches no packet being sent.
LEMMA OthersKeepTx ==
  ASSUME TxInv, UNCHANGED txVars
  PROVE  TxInv' /\ Lent' = Lent
BY DEF TxInv, txVars, InRing, Lent

\* Descriptors filled out of the pool, once somebody else has the rest.
LEMMA RefilledFits ==
  ASSUME NEW a \in Nat, NEW f \in Nat, NEW free \in Nat, a + f <= RxDescs
  PROVE  Refilled(a, f, free) \in Nat /\ Refilled(a, f, free) + f <= RxDescs
         /\ Refilled(a, f, free) >= a /\ Refilled(a, f, free) - a <= free
BY EthAssumption DEF Refilled, MinOf

\* The pool, counted over the packets that are lent.
LEMMA InPoolOf == InPool = Pool - armed - filled - held - Cardinality(Lent)
BY DEF InPool, Lent

LEMMA InPoolOfNext == InPool' = Pool - armed' - filled' - held' - Cardinality(Lent')
BY DEF InPool, Lent

\* Packets lent for sending come out of the pool and go back to it.
LEMMA PoolOfTx ==
  ASSUME PoolInv, UNCHANGED rxVars,
         Lent' \subseteq Lent \/ (InPool > 0 /\ \E p \in TxPackets \ Lent : Lent' = Lent \cup {p})
  PROVE  PoolInv'
<1>1. UNCHANGED <<armed, filled, held>>
  BY DEF rxVars
<1>2. Cardinality(Lent') <= Cardinality(Lent) \/ (InPool > 0 /\ Cardinality(Lent') = Cardinality(Lent) + 1)
  BY PacketsFinite, FS_Subset, FS_AddElement
<1> QED
  BY <1>1, <1>2, InPoolOf, InPoolOfNext, PacketsFinite, PacketsFiniteNext, EthAssumption DEF PoolInv

\* Sums of the numbers of packets in the places they can be in.
LEMMA PoolSums ==
  ASSUME NEW pool \in Nat, NEW lent \in Nat, NEW here \in Nat, NEW here1 \in Nat, NEW free \in Nat,
         here = pool - lent - free, here1 <= here + free
  PROVE  pool - here1 - lent \in 0 .. pool
OBVIOUS

LEMMA ThreePlaces ==
  ASSUME NEW a \in Nat, NEW f \in Nat, NEW h \in Nat
  PROVE  a + f + h \in Nat
OBVIOUS

LEMMA TwoPlaces ==
  ASSUME NEW a \in Nat, NEW f \in Nat, NEW n \in Nat, a + f <= n
  PROVE  a + f \in 0 .. n
OBVIOUS

LEMMA MoreArmed ==
  ASSUME NEW a \in Nat, NEW f \in Nat, NEW h \in Nat, NEW free \in Nat, NEW a1 \in Nat, a1 <= a + free
  PROVE  a1 + f + h <= a + f + h + free
OBVIOUS

\* Packets move between pool, descriptors and NetX.
LEMMA PoolOfRx ==
  ASSUME PoolInv, Lent' = Lent, armed' \in Nat, filled' \in Nat, held' \in Nat, armed' + filled' <= RxDescs,
         armed' + filled' + held' <= armed + filled + held + InPool
  PROVE  PoolInv'
<1>1. Cardinality(Lent) \in Nat /\ Pool \in Nat
  BY PacketsFinite, EthAssumption
<1>2. armed \in Nat /\ filled \in Nat /\ held \in Nat /\ InPool \in Nat
  BY EthAssumption DEF PoolInv
<1> DEFINE here == armed + filled + held
           here1 == armed' + filled' + held'
           lent == Cardinality(Lent)
<1>3. here \in Nat /\ here1 \in Nat /\ here1 <= here + InPool
  BY <1>2, ThreePlaces
<1>4. here = Pool - lent - InPool
  BY <1>1, <1>2, InPoolOf
<1>5. InPool' = Pool - here1 - lent
  BY <1>1, InPoolOfNext
<1> HIDE DEF here, here1, lent
<1>6. Pool - here1 - lent \in 0 .. Pool
  BY <1>1, <1>2, <1>3, <1>4, PoolSums DEF lent
<1>7. armed' + filled' \in 0 .. RxDescs
  <2>1. RxDescs \in Nat
    BY EthAssumption
  <2> QED
    BY <2>1, TwoPlaces
<1> QED
  BY <1>5, <1>6, <1>7 DEF PoolInv

\* apply_mac_state() fills descriptors from the pool.
LEMMA ApplyMacRefills ==
  ASSUME PoolInv, NEW enabled, NEW l, ApplyMac(enabled, l)
  PROVE  armed' \in Nat /\ armed' + filled <= RxDescs /\ armed' <= armed + InPool
<1>1. armed \in Nat /\ filled \in Nat /\ InPool \in Nat /\ armed + filled <= RxDescs
  BY EthAssumption DEF PoolInv
<1>2. armed' = armed \/ armed' = Refilled(armed, filled, InPool)
  BY DEF ApplyMac
<1>3. /\ Refilled(armed, filled, InPool) \in Nat /\ Refilled(armed, filled, InPool) + filled <= RxDescs
      /\ Refilled(armed, filled, InPool) - armed <= InPool
  BY <1>1, RefilledFits
<1> QED
  BY <1>1, <1>2, <1>3

\* The steps of descriptors and received frames.
LEMMA RxKeeps ==
  ASSUME PoolInv, TxInv, LinkNotify \/ EthEnable \/ DrainFrame \/ DrainEnds \/ FrameArrives \/ UserReleases
  PROVE  PoolInv' /\ TxInv'
<1>1. UNCHANGED txVars
  BY DEF LinkNotify, EthEnable, DrainFrame, DrainEnds, FrameArrives, UserReleases
<1>2. TxInv' /\ Lent' = Lent
  BY <1>1, OthersKeepTx
<1>3. /\ armed \in Nat /\ filled \in Nat /\ held \in Nat /\ InPool \in Nat /\ armed + filled <= RxDescs /\ RxDescs \in Nat
  BY EthAssumption DEF PoolInv
<1>4. CASE LinkNotify \/ EthEnable
  <2>1. \E e, l : ApplyMac(e, l)
    BY <1>4 DEF LinkNotify, EthEnable
  <2>2. UNCHANGED <<filled, held>>
    BY <1>4 DEF LinkNotify, EthEnable
  <2> QED
    BY <1>2, <1>3, <2>1, <2>2, ApplyMacRefills, PoolOfRx
<1>5. CASE DrainFrame
  <2>1. filled - 1 \in Nat /\ filled' = filled - 1 /\ armed' = Refilled(armed, filled - 1, InPool) /\ held' \in {held, held + 1}
    BY <1>3, <1>5 DEF DrainFrame
  <2>2. armed + (filled - 1) <= RxDescs
    BY <1>3, <2>1
  <2>3. /\ armed' \in Nat /\ armed' + filled' <= RxDescs /\ armed' - armed <= InPool
    BY <1>3, <2>1, <2>2, RefilledFits
  <2> QED
    BY <1>2, <1>3, <2>1, <2>3, PoolOfRx
<1>6. CASE DrainEnds
  <2>1. UNCHANGED <<filled, held>> /\ armed' \in {armed, Refilled(armed, filled, InPool)}
    BY <1>6 DEF DrainEnds
  <2>2. /\ Refilled(armed, filled, InPool) \in Nat /\ Refilled(armed, filled, InPool) + filled <= RxDescs
        /\ Refilled(armed, filled, InPool) - armed <= InPool
    BY <1>3, RefilledFits
  <2>3. filled' = filled /\ held' = held
    BY <2>1
  <2>4. armed' \in Nat /\ armed' + filled <= RxDescs /\ armed' <= armed + InPool
    <3>1. CASE armed' = armed
      BY <1>3, <3>1
    <3>2. CASE armed' = Refilled(armed, filled, InPool)
      <4> DEFINE a == Refilled(armed, filled, InPool)
      <4> HIDE DEF a
      <4>1. armed' = a /\ a \in Nat /\ a + filled <= RxDescs /\ a - armed <= InPool
        BY <2>2, <3>2 DEF a
      <4> QED
        BY <1>3, <4>1
    <3> QED
      BY <2>1, <3>1, <3>2
  <2>5. filled' \in Nat /\ held' \in Nat /\ armed' + filled' <= RxDescs
    BY <1>3, <2>3, <2>4
  <2>6. armed' + filled' + held' <= armed + filled + held + InPool
    BY <1>3, <2>3, <2>4, MoreArmed
  <2> QED
    BY <1>2, <2>4, <2>5, <2>6, PoolOfRx
<1>7. CASE FrameArrives
  <2>1. armed > 0 /\ armed' = armed - 1 /\ filled' = filled + 1 /\ held' = held
    BY <1>7 DEF FrameArrives
  <2> QED
    BY <1>2, <1>3, <2>1, PoolOfRx
<1>8. CASE UserReleases
  <2>1. held > 0 /\ held' = held - 1 /\ UNCHANGED <<armed, filled>>
    BY <1>8 DEF UserReleases
  <2> QED
    BY <1>2, <1>3, <2>1, PoolOfRx
<1> QED
  BY <1>2, <1>4, <1>5, <1>6, <1>7, <1>8

\* TxInv and PoolInv are kept together by every step.
LEMMA PacketsKeep ==
  ASSUME PoolInv, TxInv, [EnNext]_enVars
  PROVE  PoolInv' /\ TxInv'
<1>1. CASE LinkNotify \/ EthEnable \/ DrainFrame \/ DrainEnds \/ FrameArrives \/ UserReleases
  BY <1>1, RxKeeps
<1>2. CASE TxPosts \/ FrameSent \/ \E p \in TxPackets : TxChecks(p) \/ UserSends(p) \/ Acknowledged(p)
  <2>1. UNCHANGED rxVars
    BY <1>2 DEF TxPosts, FrameSent, TxChecks, UserSends, Acknowledged
  <2> QED
    BY <1>2, <2>1, TxKeeps, PoolOfTx
<1>3. CASE Reclaim
  <2>1. UNCHANGED rxVars
    BY <1>3 DEF Reclaim
  <2> QED
    BY <1>3, <2>1, ReclaimKeeps, PoolOfTx
<1>4. CASE UNCHANGED <<rxVars, txVars>>
  BY <1>4, OthersKeepTx, PoolOfTx
<1>5. PhyChanges \/ LinkPoll \/ LinkKick \/ EthInitialize \/ LinkStatus \/ DeferredBegins \/ UNCHANGED enVars
        => UNCHANGED <<rxVars, txVars>>
  BY DEF PhyChanges, LinkPoll, LinkKick, EthInitialize, LinkStatus, DeferredBegins, enVars
<1> QED
  BY <1>1, <1>2, <1>3, <1>4, <1>5 DEF EnNext, LinkThread, IpThread, Sender, NetUser

\* EnInv is inductive.
LEMMA EnInvHolds == EnSpec => [](EnInv /\ started \in BOOLEAN)
<1>1. EnInit => EnInv /\ started \in BOOLEAN
  <2> SUFFICES ASSUME EnInit
               PROVE  EnInv /\ started \in BOOLEAN
    OBVIOUS
  <2> USE EthAssumption DEF EnInit
  <2>1. MacInv /\ started \in BOOLEAN
    BY DEF MacInv, Stopped
  <2>2. InRing = {} /\ Lent = {} /\ Cardinality(InRing) = 0 /\ Cardinality(Lent) = 0
    BY FS_EmptySet DEF InRing, Lent, Unsent
  <2>3. TxInv
    BY <2>2 DEF TxInv, Unsent
  <2>4. PoolInv
    BY <2>2, InPoolOf DEF PoolInv
  <2> QED
    BY <2>1, <2>3, <2>4 DEF EnInv
<1>2. EnInv /\ started \in BOOLEAN /\ [EnNext]_enVars => (EnInv /\ started \in BOOLEAN)'
  BY MacKeeps, PacketsKeep DEF EnInv
<1> QED
  BY <1>1, <1>2, PTL DEF EnSpec

\* The MAC runs only as the link says, every packet is in one place, and one
\* has an Ethernet header exactly while the driver has it, for any pool, rings
\* and packets and however often the link changes and the MAC fails to start.
THEOREM PacketsComeBack == EnSpec => []EthSound
<1>1. EnInv => EthSound
  BY DEF EnInv, MacInv, TxInv, PoolInv, EthSound, EnTypeOK
<1> QED
  BY <1>1, EnInvHolds, PTL

------------------------------------------------------------------------------
(* MjpegServer: a frame is sent as it was copied. *)

\* The camera's threads and its base.
LEMMA CameraKeeps ==
  ASSUME MjInv, Camera
  PROVE  MjInv'
<1> USE DEF MjInv, MjSound, MjTypeOK, HandOffInv, cameraVars, runVars, handOff, serverVars, commandVars
<1>1. CASE EthConsume
  BY <1>1 DEF EthConsume, MayCopy
<1>2. CASE BaseRuns
  BY <1>2 DEF BaseRuns
<1>3. CASE BaseStop
  BY <1>3 DEF BaseStop, EthClose
<1>4. CASE BaseOverruns
  BY <1>4 DEF BaseOverruns, EthClose
<1>5. CASE BaseRecovers
  BY <1>5 DEF BaseRecovers, EthOpen, OpenClient
<1> QED
  BY <1>1, <1>2, <1>3, <1>4, <1>5 DEF Camera

\* The server thread.
LEMMA ServerKeeps ==
  ASSUME MjInv, HttpThread
  PROVE  MjInv'
<1> USE DEF MjInv, MjSound, MjTypeOK, HandOffInv, cameraVars, runVars, handOff, serverVars, commandVars
<1>1. CASE Setup
  BY <1>1 DEF Setup
<1>2. CASE Accept
  BY <1>2 DEF Accept
<1>3. CASE AcceptEnds
  BY <1>3 DEF AcceptEnds
<1>4. CASE OpenGate
  BY <1>4 DEF OpenGate
<1>5. CASE Gated
  BY <1>5 DEF Gated
<1>6. CASE SendHeader
  BY <1>6 DEF SendHeader, MaySend
<1>7. CASE AwaitFrame
  BY <1>7 DEF AwaitFrame, Serves
<1>8. CASE SendChunk
  BY <1>8 DEF SendChunk, MaySend
<1>9. CASE SendFails
  BY <1>9 DEF SendFails
<1>10. CASE FrameGone
  BY <1>10 DEF FrameGone
<1>11. CASE Leave
  BY <1>11 DEF Leave
<1>12. CASE MjRelisten
  BY <1>12 DEF MjRelisten
<1>13. CASE After
  BY <1>13 DEF After
<1>14. CASE Paused
  BY <1>14 DEF Paused
<1>15. CASE Teardown
  BY <1>15 DEF Teardown
<1>16. CASE Inactive
  BY <1>16 DEF Inactive
<1> QED
  BY <1>1, <1>2, <1>3, <1>4, <1>5, <1>6, <1>7, <1>8, <1>9, <1>10, <1>11, <1>12, <1>13, <1>14, <1>15, <1>16 DEF HttpThread

\* The commands.
LEMMA CommandKeeps ==
  ASSUME MjInv, MjCommand
  PROVE  MjInv'
<1> USE DEF MjInv, MjSound, MjTypeOK, HandOffInv, cameraVars, runVars, handOff, serverVars, commandVars
<1>1. CASE StartChecks
  BY <1>1 DEF StartChecks
<1>2. CASE StartSubscribes
  BY <1>2 DEF StartSubscribes, EthOpen, OpenClient
<1>3. CASE StartClaims
  BY <1>3 DEF StartClaims
<1>4. CASE StartWaits
  BY <1>4 DEF StartWaits
<1>5. CASE StartVerifies
  BY <1>5 DEF StartVerifies
<1>6. CASE Unsubscribe
  BY <1>6 DEF Unsubscribe, EthClose
<1>7. CASE StopGates
  BY <1>7 DEF StopGates
<1>8. CASE StopRuns
  BY <1>8 DEF StopRuns
<1>9. CASE StopWaits
  BY <1>9 DEF StopWaits
<1> QED
  BY <1>1, <1>2, <1>3, <1>4, <1>5, <1>6, <1>7, <1>8, <1>9 DEF MjCommand

\* MjInv is inductive.
LEMMA MjInvHolds == MjSpec => []MjInv
<1>1. MjInit => MjInv
  BY DEF MjInit, MjInv, MjSound, MjTypeOK, HandOffInv
<1>2. MjInv /\ [MjNext]_mjVars => MjInv'
  <2> SUFFICES ASSUME MjInv, [MjNext]_mjVars
               PROVE  MjInv'
    OBVIOUS
  <2>1. CASE Camera
    BY <2>1, CameraKeeps
  <2>2. CASE HttpThread
    BY <2>2, ServerKeeps
  <2>3. CASE ViewerLeaves
    BY <2>3 DEF ViewerLeaves, MjInv, MjSound, MjTypeOK, HandOffInv, cameraVars, runVars, commandVars
  <2>4. CASE MjCommand
    BY <2>4, CommandKeeps
  <2>5. CASE UNCHANGED mjVars
    BY <2>5 DEF mjVars, MjInv, MjSound, MjTypeOK, HandOffInv, cameraVars, runVars, handOff, serverVars, commandVars
  <2> QED
    BY <2>1, <2>2, <2>3, <2>4, <2>5 DEF MjNext
<1> QED
  BY <1>1, <1>2, PTL DEF MjSpec

\* The bytes of a frame do not change under the socket that sends them, for
\* any number of starts and of overruns (MjSound, the invariant of the run).
THEOREM FramesAreSentWhole == MjSpec => []MjSound
<1>1. MjInv => MjSound
  BY DEF MjInv
<1> QED
  BY <1>1, MjInvHolds, PTL

------------------------------------------------------------------------------
(* TelnetShell: clients come and go, and none is forgotten.                *)

\* The server thread is where the socket says, and while it serves a client
\* that is there the session may open its gate.
ServerInv ==
  /\ srv \in {"drain", "accept", "bind", "serve", "close"} /\ sock \in {"listen", "established", "fin"}
  /\ srv = "drain" => sock = "listen"
  /\ srv \in {"bind", "serve"} => sock # "listen"
  /\ srv = "serve" /\ sock = "established" => live

TnInv == ServerInv /\ ClientKept

LEMMA TnInitHolds == TnInit => TnInv
BY DEF TnInit, TnInv, ServerInv, ClientKept

\* What the network does: a client that leaves is announced at once.
LEMMA ClientsKeep ==
  ASSUME TnInv, Connect \/ Disconnect \/ \E cr \in BOOLEAN : Receive(cr)
  PROVE  TnInv'
<1>1. CASE Connect
  BY <1>1 DEF Connect, TnInv, ServerInv, ClientKept, shellVars
<1>2. CASE Disconnect
  <2>1. /\ sock = "established" /\ sock' = "fin" /\ discSem' = discSem + 1 /\ UNCHANGED srv
    BY <1>2 DEF Disconnect
  <2>2. srv \in {"accept", "bind", "serve"} => discSem = 0
    BY <2>1 DEF TnInv, ClientKept
  <2>3. ClientKept'
    BY <2>1, <2>2 DEF ClientKept
  <2> QED
    BY <2>1, <2>3 DEF TnInv, ServerInv
<1>3. CASE \E cr \in BOOLEAN : Receive(cr)
  BY <1>3 DEF Receive, TnInv, ServerInv, ClientKept, shellVars
<1> QED
  BY <1>1, <1>2, <1>3

\* The server serves a client only once it has told the shell of it, and waits
\* for the next one only with the word of the last one taken.
LEMMA TelnetServes ==
  ASSUME TnInv, Server
  PROVE  TnInv'
<1>1. CASE DrainStale
  BY <1>1 DEF DrainStale, Serve, TnInv, ServerInv, ClientKept, shellVars
<1>2. CASE Accepted
  BY <1>2 DEF Accepted, Serve, TnInv, ServerInv, ClientKept, shellVars
<1>3. CASE Bind
  BY <1>3 DEF Bind, Serve, TnInv, ServerInv, ClientKept, shellVars
<1>4. CASE Unbind
  BY <1>4 DEF Unbind, Serve, TnInv, ServerInv, ClientKept
<1>5. CASE Relisten
  BY <1>5 DEF Relisten, Serve, TnInv, ServerInv, ClientKept
<1> QED
  BY <1>1, <1>2, <1>3, <1>4, <1>5 DEF Server

\* The shell takes the accept event only to begin a session, and the session
\* begins with the client that is there and the gate as that client left it.
LEMMA SessionKeeps ==
  ASSUME TnInv, Session \/ Command
  PROVE  TnInv'
<1>1. UNCHANGED <<client, sock, live, discSem, srv>>
  BY DEF Session, Wake, ResetState, SampleLive, StoreConnected, DrawPrompt, ReadByte, NoByte, CommandEnds, Command, Shell
<1>2. ServerInv'
  BY <1>1 DEF TnInv, ServerInv
<1>3. CASE Wake
  BY <1>1, <1>2, <1>3 DEF Wake, Shell, TnInv, ClientKept
<1>4. CASE ResetState
  BY <1>1, <1>2, <1>4 DEF ResetState, Shell, TnInv, ClientKept
<1>5. CASE SampleLive
  BY <1>1, <1>2, <1>5 DEF SampleLive, Shell, TnInv, ServerInv, ClientKept
<1>6. CASE StoreConnected
  BY <1>1, <1>2, <1>6 DEF StoreConnected, Shell, TnInv, ClientKept
<1>7. CASE DrawPrompt \/ ReadByte \/ NoByte \/ CommandEnds \/ Command
  <2>1. /\ shell \notin {"reset", "begin", "store"} /\ shell' \notin {"reset", "begin", "store"}
        /\ UNCHANGED <<evConn, begun, connected>>
    BY <1>7 DEF DrawPrompt, ReadByte, NoByte, CommandEnds, Command, Shell
  <2> QED
    BY <1>1, <1>2, <2>1 DEF TnInv, ClientKept
<1> QED
  BY <1>3, <1>4, <1>5, <1>6, <1>7 DEF Session

(* A client the server serves is never left without a session, nor the      *)
(* server with a client that has gone: the accept event or the session it    *)
(* begins is always on its way, or the gate is open for that very client,    *)
(* for any number of clients and wherever the callbacks of NetX come.        *)
THEOREM NoClientForgotten == TnSpec => []ClientKept
<1>1. TnInv /\ UNCHANGED tnVars => TnInv'
  BY DEF TnInv, ServerInv, ClientKept, tnVars, ipVars, shellVars
<1>2. TnInv /\ [TnNext]_tnVars => TnInv'
  BY <1>1, ClientsKeep, TelnetServes, SessionKeeps DEF TnNext
<1>3. TnInv => ClientKept
  BY DEF TnInv
<1> QED
  BY <1>2, <1>3, TnInitHolds, PTL DEF TnSpec

==============================================================================
