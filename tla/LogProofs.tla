------------------------------- MODULE LogProofs -----------------------------
(***************************************************************************)
(* Proofs about LogRing, the RAM log.  The records between tail and head   *)
(* are the links of a chain of offsets.  What a walk along them finds is   *)
(* an induction over data; tlapm can use no induction theorem that takes   *)
(* an operator, but it can use the one over sets below: a set of numbers   *)
(* (of links) that holds the first and with each the next holds them all.  *)
(***************************************************************************)
EXTENDS LogRing, SequenceTheorems, WellFoundedInduction, TLAPS

\* Numbers that are not empty have a least one.
LEMMA LeastNumber ==
  ASSUME NEW S, S \subseteq Nat, S # {}
  PROVE  \E x \in S : \A y \in S : x <= y
<1> DEFINE R == OpToRel(<, Nat)
<1>1. IsWellFoundedOn(R, Nat)
  BY NatLessThanWellFounded
<1>2. \A a, b \in Nat : a < b => <<a, b>> \in R
  BY DEF OpToRel
<1> HIDE DEF R
<1>3. PICK x \in S : \A y \in S : ~(<<y, x>> \in R)
  BY <1>1, WFMin
<1>4. ASSUME NEW y \in S PROVE x <= y
  <2>1. x \in Nat /\ y \in Nat /\ ~(<<y, x>> \in R)
    BY <1>3
  <2> QED
    BY <1>2, <2>1
<1> QED
  BY <1>4

\* Induction over the numbers up to one, for a set.
LEMMA NumbersUpTo ==
  ASSUME NEW N \in Nat, NEW P, 0 \in P, \A n \in 1 .. N : n - 1 \in P => n \in P
  PROVE  0 .. N \subseteq P
<1> DEFINE Bad == {n \in 0 .. N : n \notin P}
<1> SUFFICES ASSUME Bad # {} PROVE FALSE
  OBVIOUS
<1>0. Bad \subseteq Nat
  OBVIOUS
<1>1. PICK n \in Bad : \A y \in Bad : n <= y
  <2> HIDE DEF Bad
  <2> QED
    BY <1>0, LeastNumber
<1>2. n \in 1 .. N /\ n - 1 \in 0 .. N /\ n \notin P
  OBVIOUS
<1>3. n - 1 \notin Bad
  BY <1>1, <1>2
<1> QED
  BY <1>2, <1>3
------------------------------------------------------------------------------
(* RingOffsets run modulo OffMod; a ring position is an offset modulo RingSize. *)

LEMMA Sizes ==
  /\ RecMin \in Nat /\ RecMin >= 2 /\ RecMax \in Nat /\ RecMin <= RecMax
  /\ RingSize \in Nat /\ RingSize >= 2 * RecMax /\ RingSize >= 4
  /\ OffMod \in Nat /\ OffMod >= 4 * RingSize /\ OffMod % RingSize = 0
  /\ MaxSeq \in Nat
BY LogAssumption

\* A remainder is told by its range.
LEMMA RemainderIs ==
  ASSUME NEW m \in Nat \ {0}, NEW q \in Int, NEW r \in 0 .. m - 1
  PROVE  (m * q + r) % m = r
<1> DEFINE x == m * q + r
           u == x \div m
           v == x % m
           e == u - q
<1>0. x \in Int
  OBVIOUS
<1>1. u \in Int /\ v \in 0 .. m - 1 /\ x = (m * u) + v
  BY <1>0
<1>2. e \in Int /\ u = q + e
  BY <1>1
<1> HIDE DEF u, v, e
<1>3. m * u = m * q + m * e
  BY <1>2
<1>4. (m * e) + v = r
  <2>1. x = (m * q) + r
    BY DEF x
  <2>2. m * q \in Int /\ m * e \in Int
    BY <1>2
  <2> QED
    BY <1>1, <1>3, <2>1, <2>2
<1>5. CASE e >= 1
  <2>1. m * e >= m
    BY <1>2, <1>5
  <2> QED
    BY <1>1, <1>2, <1>4, <2>1
<1>6. CASE e <= -1
  <2>1. m * e <= -m
    BY <1>2, <1>6
  <2> QED
    BY <1>1, <1>2, <1>4, <2>1
<1>7. CASE e = 0
  <2>1. m * e = 0
    BY <1>7
  <2>2. v = r
    BY <1>1, <1>4, <2>1
  <2> QED
    BY <2>2 DEF v, x
<1> QED
  BY <1>2, <1>5, <1>6, <1>7

\* One wrap at most.
LEMMA WrapsOnce ==
  ASSUME NEW m \in Nat \ {0}, NEW x \in Int, -m <= x, x < 2 * m
  PROVE  x % m = IF x < 0 THEN x + m ELSE IF x < m THEN x ELSE x - m
<1>1. CASE x < 0
  <2>1. x = m * (-1) + (x + m) /\ x + m \in 0 .. m - 1
    BY <1>1
  <2> QED
    BY <1>1, <2>1, RemainderIs
<1>2. CASE 0 <= x /\ x < m
  <2>1. x = m * 0 + x /\ x \in 0 .. m - 1
    BY <1>2
  <2> QED
    BY <1>2, <2>1, RemainderIs
<1>3. CASE m <= x
  <2>1. x = m * 1 + (x - m) /\ x - m \in 0 .. m - 1
    BY <1>3
  <2> QED
    BY <1>3, <2>1, RemainderIs
<1> QED
  BY <1>1, <1>2, <1>3

LEMMA MinusIs ==
  ASSUME NEW a \in RingOffsets, NEW b \in RingOffsets
  PROVE  /\ Minus(a, b) \in RingOffsets
         /\ Minus(a, b) = IF a >= b THEN a - b ELSE a - b + OffMod
<1> DEFINE x == a - b
<1>1. OffMod \in Nat \ {0} /\ x \in Int /\ -OffMod <= x /\ x < 2 * OffMod /\ x < OffMod
  BY Sizes DEF RingOffsets
<1>2. Minus(a, b) = x % OffMod
  BY DEF Minus
<1> HIDE DEF x
<1>3. Minus(a, b) = IF x < 0 THEN x + OffMod ELSE x
  BY <1>1, <1>2, WrapsOnce
<1> QED
  BY <1>3, Sizes DEF x, RingOffsets

LEMMA PlusIs ==
  ASSUME NEW a \in RingOffsets, NEW n \in 0 .. OffMod
  PROVE  /\ Plus(a, n) \in RingOffsets
         /\ Plus(a, n) = IF a + n < OffMod THEN a + n ELSE a + n - OffMod
<1> DEFINE x == a + n
<1>1. OffMod \in Nat \ {0} /\ x \in Int /\ ~(x < 0) /\ -OffMod <= x /\ x < 2 * OffMod
  BY Sizes DEF RingOffsets
<1>2. Plus(a, n) = x % OffMod
  BY DEF Plus
<1> HIDE DEF x
<1>3. Plus(a, n) = IF x < OffMod THEN x ELSE x - OffMod
  BY <1>1, <1>2, WrapsOnce
<1> QED
  BY <1>3, Sizes DEF x, RingOffsets

\* Stepping n on from o leaves n less to go to h.
LEMMA Nearer ==
  ASSUME NEW h \in RingOffsets, NEW o \in RingOffsets, NEW n \in 0 .. Minus(h, o)
  PROVE  Plus(o, n) \in RingOffsets /\ Minus(h, Plus(o, n)) = Minus(h, o) - n
<1>1. Minus(h, o) \in RingOffsets /\ Minus(h, o) = IF h >= o THEN h - o ELSE h - o + OffMod
  BY MinusIs
<1> DEFINE p == Plus(o, n)
<1>2. p \in RingOffsets /\ p = IF o + n < OffMod THEN o + n ELSE o + n - OffMod
  <2>1. n \in 0 .. OffMod
    BY <1>1, Sizes DEF RingOffsets
  <2> QED
    BY <2>1, PlusIs
<1> HIDE DEF p
<1>3. Minus(h, p) = IF h >= p THEN h - p ELSE h - p + OffMod
  BY <1>2, MinusIs
<1>4. Minus(h, p) = Minus(h, o) - n
  BY <1>1, <1>2, <1>3, Sizes DEF RingOffsets
<1> QED
  BY <1>2, <1>4 DEF p

\* An end that moves n on is n further away.
LEMMA Further ==
  ASSUME NEW h \in RingOffsets, NEW o \in RingOffsets, NEW n \in Nat, Minus(h, o) + n < OffMod
  PROVE  Plus(h, n) \in RingOffsets /\ Minus(Plus(h, n), o) = Minus(h, o) + n
<1>1. Minus(h, o) \in RingOffsets /\ Minus(h, o) = IF h >= o THEN h - o ELSE h - o + OffMod
  BY MinusIs
<1> DEFINE p == Plus(h, n)
<1>2. p \in RingOffsets /\ p = IF h + n < OffMod THEN h + n ELSE h + n - OffMod
  <2>1. n \in 0 .. OffMod
    BY <1>1, Sizes DEF RingOffsets
  <2> QED
    BY <2>1, PlusIs
<1> HIDE DEF p
<1>3. Minus(p, o) = IF p >= o THEN p - o ELSE p - o + OffMod
  BY <1>2, MinusIs
<1>4. Minus(p, o) = Minus(h, o) + n
  BY <1>1, <1>2, <1>3, Sizes DEF RingOffsets
<1> QED
  BY <1>2, <1>4 DEF p

LEMMA Distances ==
  ASSUME NEW h \in RingOffsets, NEW o \in RingOffsets
  PROVE  /\ Minus(h, o) \in Nat /\ Minus(h, o) < OffMod /\ (Minus(h, o) = 0 <=> o = h)
         /\ Plus(o, Minus(h, o)) = h /\ Plus(h, 0) = h
<1>1. Minus(h, o) \in RingOffsets /\ Minus(h, o) = IF h >= o THEN h - o ELSE h - o + OffMod
  BY MinusIs
<1> DEFINE n == Minus(h, o)
<1>2. n \in 0 .. OffMod
  BY <1>1, Sizes DEF RingOffsets
<1> HIDE DEF n
<1>3. Plus(o, n) = IF o + n < OffMod THEN o + n ELSE o + n - OffMod
  BY <1>2, PlusIs
<1>4. Plus(h, 0) = IF h + 0 < OffMod THEN h + 0 ELSE h + 0 - OffMod
  BY PlusIs, Sizes
<1>5. n = IF h >= o THEN h - o ELSE h - o + OffMod
  BY <1>1 DEF n
<1>6. Plus(o, n) = h
  BY <1>2, <1>3, <1>5, Sizes DEF RingOffsets
<1> QED
  BY <1>1, <1>4, <1>6, Sizes DEF RingOffsets, n

LEMMA PositionIs ==
  ASSUME NEW o \in RingOffsets
  PROVE  At(o) \in 0 .. RingSize - 1
BY Sizes DEF At, RingOffsets

\* A position moves on as the offset does, for the ring's size divides OffMod.
LEMMA PositionMoves ==
  ASSUME NEW o \in RingOffsets, NEW n \in 0 .. RingSize
  PROVE  At(Plus(o, n)) = IF At(o) + n < RingSize THEN At(o) + n ELSE At(o) + n - RingSize
<1> DEFINE q == o \div RingSize
           p == o % RingSize
           k == OffMod \div RingSize
           x == Plus(o, n)
<1>1. RingSize \in Nat \ {0}
  BY Sizes
<1>2. q \in Int /\ p \in 0 .. RingSize - 1 /\ o = (RingSize * q) + p
  BY <1>1 DEF RingOffsets
<1>3. k \in Int /\ OffMod = RingSize * k
  BY <1>1, Sizes
<1>4. At(o) = p
  BY DEF At
<1>5. x = IF o + n < OffMod THEN o + n ELSE o + n - OffMod
  BY PlusIs, Sizes DEF RingOffsets
<1> HIDE DEF q, p, k, x
<1> DEFINE a == IF o + n < OffMod THEN q ELSE q - k
           r == IF p + n < RingSize THEN p + n ELSE p + n - RingSize
           b == IF p + n < RingSize THEN a ELSE a + 1
<1>6. a \in Int /\ b \in Int /\ r \in 0 .. RingSize - 1
  BY <1>1, <1>2, <1>3
<1>7. x = RingSize * a + (p + n)
  <2>1. RingSize * (q - k) = RingSize * q - RingSize * k
    BY <1>1, <1>2, <1>3
  <2> QED
    BY <1>1, <1>2, <1>3, <1>5, <2>1 DEF RingOffsets
<1> HIDE DEF a
<1>8. x = RingSize * b + r
  <2>1. RingSize * (a + 1) = RingSize * a + RingSize
    BY <1>1, <1>6
  <2>2. RingSize * a \in Int
    BY <1>1, <1>6
  <2>3. CASE p + n < RingSize
    BY <1>7, <2>3
  <2>4. CASE ~(p + n < RingSize)
    BY <1>1, <1>2, <1>7, <2>1, <2>2, <2>4
  <2> QED
    BY <2>3, <2>4
<1> HIDE DEF b, r
<1>9. x % RingSize = r
  BY <1>1, <1>6, <1>8, RemainderIs
<1> QED
  BY <1>4, <1>9 DEF At, x, r

\* Less than the ring's size apart is at different positions.
LEMMA PositionsDiffer ==
  ASSUME NEW o \in RingOffsets, NEW n \in 1 .. RingSize - 1
  PROVE  At(Plus(o, n)) # At(o)
BY PositionMoves, PositionIs, Sizes

\* What lies before h and what lies from h on, if the ring holds both.
LEMMA Apart ==
  ASSUME NEW h \in RingOffsets, NEW o \in RingOffsets, NEW j \in Nat, NEW k \in Nat,
         j < Minus(h, o), Minus(h, o) + k < RingSize
  PROVE  At(Plus(o, j)) # At(Plus(h, k))
<1> DEFINE x == Plus(o, j)
           n == Minus(h, o) - j + k
<1>1. x \in RingOffsets /\ Minus(h, x) = Minus(h, o) - j
  BY Nearer, Distances
<1>2. n \in 1 .. RingSize - 1
  BY Distances, Sizes
<1>3. Plus(h, k) = Plus(x, n)
  <2>0. h \in Nat /\ h < OffMod /\ x \in Nat /\ x < OffMod
    BY <1>1, Sizes DEF RingOffsets
  <2>1. Minus(h, x) = IF h >= x THEN h - x ELSE h - x + OffMod
    BY <1>1, MinusIs
  <2>2. k \in 0 .. OffMod /\ n \in 0 .. OffMod
    BY <1>2, Sizes, Distances
  <2>3. Plus(h, k) = IF h + k < OffMod THEN h + k ELSE h + k - OffMod
    BY <2>2, PlusIs
  <2>4. Plus(x, n) = IF x + n < OffMod THEN x + n ELSE x + n - OffMod
    BY <1>1, <2>2, PlusIs
  <2>5. n = Minus(h, x) + k /\ n < RingSize
    BY <1>1, <1>2, Sizes
  <2> HIDE DEF x, n
  <2> QED
    BY <2>0, <2>1, <2>2, <2>3, <2>4, <2>5, Sizes
<1> QED
  BY <1>1, <1>2, <1>3, PositionsDiffer
------------------------------------------------------------------------------
(* The chain of records, over any contents d of the ring, any ends h and t. *)

Words == [kind : {"none", "skip", "rec", "seq", "text"}, n : Nat]
Rings == [0 .. RingSize - 1 -> Words]
RecordOf(d, p) ==
    [seq |-> d[p + 1].n,
     whole |-> /\ d[p + 1].kind = "seq"
               /\ \A k \in 2 .. d[p].n - 1 : d[p + k] = Word("text", d[p + 1].n)]
PlausibleAt(d, p) ==
    \/ d[p].kind = "skip" /\ p + d[p].n = RingSize
    \/ d[p].kind = "rec" /\ d[p].n \in RecMin .. RecMax /\ p + d[p].n <= RingSize

\* At p there is a SKIP, not at the start, or a whole record with a number below s.
SoundSkip(d, p) == d[p].kind = "skip" /\ p # 0 /\ p + d[p].n = RingSize
SoundRecord(d, p, s) ==
    /\ d[p].kind = "rec" /\ d[p].n \in RecMin .. RecMax /\ p + d[p].n <= RingSize
    /\ RecordOf(d, p).whole /\ RecordOf(d, p).seq < s
SoundAt(d, p, s) == SoundSkip(d, p) \/ SoundRecord(d, p, s)

After(d, o) == Plus(o, d[At(o)].n)
Linked(d, h, s, S, o) ==
    SoundAt(d, At(o), s) /\ d[At(o)].n <= Minus(h, o) /\ After(d, o) \in S
\* o comes before q, on the way to h.
Before(h, o, q) == Minus(h, q) < Minus(h, o)
RecordNode(d, o) == d[At(o)].kind = "rec"
Number(d, o) == d[At(o) + 1].n

\* S is where the records and SKIPs from t to h begin, and h.
Spans(h, t, S) ==
    /\ S \subseteq RingOffsets /\ h \in S /\ t \in S /\ Minus(h, t) <= RingSize
    /\ \A o \in S : Minus(h, o) <= Minus(h, t)
Links(d, h, s, S) == \A o \in S \ {h} : Linked(d, h, s, S, o)
\* No two overlap, and the numbers of the records increase.
Disjoint(d, h, S) ==
    \A o, q \in S : Before(h, o, q) => Minus(h, q) + d[At(o)].n <= Minus(h, o)
Ordered(d, h, S) ==
    \A o, q \in S \ {h} :
        RecordNode(d, o) /\ RecordNode(d, q) /\ Before(h, o, q) => Number(d, o) < Number(d, q)
Chain(d, h, t, s, S) ==
    /\ d \in Rings /\ s \in Nat /\ Spans(h, t, S) /\ Links(d, h, s, S)
    /\ Disjoint(d, h, S) /\ Ordered(d, h, S)

\* What a link of the chain is.
LEMMA LinkIs ==
  ASSUME NEW d, NEW h, NEW t, NEW s, NEW S, Chain(d, h, t, s, S), NEW o \in S, o # h
  PROVE  /\ o \in RingOffsets /\ h \in RingOffsets /\ At(o) \in 0 .. RingSize - 1
         /\ d[At(o)] \in Words /\ d[At(o)].n \in 1 .. RingSize
         /\ SoundAt(d, At(o), s) /\ At(o) + d[At(o)].n <= RingSize
         /\ d[At(o)].n <= Minus(h, o) /\ Minus(h, o) \in 1 .. RingSize
         /\ After(d, o) \in S /\ Minus(h, After(d, o)) = Minus(h, o) - d[At(o)].n
         /\ Minus(h, o) <= Minus(h, t)
<1>1. /\ o \in RingOffsets /\ h \in RingOffsets /\ t \in RingOffsets /\ d \in Rings
      /\ Linked(d, h, s, S, o) /\ Minus(h, o) <= Minus(h, t) /\ Minus(h, t) <= RingSize
  BY DEF Chain, Spans, Links
<1>2. At(o) \in 0 .. RingSize - 1
  BY <1>1, PositionIs
<1>3. d[At(o)] \in Words
  BY <1>1, <1>2 DEF Rings
<1>4. d[At(o)].n \in Nat
  BY <1>3 DEF Words
<1>5. SoundAt(d, At(o), s) /\ d[At(o)].n <= Minus(h, o) /\ After(d, o) \in S
  BY <1>1 DEF Linked
<1>6. d[At(o)].n \in 1 .. RingSize /\ At(o) + d[At(o)].n <= RingSize
  <2>1. CASE SoundSkip(d, At(o))
    BY <2>1, <1>2, <1>4, Sizes DEF SoundSkip
  <2>2. CASE SoundRecord(d, At(o), s)
    BY <2>2, <1>2, <1>4, Sizes DEF SoundRecord
  <2> QED
    BY <1>5, <2>1, <2>2 DEF SoundAt
<1>7. Minus(h, o) \in 1 .. RingSize
  BY <1>1, Distances, Sizes
<1>8. d[At(o)].n \in 0 .. Minus(h, o)
  BY <1>5, <1>6, <1>7
<1>9. Minus(h, After(d, o)) = Minus(h, o) - d[At(o)].n
  BY <1>1, <1>8, Nearer DEF After
<1> QED
  BY <1>1, <1>2, <1>3, <1>5, <1>6, <1>7, <1>9

\* Induction along the chain, from its end: a set.
LEMMA AlongChain ==
  ASSUME NEW d, NEW h, NEW t, NEW s, NEW S, Chain(d, h, t, s, S),
         NEW P, h \in P, \A o \in S \ {h} : After(d, o) \in P => o \in P
  PROVE  S \subseteq P
<1> DEFINE Bad == {o \in S : o \notin P}
           Far == {Minus(h, o) : o \in Bad}
<1> SUFFICES ASSUME Bad # {} PROVE FALSE
  OBVIOUS
<1>0. S \subseteq RingOffsets /\ h \in RingOffsets
  BY DEF Chain, Spans
<1>1. Far \subseteq Nat /\ Far # {}
  <2>1. \A o \in Bad : Minus(h, o) \in Nat
    BY <1>0, Distances
  <2> QED
    BY <2>1
<1>2. PICK x \in Far : \A y \in Far : x <= y
  <2> HIDE DEF Far
  <2> QED
    BY <1>1, LeastNumber
<1>3. PICK o \in Bad : x = Minus(h, o)
  BY <1>2
<1>4. o \in S /\ o # h /\ o \notin P
  OBVIOUS
<1>5. After(d, o) \in Bad
  BY <1>4, LinkIs
<1>6. x <= Minus(h, After(d, o))
  BY <1>2, <1>5
<1>7. /\ Minus(h, After(d, o)) = Minus(h, o) - d[At(o)].n
      /\ d[At(o)].n \in 1 .. RingSize /\ Minus(h, o) \in 1 .. RingSize
  BY <1>4, LinkIs
<1> QED
  BY <1>3, <1>6, <1>7, Sizes

\* A ring that was emptied is a chain of nothing.
LEMMA EmptyChain ==
  ASSUME NEW d \in Rings, NEW h \in RingOffsets, NEW s \in Nat
  PROVE  Chain(d, h, h, s, {h})
<1>1. Minus(h, h) = 0
  BY Distances
<1>2. Spans(h, h, {h})
  BY <1>1, Sizes DEF Spans
<1>3. Links(d, h, s, {h}) /\ Disjoint(d, h, {h}) /\ Ordered(d, h, {h})
  BY <1>1 DEF Links, Disjoint, Ordered, Before
<1> QED
  BY <1>2, <1>3 DEF Chain

\* The next number may grow.
LEMMA ChainBelow ==
  ASSUME NEW d, NEW h, NEW t, NEW s, NEW S, Chain(d, h, t, s, S), NEW s2 \in Nat, s <= s2
  PROVE  Chain(d, h, t, s2, S)
<1>1. d \in Rings /\ s \in Nat
  BY DEF Chain
<1>2. ASSUME NEW o \in S \ {h} PROVE Linked(d, h, s2, S, o)
  <2>1. SoundAt(d, At(o), s) /\ At(o) \in 0 .. RingSize - 1 /\ At(o) + d[At(o)].n <= RingSize
    BY LinkIs
  <2>2. SoundAt(d, At(o), s2)
    <3>1. CASE SoundRecord(d, At(o), s)
      <4>1. d[At(o)].n >= 2
        BY <3>1, Sizes DEF SoundRecord
      <4>2. At(o) + 1 \in 0 .. RingSize - 1
        BY <2>1, <3>1, <4>1, Sizes DEF SoundRecord
      <4>3. d[At(o) + 1] \in Words
        BY <1>1, <4>2 DEF Rings
      <4>4. RecordOf(d, At(o)).seq \in Nat
        BY <4>3 DEF RecordOf, Words
      <4>5. RecordOf(d, At(o)).seq < s2
        BY <1>1, <3>1, <4>4 DEF SoundRecord
      <4> QED
        BY <3>1, <4>5 DEF SoundAt, SoundRecord
    <3> QED
      BY <2>1, <3>1 DEF SoundAt
  <2> QED
    BY <2>2 DEF Chain, Links, Linked
<1> QED
  BY <1>2 DEF Chain, Links

\* The oldest goes.
LEMMA ChainWithoutOldest ==
  ASSUME NEW d, NEW h, NEW t, NEW s, NEW S, Chain(d, h, t, s, S), t # h
  PROVE  Chain(d, h, After(d, t), s, {o \in S : Minus(h, o) <= Minus(h, After(d, t))})
<1> DEFINE u == After(d, t)
           U == {o \in S : Minus(h, o) <= Minus(h, u)}
<1>1. t \in S /\ h \in S /\ S \subseteq RingOffsets
  BY DEF Chain, Spans
<1>2. u \in S /\ Minus(h, u) = Minus(h, t) - d[At(t)].n /\ d[At(t)].n \in Nat /\ Minus(h, t) \in 1 .. RingSize
  BY <1>1, LinkIs
<1>3. \A o \in S : Minus(h, o) \in Nat
  BY <1>1, Distances
<1>4. Minus(h, h) = 0
  BY <1>1, Distances
<1> HIDE DEF u
<1>5. Spans(h, u, U)
  BY <1>1, <1>2, <1>3, <1>4, Sizes DEF Spans
<1>6. ASSUME NEW o \in U \ {h} PROVE Linked(d, h, s, U, o)
  <2>1. /\ After(d, o) \in S /\ Minus(h, After(d, o)) = Minus(h, o) - d[At(o)].n
        /\ d[At(o)].n \in 1 .. RingSize /\ SoundAt(d, At(o), s) /\ d[At(o)].n <= Minus(h, o)
    BY LinkIs
  <2>2. After(d, o) \in U
    BY <1>2, <1>3, <2>1, Sizes
  <2> QED
    BY <2>1, <2>2 DEF Linked
<1>7. Disjoint(d, h, U) /\ Ordered(d, h, U)
  BY DEF Chain, Disjoint, Ordered
<1> QED
  BY <1>5, <1>6, <1>7 DEF Chain, Links, u

\* Words outside the chain may change.
LEMMA ChainUntouched ==
  ASSUME NEW d, NEW h, NEW t, NEW s, NEW S, Chain(d, h, t, s, S), NEW e \in Rings,
         \A o \in S \ {h} : \A j \in 0 .. d[At(o)].n - 1 : e[At(o) + j] = d[At(o) + j]
  PROVE  /\ Chain(e, h, t, s, S)
         /\ \A o \in S \ {h} :
                e[At(o)] = d[At(o)] /\ (RecordNode(d, o) => RecordOf(e, At(o)) = RecordOf(d, At(o)))
<1>1. ASSUME NEW o \in S, o # h
      PROVE  /\ e[At(o)] = d[At(o)] /\ PlausibleAt(e, At(o)) /\ PlausibleAt(d, At(o))
             /\ RecordNode(d, o) => RecordOf(e, At(o)) = RecordOf(d, At(o)) /\ Number(e, o) = Number(d, o)
             /\ SoundAt(e, At(o), s)
  <2> DEFINE p == At(o)
  <2>1. SoundAt(d, p, s) /\ d[p].n \in 1 .. RingSize /\ p \in 0 .. RingSize - 1 /\ p + d[p].n <= RingSize
    BY <1>1, LinkIs
  <2>2. \A j \in 0 .. d[p].n - 1 : e[p + j] = d[p + j]
    BY <1>1
  <2> HIDE DEF p
  <2>3. e[p] = d[p]
    <3>1. 0 \in 0 .. d[p].n - 1
      BY <2>1
    <3>2. e[p + 0] = d[p + 0]
      BY <2>2, <3>1
    <3> QED
      BY <2>1, <3>2
  <2>4. ASSUME d[p].kind = "rec" PROVE d[p].n >= 2 /\ RecordOf(e, p) = RecordOf(d, p) /\ e[p + 1] = d[p + 1]
    <3>1. d[p].n >= 2
      BY <2>1, <2>4, Sizes DEF SoundAt, SoundSkip, SoundRecord
    <3>2. e[p + 1] = d[p + 1]
      BY <2>1, <2>2, <3>1
    <3>3. \A k \in 2 .. d[p].n - 1 : e[p + k] = d[p + k]
      BY <2>1, <2>2
    <3> QED
      BY <2>3, <3>1, <3>2, <3>3 DEF RecordOf
  <2>5. SoundAt(e, p, s)
    <3>1. CASE SoundSkip(d, p)
      BY <2>3, <3>1 DEF SoundAt, SoundSkip
    <3>2. CASE SoundRecord(d, p, s)
      BY <2>3, <2>4, <3>2 DEF SoundAt, SoundRecord
    <3> QED
      BY <2>1, <3>1, <3>2 DEF SoundAt
  <2>6. PlausibleAt(e, p) /\ PlausibleAt(d, p)
    BY <2>1, <2>5 DEF SoundAt, SoundSkip, SoundRecord, PlausibleAt
  <2>7. RecordNode(d, o) => RecordOf(e, p) = RecordOf(d, p) /\ Number(e, o) = Number(d, o)
    BY <2>4 DEF RecordNode, Number, p
  <2> QED
    BY <2>3, <2>5, <2>6, <2>7 DEF p
<1>2. Links(e, h, s, S)
  <2> SUFFICES ASSUME NEW o \in S \ {h} PROVE Linked(e, h, s, S, o)
    BY DEF Links
  <2>1. Linked(d, h, s, S, o)
    BY DEF Chain, Links
  <2> QED
    BY <1>1, <2>1 DEF Linked, After
<1>3. Disjoint(e, h, S)
  <2> SUFFICES ASSUME NEW o \in S, NEW q \in S, Before(h, o, q)
               PROVE  Minus(h, q) + e[At(o)].n <= Minus(h, o)
    BY DEF Disjoint
  <2>1. o # h
    <3>1. Minus(h, h) = 0 /\ Minus(h, q) \in Nat
      BY Distances DEF Chain, Spans
    <3> QED
      BY <3>1 DEF Before
  <2>2. Minus(h, q) + d[At(o)].n <= Minus(h, o)
    BY DEF Chain, Disjoint
  <2> QED
    BY <1>1, <2>1, <2>2
<1>4. Ordered(e, h, S)
  <2> SUFFICES ASSUME NEW o \in S \ {h}, NEW q \in S \ {h}, RecordNode(e, o), RecordNode(e, q), Before(h, o, q)
               PROVE  Number(e, o) < Number(e, q)
    BY DEF Ordered
  <2>1. e[At(o)] = d[At(o)] /\ e[At(q)] = d[At(q)]
    BY <1>1
  <2>2. RecordNode(d, o) /\ RecordNode(d, q)
    BY <2>1 DEF RecordNode
  <2>3. Number(e, o) = Number(d, o) /\ Number(e, q) = Number(d, q)
    BY <1>1, <2>2
  <2>4. Number(d, o) < Number(d, q)
    BY <2>2 DEF Chain, Ordered
  <2> QED
    BY <2>3, <2>4
<1>5. Chain(e, h, t, s, S)
  BY <1>2, <1>3, <1>4 DEF Chain
<1> QED
  BY <1>1, <1>5
\* A SKIP or a record is put behind the last.
LEMMA ChainExtended ==
  ASSUME NEW d, NEW h, NEW t, NEW s, NEW S, Chain(d, h, t, s, S), NEW s2 \in Nat, s <= s2,
         SoundAt(d, At(h), s2), Minus(h, t) + d[At(h)].n <= RingSize,
         RecordNode(d, h) => s <= Number(d, h)
  PROVE  /\ Chain(d, After(d, h), t, s2, S \union {After(d, h)})
         /\ d[At(h)].n \in 1 .. RingSize /\ After(d, h) \in RingOffsets /\ After(d, h) \notin S
         /\ \A o \in S : Minus(After(d, h), o) = Minus(h, o) + d[At(h)].n
<1> DEFINE n == d[At(h)].n
           g == After(d, h)
           U == S \union {g}
<1>1. /\ Chain(d, h, t, s2, S) /\ d \in Rings /\ s \in Nat /\ S \subseteq RingOffsets /\ h \in S /\ t \in S
      /\ \A o \in S : Minus(h, o) <= Minus(h, t)
  BY ChainBelow DEF Chain, Spans
<1>2. At(h) \in 0 .. RingSize - 1
  BY <1>1, PositionIs
<1>3. n \in Nat
  BY <1>1, <1>2 DEF Rings, Words
<1>4. n \in 1 .. RingSize
  <2>1. CASE SoundSkip(d, At(h))
    BY <2>1, <1>2, <1>3, Sizes DEF SoundSkip
  <2>2. CASE SoundRecord(d, At(h), s2)
    BY <2>2, <1>2, <1>3, Sizes DEF SoundRecord
  <2> QED
    BY <2>1, <2>2 DEF SoundAt
<1>5. \A o \in S : Minus(h, o) \in Nat /\ Minus(h, o) <= Minus(h, t)
  BY <1>1, Distances
<1>6. Minus(h, h) = 0
  BY <1>1, Distances
<1> HIDE DEF n
<1>7. ASSUME NEW o \in S PROVE g \in RingOffsets /\ Minus(g, o) = Minus(h, o) + n
  <2>1. Minus(h, o) + n < OffMod
    <3>1. Minus(h, t) + n <= RingSize /\ Minus(h, t) \in Nat
      BY <1>1, <1>5 DEF n
    <3> QED
      BY <1>4, <1>5, <3>1, Sizes
  <2> QED
    BY <1>1, <1>4, <2>1, Further DEF After, n
<1>8. g \in RingOffsets
  BY <1>1, <1>7
<1>9. Minus(g, g) = 0
  BY <1>8, Distances
<1>10. g \notin S
  BY <1>4, <1>5, <1>7, <1>9
<1>11. Spans(g, t, U)
  <2>1. Minus(g, t) <= RingSize
    BY <1>1, <1>7 DEF n
  <2>2. \A o \in U : Minus(g, o) <= Minus(g, t)
    BY <1>1, <1>4, <1>5, <1>7, <1>9
  <2> QED
    BY <1>1, <1>8, <2>1, <2>2 DEF Spans
<1>12. ASSUME NEW o \in U \ {g} PROVE Linked(d, g, s2, U, o)
  <2>1. CASE o = h
    <3>1. Minus(g, o) = n
      BY <1>1, <1>3, <1>6, <1>7, <2>1
    <3> QED
      BY <1>4, <2>1, <3>1 DEF Linked, n
  <2>2. CASE o # h
    <3>1. o \in S /\ Linked(d, h, s2, S, o)
      BY <1>1, <2>2 DEF Chain, Links
    <3>2. Minus(g, o) = Minus(h, o) + n /\ Minus(h, o) \in Nat
      BY <1>5, <1>7, <3>1
    <3>3. d[At(o)].n \in 1 .. RingSize /\ d[At(o)].n <= Minus(h, o)
      BY <2>2, <3>1, LinkIs
    <3> QED
      BY <1>4, <3>1, <3>2, <3>3 DEF Linked
  <2> QED
    BY <2>1, <2>2
<1>13. Disjoint(d, g, U)
  <2> SUFFICES ASSUME NEW o \in U, NEW q \in U, Before(g, o, q)
               PROVE  Minus(g, q) + d[At(o)].n <= Minus(g, o)
    BY DEF Disjoint
  <2>1. o # g
    BY <1>4, <1>5, <1>7, <1>9 DEF Before
  <2>2. o \in S
    BY <2>1
  <2>3. CASE o = h
    <3>1. Minus(g, o) = n /\ d[At(o)].n = n
      BY <1>1, <1>3, <1>6, <1>7, <2>3 DEF n
    <3>2. q = g
      BY <1>4, <1>5, <1>7, <3>1 DEF Before
    <3> QED
      BY <1>4, <1>9, <3>1, <3>2
  <2>4. CASE o # h
    <3>1. d[At(o)].n \in 1 .. RingSize /\ d[At(o)].n <= Minus(h, o)
      BY <2>2, <2>4, LinkIs
    <3>2. CASE q = g
      BY <1>4, <1>5, <1>7, <1>9, <2>2, <3>1, <3>2
    <3>3. CASE q \in S
      <4>1. Before(h, o, q)
        BY <1>4, <1>5, <1>7, <2>2, <3>3 DEF Before
      <4>2. Minus(h, q) + d[At(o)].n <= Minus(h, o)
        BY <2>2, <3>3, <4>1 DEF Chain, Disjoint
      <4> QED
        BY <1>4, <1>5, <1>7, <2>2, <3>1, <3>3, <4>2
    <3> QED
      BY <3>2, <3>3
  <2> QED
    BY <2>3, <2>4
<1>14. Ordered(d, g, U)
  <2> SUFFICES ASSUME NEW o \in S, NEW q \in S, RecordNode(d, o), RecordNode(d, q), Before(g, o, q)
               PROVE  Number(d, o) < Number(d, q)
    BY <1>10 DEF Ordered
  <2>1. Before(h, o, q)
    BY <1>4, <1>5, <1>7 DEF Before
  <2>2. o # h
    BY <1>5, <1>6, <2>1 DEF Before
  <2>3. CASE q = h
    <3>1. SoundAt(d, At(o), s) /\ At(o) \in 0 .. RingSize - 1 /\ At(o) + d[At(o)].n <= RingSize
      BY <2>2, LinkIs
    <3>2. RecordOf(d, At(o)).seq < s /\ d[At(o)].n \in RecMin .. RecMax
      BY <3>1 DEF RecordNode, SoundAt, SoundSkip, SoundRecord
    <3>3. At(o) + 1 \in 0 .. RingSize - 1
      BY <3>1, <3>2, Sizes
    <3>4. Number(d, o) \in Nat /\ Number(d, o) < s
      BY <1>1, <3>2, <3>3 DEF RecordOf, Number, Rings, Words
    <3>5. Number(d, h) \in Nat
      <4>1. d[At(h)].n \in RecMin .. RecMax /\ At(h) + d[At(h)].n <= RingSize
        BY <2>3 DEF RecordNode, SoundAt, SoundSkip, SoundRecord
      <4>2. At(h) + 1 \in 0 .. RingSize - 1
        BY <1>2, <4>1, Sizes
      <4> QED
        BY <1>1, <4>2 DEF Number, Rings, Words
    <3>6. s <= Number(d, h)
      BY <2>3
    <3> QED
      BY <1>1, <2>3, <3>4, <3>5, <3>6
  <2>4. CASE q # h
    BY <2>1, <2>2, <2>4 DEF Chain, Ordered
  <2> QED
    BY <2>3, <2>4
<1>15. Chain(d, g, t, s2, U)
  BY <1>1, <1>11, <1>12, <1>13, <1>14 DEF Chain, Links
<1> QED
  BY <1>4, <1>7, <1>8, <1>10, <1>15 DEF n
------------------------------------------------------------------------------
(* What the two recursive functions of the model are: such functions exist, *)
(* so that each is one of them.                                             *)

Piece(d, o) == IF RecordNode(d, o) THEN <<RecordOf(d, At(o))>> ELSE <<>>
ReadStep(f, d, h) == [n \in 0 .. RingSize |-> [off \in RingOffsets |->
    IF n = 0 \/ off = h \/ ~ PlausibleAt(d, At(off)) THEN <<>>
    ELSE Piece(d, off) \o f[n - 1][After(d, off)]]]
Reads(f, d, h) ==
    \A n \in 0 .. RingSize : \A off \in RingOffsets : f[n][off] =
        IF n = 0 \/ off = h \/ ~ PlausibleAt(d, At(off)) THEN <<>>
        ELSE Piece(d, off) \o f[n - 1][After(d, off)]
WalkStep(f, d, h) == [n \in 0 .. RingSize |-> [off \in RingOffsets |->
    IF n = 0 \/ off = h \/ Minus(h, off) > RingSize \/ ~ PlausibleAt(d, At(off)) THEN off
    ELSE f[n - 1][After(d, off)]]]
Walks(f, d, h) ==
    \A n \in 0 .. RingSize : \A off \in RingOffsets : f[n][off] =
        IF n = 0 \/ off = h \/ Minus(h, off) > RingSize \/ ~ PlausibleAt(d, At(off)) THEN off
        ELSE f[n - 1][After(d, off)]

LEMMA ReadingExists ==
  ASSUME NEW d, NEW h
  PROVE  \E f : f = ReadStep(f, d, h)
<1> DEFINE Row(f, n) == [off \in RingOffsets |->
               IF n = 0 \/ off = h \/ ~ PlausibleAt(d, At(off)) THEN <<>>
               ELSE Piece(d, off) \o f[n - 1][After(d, off)]]
           Upto(n) == \E f : f = [k \in 0 .. n |-> Row(f, k)]
           P == {n \in 0 .. RingSize : Upto(n)}
<1>1. 0 \in P
  <2> DEFINE f == [k \in 0 .. 0 |-> [off \in RingOffsets |-> <<>>]]
  <2>1. f = [k \in 0 .. 0 |-> Row(f, k)]
    OBVIOUS
  <2>2. Upto(0)
    BY <2>1
  <2> HIDE DEF f, Upto
  <2> QED
    BY <2>2, Sizes
<1>2. ASSUME NEW n \in 1 .. RingSize, n - 1 \in P PROVE n \in P
  <2>1. PICK g : g = [k \in 0 .. n - 1 |-> Row(g, k)]
    BY <1>2
  <2> DEFINE f == [k \in 0 .. n |-> IF k = n THEN Row(g, n) ELSE g[k]]
  <2>2. \A k \in 0 .. n - 1 : f[k] = g[k]
    OBVIOUS
  <2>3. \A k \in 0 .. n : k # 0 => f[k - 1] = g[k - 1]
    <3>1. \A k \in 0 .. n : k # 0 => k - 1 \in 0 .. n - 1
      OBVIOUS
    <3> HIDE DEF f
    <3> QED
      BY <2>2, <3>1
  <2>4. ASSUME NEW k \in 0 .. n PROVE Row(f, k) = Row(g, k)
    <3>1. CASE k = 0
      BY <3>1
    <3>2. CASE k # 0
      <4> HIDE DEF f
      <4> QED
        BY <2>3, <3>2
    <3> QED
      BY <3>1, <3>2
  <2>5. \A k \in 0 .. n : f[k] = Row(g, k)
    <3> HIDE DEF Row
    <3>1. \A k \in 0 .. n - 1 : g[k] = Row(g, k)
      BY <2>1
    <3>2. ASSUME NEW k \in 0 .. n PROVE f[k] = Row(g, k)
      <4>1. CASE k = n
        BY <4>1
      <4>2. CASE k # n
        BY <3>1, <4>2
      <4> QED
        BY <4>1, <4>2
    <3> QED
      BY <3>2
  <2>6. f = [k \in 0 .. n |-> Row(f, k)]
    <3>1. f = [k \in 0 .. n |-> f[k]]
      OBVIOUS
    <3> HIDE DEF f, Row
    <3>2. \A k \in 0 .. n : f[k] = Row(f, k)
      BY <2>4, <2>5
    <3> QED
      BY <3>1, <3>2
  <2> HIDE DEF f, Row
  <2> QED
    BY <2>6
<1>3. RingSize \in P
  <2> HIDE DEF P
  <2>1. \A n \in 1 .. RingSize : n - 1 \in P => n \in P
    BY <1>2
  <2> QED
    BY <1>1, <2>1, NumbersUpTo, Sizes
<1>4. Upto(RingSize)
  <2> HIDE DEF Upto
  <2> QED
    BY <1>3
<1> QED
  BY <1>4 DEF ReadStep

LEMMA WalkExists ==
  ASSUME NEW d, NEW h
  PROVE  \E f : f = WalkStep(f, d, h)
<1> DEFINE Row(f, n) == [off \in RingOffsets |->
               IF n = 0 \/ off = h \/ Minus(h, off) > RingSize \/ ~ PlausibleAt(d, At(off)) THEN off
               ELSE f[n - 1][After(d, off)]]
           Upto(n) == \E f : f = [k \in 0 .. n |-> Row(f, k)]
           P == {n \in 0 .. RingSize : Upto(n)}
<1>1. 0 \in P
  <2> DEFINE f == [k \in 0 .. 0 |-> [off \in RingOffsets |-> off]]
  <2>1. f = [k \in 0 .. 0 |-> Row(f, k)]
    OBVIOUS
  <2>2. Upto(0)
    BY <2>1
  <2> HIDE DEF f, Upto
  <2> QED
    BY <2>2, Sizes
<1>2. ASSUME NEW n \in 1 .. RingSize, n - 1 \in P PROVE n \in P
  <2>1. PICK g : g = [k \in 0 .. n - 1 |-> Row(g, k)]
    BY <1>2
  <2> DEFINE f == [k \in 0 .. n |-> IF k = n THEN Row(g, n) ELSE g[k]]
  <2>2. \A k \in 0 .. n - 1 : f[k] = g[k]
    OBVIOUS
  <2>3. \A k \in 0 .. n : k # 0 => f[k - 1] = g[k - 1]
    <3>1. \A k \in 0 .. n : k # 0 => k - 1 \in 0 .. n - 1
      OBVIOUS
    <3> HIDE DEF f
    <3> QED
      BY <2>2, <3>1
  <2>4. ASSUME NEW k \in 0 .. n PROVE Row(f, k) = Row(g, k)
    <3>1. CASE k = 0
      BY <3>1
    <3>2. CASE k # 0
      <4> HIDE DEF f
      <4> QED
        BY <2>3, <3>2
    <3> QED
      BY <3>1, <3>2
  <2>5. \A k \in 0 .. n : f[k] = Row(g, k)
    <3> HIDE DEF Row
    <3>1. \A k \in 0 .. n - 1 : g[k] = Row(g, k)
      BY <2>1
    <3>2. ASSUME NEW k \in 0 .. n PROVE f[k] = Row(g, k)
      <4>1. CASE k = n
        BY <4>1
      <4>2. CASE k # n
        BY <3>1, <4>2
      <4> QED
        BY <4>1, <4>2
    <3> QED
      BY <3>2
  <2>6. f = [k \in 0 .. n |-> Row(f, k)]
    <3>1. f = [k \in 0 .. n |-> f[k]]
      OBVIOUS
    <3> HIDE DEF f, Row
    <3>2. \A k \in 0 .. n : f[k] = Row(f, k)
      BY <2>4, <2>5
    <3> QED
      BY <3>1, <3>2
  <2> HIDE DEF f, Row
  <2> QED
    BY <2>6
<1>3. RingSize \in P
  <2> HIDE DEF P
  <2>1. \A n \in 1 .. RingSize : n - 1 \in P => n \in P
    BY <1>2
  <2> QED
    BY <1>1, <2>1, NumbersUpTo, Sizes
<1>4. Upto(RingSize)
  <2> HIDE DEF Upto
  <2> QED
    BY <1>3
<1> QED
  BY <1>4 DEF WalkStep

LEMMA ReadsIs ==
  ASSUME NEW d, NEW h, NEW f, f = ReadStep(f, d, h)
  PROVE  Reads(f, d, h)
<1> DEFINE Row(g, n) == [off \in RingOffsets |->
               IF n = 0 \/ off = h \/ ~ PlausibleAt(d, At(off)) THEN <<>>
               ELSE Piece(d, off) \o g[n - 1][After(d, off)]]
<1>1. f = [n \in 0 .. RingSize |-> Row(f, n)]
  BY DEF ReadStep
<1>2. \A n \in 0 .. RingSize : f[n] = Row(f, n)
  <2> HIDE DEF Row
  <2> QED
    BY <1>1
<1>3. \A n \in 0 .. RingSize : \A off \in RingOffsets : Row(f, n)[off] =
          IF n = 0 \/ off = h \/ ~ PlausibleAt(d, At(off)) THEN <<>>
          ELSE Piece(d, off) \o f[n - 1][After(d, off)]
  OBVIOUS
<1> HIDE DEF Row
<1> QED
  BY <1>2, <1>3 DEF Reads

LEMMA WalksIs ==
  ASSUME NEW d, NEW h, NEW f, f = WalkStep(f, d, h)
  PROVE  Walks(f, d, h)
<1> DEFINE Row(g, n) == [off \in RingOffsets |->
               IF n = 0 \/ off = h \/ Minus(h, off) > RingSize \/ ~ PlausibleAt(d, At(off)) THEN off
               ELSE g[n - 1][After(d, off)]]
<1>1. f = [n \in 0 .. RingSize |-> Row(f, n)]
  BY DEF WalkStep
<1>2. \A n \in 0 .. RingSize : f[n] = Row(f, n)
  <2> HIDE DEF Row
  <2> QED
    BY <1>1
<1>3. \A n \in 0 .. RingSize : \A off \in RingOffsets : Row(f, n)[off] =
          IF n = 0 \/ off = h \/ Minus(h, off) > RingSize \/ ~ PlausibleAt(d, At(off)) THEN off
          ELSE f[n - 1][After(d, off)]
  OBVIOUS
<1> HIDE DEF Row
<1> QED
  BY <1>2, <1>3 DEF Walks

LEMMA RecordsReads == Reads(Records, data, head)
<1>1. Records = CHOOSE f : f = ReadStep(f, data, head)
  BY DEF Records, ReadStep, PlausibleAt, Plausible, Piece, RecordNode, RecordOf, RecordAt, After
<1>2. Records = ReadStep(Records, data, head)
  BY <1>1, ReadingExists
<1> QED
  BY <1>2, ReadsIs

LEMMA RecordsReadsNext == Reads(Records', data', head')
<1>1. Records' = CHOOSE f : f = ReadStep(f, data', head')
  BY DEF Records, ReadStep, PlausibleAt, Plausible, Piece, RecordNode, RecordOf, RecordAt, After
<1>2. Records' = ReadStep(Records', data', head')
  BY <1>1, ReadingExists
<1> QED
  BY <1>2, ReadsIs

LEMMA WalkWalks == Walks(Walk, data, head)
<1>1. Walk = CHOOSE f : f = WalkStep(f, data, head)
  BY DEF Walk, WalkStep, PlausibleAt, Plausible, After
<1>2. Walk = WalkStep(Walk, data, head)
  BY <1>1, WalkExists
<1> QED
  BY <1>2, WalksIs
------------------------------------------------------------------------------
(* What walking and reading along a chain finds.                            *)

LogRecord(s) == [seq : 0 .. s - 1, whole : {TRUE}]

LEMMA RecordOfLink ==
  ASSUME NEW d, NEW h, NEW t, NEW s, NEW S, Chain(d, h, t, s, S), NEW o \in S, o # h
  PROVE  /\ d[At(o)].kind \in {"rec", "skip"} /\ PlausibleAt(d, At(o))
         /\ RecordNode(d, o) => /\ RecordOf(d, At(o)) \in LogRecord(s) /\ RecordOf(d, At(o)).seq = Number(d, o)
                                /\ Number(d, o) \in Nat /\ At(o) + 1 \in 0 .. RingSize - 1
<1> DEFINE p == At(o)
<1>1. SoundAt(d, p, s) /\ p \in 0 .. RingSize - 1 /\ d \in Rings /\ s \in Nat
  BY LinkIs DEF Chain
<1>2. d[p].kind \in {"rec", "skip"} /\ PlausibleAt(d, p)
  BY <1>1 DEF SoundAt, SoundSkip, SoundRecord, PlausibleAt
<1>3. ASSUME RecordNode(d, o)
      PROVE  /\ RecordOf(d, p) \in LogRecord(s) /\ RecordOf(d, p).seq = Number(d, o)
             /\ Number(d, o) \in Nat /\ p + 1 \in 0 .. RingSize - 1
  <2>1. SoundRecord(d, p, s)
    BY <1>1, <1>3 DEF RecordNode, SoundAt, SoundSkip
  <2>2. p + 1 \in 0 .. RingSize - 1
    BY <1>1, <2>1, Sizes DEF SoundRecord
  <2>3. d[p + 1] \in Words
    BY <1>1, <2>2 DEF Rings
  <2>4. RecordOf(d, p).seq = d[p + 1].n /\ d[p + 1].n \in Nat
    BY <2>3 DEF RecordOf, Words
  <2>5. d[p + 1].n \in 0 .. s - 1
    BY <1>1, <2>1, <2>4 DEF SoundRecord
  <2>6. (RecordOf(d, p).whole) = TRUE
    <3>1. RecordOf(d, p).whole
      BY <2>1 DEF SoundRecord
    <3>2. RecordOf(d, p).whole \in BOOLEAN
      BY DEF RecordOf
    <3> QED
      BY <3>1, <3>2
  <2>7. RecordOf(d, p) = [seq |-> RecordOf(d, p).seq, whole |-> RecordOf(d, p).whole]
    BY DEF RecordOf
  <2>8. RecordOf(d, p) = [seq |-> d[p + 1].n, whole |-> TRUE]
    BY <2>4, <2>6, <2>7
  <2>9. RecordOf(d, p) \in LogRecord(s)
    BY <2>5, <2>8 DEF LogRecord
  <2> QED
    BY <2>2, <2>4, <2>9 DEF Number
<1> QED
  BY <1>1, <1>2, <1>3

LEMMA PieceIs ==
  ASSUME NEW d, NEW h, NEW t, NEW s, NEW S, Chain(d, h, t, s, S), NEW o \in S, o # h
  PROVE  Piece(d, o) \in Seq(LogRecord(s))
<1>1. CASE RecordNode(d, o)
  <2>1. RecordOf(d, At(o)) \in LogRecord(s)
    BY <1>1, RecordOfLink
  <2>2. Piece(d, o) = <<RecordOf(d, At(o))>>
    BY <1>1 DEF Piece
  <2> QED
    BY <2>1, <2>2
<1>2. CASE ~ RecordNode(d, o)
  BY <1>2 DEF Piece
<1> QED
  BY <1>1, <1>2

LEMMA ReadLink ==
  ASSUME NEW d, NEW h, NEW t, NEW s, NEW S, Chain(d, h, t, s, S), NEW f, Reads(f, d, h),
         NEW o \in S, NEW n \in 0 .. RingSize
  PROVE  f[n][o] = IF n = 0 \/ o = h THEN <<>> ELSE Piece(d, o) \o f[n - 1][After(d, o)]
<1>1. o \in RingOffsets
  BY DEF Chain, Spans
<1>2. f[n][o] = IF n = 0 \/ o = h \/ ~ PlausibleAt(d, At(o)) THEN <<>>
                ELSE Piece(d, o) \o f[n - 1][After(d, o)]
  BY <1>1 DEF Reads
<1>3. o # h => PlausibleAt(d, At(o))
  BY RecordOfLink
<1> QED
  BY <1>2, <1>3

LEMMA ReadGoesOn ==
  ASSUME NEW d, NEW h, NEW t, NEW s, NEW S, Chain(d, h, t, s, S), NEW f, Reads(f, d, h),
         NEW o \in S, o # h, NEW n \in 0 .. RingSize, n # 0
  PROVE  f[n][o] = Piece(d, o) \o f[n - 1][After(d, o)]
<1>1. f[n][o] = IF n = 0 \/ o = h THEN <<>> ELSE Piece(d, o) \o f[n - 1][After(d, o)]
  BY ReadLink
<1> QED
  BY <1>1

LEMMA ReadTyped ==
  ASSUME NEW d, NEW h, NEW t, NEW s, NEW S, Chain(d, h, t, s, S), NEW f, Reads(f, d, h)
  PROVE  \A o \in S : \A n \in 0 .. RingSize : f[n][o] \in Seq(LogRecord(s))
<1> DEFINE P == {o \in S : \A n \in 0 .. RingSize : f[n][o] \in Seq(LogRecord(s))}
<1>1. h \in P
  <2>1. \A n \in 0 .. RingSize : f[n][h] = <<>>
    BY ReadLink DEF Chain, Spans
  <2>2. <<>> \in Seq(LogRecord(s)) /\ h \in S
    BY EmptySeq DEF Chain, Spans
  <2> QED
    BY <2>1, <2>2
<1>2. ASSUME NEW o \in S \ {h}, After(d, o) \in P PROVE o \in P
  <2> SUFFICES ASSUME NEW n \in 0 .. RingSize PROVE f[n][o] \in Seq(LogRecord(s))
    OBVIOUS
  <2>1. CASE n = 0
    <3>1. f[n][o] = <<>>
      BY <2>1, ReadLink
    <3> QED
      BY <3>1
  <2>2. CASE n # 0
    <3>1. n - 1 \in 0 .. RingSize
      BY <2>2, Sizes
    <3>2. f[n - 1][After(d, o)] \in Seq(LogRecord(s))
      BY <1>2, <3>1
    <3>3. f[n][o] = Piece(d, o) \o f[n - 1][After(d, o)]
      BY <2>2, ReadGoesOn
    <3>4. Piece(d, o) \in Seq(LogRecord(s))
      BY PieceIs
    <3> QED
      BY <3>2, <3>3, <3>4, ConcatProperties
  <2> QED
    BY <2>1, <2>2
<1> HIDE DEF P
<1>3. S \subseteq P
  BY <1>1, <1>2, AlongChain
<1> QED
  BY <1>3 DEF P

\* As many links as there are words is always enough.
LEMMA ReadEnough ==
  ASSUME NEW d, NEW h, NEW t, NEW s, NEW S, Chain(d, h, t, s, S), NEW f, Reads(f, d, h)
  PROVE  \A o \in S : \A n, m \in Minus(h, o) .. RingSize : f[n][o] = f[m][o]
<1> DEFINE P == {o \in S : \A n, m \in Minus(h, o) .. RingSize : f[n][o] = f[m][o]}
<1>0. h \in S /\ h \in RingOffsets
  BY DEF Chain, Spans
<1>1. h \in P
  <2>1. \A n \in 0 .. RingSize : f[n][h] = <<>>
    BY <1>0, ReadLink
  <2>2. Minus(h, h) = 0
    BY <1>0, Distances
  <2> QED
    BY <1>0, <2>1, <2>2
<1>2. ASSUME NEW o \in S \ {h}, After(d, o) \in P PROVE o \in P
  <2> SUFFICES ASSUME NEW n \in Minus(h, o) .. RingSize, NEW m \in Minus(h, o) .. RingSize
               PROVE f[n][o] = f[m][o]
    OBVIOUS
  <2>1. /\ Minus(h, o) \in 1 .. RingSize /\ d[At(o)].n \in 1 .. RingSize
        /\ Minus(h, After(d, o)) = Minus(h, o) - d[At(o)].n
    BY LinkIs
  <2>2. n \in 1 .. RingSize /\ m \in 1 .. RingSize
    BY <2>1, Sizes
  <2>3. n - 1 \in Minus(h, After(d, o)) .. RingSize /\ m - 1 \in Minus(h, After(d, o)) .. RingSize
    BY <2>1, <2>2, Sizes
  <2>4. f[n - 1][After(d, o)] = f[m - 1][After(d, o)]
    BY <1>2, <2>3
  <2>5. n \in 0 .. RingSize /\ m \in 0 .. RingSize /\ n # 0 /\ m # 0
    BY <2>2
  <2>6. f[n][o] = Piece(d, o) \o f[n - 1][After(d, o)]
    BY <2>5, ReadGoesOn
  <2>7. f[m][o] = Piece(d, o) \o f[m - 1][After(d, o)]
    BY <2>5, ReadGoesOn
  <2> QED
    BY <2>4, <2>6, <2>7
<1> HIDE DEF P
<1>3. S \subseteq P
  BY <1>1, <1>2, AlongChain
<1> QED
  BY <1>3 DEF P

\* Rings that agree on the chain read the same.
LEMMA ReadUntouched ==
  ASSUME NEW d, NEW h, NEW t, NEW s, NEW S, Chain(d, h, t, s, S), NEW f, Reads(f, d, h),
         NEW e \in Rings, NEW g, Reads(g, e, h),
         \A o \in S \ {h} : \A j \in 0 .. d[At(o)].n - 1 : e[At(o) + j] = d[At(o) + j]
  PROVE  \A o \in S : \A n \in 0 .. RingSize : g[n][o] = f[n][o]
<1> DEFINE P == {o \in S : \A n \in 0 .. RingSize : g[n][o] = f[n][o]}
<1>0. /\ h \in S /\ Chain(e, h, t, s, S)
      /\ \A o \in S \ {h} : e[At(o)] = d[At(o)] /\ (RecordNode(d, o) => RecordOf(e, At(o)) = RecordOf(d, At(o)))
  BY ChainUntouched DEF Chain, Spans
<1>1. h \in P
  <2>1. \A n \in 0 .. RingSize : f[n][h] = <<>>
    BY <1>0, ReadLink
  <2>2. \A n \in 0 .. RingSize : g[n][h] = <<>>
    BY <1>0, ReadLink
  <2> QED
    BY <1>0, <2>1, <2>2
<1>2. ASSUME NEW o \in S \ {h}, After(d, o) \in P PROVE o \in P
  <2> SUFFICES ASSUME NEW n \in 0 .. RingSize PROVE g[n][o] = f[n][o]
    OBVIOUS
  <2>1. f[n][o] = IF n = 0 THEN <<>> ELSE Piece(d, o) \o f[n - 1][After(d, o)]
    BY ReadLink
  <2>2. g[n][o] = IF n = 0 THEN <<>> ELSE Piece(e, o) \o g[n - 1][After(e, o)]
    BY <1>0, ReadLink
  <2>3. After(e, o) = After(d, o)
    BY <1>0 DEF After
  <2>4. Piece(e, o) = Piece(d, o)
    BY <1>0 DEF Piece, RecordNode
  <2>5. n # 0 => n - 1 \in 0 .. RingSize
    BY Sizes
  <2>6. n # 0 => g[n - 1][After(d, o)] = f[n - 1][After(d, o)]
    BY <1>2, <2>5
  <2> QED
    BY <2>1, <2>2, <2>3, <2>4, <2>6
<1> HIDE DEF P
<1>3. S \subseteq P
  BY <1>1, <1>2, AlongChain
<1> QED
  BY <1>3 DEF P

\* What is put behind the last is read last.
LEMMA ReadExtended ==
  ASSUME NEW d, NEW h, NEW t, NEW s, NEW S, Chain(d, h, t, s, S), NEW f, Reads(f, d, h),
         NEW s2 \in Nat, s <= s2,
         SoundAt(d, At(h), s2), Minus(h, t) + d[At(h)].n <= RingSize,
         RecordNode(d, h) => s <= Number(d, h), NEW g, Reads(g, d, After(d, h))
  PROVE  \A o \in S : \A n \in 0 .. RingSize :
             Minus(After(d, h), o) <= n => g[n][o] = f[n][o] \o Piece(d, h)
<1> DEFINE k == After(d, h)
           U == S \union {k}
           P == {o \in S : \A n \in 0 .. RingSize : Minus(k, o) <= n => g[n][o] = f[n][o] \o Piece(d, h)}
<1>1. /\ Chain(d, k, t, s2, U) /\ d[At(h)].n \in 1 .. RingSize /\ k \in RingOffsets /\ k \notin S
      /\ \A o \in S : Minus(k, o) = Minus(h, o) + d[At(h)].n
  BY ChainExtended
<1>2. h \in S /\ h # k /\ S \subseteq RingOffsets /\ Chain(d, h, t, s2, S)
  BY <1>1, ChainBelow DEF Chain, Spans
<1> HIDE DEF k
<1>3. Piece(d, h) \in Seq(LogRecord(s2))
  BY <1>1, <1>2, PieceIs
<1>4. h \in P
  <2> SUFFICES ASSUME NEW n \in 0 .. RingSize, Minus(k, h) <= n PROVE g[n][h] = f[n][h] \o Piece(d, h)
    BY <1>2
  <2>1. Minus(k, h) \in Nat /\ Minus(k, h) >= 1
    <3>1. Minus(h, h) = 0
      BY <1>2, Distances
    <3> QED
      BY <1>1, <1>2, <3>1, Sizes
  <2>2. n # 0
    BY <2>1
  <2>3. g[n][h] = Piece(d, h) \o g[n - 1][k]
    BY <1>1, <1>2, <2>2, ReadGoesOn DEF k
  <2>4. n - 1 \in 0 .. RingSize
    BY <2>2, Sizes
  <2>5. g[n - 1][k] = <<>>
    BY <1>1, <2>4, ReadLink DEF k
  <2>6. f[n][h] = <<>>
    BY <1>2, ReadLink
  <2> QED
    BY <1>3, <2>3, <2>5, <2>6, ConcatEmptySeq
<1>5. ASSUME NEW o \in S \ {h}, After(d, o) \in P PROVE o \in P
  <2> SUFFICES ASSUME NEW n \in 0 .. RingSize, Minus(k, o) <= n PROVE g[n][o] = f[n][o] \o Piece(d, h)
    OBVIOUS
  <2> DEFINE q == After(d, o)
  <2>1. /\ Minus(h, o) \in 1 .. RingSize /\ d[At(o)].n \in 1 .. RingSize /\ q \in S
        /\ Minus(h, q) = Minus(h, o) - d[At(o)].n
    BY LinkIs
  <2>2. Minus(k, o) = Minus(h, o) + d[At(h)].n /\ Minus(k, q) = Minus(h, q) + d[At(h)].n
    BY <1>1, <2>1
  <2> HIDE DEF q
  <2>3. n # 0 /\ n - 1 \in 0 .. RingSize /\ Minus(k, q) <= n - 1
    BY <1>1, <2>1, <2>2, Sizes
  <2>4. g[n - 1][q] = f[n - 1][q] \o Piece(d, h)
    BY <1>5, <2>3 DEF q
  <2>5. f[n][o] = Piece(d, o) \o f[n - 1][q]
    BY <2>3, ReadGoesOn DEF q
  <2>6. o \in U /\ o # k
    BY <1>1
  <2>7. g[n][o] = Piece(d, o) \o g[n - 1][q]
    BY <1>1, <2>3, <2>6, ReadGoesOn DEF q, k
  <2>8. Piece(d, o) \in Seq(LogRecord(s2)) /\ f[n - 1][q] \in Seq(LogRecord(s2))
    BY <1>2, <2>1, <2>3, PieceIs, ReadTyped
  <2> DEFINE a == Piece(d, o)
             b == f[n - 1][q]
             c == Piece(d, h)
  <2>9. (a \o b) \o c = a \o (b \o c)
    <3> HIDE DEF a, b, c
    <3>1. a \in Seq(LogRecord(s2)) /\ b \in Seq(LogRecord(s2)) /\ c \in Seq(LogRecord(s2))
      BY <1>3, <2>8 DEF a, b, c
    <3> QED
      BY <3>1, ConcatAssociative
  <2> QED
    BY <2>4, <2>5, <2>7, <2>9
<1> HIDE DEF P
<1>6. S \subseteq P
  BY <1>4, <1>5, AlongChain
<1> QED
  BY <1>6 DEF P, k

\* What is read are records of the chain.
LEMMA ReadElements ==
  ASSUME NEW d, NEW h, NEW t, NEW s, NEW S, Chain(d, h, t, s, S), NEW f, Reads(f, d, h)
  PROVE  \A o \in S : \A n \in 0 .. RingSize : \A i \in DOMAIN f[n][o] :
             \E q \in S \ {h} : RecordNode(d, q) /\ f[n][o][i] = RecordOf(d, At(q))
<1> DEFINE Found(x) == \E q \in S \ {h} : RecordNode(d, q) /\ x = RecordOf(d, At(q))
           P == {o \in S : \A n \in 0 .. RingSize : \A i \in DOMAIN f[n][o] : Found(f[n][o][i])}
<1>1. h \in P
  <2>1. \A n \in 0 .. RingSize : f[n][h] = <<>>
    BY ReadLink DEF Chain, Spans
  <2>2. DOMAIN <<>> = {}
    OBVIOUS
  <2> QED
    BY <2>1, <2>2 DEF Chain, Spans
<1>2. ASSUME NEW o \in S \ {h}, After(d, o) \in P PROVE o \in P
  <2> HIDE DEF Found
  <2> SUFFICES ASSUME NEW n \in 0 .. RingSize, NEW i \in DOMAIN f[n][o] PROVE Found(f[n][o][i])
    OBVIOUS
  <2> DEFINE q == After(d, o)
             x == Piece(d, o)
             y == f[n - 1][q]
  <2>1. n # 0
    <3>1. n = 0 => f[n][o] = <<>>
      BY ReadLink
    <3> QED
      BY <3>1
  <2>2. f[n][o] = x \o y
    BY <2>1, ReadGoesOn
  <2>3. n - 1 \in 0 .. RingSize /\ q \in S
    BY <2>1, LinkIs, Sizes
  <2>4. x \in Seq(LogRecord(s)) /\ y \in Seq(LogRecord(s))
    BY <2>3, PieceIs, ReadTyped
  <2>5. \A j \in DOMAIN y : Found(y[j])
    BY <1>2, <2>3
  <2>6. \A j \in DOMAIN x : Found(x[j])
    <3>1. CASE RecordNode(d, o)
      <4>1. x = <<RecordOf(d, At(o))>>
        BY <3>1 DEF Piece
      <4>2. DOMAIN x = {1} /\ x[1] = RecordOf(d, At(o))
        BY <4>1
      <4>3. Found(RecordOf(d, At(o)))
        BY <3>1 DEF Found
      <4> HIDE DEF x
      <4> QED
        BY <4>2, <4>3
    <3>2. CASE ~ RecordNode(d, o)
      BY <3>2 DEF Piece
    <3> QED
      BY <3>1, <3>2
  <2> HIDE DEF x, y
  <2>7. /\ Len(x) \in Nat /\ Len(y) \in Nat /\ DOMAIN x = 1 .. Len(x) /\ DOMAIN y = 1 .. Len(y)
        /\ DOMAIN (x \o y) = 1 .. (Len(x) + Len(y))
        /\ \A j \in 1 .. Len(x) + Len(y) : (x \o y)[j] = IF j <= Len(x) THEN x[j] ELSE y[j - Len(x)]
    <3>1. /\ Len(x) \in Nat /\ Len(y) \in Nat /\ DOMAIN x = 1 .. Len(x) /\ DOMAIN y = 1 .. Len(y)
      BY <2>4, LenProperties
    <3>2. /\ x \o y \in Seq(LogRecord(s)) /\ Len(x \o y) = Len(x) + Len(y)
          /\ \A j \in 1 .. Len(x) + Len(y) : (x \o y)[j] = IF j <= Len(x) THEN x[j] ELSE y[j - Len(x)]
      BY <2>4, ConcatProperties
    <3>3. DOMAIN (x \o y) = 1 .. Len(x \o y)
      BY <3>2, LenProperties
    <3> QED
      BY <3>1, <3>2, <3>3
  <2>8. i \in 1 .. Len(x) + Len(y) /\ f[n][o][i] = IF i <= Len(x) THEN x[i] ELSE y[i - Len(x)]
    BY <2>2, <2>7
  <2>9. CASE i <= Len(x)
    BY <2>6, <2>7, <2>8, <2>9
  <2>10. CASE ~(i <= Len(x))
    <3>1. i - Len(x) \in 1 .. Len(y)
      BY <2>7, <2>8, <2>10
    <3> QED
      BY <2>5, <2>7, <2>8, <2>10, <3>1
  <2> QED
    BY <2>9, <2>10
<1> HIDE DEF P
<1>3. S \subseteq P
  BY <1>1, <1>2, AlongChain
<1> QED
  BY <1>3 DEF P

\* The boot walk gets to the end.
LEMMA WalkReachesEnd ==
  ASSUME NEW d, NEW h, NEW t, NEW s, NEW S, Chain(d, h, t, s, S), NEW f, Walks(f, d, h)
  PROVE  \A o \in S : \A n \in 0 .. RingSize : Minus(h, o) <= n => f[n][o] = h
<1> DEFINE P == {o \in S : \A n \in 0 .. RingSize : Minus(h, o) <= n => f[n][o] = h}
<1>0. h \in S /\ S \subseteq RingOffsets
  BY DEF Chain, Spans
<1>1. h \in P
  BY <1>0 DEF Walks
<1>2. ASSUME NEW o \in S \ {h}, After(d, o) \in P PROVE o \in P
  <2> SUFFICES ASSUME NEW n \in 0 .. RingSize, Minus(h, o) <= n PROVE f[n][o] = h
    OBVIOUS
  <2>1. /\ Minus(h, o) \in 1 .. RingSize /\ d[At(o)].n \in 1 .. RingSize
        /\ Minus(h, After(d, o)) = Minus(h, o) - d[At(o)].n
    BY LinkIs
  <2>2. n # 0 /\ n - 1 \in 0 .. RingSize /\ Minus(h, After(d, o)) <= n - 1 /\ ~(Minus(h, o) > RingSize)
    BY <2>1, Sizes
  <2>3. f[n - 1][After(d, o)] = h
    BY <1>2, <2>2
  <2>4. PlausibleAt(d, At(o))
    BY RecordOfLink
  <2> QED
    BY <1>0, <2>2, <2>3, <2>4 DEF Walks
<1> HIDE DEF P
<1>3. S \subseteq P
  BY <1>1, <1>2, AlongChain
<1> QED
  BY <1>3 DEF P
------------------------------------------------------------------------------
(* The invariant: the ring is a chain whose numbers are below the next one. *)

LogSteps == {"boot", "stamp", "idle", "evict", "skip", "put", "commit", "fault"}
WriteSteps == {"evict", "skip", "put", "commit"}
LogTypes ==
    /\ data \in Rings /\ head \in RingOffsets /\ tail \in RingOffsets /\ seq \in 0 .. MaxSeq
    /\ header \in 0 .. 3 /\ ready \in BOOLEAN /\ step \in LogSteps
    /\ rec \in [len : 0 .. RecMax, seq : 0 .. MaxSeq, put : 0 .. RecMax] /\ rec.put <= rec.len
    /\ dying \in -1 .. 2 /\ it \in [on : BOOLEAN, pos : RingOffsets, end : RingOffsets]

\* Who writes or reads knows the ring to be valid; while it is stamped it is empty.
ReadyInv ==
    /\ ready => header = 3
    /\ step \in WriteSteps \/ (step = "fault" /\ dying > 0) => ready
    /\ step \in {"boot", "stamp"} => ~ ready
    /\ step = "stamp" => head = tail
    /\ it.on => ready

\* The jth word of the record being written.
RecWord(j) ==
    CASE j = 0 -> Word("rec", rec.len)
      [] j = 1 -> Word("seq", rec.seq)
      [] OTHER -> Word("text", rec.seq)

\* What stands in the ring behind head, and that there is room for the rest.
NumberInv ==
    /\ step \in {"evict", "skip", "put"} => rec.seq = seq /\ seq < MaxSeq
    /\ step = "commit" => seq = rec.seq + 1
    /\ step \in WriteSteps => rec.len \in RecMin .. RecMax
    /\ step \in {"evict", "skip"} => rec.put = 0
SkipInv ==
    step = "skip" =>
        /\ SkipLen > 0 /\ data[At(head)] = Word("skip", SkipLen)
        /\ Minus(head, tail) + Need <= RingSize
PutInv ==
    /\ step \in {"put", "commit"} =>
           /\ At(head) + rec.len <= RingSize /\ Minus(head, tail) + rec.len <= RingSize
           /\ \A j \in 0 .. rec.put - 1 : data[At(head) + j] = RecWord(j)
    /\ step = "commit" => rec.put = rec.len
WriteInv == ReadyInv /\ NumberInv /\ SkipInv /\ PutInv

\* The numbers in the ring are below this one.
Bound == IF step = "commit" THEN rec.seq ELSE seq
LogChain(S) == Chain(data, head, tail, Bound, S)
LogInv == LogTypes /\ WriteInv /\ (header = 3 => \E S : LogChain(S))

LEMMA WordsAre ==
  ASSUME NEW n \in Nat
  PROVE  Word("skip", n) \in Words /\ Word("rec", n) \in Words /\ Word("seq", n) \in Words
         /\ Word("text", n) \in Words /\ Nil \in Words
BY DEF Word, Words, Nil

LEMMA SkipIs ==
  ASSUME LogTypes, rec.len \in RecMin .. RecMax
  PROVE  /\ At(head) \in 0 .. RingSize - 1 /\ SkipLen \in Nat /\ SkipLen < rec.len /\ rec.len \in Nat
         /\ Need = SkipLen + rec.len /\ Need <= RingSize
         /\ SkipLen = 0 => At(head) + rec.len <= RingSize
         /\ SkipLen > 0 => At(head) # 0 /\ At(head) + SkipLen = RingSize
<1>1. At(head) \in 0 .. RingSize - 1
  BY PositionIs DEF LogTypes
<1> QED
  BY <1>1, Sizes DEF SkipLen, Need

\* A word that is put into the room behind head disturbs no record.
LEMMA RoomIsFree ==
  ASSUME LogTypes, NEW S, LogChain(S), NEW k \in Nat, Minus(head, tail) + k < RingSize, NEW w \in Words
  PROVE  /\ At(Plus(head, k)) \in 0 .. RingSize - 1
         /\ [data EXCEPT ![At(Plus(head, k))] = w] \in Rings
         /\ \A o \in S \ {head} : \A j \in 0 .. data[At(o)].n - 1 :
                [data EXCEPT ![At(Plus(head, k))] = w][At(o) + j] = data[At(o) + j]
<1> DEFINE p == At(Plus(head, k))
<1>1. head \in RingOffsets /\ data \in Rings /\ tail \in RingOffsets
  BY DEF LogTypes
<1>2. k \in 0 .. OffMod
  BY <1>1, Distances, Sizes
<1>3. p \in 0 .. RingSize - 1
  BY <1>1, <1>2, PlusIs, PositionIs
<1>4. ASSUME NEW o \in S, o # head, NEW j \in 0 .. data[At(o)].n - 1 PROVE At(o) + j # p
  <2>1. /\ o \in RingOffsets /\ At(o) \in 0 .. RingSize - 1 /\ data[At(o)].n \in 1 .. RingSize
        /\ At(o) + data[At(o)].n <= RingSize /\ data[At(o)].n <= Minus(head, o)
        /\ Minus(head, o) <= Minus(head, tail)
    BY <1>4, LinkIs DEF LogChain
  <2>2. Minus(head, o) \in Nat /\ Minus(head, tail) \in Nat
    BY <1>1, <2>1, Distances
  <2>3. j \in Nat /\ j < Minus(head, o) /\ Minus(head, o) + k < RingSize
    BY <2>1, <2>2, Sizes
  <2>4. At(Plus(o, j)) # p
    BY <1>1, <2>1, <2>3, Apart
  <2>5. At(Plus(o, j)) = At(o) + j
    <3>1. j \in 0 .. RingSize /\ At(o) + j < RingSize
      BY <2>1, Sizes
    <3> QED
      BY <2>1, <3>1, PositionMoves
  <2> QED
    BY <2>4, <2>5
<1> HIDE DEF p
<1>5. [data EXCEPT ![p] = w] \in Rings
  BY <1>1, <1>3 DEF Rings
<1>6. ASSUME NEW o \in S \ {head}, NEW j \in 0 .. data[At(o)].n - 1
      PROVE  [data EXCEPT ![p] = w][At(o) + j] = data[At(o) + j]
  <2>1. /\ At(o) \in 0 .. RingSize - 1 /\ At(o) + data[At(o)].n <= RingSize
        /\ data[At(o)].n \in 1 .. RingSize
    BY LinkIs DEF LogChain
  <2>2. At(o) + j \in 0 .. RingSize - 1
    BY <2>1, Sizes
  <2>3. At(o) + j # p
    BY <1>4
  <2> QED
    BY <1>1, <2>2, <2>3 DEF Rings
<1> QED
  BY <1>3, <1>5, <1>6 DEF p

LEMMA RoomWhenFits ==
  ASSUME LogTypes, rec.len \in RecMin .. RecMax, Fits
  PROVE  Minus(head, tail) + Need <= RingSize
<1>1. SkipLen \in Nat /\ Need = SkipLen + rec.len /\ Need <= RingSize /\ rec.len \in Nat
  BY SkipIs
<1>2. Minus(head, tail) \in Nat /\ (Minus(head, tail) = 0 <=> tail = head)
  BY Distances DEF LogTypes
<1> QED
  BY <1>1, <1>2, Sizes DEF Fits

\* What a whole record in the ring is worth when it is committed.
LEMMA WrittenRecord ==
  ASSUME LogTypes, WriteInv, step = "commit"
  PROVE  /\ SoundRecord(data, At(head), rec.seq + 1) /\ data[At(head)].n = rec.len
         /\ RecordNode(data, head) /\ Number(data, head) = rec.seq
         /\ RecordOf(data, At(head)) = [seq |-> rec.seq, whole |-> TRUE]
<1> DEFINE p == At(head)
<1>1. /\ rec.len \in RecMin .. RecMax /\ rec.put = rec.len /\ rec.seq \in Nat /\ p \in 0 .. RingSize - 1
      /\ p + rec.len <= RingSize /\ \A j \in 0 .. rec.put - 1 : data[p + j] = RecWord(j)
  BY PositionIs, Sizes DEF LogTypes, WriteInv, NumberInv, PutInv, WriteSteps
<1> HIDE DEF p
<1>2. \A j \in 0 .. rec.len - 1 : data[p + j] = RecWord(j)
  BY <1>1
<1>3. data[p] = Word("rec", rec.len)
  <2>1. 0 \in 0 .. rec.len - 1
    BY <1>1, Sizes
  <2>2. data[p + 0] = RecWord(0)
    BY <1>2, <2>1
  <2> QED
    BY <1>1, <2>2 DEF RecWord
<1>4. data[p + 1] = Word("seq", rec.seq)
  <2>1. 1 \in 0 .. rec.len - 1
    BY <1>1, Sizes
  <2>2. data[p + 1] = RecWord(1)
    BY <1>2, <2>1
  <2> QED
    BY <2>2 DEF RecWord
<1>5. \A k \in 2 .. rec.len - 1 : data[p + k] = Word("text", rec.seq)
  BY <1>1, <1>2, Sizes DEF RecWord
<1>6. data[p].kind = "rec" /\ data[p].n = rec.len /\ data[p + 1].kind = "seq" /\ data[p + 1].n = rec.seq
  BY <1>3, <1>4 DEF Word
<1>7. \A k \in 2 .. data[p].n - 1 : data[p + k] = Word("text", data[p + 1].n)
  BY <1>5, <1>6
<1>8. RecordOf(data, p) = [seq |-> rec.seq, whole |-> TRUE]
  BY <1>6, <1>7 DEF RecordOf
<1>9. SoundRecord(data, p, rec.seq + 1)
  BY <1>1, <1>6, <1>8 DEF SoundRecord
<1> QED
  BY <1>6, <1>8, <1>9 DEF p, RecordNode, Number
------------------------------------------------------------------------------
(* What the steps do to the chain and to the contents.                      *)

LEMMA BoundIs ==
  ASSUME LogTypes
  PROVE  Bound \in Nat
BY Sizes DEF LogTypes, Bound

LEMMA TailInChain ==
  ASSUME NEW S, LogChain(S)
  PROVE  tail \in S /\ head \in S /\ S \subseteq RingOffsets /\ Minus(head, tail) <= RingSize
BY DEF LogChain, Chain, Spans

\* The records can be told from the ring and its ends.
LEMMA SameRecords ==
  ASSUME data' = data, head' = head
  PROVE  Records' = Records
BY DEF Records, Plausible, RecordAt

LEMMA SameContents ==
  ASSUME data' = data, head' = head, tail' = tail, header' = header
  PROVE  Contents' = Contents
BY SameRecords DEF Contents

LEMMA ChainStays ==
  ASSUME LogTypes, NEW S, LogChain(S), data' = data, head' = head, tail' = tail,
         Bound' \in Nat, Bound <= Bound'
  PROVE  LogChain(S)'
<1>1. Chain(data, head, tail, Bound, S)
  BY DEF LogChain
<1>2. Chain(data, head, tail, Bound', S)
  BY <1>1, ChainBelow
<1> QED
  BY <1>2 DEF LogChain

\* A word put behind head changes no record.
LEMMA ChainPut ==
  ASSUME LogTypes, NEW S, LogChain(S), NEW k \in Nat, Minus(head, tail) + k < RingSize, NEW w \in Words,
         data' = [data EXCEPT ![At(Plus(head, k))] = w],
         head' = head, tail' = tail, header' = header, Bound' = Bound
  PROVE  LogChain(S)' /\ data' \in Rings /\ Contents' = Contents
         /\ \A o \in S \ {head} : data'[At(o)] = data[At(o)]
               /\ (RecordNode(data, o) => RecordOf(data', At(o)) = RecordOf(data, At(o)))
<1>1. data' \in Rings /\ \A o \in S \ {head} : \A j \in 0 .. data[At(o)].n - 1 :
                             data'[At(o) + j] = data[At(o) + j]
  <2>1. [data EXCEPT ![At(Plus(head, k))] = w] \in Rings
    BY RoomIsFree
  <2>2. \A o \in S \ {head} : \A j \in 0 .. data[At(o)].n - 1 :
               [data EXCEPT ![At(Plus(head, k))] = w][At(o) + j] = data[At(o) + j]
    BY RoomIsFree
  <2> QED
    BY <2>1, <2>2, Zenon
<1>2. Chain(data, head, tail, Bound, S)
  BY DEF LogChain
<1>3. /\ Chain(data', head, tail, Bound, S)
      /\ \A o \in S \ {head} : data'[At(o)] = data[At(o)]
            /\ (RecordNode(data, o) => RecordOf(data', At(o)) = RecordOf(data, At(o)))
  <2> DEFINE d == data
             h == head
             e == data'
  <2>1. e \in Rings /\ \A o \in S \ {h} : \A j \in 0 .. d[At(o)].n - 1 : e[At(o) + j] = d[At(o) + j]
    BY <1>1
  <2>2. Chain(d, h, tail, Bound, S)
    BY <1>2
  <2> HIDE DEF d, h, e
  <2>3. /\ Chain(e, h, tail, Bound, S)
        /\ \A o \in S \ {h} :
               e[At(o)] = d[At(o)] /\ (RecordNode(d, o) => RecordOf(e, At(o)) = RecordOf(d, At(o)))
    BY <2>1, <2>2, ChainUntouched
  <2>4. ASSUME NEW o \in S \ {h}
        PROVE  e[At(o)] = d[At(o)] /\ (RecordNode(d, o) => RecordOf(e, At(o)) = RecordOf(d, At(o)))
    BY <2>3
  <2>5. Chain(data', head, tail, Bound, S)
    BY <2>3 DEF d, h, e
  <2>6. \A o \in S \ {head} : data'[At(o)] = data[At(o)]
            /\ (RecordNode(data, o) => RecordOf(data', At(o)) = RecordOf(data, At(o)))
    BY <2>4, Zenon DEF d, h, e
  <2> QED
    BY <2>5, <2>6
<1>4. LogChain(S)'
  BY <1>3 DEF LogChain
<1>5. Records'[RingSize][tail] = Records[RingSize][tail]
  <2>1. Reads(Records, data, head) /\ Reads(Records', data', head)
    BY RecordsReads, RecordsReadsNext
  <2>2. \A o \in S : \A n \in 0 .. RingSize : Records'[n][o] = Records[n][o]
    <3> DEFINE d == data
               h == head
               f == Records
               e == data'
               g == Records'
    <3>1. e \in Rings /\ \A o \in S \ {h} : \A j \in 0 .. d[At(o)].n - 1 : e[At(o) + j] = d[At(o) + j]
      BY <1>1
    <3>2. Chain(d, h, tail, Bound, S) /\ Reads(f, d, h) /\ Reads(g, e, h)
      BY <1>2, <2>1
    <3> HIDE DEF d, h, e, f, g
    <3>3. \A o \in S : \A n \in 0 .. RingSize : g[n][o] = f[n][o]
      BY <3>1, <3>2, ReadUntouched
    <3> QED
      BY <3>3 DEF f, g
  <2> QED
    BY <2>2, TailInChain, Sizes
<1>6. Contents' = Contents
  BY <1>5 DEF Contents
<1> QED
  BY <1>1, <1>3, <1>4, <1>6

\* What is put behind the last record becomes the last.
LEMMA ChainGrows ==
  ASSUME LogTypes, NEW S, LogChain(S), header = 3, header' = 3, data' = data, tail' = tail,
         head' = After(data, head), Bound' \in Nat, Bound <= Bound',
         SoundAt(data, At(head), Bound'), Minus(head, tail) + data[At(head)].n <= RingSize,
         RecordNode(data, head) => Bound <= Number(data, head)
  PROVE  /\ Chain(data', head', tail', Bound', S \union {head'}) /\ Contents' = Contents \o Piece(data, head)
         /\ data[At(head)].n \in 1 .. RingSize /\ head' \in RingOffsets /\ head' \notin S
         /\ \A o \in S : Minus(head', o) = Minus(head, o) + data[At(head)].n
<1>1. Chain(data, head, tail, Bound, S)
  BY DEF LogChain
<1>2. /\ Chain(data, After(data, head), tail, Bound', S \union {After(data, head)})
      /\ data[At(head)].n \in 1 .. RingSize /\ After(data, head) \in RingOffsets /\ After(data, head) \notin S
      /\ \A o \in S : Minus(After(data, head), o) = Minus(head, o) + data[At(head)].n
  BY <1>1, ChainExtended
<1>3. Chain(data', head', tail', Bound', S \union {head'})
  BY <1>2
<1>4. Records'[RingSize][tail] = Records[RingSize][tail] \o Piece(data, head)
  <2>1. Reads(Records, data, head) /\ Reads(Records', data, After(data, head))
    BY RecordsReads, RecordsReadsNext
  <2>2. \A o \in S : \A n \in 0 .. RingSize :
           Minus(After(data, head), o) <= n => Records'[n][o] = Records[n][o] \o Piece(data, head)
    <3> DEFINE d == data
               h == head
               f == Records
               g == Records'
               b == Bound
               c == Bound'
    <3>1. Chain(d, h, tail, b, S) /\ Reads(f, d, h) /\ Reads(g, d, After(d, h))
      BY <1>1, <2>1
    <3>2. /\ c \in Nat /\ b <= c /\ SoundAt(d, At(h), c) /\ Minus(h, tail) + d[At(h)].n <= RingSize
          /\ RecordNode(d, h) => b <= Number(d, h)
      OBVIOUS
    <3> HIDE DEF d, h, f, g, b, c
    <3>3. \A o \in S : \A n \in 0 .. RingSize :
             Minus(After(d, h), o) <= n => g[n][o] = f[n][o] \o Piece(d, h)
      BY <3>1, <3>2, ReadExtended
    <3> QED
      BY <3>3 DEF d, h, f, g
  <2>3. tail \in S /\ RingSize \in 0 .. RingSize
    BY TailInChain, Sizes
  <2>4. Minus(After(data, head), tail) <= RingSize
    BY <1>2, <2>3
  <2> QED
    BY <2>2, <2>3, <2>4
<1>5. Contents' = Contents \o Piece(data, head)
  BY <1>4 DEF Contents
<1> QED
  BY <1>2, <1>3, <1>5

\* An eviction takes the oldest record, or a SKIP.
LEMMA ChainShrinks ==
  ASSUME LogTypes, NEW S, LogChain(S), header = 3, header' = 3, tail # head, data' = data, head' = head,
         tail' = After(data, tail), Bound' = Bound
  PROVE  /\ Chain(data', head', tail', Bound', {o \in S : Minus(head, o) <= Minus(head, tail')}) /\ tail' \in S
         /\ Minus(head, tail') < Minus(head, tail)
         /\ Contents' = Contents \/ (Contents # <<>> /\ Contents' = Tail(Contents))
<1> DEFINE u == After(data, tail)
<1>1. Chain(data, head, tail, Bound, S) /\ tail \in S
  BY TailInChain DEF LogChain
<1>2. Chain(data, head, u, Bound, {o \in S : Minus(head, o) <= Minus(head, u)})
  BY <1>1, ChainWithoutOldest
<1>3. /\ u \in S /\ Minus(head, u) = Minus(head, tail) - data[At(tail)].n
      /\ data[At(tail)].n \in 1 .. RingSize /\ Minus(head, tail) \in 1 .. RingSize
  BY <1>1, LinkIs
<1> HIDE DEF u
<1>4. Chain(data', head', tail', Bound', {o \in S : Minus(head, o) <= Minus(head, tail')})
  BY <1>2 DEF u
<1>5. Minus(head, u) < Minus(head, tail)
  BY <1>3, Sizes
<1>6. Reads(Records, data, head) /\ Records' = Records
  BY RecordsReads, SameRecords
<1>7. Records[RingSize][tail] = Piece(data, tail) \o Records[RingSize - 1][u]
  <2>1. RingSize \in 0 .. RingSize /\ RingSize # 0
    BY Sizes
  <2> QED
    <3> DEFINE f == Records
               d == data
               h == head
               t == tail
               n == RingSize
               s == Bound
    <3>1. Reads(f, d, h) /\ Chain(d, h, t, s, S) /\ t \in S /\ t # h /\ n \in 0 .. RingSize /\ n # 0
      BY <1>1, <1>6, <2>1
    <3> HIDE DEF f, d, h, t, n, s
    <3>2. f[n][t] = Piece(d, t) \o f[n - 1][After(d, t)]
      BY <3>1, ReadGoesOn
    <3> QED
      BY <3>2 DEF f, d, t, n, u
<1>8. Records[RingSize - 1][u] = Records[RingSize][u]
  <2>1. RingSize - 1 \in Minus(head, u) .. RingSize /\ RingSize \in Minus(head, u) .. RingSize
    BY <1>3, Sizes
  <2> QED
    BY <1>1, <1>3, <1>6, <2>1, ReadEnough
<1>9. Records[RingSize][u] \in Seq(LogRecord(Bound))
  <2>1. RingSize \in 0 .. RingSize
    BY Sizes
  <2> QED
    BY <1>1, <1>3, <1>6, <2>1, ReadTyped
<1>10. Contents = Piece(data, tail) \o Records[RingSize][u] /\ Contents' = Records[RingSize][u]
  BY <1>6, <1>7, <1>8 DEF Contents, u
<1>11. CASE RecordNode(data, tail)
  <2> DEFINE x == RecordOf(data, At(tail))
             y == Records[RingSize][u]
             T == LogRecord(Bound)
  <2>1. x \in T
    BY <1>1, <1>11, RecordOfLink
  <2>2. Contents = <<x>> \o y /\ Contents' = y
    BY <1>10, <1>11 DEF Piece
  <2>3. y \in Seq(T)
    BY <1>9
  <2> HIDE DEF x, y, T
  <2>4. <<x>> \o y # <<>> /\ Tail(<<x>> \o y) = y
    BY <2>1, <2>3
  <2> QED
    BY <1>3, <1>4, <1>5, <2>2, <2>4 DEF u
<1>12. CASE ~ RecordNode(data, tail)
  <2>1. Contents = <<>> \o Records[RingSize][u]
    BY <1>10, <1>12 DEF Piece
  <2>2. <<>> \o Records[RingSize][u] = Records[RingSize][u]
    BY <1>9, ConcatEmptySeq
  <2> QED
    BY <1>3, <1>4, <1>5, <1>10, <2>1, <2>2 DEF u
<1> QED
  BY <1>11, <1>12

LEMMA ChainEmptied ==
  ASSUME data' \in Rings, head' \in RingOffsets, tail' = head', Bound' \in Nat
  PROVE  Chain(data', head', tail', Bound', {head'}) /\ Contents' = <<>>
<1>1. Chain(data', head', head', Bound', {head'})
  BY EmptyChain
<1>2. Records'[RingSize][head'] = <<>>
  BY RecordsReadsNext, Sizes DEF Reads
<1>3. Contents' = <<>>
  BY <1>2 DEF Contents
<1> QED
  BY <1>1, <1>3

\* Where the boot walk ends.
LEMMA WalkEndsAtHead ==
  ASSUME LogTypes, NEW S, LogChain(S)
  PROVE  WalkEnd = head
<1>1. Chain(data, head, tail, Bound, S) /\ tail \in S /\ Minus(head, tail) <= RingSize
  BY TailInChain DEF LogChain
<1>2. Walks(Walk, data, head) /\ RingSize \in 0 .. RingSize
  BY WalkWalks, Sizes
<1> QED
  BY <1>1, <1>2, WalkReachesEnd DEF WalkEnd

\* The contents are records of the chain, whole and with numbers below the bound.
LEMMA ContentsAre ==
  ASSUME LogTypes, NEW S, LogChain(S)
  PROVE  /\ Contents \in Seq(LogRecord(Bound))
         /\ \A k \in DOMAIN Contents :
                /\ Contents[k] \in LogRecord(Bound)
                /\ \E q \in S \ {head} : RecordNode(data, q) /\ Contents[k] = RecordOf(data, At(q))
<1> DEFINE y == Records[RingSize][tail]
<1>1. Chain(data, head, tail, Bound, S) /\ tail \in S
  BY TailInChain DEF LogChain
<1>2. Reads(Records, data, head) /\ RingSize \in 0 .. RingSize
  BY RecordsReads, Sizes
<1>3. y \in Seq(LogRecord(Bound))
  BY <1>1, <1>2, ReadTyped
<1>4. \A k \in DOMAIN y : \E q \in S \ {head} : RecordNode(data, q) /\ y[k] = RecordOf(data, At(q))
  BY <1>1, <1>2, ReadElements
<1> HIDE DEF y
<1>5. \A k \in DOMAIN y : y[k] \in LogRecord(Bound)
  BY <1>3, LenProperties, ElementOfSeq
<1>6. CASE header = 3
  <2>1. Contents = y
    BY <1>6 DEF Contents, y
  <2> QED
    BY <1>3, <1>4, <1>5, <2>1
<1>7. CASE header # 3
  <2>1. Contents = <<>>
    BY <1>7 DEF Contents
  <2>2. DOMAIN <<>> = {}
    OBVIOUS
  <2> QED
    BY <2>1, <2>2, EmptySeq
<1> QED
  BY <1>6, <1>7
------------------------------------------------------------------------------
(* The steps keep the invariant.                                            *)

LEMMA PlusOffset ==
  ASSUME NEW a \in RingOffsets, NEW n \in Nat
  PROVE  Plus(a, n) \in RingOffsets
BY Sizes DEF Plus, RingOffsets

LEMMA SizeIs ==
  ASSUME LogTypes, NEW o \in RingOffsets
  PROVE  data[At(o)] \in Words /\ data[At(o)].n \in Nat /\ Plus(o, data[At(o)].n) \in RingOffsets
<1>1. data[At(o)] \in Words
  BY PositionIs DEF LogTypes, Rings
<1>2. data[At(o)].n \in Nat
  BY <1>1 DEF Words
<1> QED
  BY <1>1, <1>2, PlusOffset

LEMMA NextRecordTyped ==
  ASSUME LogTypes, NEW off \in RingOffsets
  PROVE  NextRecord(off) \subseteq RingOffsets
<1>1. OverSkip(off) \in RingOffsets
  BY SizeIs DEF OverSkip
<1>2. OverSkip(OverSkip(off)) \in RingOffsets
  BY <1>1, SizeIs DEF OverSkip
<1> QED
  BY <1>2 DEF NextRecord

LEMMA BootAtHead ==
  ASSUME LogInv, BootValid
  PROVE  head' = head
<1>1. PICK S : LogChain(S)
  BY DEF LogInv, BootValid
<1> QED
  BY <1>1, WalkEndsAtHead DEF LogInv, BootValid

LEMMA RestartTyped ==
  ASSUME Restart
  PROVE  /\ ready' \in BOOLEAN /\ step' \in LogSteps /\ dying' \in -1 .. 2
         /\ rec' \in [len : 0 .. RecMax, seq : 0 .. MaxSeq, put : 0 .. RecMax] /\ rec'.put <= rec'.len
         /\ it' \in [on : BOOLEAN, pos : RingOffsets, end : RingOffsets]
<1>1. ready' \in BOOLEAN /\ step' \in LogSteps /\ dying' \in -1 .. 2
  <2>1. ready' = FALSE /\ step' = "boot" /\ dying' = -1
    BY DEF Restart
  <2>2. -1 \in -1 .. 2
    OBVIOUS
  <2> QED
    BY <2>1, <2>2 DEF LogSteps
<1>2. rec' \in [len : 0 .. RecMax, seq : 0 .. MaxSeq, put : 0 .. RecMax] /\ rec'.put <= rec'.len
  BY Sizes DEF Restart, NoRec
<1>3. it' \in [on : BOOLEAN, pos : RingOffsets, end : RingOffsets]
  BY Sizes DEF Restart, NoPass, RingOffsets
<1> QED
  BY <1>1, <1>2, <1>3

LEMMA LogTypesKept ==
  ASSUME LogInv, LogNext
  PROVE  LogTypes'
<1>0. LogTypes /\ WriteInv
  BY DEF LogInv
<1> USE Sizes
<1>1. ASSUME BootValid PROVE LogTypes'
  <2>1. head' = head
    BY <1>1, BootAtHead
  <2> QED
    BY <1>0, <1>1, <2>1 DEF BootValid, BeginWrite, LogTypes, LogSteps, readVars
<1>2. ASSUME BootInvalid PROVE LogTypes'
  <2>1. data' \in Rings
    BY <1>2, WordsAre DEF BootInvalid, Rings
  <2>2. 0 \in RingOffsets /\ 0 \in 0 .. MaxSeq /\ 0 \in 0 .. 3
    BY DEF RingOffsets
  <2> QED
    BY <1>0, <1>2, <2>1, <2>2 DEF BootInvalid, LogTypes, LogSteps, readVars
<1>3. ASSUME BootStamp PROVE LogTypes'
  BY <1>0, <1>3 DEF BootStamp, LogTypes, readVars
<1>4. ASSUME BootStamped PROVE LogTypes'
  BY <1>0, <1>4 DEF BootStamped, BeginWrite, LogTypes, LogSteps, ringVars, readVars
<1>5. ASSUME Write PROVE LogTypes'
  BY <1>0, <1>5 DEF Write, BeginWrite, LogTypes, LogSteps, ringVars, readVars
<1>6. ASSUME Evict PROVE LogTypes'
  <2>1. tail' \in RingOffsets
    BY <1>0, <1>6, SizeIs DEF Evict, LogTypes
  <2> QED
    BY <1>0, <1>6, <2>1 DEF Evict, LogTypes, readVars
<1>7. ASSUME PutSkip PROVE LogTypes'
  <2>1. rec.len \in RecMin .. RecMax
    BY <1>0, <1>7 DEF PutSkip, WriteInv, NumberInv, WriteSteps
  <2>2. SkipLen \in Nat
    BY <1>0, <2>1, SkipIs
  <2>3. Word("skip", SkipLen) \in Words
    BY <2>2, WordsAre
  <2>4. data' \in Rings
    BY <1>0, <1>7, <2>3 DEF PutSkip, LogTypes, Rings
  <2> QED
    BY <1>0, <1>7, <2>4 DEF PutSkip, LogTypes, LogSteps, readVars
<1>8. ASSUME PassSkip PROVE LogTypes'
  <2>1. rec.len \in RecMin .. RecMax
    BY <1>0, <1>8 DEF PassSkip, WriteInv, NumberInv, WriteSteps
  <2>2. SkipLen \in Nat
    BY <1>0, <2>1, SkipIs
  <2>3. head' \in RingOffsets
    BY <1>0, <1>8, <2>2, PlusOffset DEF PassSkip, LogTypes
  <2> QED
    BY <1>0, <1>8, <2>3 DEF PassSkip, LogTypes, LogSteps, readVars
<1>9. ASSUME NoSkip PROVE LogTypes'
  BY <1>0, <1>9 DEF NoSkip, LogTypes, LogSteps, ringVars, readVars
<1>10. ASSUME PutWord PROVE LogTypes'
  <2>1. rec.len \in Nat /\ rec.seq \in Nat
    BY <1>0 DEF LogTypes
  <2>2. data' \in Rings
    <3>1. /\ Word("rec", rec.len) \in Words /\ Word("seq", rec.seq) \in Words
          /\ Word("text", rec.seq) \in Words
      BY <2>1, WordsAre
    <3>2. RecWord(rec.put) \in Words
      BY <3>1 DEF RecWord
    <3>3. data' = [data EXCEPT ![At(Plus(head, rec.put))] = RecWord(rec.put)]
      BY <1>10 DEF PutWord, RecWord
    <3> QED
      BY <1>0, <3>2, <3>3 DEF LogTypes, Rings
  <2>3. rec' \in [len : 0 .. RecMax, seq : 0 .. MaxSeq, put : 0 .. RecMax] /\ rec'.put <= rec'.len
    BY <1>0, <1>10 DEF PutWord, LogTypes
  <2> QED
    BY <1>0, <1>10, <2>2, <2>3 DEF PutWord, LogTypes, readVars
<1>11. ASSUME BumpSeq PROVE LogTypes'
  <2>1. seq' \in 0 .. MaxSeq
    BY <1>0, <1>11 DEF BumpSeq, LogTypes, WriteInv, NumberInv
  <2> QED
    BY <1>0, <1>11, <2>1 DEF BumpSeq, LogTypes, LogSteps, readVars
<1>12. ASSUME Commit PROVE LogTypes'
  <2>1. head' \in RingOffsets
    BY <1>0, <1>12, PlusOffset DEF Commit, LogTypes
  <2> QED
    BY <1>0, <1>12, <2>1 DEF Commit, LogTypes, LogSteps, NoRec, readVars
<1>13. ASSUME Fault PROVE LogTypes'
  BY <1>0, <1>13, PositionIs DEF Fault, LogTypes, LogSteps, NoRec, NoPass, ringVars, RingOffsets
<1>14. ASSUME FaultWrites PROVE LogTypes'
  BY <1>0, <1>14 DEF FaultWrites, BeginWrite, LogTypes, LogSteps, ringVars, readVars
<1>15. ASSUME Reset PROVE LogTypes'
  BY <1>0, <1>15, RestartTyped DEF Reset, LogTypes, ringVars
<1>16. ASSUME PowerLoss PROVE LogTypes'
  <2>1. data' \in Rings
    BY <1>16, WordsAre DEF PowerLoss, Rings
  <2> QED
    BY <1>0, <1>16, <2>1, RestartTyped DEF PowerLoss, LogTypes
<1>17. ASSUME IterStart PROVE LogTypes'
  BY <1>0, <1>17 DEF IterStart, LogTypes, ringVars
<1>18. ASSUME IterNext PROVE LogTypes'
  <2>1. PICK o \in NextRecord(Resynced) : it' = [it EXCEPT !.pos = Plus(o, data[At(o)].n)]
    BY <1>18 DEF IterNext
  <2>2. Resynced \in RingOffsets
    BY <1>0 DEF Resynced, LogTypes
  <2>3. Plus(o, data[At(o)].n) \in RingOffsets
    BY <1>0, <2>2, NextRecordTyped, SizeIs
  <2>4. it' \in [on : BOOLEAN, pos : RingOffsets, end : RingOffsets]
    BY <1>0, <2>1, <2>3 DEF LogTypes
  <2> QED
    BY <1>0, <1>18, <2>4 DEF IterNext, LogTypes, ringVars
<1>19. ASSUME IterEnd PROVE LogTypes'
  BY <1>0, <1>19 DEF IterEnd, LogTypes, NoPass, RingOffsets
<1>20. ASSUME LogClear PROVE LogTypes'
  BY <1>0, <1>20 DEF LogClear, LogTypes, readVars
<1> QED
  BY <1>1, <1>2, <1>3, <1>4, <1>5, <1>6, <1>7, <1>8, <1>9, <1>10, <1>11, <1>12, <1>13, <1>14, <1>15,
     <1>16, <1>17, <1>18, <1>19, <1>20 DEF LogNext, Writing

LEMMA ReadyKept ==
  ASSUME LogInv, LogNext
  PROVE  ReadyInv' /\ NumberInv'
<1>0. LogTypes /\ ReadyInv /\ NumberInv
  BY DEF LogInv, WriteInv
<1> USE Sizes
<1>1. ASSUME BootValid PROVE ReadyInv' /\ NumberInv'
  BY <1>0, <1>1 DEF BootValid, BeginWrite, ReadyInv, NumberInv, WriteSteps, readVars
<1>2. ASSUME BootInvalid PROVE ReadyInv' /\ NumberInv'
  BY <1>0, <1>2 DEF BootInvalid, ReadyInv, NumberInv, WriteSteps, readVars
<1>3. ASSUME BootStamp PROVE ReadyInv' /\ NumberInv'
  BY <1>0, <1>3 DEF BootStamp, ReadyInv, NumberInv, WriteSteps, readVars
<1>4. ASSUME BootStamped PROVE ReadyInv' /\ NumberInv'
  BY <1>0, <1>4 DEF BootStamped, BeginWrite, ReadyInv, NumberInv, WriteSteps, ringVars, readVars
<1>5. ASSUME Write PROVE ReadyInv' /\ NumberInv'
  BY <1>0, <1>5 DEF Write, BeginWrite, ReadyInv, NumberInv, WriteSteps, ringVars, readVars
<1>6. ASSUME Evict PROVE ReadyInv' /\ NumberInv'
  BY <1>0, <1>6 DEF Evict, ReadyInv, NumberInv, WriteSteps, readVars
<1>7. ASSUME PutSkip PROVE ReadyInv' /\ NumberInv'
  BY <1>0, <1>7 DEF PutSkip, ReadyInv, NumberInv, WriteSteps, readVars
<1>8. ASSUME PassSkip PROVE ReadyInv' /\ NumberInv'
  BY <1>0, <1>8 DEF PassSkip, ReadyInv, NumberInv, WriteSteps, readVars
<1>9. ASSUME NoSkip PROVE ReadyInv' /\ NumberInv'
  BY <1>0, <1>9 DEF NoSkip, ReadyInv, NumberInv, WriteSteps, ringVars, readVars
<1>10. ASSUME PutWord PROVE ReadyInv' /\ NumberInv'
  <2>1. rec'.seq = rec.seq /\ rec'.len = rec.len
    BY <1>0, <1>10 DEF PutWord, LogTypes
  <2> QED
    BY <1>0, <1>10, <2>1 DEF PutWord, ReadyInv, NumberInv, WriteSteps, readVars
<1>11. ASSUME BumpSeq PROVE ReadyInv' /\ NumberInv'
  BY <1>0, <1>11 DEF BumpSeq, ReadyInv, NumberInv, WriteSteps, readVars
<1>12. ASSUME Commit PROVE ReadyInv' /\ NumberInv'
  BY <1>0, <1>12 DEF Commit, ReadyInv, NumberInv, WriteSteps, readVars
<1>13. ASSUME Fault PROVE ReadyInv' /\ NumberInv'
  BY <1>0, <1>13 DEF Fault, ReadyInv, NumberInv, WriteSteps, NoPass, ringVars
<1>14. ASSUME FaultWrites PROVE ReadyInv' /\ NumberInv'
  <2>1. ready
    BY <1>0, <1>14 DEF FaultWrites, ReadyInv
  <2> QED
    BY <1>0, <1>14 DEF FaultWrites, BeginWrite, ReadyInv, NumberInv, WriteSteps, ringVars, readVars
<1>15. ASSUME Restart PROVE ReadyInv' /\ NumberInv'
  BY <1>0, <1>15 DEF Restart, ReadyInv, NumberInv, WriteSteps, NoPass
<1>16. ASSUME IterStart PROVE ReadyInv' /\ NumberInv'
  BY <1>0, <1>16 DEF IterStart, Quiet, ReadyInv, NumberInv, WriteSteps, ringVars
<1>17. ASSUME IterNext PROVE ReadyInv' /\ NumberInv'
  <2>1. it'.on = it.on
    BY <1>0, <1>17 DEF IterNext, LogTypes
  <2> QED
    BY <1>0, <1>17, <2>1 DEF IterNext, Quiet, ReadyInv, NumberInv, WriteSteps, ringVars
<1>18. ASSUME IterEnd PROVE ReadyInv' /\ NumberInv'
  BY <1>0, <1>18 DEF IterEnd, Quiet, ReadyInv, NumberInv, WriteSteps, NoPass
<1>19. ASSUME LogClear PROVE ReadyInv' /\ NumberInv'
  BY <1>0, <1>19 DEF LogClear, Quiet, ReadyInv, NumberInv, WriteSteps, readVars
<1> QED
  BY <1>1, <1>2, <1>3, <1>4, <1>5, <1>6, <1>7, <1>8, <1>9, <1>10, <1>11, <1>12, <1>13, <1>14, <1>15,
     <1>16, <1>17, <1>18, <1>19 DEF LogNext, Writing, Reset, PowerLoss

\* A record is put only where the room for it was made.
LEMMA WritingKept ==
  ASSUME LogInv, LogNext
  PROVE  SkipInv' /\ PutInv'
<1>0. LogTypes /\ NumberInv /\ SkipInv /\ PutInv
  BY DEF LogInv, WriteInv
<1>1. ASSUME step' \notin {"skip", "put", "commit"} PROVE SkipInv' /\ PutInv'
  BY <1>1 DEF SkipInv, PutInv
<1>2. ASSUME step' = step, step \notin {"skip", "put", "commit"} PROVE SkipInv' /\ PutInv'
  BY <1>1, <1>2
<1>3. ASSUME PutSkip PROVE SkipInv' /\ PutInv'
  <2>1. rec.len \in RecMin .. RecMax
    BY <1>0, <1>3 DEF PutSkip, NumberInv, WriteSteps
  <2>2. Minus(head, tail) + Need <= RingSize
    BY <1>0, <1>3, <2>1, RoomWhenFits DEF PutSkip
  <2>3. SkipLen' = SkipLen /\ Need' = Need
    BY <1>3 DEF PutSkip, SkipLen, Need
  <2>4. data'[At(head)] = Word("skip", SkipLen)
    BY <1>0, <1>3, PositionIs DEF PutSkip, LogTypes, Rings
  <2> QED
    BY <1>3, <2>2, <2>3, <2>4 DEF PutSkip, SkipInv, PutInv
<1>4. ASSUME PassSkip PROVE SkipInv' /\ PutInv'
  <2>1. rec.len \in RecMin .. RecMax /\ rec.put = 0
    BY <1>0, <1>4 DEF PassSkip, NumberInv, WriteSteps
  <2>2. /\ SkipLen > 0 /\ SkipLen \in Nat /\ SkipLen < rec.len /\ Need = SkipLen + rec.len /\ rec.len \in Nat
        /\ Minus(head, tail) + Need <= RingSize /\ At(head) + SkipLen = RingSize
        /\ At(head) \in 0 .. RingSize - 1
    BY <1>0, <1>4, <2>1, SkipIs DEF PassSkip, SkipInv
  <2>3. head \in RingOffsets /\ tail \in RingOffsets
    BY <1>0 DEF LogTypes
  <2>4. Minus(head, tail) \in Nat
    BY <2>3, Distances
  <2>5. head' = Plus(head, SkipLen)
    BY <1>4 DEF PassSkip
  <2>6. Minus(head', tail) = Minus(head, tail) + SkipLen
    <3>1. Minus(head, tail) + SkipLen < OffMod
      BY <2>2, <2>4, Sizes
    <3> QED
      BY <2>2, <2>3, <2>5, <3>1, Further
  <2>7. At(head') = 0
    <3>1. SkipLen \in 0 .. RingSize
      BY <2>2, Sizes
    <3>2. At(Plus(head, SkipLen)) =
              IF At(head) + SkipLen < RingSize THEN At(head) + SkipLen ELSE At(head) + SkipLen - RingSize
      BY <2>3, <3>1, PositionMoves
    <3> QED
      BY <2>2, <2>5, <3>2, Sizes
  <2>8. At(head') + rec.len <= RingSize /\ Minus(head', tail) + rec.len <= RingSize
    BY <2>1, <2>2, <2>4, <2>6, <2>7, Sizes
  <2>9. 0 .. rec.put - 1 = {}
    BY <2>1
  <2> QED
    BY <1>4, <2>8, <2>9 DEF PassSkip, SkipInv, PutInv
<1>5. ASSUME NoSkip PROVE SkipInv' /\ PutInv'
  <2>1. rec.len \in RecMin .. RecMax /\ rec.put = 0
    BY <1>0, <1>5 DEF NoSkip, NumberInv, WriteSteps
  <2>2. Minus(head, tail) + Need <= RingSize /\ SkipLen = 0
    BY <1>0, <1>5, <2>1, RoomWhenFits DEF NoSkip
  <2>3. At(head) + rec.len <= RingSize /\ Need = rec.len
    BY <1>0, <2>1, <2>2, SkipIs
  <2>4. 0 .. rec.put - 1 = {}
    BY <2>1
  <2>5. Minus(head, tail) + rec.len <= RingSize
    BY <2>2, <2>3
  <2> QED
    BY <1>5, <2>3, <2>4, <2>5 DEF NoSkip, SkipInv, PutInv, ringVars
<1>6. ASSUME PutWord PROVE SkipInv' /\ PutInv'
  <2> DEFINE p == At(head)
             n == rec.put
  <2>1. /\ n \in Nat /\ n < rec.len /\ rec.len \in RecMin .. RecMax /\ head \in RingOffsets
        /\ p + rec.len <= RingSize /\ Minus(head, tail) + rec.len <= RingSize
        /\ \A j \in 0 .. n - 1 : data[p + j] = RecWord(j)
        /\ p \in 0 .. RingSize - 1 /\ data \in Rings
    BY <1>0, <1>6, PositionIs DEF PutWord, NumberInv, WriteSteps, PutInv, LogTypes
  <2>2. At(Plus(head, n)) = p + n
    <3>1. n \in 0 .. RingSize /\ p + n < RingSize
      BY <2>1, Sizes
    <3>2. At(Plus(head, n)) = IF p + n < RingSize THEN p + n ELSE p + n - RingSize
      BY <2>1, <3>1, PositionMoves
    <3> QED
      BY <3>1, <3>2
  <2>3. rec'.len = rec.len /\ rec'.seq = rec.seq /\ rec'.put = n + 1
    BY <1>0, <1>6 DEF PutWord, LogTypes
  <2>4. data' = [data EXCEPT ![p + n] = RecWord(n)]
    BY <1>6, <2>2 DEF PutWord, RecWord
  <2> HIDE DEF p, n
  <2>5. ASSUME NEW j \in 0 .. n PROVE data'[p + j] = RecWord(j)
    <3>1. p + j \in 0 .. RingSize - 1 /\ p + n \in 0 .. RingSize - 1
      BY <2>1, Sizes
    <3>2. data'[p + j] = IF p + j = p + n THEN RecWord(n) ELSE data[p + j]
      BY <2>1, <2>4, <3>1 DEF Rings
    <3>3. CASE j = n
      BY <3>2, <3>3
    <3>4. CASE j # n
      <4>1. p + j # p + n /\ j \in 0 .. n - 1
        BY <2>1, <3>4
      <4> QED
        BY <2>1, <3>2, <4>1
    <3> QED
      BY <3>3, <3>4
  <2>6. 0 .. rec'.put - 1 = 0 .. n
    BY <2>1, <2>3
  <2>7. \A j \in 0 .. n : (RecWord(j))' = RecWord(j)
    BY <2>3 DEF RecWord
  <2>8. step' = "put" /\ head' = head /\ tail' = tail
    BY <1>6 DEF PutWord
  <2>9. \A j \in 0 .. n : data'[At(head) + j] = (RecWord(j))'
    BY <2>5, <2>7 DEF p
  <2>10. At(head) + rec.len <= RingSize /\ Minus(head, tail) + rec.len <= RingSize
    BY <2>1 DEF p
  <2> QED
    BY <2>3, <2>6, <2>8, <2>9, <2>10 DEF SkipInv, PutInv
<1>7. ASSUME BumpSeq PROVE SkipInv' /\ PutInv'
  <2>1. \A j : (RecWord(j))' = RecWord(j)
    BY <1>7 DEF BumpSeq, RecWord
  <2> QED
    BY <1>0, <1>7, <2>1 DEF BumpSeq, SkipInv, PutInv
<1>8. ASSUME BootValid \/ BootInvalid \/ BootStamp \/ BootStamped \/ Write \/ Evict \/ Commit
      PROVE  SkipInv' /\ PutInv'
  BY <1>1, <1>8 DEF BootValid, BootInvalid, BootStamp, BootStamped, Write, BeginWrite, Evict, Commit
<1>9. ASSUME Fault \/ FaultWrites \/ Reset \/ PowerLoss PROVE SkipInv' /\ PutInv'
  BY <1>1, <1>9 DEF Fault, FaultWrites, BeginWrite, Reset, PowerLoss, Restart
<1>10. ASSUME IterStart \/ IterNext \/ IterEnd \/ LogClear PROVE SkipInv' /\ PutInv'
  BY <1>1, <1>10 DEF IterStart, IterNext, IterEnd, LogClear, Quiet
<1> QED
  BY <1>3, <1>4, <1>5, <1>6, <1>7, <1>8, <1>9, <1>10 DEF LogNext, Writing

\* Steps that leave the ring alone.
Elsewhere ==
    \/ BootValid \/ BootStamped \/ Write \/ NoSkip \/ BumpSeq \/ Fault \/ FaultWrites \/ Reset
    \/ IterStart \/ IterNext

LEMMA ElsewhereKeeps ==
  ASSUME LogInv, LogTypes', Elsewhere
  PROVE  /\ data' = data /\ head' = head /\ tail' = tail /\ header' = header
         /\ Bound \in Nat /\ Bound' \in Nat /\ Bound <= Bound' /\ Contents' = Contents
<1>0. LogTypes /\ NumberInv /\ Bound \in Nat /\ Bound' \in Nat
  <2>1. LogTypes /\ NumberInv
    BY DEF LogInv, WriteInv
  <2>2. seq' \in 0 .. MaxSeq /\ rec'.seq \in 0 .. MaxSeq
    BY DEF LogTypes
  <2>3. Bound' = IF step' = "commit" THEN rec'.seq ELSE seq'
    BY DEF Bound
  <2>4. Bound' \in Nat
    BY <2>2, <2>3, Sizes
  <2> QED
    BY <2>1, <2>4, BoundIs
<1>1. data' = data /\ head' = head /\ tail' = tail /\ header' = header
  <2>1. BootValid => head' = head
    BY BootAtHead
  <2> QED
    BY <2>1 DEF Elsewhere, BootValid, BootStamped, Write, NoSkip, BumpSeq, Fault, FaultWrites, Reset,
                IterStart, IterNext, ringVars
<1>2. Bound <= Bound'
  <2>1. seq \in Nat /\ Bound \in Nat /\ Bound <= seq
    BY <1>0, Sizes DEF Bound, LogTypes, NumberInv
  <2>2. CASE BumpSeq
    <3>1. Bound = seq /\ rec.seq = seq /\ step' = "commit" /\ rec' = rec
      BY <1>0, <2>2 DEF BumpSeq, Bound, NumberInv
    <3>2. Bound' = rec.seq
      BY <3>1 DEF Bound
    <3> QED
      BY <2>1, <3>1, <3>2
  <2>3. CASE ~ BumpSeq
    <3>1. seq' = seq /\ step' # "commit"
      <4>1. Quiet => step # "commit"
        BY DEF Quiet
      <4> QED
        BY <2>3, <4>1 DEF Elsewhere, BootValid, BootStamped, Write, BeginWrite, NoSkip, Fault, FaultWrites,
             Reset, Restart, IterStart, IterNext, ringVars
    <3>2. Bound' = seq
      BY <3>1 DEF Bound
    <3> QED
      BY <2>1, <3>2
  <2> QED
    BY <2>2, <2>3
<1>3. Contents' = Contents
  BY <1>1, SameContents
<1> QED
  BY <1>0, <1>1, <1>2, <1>3

LEMMA ElsewhereChain ==
  ASSUME LogInv, LogTypes', Elsewhere, NEW S, LogChain(S)
  PROVE  LogChain(S)'
<1>1. /\ data' = data /\ head' = head /\ tail' = tail
      /\ Bound' \in Nat /\ Bound <= Bound'
  BY ElsewhereKeeps
<1> QED
  BY <1>1, ChainStays DEF LogInv

\* What is written behind head leaves the records as they are.
LEMMA PutsChain ==
  ASSUME LogInv, PutSkip \/ PutWord, NEW S, LogChain(S)
  PROVE  /\ LogChain(S)' /\ Contents' = Contents /\ head' = head /\ tail' = tail /\ header' = header
         /\ Bound' = Bound
         /\ \A o \in S \ {head} : data'[At(o)] = data[At(o)]
               /\ (RecordNode(data, o) => RecordOf(data', At(o)) = RecordOf(data, At(o)))
<1>0. LogTypes /\ NumberInv /\ PutInv /\ head \in RingOffsets /\ tail \in RingOffsets
  BY DEF LogInv, WriteInv, LogTypes
<1>1. rec.len \in RecMin .. RecMax /\ rec.put \in Nat /\ rec.seq \in Nat
  BY <1>0 DEF PutSkip, PutWord, NumberInv, WriteSteps, LogTypes
<1>2. Minus(head, tail) \in Nat
  BY <1>0, Distances
<1>3. head' = head /\ tail' = tail /\ header' = header /\ Bound' = Bound
  <2>1. CASE PutSkip
    BY <2>1 DEF PutSkip, Bound
  <2>2. CASE PutWord
    <3>1. rec'.seq = rec.seq
      BY <1>0, <2>2 DEF PutWord, LogTypes
    <3> QED
      BY <2>2, <3>1 DEF PutWord, Bound
  <2> QED
    BY <2>1, <2>2
<1>4. PICK k \in Nat, w \in Words :
          Minus(head, tail) + k < RingSize /\ data' = [data EXCEPT ![At(Plus(head, k))] = w]
  <2>1. CASE PutSkip
    <3>1. Minus(head, tail) + Need <= RingSize /\ SkipLen \in Nat /\ Need = SkipLen + rec.len /\ rec.len >= 2
      BY <1>0, <1>1, <2>1, RoomWhenFits, SkipIs, Sizes DEF PutSkip
    <3>2. Minus(head, tail) + 0 < RingSize
      BY <1>1, <1>2, <3>1, Sizes
    <3>3. Word("skip", SkipLen) \in Words
      BY <3>1, WordsAre
    <3>4. Plus(head, 0) = head
      BY <1>0, Distances
    <3>5. data' = [data EXCEPT ![At(Plus(head, 0))] = Word("skip", SkipLen)]
      BY <2>1, <3>4 DEF PutSkip
    <3> QED
      BY <3>2, <3>3, <3>5
  <2>2. CASE PutWord
    <3>1. Minus(head, tail) + rec.put < RingSize
      BY <1>0, <1>1, <1>2, <2>2, Sizes DEF PutWord, PutInv
    <3>2. RecWord(rec.put) \in Words
      <4>1. rec.len \in Nat
        BY <1>1, Sizes
      <4> QED
        BY <1>1, <4>1, WordsAre DEF RecWord
    <3>3. data' = [data EXCEPT ![At(Plus(head, rec.put))] = RecWord(rec.put)]
      BY <2>2 DEF PutWord, RecWord
    <3> QED
      BY <1>1, <3>1, <3>2, <3>3
  <2> QED
    BY <2>1, <2>2
<1>5. LogChain(S)' /\ Contents' = Contents
  BY <1>0, <1>3, <1>4, ChainPut
<1>6. \A o \in S \ {head} : data'[At(o)] = data[At(o)]
               /\ (RecordNode(data, o) => RecordOf(data', At(o)) = RecordOf(data, At(o)))
  BY <1>0, <1>3, <1>4, ChainPut
<1> QED
  BY <1>3, <1>5, <1>6

\* The move over a SKIP.
LEMMA PassSkipChain ==
  ASSUME LogInv, PassSkip, NEW S, LogChain(S)
  PROVE  /\ Chain(data', head', tail', Bound', S \union {head'}) /\ Contents' = Contents
         /\ data' = data /\ tail' = tail /\ header' = header /\ Bound' = Bound /\ ~ RecordNode(data, head)
         /\ head' = After(data, head) /\ data[At(head)].n \in 1 .. RingSize /\ head' \in RingOffsets /\ head' \notin S
         /\ \A o \in S : Minus(head', o) = Minus(head, o) + data[At(head)].n
<1>0. LogTypes /\ WriteInv /\ header = 3 /\ header' = 3
  BY DEF LogInv, WriteInv, ReadyInv, WriteSteps, PassSkip
<1>1. rec.len \in RecMin .. RecMax
  BY <1>0 DEF PassSkip, WriteInv, NumberInv, WriteSteps
<1>2. /\ SkipLen > 0 /\ data[At(head)] = Word("skip", SkipLen) /\ Minus(head, tail) + Need <= RingSize
      /\ SkipLen \in Nat /\ Need = SkipLen + rec.len /\ rec.len \in Nat
      /\ At(head) # 0 /\ At(head) + SkipLen = RingSize
  BY <1>0, <1>1, SkipIs DEF PassSkip, WriteInv, SkipInv
<1>3. data[At(head)].kind = "skip" /\ data[At(head)].n = SkipLen
  BY <1>2 DEF Word
<1>4. data' = data /\ tail' = tail /\ header' = header /\ Bound' = Bound /\ head' = After(data, head)
  BY <1>3 DEF PassSkip, Bound, After
<1>5. SoundAt(data, At(head), Bound') /\ ~ RecordNode(data, head)
  BY <1>2, <1>3 DEF SoundAt, SoundSkip, RecordNode
<1>6. Minus(head, tail) + data[At(head)].n <= RingSize
  <2>1. Minus(head, tail) \in Nat
    BY <1>0, Distances DEF LogTypes
  <2> QED
    BY <1>2, <1>3, <2>1, Sizes
<1>7. Bound \in Nat /\ Bound' \in Nat /\ Bound <= Bound'
  BY <1>0, <1>4, BoundIs
<1>8. /\ Chain(data', head', tail', Bound', S \union {head'}) /\ Contents' = Contents \o Piece(data, head)
      /\ data[At(head)].n \in 1 .. RingSize /\ head' \in RingOffsets /\ head' \notin S
      /\ \A o \in S : Minus(head', o) = Minus(head, o) + data[At(head)].n
  BY <1>0, <1>4, <1>5, <1>6, <1>7, ChainGrows
<1>9. Contents' = Contents
  <2>1. Piece(data, head) = <<>>
    BY <1>5 DEF Piece
  <2>2. Contents \in Seq(LogRecord(Bound))
    BY <1>0, ContentsAre
  <2> QED
    BY <1>8, <2>1, <2>2, ConcatEmptySeq
<1> QED
  BY <1>4, <1>5, <1>8, <1>9

\* The commit of a record appends it.
LEMMA CommitChain ==
  ASSUME LogInv, Commit, NEW S, LogChain(S)
  PROVE  /\ Chain(data', head', tail', Bound', S \union {head'})
         /\ Contents' = Append(Contents, [seq |-> rec.seq, whole |-> TRUE])
         /\ data' = data /\ tail' = tail /\ header' = header /\ Bound = rec.seq /\ Bound' = rec.seq + 1
         /\ RecordNode(data, head) /\ Number(data, head) = rec.seq
         /\ head' = After(data, head) /\ data[At(head)].n \in 1 .. RingSize /\ head' \in RingOffsets /\ head' \notin S
         /\ \A o \in S : Minus(head', o) = Minus(head, o) + data[At(head)].n
<1>0. LogTypes /\ WriteInv /\ header = 3 /\ header' = 3 /\ step = "commit"
  BY DEF LogInv, WriteInv, ReadyInv, WriteSteps, Commit
<1>1. /\ SoundRecord(data, At(head), rec.seq + 1) /\ data[At(head)].n = rec.len
      /\ RecordNode(data, head) /\ Number(data, head) = rec.seq
      /\ RecordOf(data, At(head)) = [seq |-> rec.seq, whole |-> TRUE]
  BY <1>0, WrittenRecord
<1>2. rec.seq \in Nat /\ seq = rec.seq + 1
  BY <1>0 DEF LogTypes, WriteInv, NumberInv
<1>3. data' = data /\ tail' = tail /\ header' = header /\ Bound = rec.seq /\ Bound' = rec.seq + 1
  <2>1. step' # "commit" /\ seq' = seq
    BY DEF Commit
  <2> QED
    BY <1>0, <1>2, <2>1 DEF Commit, Bound
<1>4. head' = After(data, head)
  BY <1>1 DEF Commit, After
<1>5. SoundAt(data, At(head), Bound')
  BY <1>1, <1>3 DEF SoundAt
<1>6. Minus(head, tail) + data[At(head)].n <= RingSize
  BY <1>0, <1>1 DEF WriteInv, PutInv
<1>7. Bound' \in Nat /\ Bound <= Bound' /\ Bound <= Number(data, head)
  BY <1>1, <1>2, <1>3
<1>8. /\ Chain(data', head', tail', Bound', S \union {head'}) /\ Contents' = Contents \o Piece(data, head)
      /\ data[At(head)].n \in 1 .. RingSize /\ head' \in RingOffsets /\ head' \notin S
      /\ \A o \in S : Minus(head', o) = Minus(head, o) + data[At(head)].n
  BY <1>0, <1>3, <1>4, <1>5, <1>6, <1>7, ChainGrows
<1>9. Contents' = Append(Contents, [seq |-> rec.seq, whole |-> TRUE])
  <2> DEFINE r == [seq |-> rec.seq, whole |-> TRUE]
             T == LogRecord(Bound')
  <2>1. Piece(data, head) = <<r>>
    BY <1>1 DEF Piece
  <2>2. Contents \in Seq(LogRecord(Bound)) /\ LogRecord(Bound) \subseteq T /\ r \in T
    <3>1. Contents \in Seq(LogRecord(Bound))
      BY <1>0, ContentsAre
    <3>2. 0 .. Bound - 1 \subseteq 0 .. Bound' - 1 /\ rec.seq \in 0 .. Bound' - 1
      BY <1>2, <1>3
    <3> HIDE <1>3
    <3>3. LogRecord(Bound) \subseteq T
      BY <3>2 DEF LogRecord
    <3>4. r \in T
      BY <3>2 DEF LogRecord
    <3> QED
      BY <3>1, <3>3, <3>4
  <2> HIDE DEF r, T
  <2>3. Contents \in Seq(T)
    BY <2>2, SeqMonotonic
  <2>4. Contents \o <<r>> = Append(Contents, r)
    BY <2>2, <2>3
  <2> QED
    BY <1>8, <2>1, <2>4 DEF r
<1> QED
  BY <1>1, <1>3, <1>4, <1>8, <1>9

\* An eviction takes the oldest.
LEMMA EvictChain ==
  ASSUME LogInv, Evict, NEW S, LogChain(S)
  PROVE  /\ Chain(data', head', tail', Bound', {o \in S : Minus(head, o) <= Minus(head, tail')})
         /\ data' = data /\ head' = head /\ header' = header /\ Bound' = Bound
         /\ tail' \in S /\ Minus(head, tail') < Minus(head, tail)
         /\ Contents' = Contents \/ (Contents # <<>> /\ Contents' = Tail(Contents))
<1>0. LogTypes /\ header = 3 /\ header' = 3 /\ tail # head /\ data' = data /\ head' = head /\ Bound' = Bound
  BY DEF LogInv, WriteInv, ReadyInv, WriteSteps, Evict, Fits, Bound
<1>1. data[At(tail)].kind \in {"rec", "skip"}
  <2>1. Chain(data, head, tail, Bound, S) /\ tail \in S
    BY TailInChain DEF LogChain
  <2> QED
    BY <1>0, <2>1, RecordOfLink
<1>2. tail' = After(data, tail)
  BY <1>1 DEF Evict, After
<1>3. /\ Chain(data', head', tail', Bound', {o \in S : Minus(head, o) <= Minus(head, tail')})
      /\ tail' \in S /\ Minus(head, tail') < Minus(head, tail)
      /\ Contents' = Contents \/ (Contents # <<>> /\ Contents' = Tail(Contents))
  BY <1>0, <1>2, ChainShrinks
<1> QED
  BY <1>0, <1>3

\* Everything goes at once: a clear, a stamp of a ring that was lost.
LEMMA EmptiedChain ==
  ASSUME LogTypes, LogTypes', tail' = head'
  PROVE  Chain(data', head', tail', Bound', {head'}) /\ Contents' = <<>>
<1>1. data' \in Rings /\ head' \in RingOffsets
  BY DEF LogTypes
<1>2. Bound' \in Nat
  <2>1. seq' \in 0 .. MaxSeq /\ rec'.seq \in 0 .. MaxSeq
    BY DEF LogTypes
  <2>2. Bound' = IF step' = "commit" THEN rec'.seq ELSE seq'
    BY DEF Bound
  <2> QED
    BY <2>1, <2>2, Sizes
<1> QED
  BY <1>1, <1>2, ChainEmptied

LEMMA ChainKept ==
  ASSUME LogInv, LogNext, LogTypes'
  PROVE  header' = 3 => \E S : Chain(data', head', tail', Bound', S)
<1> SUFFICES ASSUME header' = 3 PROVE \E S : Chain(data', head', tail', Bound', S)
  OBVIOUS
<1>0. LogTypes /\ ReadyInv
  BY DEF LogInv, WriteInv
<1>1. CASE tail' = head'
  BY <1>0, <1>1, EmptiedChain
<1>2. CASE BootStamp
  <2>1. tail' = head'
    BY <1>0, <1>2 DEF BootStamp, ReadyInv
  <2> QED
    BY <1>1, <2>1
<1>3. CASE header = 3 /\ ~ BootStamp
  <2>1. PICK S : LogChain(S)
    BY <1>3 DEF LogInv
  <2>2. CASE Elsewhere
    <3>1. LogChain(S)'
      BY <2>1, <2>2, ElsewhereChain
    <3> QED
      BY <3>1 DEF LogChain
  <2>3. CASE PutSkip \/ PutWord
    <3>1. LogChain(S)'
      BY <2>1, <2>3, PutsChain
    <3> QED
      BY <3>1 DEF LogChain
  <2>4. CASE PassSkip
    BY <2>1, <2>4, PassSkipChain
  <2>5. CASE Commit
    BY <2>1, <2>5, CommitChain
  <2>6. CASE Evict
    BY <2>1, <2>6, EvictChain
  <2>7. CASE BootInvalid \/ PowerLoss
    BY <2>7 DEF BootInvalid, PowerLoss
  <2>8. CASE IterEnd \/ LogClear
    <3>1. CASE tail' = tail
      <4>1. data' = data /\ head' = head /\ Bound' = Bound
        BY <2>8 DEF IterEnd, LogClear, Bound
      <4>2. LogChain(S)'
        BY <1>0, <2>1, <3>1, <4>1, BoundIs, ChainStays
      <4> QED
        BY <4>2 DEF LogChain
    <3>2. CASE tail' # tail
      <4>1. tail' = head'
        BY <2>8, <3>2 DEF IterEnd, LogClear
      <4> QED
        BY <1>1, <4>1
    <3> QED
      BY <3>1, <3>2
  <2> QED
    BY <1>3, <2>2, <2>3, <2>4, <2>5, <2>6, <2>7, <2>8 DEF LogNext, Writing, Elsewhere
<1>4. CASE header # 3 /\ ~ BootStamp
  <2>1. header' = header
    BY <1>0, <1>4 DEF ReadyInv, LogNext, Writing, WriteSteps, BootValid, BootInvalid, BootStamped, Write, Evict,
         PutSkip, PassSkip, NoSkip, PutWord, BumpSeq, Commit, Fault, FaultWrites, Reset, PowerLoss,
         IterStart, IterNext, IterEnd, LogClear, ringVars
  <2> QED
    BY <1>4, <2>1
<1> QED
  BY <1>2, <1>3, <1>4

LEMMA LogInvInit ==
  ASSUME LogInit
  PROVE  LogInv
<1> USE Sizes
<1>1. data \in Rings
  BY WordsAre DEF LogInit, Rings
<1>2. head \in RingOffsets /\ tail = head
  BY LogAssumption DEF LogInit, RingOffsets
<1>3. LogTypes
  BY <1>1, <1>2 DEF LogInit, LogTypes, LogSteps, NoRec, NoPass, RingOffsets
<1>4. WriteInv
  BY DEF LogInit, WriteInv, ReadyInv, NumberInv, SkipInv, PutInv, WriteSteps, NoPass
<1>5. LogChain({head})
  BY <1>1, <1>2, <1>3, BoundIs, EmptyChain DEF LogChain
<1> QED
  BY <1>3, <1>4, <1>5 DEF LogInv

LEMMA LogInvStep ==
  ASSUME LogInv, [LogNext]_logVars
  PROVE  LogInv'
<1>1. CASE LogNext
  <2>1. LogTypes'
    BY <1>1, LogTypesKept
  <2>2. WriteInv'
    BY <1>1, ReadyKept, WritingKept DEF WriteInv
  <2>3. header' = 3 => \E S : Chain(data', head', tail', Bound', S)
    BY <1>1, <2>1, ChainKept
  <2> QED
    BY <2>1, <2>2, <2>3 DEF LogInv, LogChain
<1>2. CASE UNCHANGED logVars
  BY <1>2 DEF LogInv, LogTypes, WriteInv, ReadyInv, NumberInv, SkipInv, PutInv, LogChain, Bound, RecWord,
     SkipLen, Need, logVars, ringVars, readVars
<1> QED
  BY <1>1, <1>2

\* log_init() to log_vwrite(), over resets, power losses and faults.
LEMMA LogInvAlways == LogSpec => []LogInv
<1>1. LogInit => LogInv
  BY LogInvInit
<1>2. LogInv /\ [LogNext]_logVars => LogInv'
  BY LogInvStep
<1> QED
  BY <1>1, <1>2, PTL DEF LogSpec

LEMMA WholeRing ==
  ASSUME LogInv
  PROVE  LogTypeOK /\ RingWhole
<1>0. LogTypes
  BY DEF LogInv
<1>1. LogTypeOK
  <2>1. DOMAIN data = 0 .. RingSize - 1
    BY <1>0 DEF LogTypes, Rings
  <2>2. rec.put \in Nat /\ rec.len \in 0 .. RecMax /\ rec.put <= rec.len
    BY <1>0 DEF LogTypes
  <2>3. rec.put \in 0 .. rec.len
    BY <2>2, Sizes
  <2> QED
    BY <1>0, <2>1, <2>2, <2>3 DEF LogTypes, LogTypeOK, RingOffsets
<1>2. ASSUME header = 3
      PROVE  /\ Minus(head, tail) <= RingSize /\ WalkEnd = head
             /\ \A k \in DOMAIN Contents : Contents[k].whole
  <2>1. PICK S : LogChain(S)
    BY <1>2 DEF LogInv
  <2>2. Minus(head, tail) <= RingSize /\ WalkEnd = head
    BY <1>0, <2>1, TailInChain, WalkEndsAtHead
  <2>3. \A k \in DOMAIN Contents : Contents[k] \in LogRecord(Bound)
    BY <1>0, <2>1, ContentsAre
  <2>4. \A k \in DOMAIN Contents : Contents[k].whole
    BY <2>3 DEF LogRecord
  <2> QED
    BY <2>2, <2>4
<1> QED
  BY <1>1, <1>2 DEF RingWhole

\* Whatever resets, power losses and faults come between the stores of
\* log_vwrite(), log_init() finds whole records up to head: none is lost but
\* the one that was being written.
THEOREM RingStaysWhole == LogSpec => [](LogTypeOK /\ RingWhole)
<1>1. LogInv => LogTypeOK /\ RingWhole
  BY WholeRing
<1> QED
  BY <1>1, LogInvAlways, PTL

LEMMA LossyInit ==
  ASSUME LogInit
  PROVE  Lossy!Init
<1>1. LogInv
  BY LogInvInit
<1>2. head \in RingOffsets /\ tail = head
  BY <1>1 DEF LogInv, LogTypes, LogInit
<1>3. Records[RingSize][head] = <<>>
  BY <1>2, RecordsReads, Sizes DEF Reads
<1>4. Contents = <<>>
  BY <1>2, <1>3 DEF Contents
<1> QED
  BY <1>4 DEF Lossy!Init

LEMMA LossyStep ==
  ASSUME LogInv, LogNext
  PROVE  /\ Lossy!Next \/ Contents' = Contents
         /\ Reset \/ Fault \/ BootValid => Contents' = Contents
<1>0. LogTypes /\ LogTypes' /\ ReadyInv
  BY LogTypesKept DEF LogInv, WriteInv
<1>1. CASE Elsewhere
  BY <1>0, <1>1, ElsewhereKeeps
<1>2. ASSUME header = 3 PROVE \E S : LogChain(S)
  BY <1>2 DEF LogInv
<1>3. CASE PutSkip \/ PutWord
  <2>1. header = 3
    BY <1>0, <1>3 DEF PutSkip, PutWord, ReadyInv, WriteSteps
  <2>2. Contents' = Contents
    BY <1>2, <1>3, <2>1, PutsChain
  <2> QED
    BY <2>2
<1>4. CASE PassSkip
  <2>1. header = 3
    BY <1>0, <1>4 DEF PassSkip, ReadyInv, WriteSteps
  <2>2. Contents' = Contents
    BY <1>2, <1>4, <2>1, PassSkipChain
  <2> QED
    BY <2>2
<1> DEFINE Quietly == ~(Reset \/ Fault \/ BootValid)
<1>5. CASE Commit
  <2> DEFINE r == [seq |-> rec.seq, whole |-> TRUE]
  <2>1. header = 3
    BY <1>0, <1>5 DEF Commit, ReadyInv, WriteSteps
  <2>2. PICK S : LogChain(S)
    BY <1>2, <2>1
  <2>3. Contents' = Append(Contents, r) /\ Bound = rec.seq
    BY <1>5, <2>2, CommitChain
  <2>4. \A k \in DOMAIN Contents : Contents[k] \in LogRecord(Bound)
    BY <1>0, <2>2, ContentsAre
  <2>5. \A k \in DOMAIN Contents : Contents[k].seq < r.seq
    <3>1. rec.seq \in Nat /\ Bound = rec.seq
      BY <1>0, <2>3 DEF LogTypes
    <3>2. ASSUME NEW k \in DOMAIN Contents PROVE Contents[k].seq < rec.seq
      <4> DEFINE x == Contents[k]
      <4>1. x \in LogRecord(Bound)
        BY <2>4
      <4> HIDE DEF x
      <4>2. x.seq \in 0 .. Bound - 1
        BY <4>1 DEF LogRecord
      <4>3. x.seq < rec.seq
        BY <3>1, <4>2
      <4> QED
        BY <4>3 DEF x
    <3> QED
      BY <3>2
  <2>6. r \in [seq : 0 .. MaxSeq, whole : {TRUE}]
    BY <1>0 DEF LogTypes
  <2> HIDE DEF r
  <2>7. Lossy!Next
    BY <2>3, <2>5, <2>6 DEF Lossy!Next, Lossy!Append1
  <2>8. Quietly
    BY <1>5 DEF Commit, Reset, Restart, Fault, BootValid, NoPass
  <2> QED
    BY <2>7, <2>8
<1>6. CASE Evict
  <2>1. header = 3
    BY <1>0, <1>6 DEF Evict, ReadyInv, WriteSteps
  <2>2. PICK S : LogChain(S)
    BY <1>2, <2>1
  <2>3. Contents' = Contents \/ (Contents # <<>> /\ Contents' = Tail(Contents))
    BY <1>6, <2>2, EvictChain
  <2>4. Lossy!Next \/ Contents' = Contents
    BY <2>3 DEF Lossy!Next, Lossy!DropOldest
  <2>5. Quietly
    BY <1>6 DEF Evict, Reset, Restart, Fault, BootValid
  <2> QED
    BY <2>4, <2>5
<1>7. ASSUME Contents' = <<>> PROVE Lossy!Next
  BY <1>7 DEF Lossy!Next, Lossy!Empty
<1>8. ASSUME tail' = head' PROVE Contents' = <<>>
  BY <1>0, <1>8, EmptiedChain
<1>9. ASSUME header' # 3 PROVE Contents' = <<>>
  BY <1>9 DEF Contents
<1>10. CASE BootStamp
  <2>1. tail' = head'
    BY <1>0, <1>10 DEF BootStamp, ReadyInv
  <2>2. Quietly
    BY <1>10 DEF BootStamp, Reset, Restart, Fault, BootValid
  <2> QED
    BY <1>7, <1>8, <2>1, <2>2
<1>11. CASE BootInvalid \/ PowerLoss
  <2>1. header' # 3
    BY <1>11 DEF BootInvalid, PowerLoss
  <2>2. Reset \/ Fault \/ BootValid => header' = header
    BY DEF Reset, Fault, BootValid, ringVars
  <2>3. Contents' = <<>>
    BY <1>9, <2>1
  <2>4. Reset \/ Fault \/ BootValid => Contents = <<>>
    BY <2>1, <2>2 DEF Contents
  <2> QED
    BY <1>7, <2>3, <2>4
<1>12. CASE IterEnd \/ LogClear
  <2>1. Quietly
    BY <1>12 DEF IterEnd, LogClear, Quiet, Reset, Restart, Fault, BootValid
  <2>2. CASE tail' = tail
    <3>1. data' = data /\ head' = head /\ header' = header
      BY <1>12 DEF IterEnd, LogClear
    <3>2. Contents' = Contents
      BY <2>2, <3>1, SameContents
    <3> QED
      BY <2>1, <3>2
  <2>3. CASE tail' # tail
    <3>1. tail' = head'
      BY <1>12, <2>3 DEF IterEnd, LogClear
    <3> QED
      BY <1>7, <1>8, <2>1, <3>1
  <2> QED
    BY <2>2, <2>3
<1> QED
  BY <1>1, <1>3, <1>4, <1>5, <1>6, <1>10, <1>11, <1>12 DEF LogNext, Writing, Elsewhere

\* svc/log.c keeps its promise: what log_vwrite() commits is appended with a
\* number never there before, evictions take the oldest, and a reset, a fault
\* and the boot walk of a ring that survived change nothing.
THEOREM LogIsLossy == LogSpec => LogLossy
<1>1. LogInit => Lossy!Init
  BY LossyInit
<1>2. LogInv /\ [LogNext]_logVars => [Lossy!Next]_Contents
  <2>1. ASSUME LogInv, LogNext PROVE [Lossy!Next]_Contents
    BY <2>1, LossyStep
  <2>2. ASSUME UNCHANGED logVars PROVE Contents' = Contents
    BY <2>2, SameContents DEF logVars, ringVars
  <2> QED
    BY <2>1, <2>2
<1>3. LogInv /\ [LogNext]_logVars => [Reset \/ Fault \/ BootValid => Contents' = Contents]_logVars
  BY LossyStep
<1>4. LogSpec => Lossy!Spec
  BY <1>1, <1>2, LogInvAlways, PTL DEF LogSpec, Lossy!Spec
<1>5. LogSpec => [][Reset \/ Fault \/ BootValid => Contents' = Contents]_logVars
  BY <1>3, LogInvAlways, PTL DEF LogSpec
<1> QED
  BY <1>4, <1>5 DEF LogLossy
------------------------------------------------------------------------------
(* dmesg: a pass over the ring that writes and evictions overtake.          *)

\* RingOffsets are compared as signed differences: a pass has to be over before
\* writes have moved the ring half way round the offsets (2 GiB).
ShortPass == it.on => Minus(head, it.pos) < OffMod \div 2

LEMMA PrecedesIs ==
  ASSUME NEW h \in RingOffsets, NEW a \in RingOffsets, NEW b \in RingOffsets,
         Minus(h, a) < OffMod \div 2, Minus(h, b) < OffMod \div 2
  PROVE  Precedes(a, b) <=> Minus(h, b) < Minus(h, a)
<1> DEFINE half == OffMod \div 2
<1>1. half \in Nat /\ 2 * half <= OffMod /\ OffMod < 2 * half + 2
  BY Sizes
<1>2. /\ Minus(h, a) = IF h >= a THEN h - a ELSE h - a + OffMod
      /\ Minus(h, b) = IF h >= b THEN h - b ELSE h - b + OffMod
      /\ Minus(a, b) = IF a >= b THEN a - b ELSE a - b + OffMod
  BY MinusIs
<1>3. Minus(h, a) < half /\ Minus(h, b) < half /\ (Precedes(a, b) <=> Minus(a, b) >= half)
  BY DEF Precedes
<1> HIDE DEF half
<1> QED
  BY <1>1, <1>2, <1>3, Sizes DEF RingOffsets

LEMMA SameDistance ==
  ASSUME NEW h \in RingOffsets, NEW a \in RingOffsets, NEW b \in RingOffsets, Minus(h, a) = Minus(h, b)
  PROVE  a = b
<1>1. /\ Minus(h, a) = IF h >= a THEN h - a ELSE h - a + OffMod
      /\ Minus(h, b) = IF h >= b THEN h - b ELSE h - b + OffMod
  BY MinusIs
<1>2. /\ h \in Int /\ a \in Int /\ b \in Int /\ OffMod \in Int
      /\ 0 <= a /\ a < OffMod /\ 0 <= b /\ b < OffMod /\ 0 <= h /\ h < OffMod
  BY Sizes DEF RingOffsets
<1>3. CASE h >= a /\ h >= b
  <2>1. h - a = h - b
    BY <1>1, <1>3
  <2> QED
    BY <1>2, <2>1
<1>4. CASE h >= a /\ ~ h >= b
  <2>1. h - a = h - b + OffMod
    BY <1>1, <1>4
  <2> QED
    BY <1>2, <2>1
<1>5. CASE ~ h >= a /\ h >= b
  <2>1. h - a + OffMod = h - b
    BY <1>1, <1>5
  <2> QED
    BY <1>2, <2>1
<1>6. CASE ~ h >= a /\ ~ h >= b
  <2>1. h - a + OffMod = h - b + OffMod
    BY <1>1, <1>6
  <2> QED
    BY <1>2, <2>1
<1> QED
  BY <1>3, <1>4, <1>5, <1>6

\* A pass stands at p in the chain S, or was overtaken, and ends at e.
Placed(h, t, S, p, e) ==
    /\ p \in RingOffsets /\ e \in RingOffsets /\ Minus(h, e) <= Minus(h, p)
    /\ Minus(h, p) <= Minus(h, t) => p \in S
    /\ Minus(h, e) <= Minus(h, t) => e \in S
\* What it has shown, sh, are whole records in order.
InSequence(sh, b) ==
    sh \in Seq(LogRecord(b)) /\ \A k \in 2 .. Len(sh) : sh[k - 1].seq < sh[k].seq
\* The records ahead of it are later than all it has shown.
Ahead(d, h, S, p, sh) ==
    \A q \in S \ {h} : \A k \in DOMAIN sh :
        RecordNode(d, q) /\ Minus(h, q) <= Minus(h, p) => sh[k].seq < Number(d, q)
\* The records of its beginning, be, are before its end; those behind it were shown.
Began(d, h, b, S, e, be) ==
    /\ be \subseteq 0 .. b - 1
    /\ \A q \in S \ {h} : RecordNode(d, q) /\ Number(d, q) \in be => Minus(h, e) < Minus(h, q)
WasShown(d, q, sh) == \E j \in DOMAIN sh : sh[j] = RecordOf(d, At(q))
Behind(d, h, S, p, be, sh) ==
    \A q \in S \ {h} :
        RecordNode(d, q) /\ Number(d, q) \in be /\ Minus(h, p) < Minus(h, q) => WasShown(d, q, sh)
Pass(d, h, t, b, S, p, e, be, sh) ==
    /\ Placed(h, t, S, p, e) /\ InSequence(sh, b) /\ Ahead(d, h, S, p, sh)
    /\ Began(d, h, b, S, e, be) /\ Behind(d, h, S, p, be, sh)

PassInv ==
    it.on => \E S : LogChain(S) /\ Pass(data, head, tail, Bound, S, it.pos, it.end, began, shown)

LEMMA LogRecordBelow ==
  ASSUME NEW b \in Nat, NEW c \in Nat, b <= c
  PROVE  LogRecord(b) \subseteq LogRecord(c) /\ 0 .. b - 1 \subseteq 0 .. c - 1
<1>1. 0 .. b - 1 \subseteq 0 .. c - 1
  OBVIOUS
<1> QED
  BY <1>1 DEF LogRecord

\* The next number may grow.
LEMMA PassBelow ==
  ASSUME NEW d, NEW h, NEW t, NEW b \in Nat, NEW S, NEW p, NEW e, NEW be, NEW sh,
         Pass(d, h, t, b, S, p, e, be, sh), NEW c \in Nat, b <= c
  PROVE  Pass(d, h, t, c, S, p, e, be, sh)
<1>1. LogRecord(b) \subseteq LogRecord(c) /\ 0 .. b - 1 \subseteq 0 .. c - 1
  BY LogRecordBelow
<1>2. InSequence(sh, c)
  <2>1. sh \in Seq(LogRecord(b))
    BY DEF Pass, InSequence
  <2>2. sh \in Seq(LogRecord(c))
    BY <1>1, <2>1, SeqMonotonic
  <2> QED
    BY <2>2 DEF Pass, InSequence
<1>3. Began(d, h, c, S, e, be)
  BY <1>1 DEF Pass, Began
<1> QED
  BY <1>2, <1>3 DEF Pass

\* Words outside the chain may change.
LEMMA PassUntouched ==
  ASSUME NEW d, NEW h, NEW t, NEW b, NEW S, NEW p, NEW e, NEW be, NEW sh,
         Pass(d, h, t, b, S, p, e, be, sh), NEW d2,
         \A o \in S \ {h} : d2[At(o)] = d[At(o)] /\ (RecordNode(d, o) => RecordOf(d2, At(o)) = RecordOf(d, At(o)))
  PROVE  Pass(d2, h, t, b, S, p, e, be, sh)
<1>1. ASSUME NEW q \in S \ {h}, RecordNode(d2, q)
      PROVE  RecordNode(d, q) /\ RecordOf(d2, At(q)) = RecordOf(d, At(q)) /\ Number(d2, q) = Number(d, q)
  <2>1. RecordNode(d, q) /\ RecordOf(d2, At(q)) = RecordOf(d, At(q))
    BY <1>1 DEF RecordNode
  <2>2. RecordOf(d2, At(q)).seq = RecordOf(d, At(q)).seq
    BY <2>1
  <2> QED
    BY <2>1, <2>2 DEF RecordOf, Number
<1>2. Ahead(d2, h, S, p, sh)
  BY <1>1 DEF Pass, Ahead
<1>3. Began(d2, h, b, S, e, be)
  BY <1>1 DEF Pass, Began
<1>4. Behind(d2, h, S, p, be, sh)
  <2> SUFFICES ASSUME NEW q \in S \ {h}, RecordNode(d2, q), Number(d2, q) \in be, Minus(h, p) < Minus(h, q)
               PROVE  WasShown(d2, q, sh)
    BY DEF Behind
  <2>1. RecordNode(d, q) /\ RecordOf(d2, At(q)) = RecordOf(d, At(q)) /\ Number(d2, q) = Number(d, q)
    BY <1>1
  <2>2. WasShown(d, q, sh)
    BY <2>1 DEF Pass, Behind
  <2> QED
    BY <2>1, <2>2 DEF WasShown
<1> QED
  BY <1>2, <1>3, <1>4 DEF Pass

\* What is put behind the last record is new to the pass.
LEMMA PassGrows ==
  ASSUME NEW d, NEW h, NEW t, NEW b \in Nat, NEW S, Chain(d, h, t, b, S), NEW p, NEW e, NEW be, NEW sh,
         Pass(d, h, t, b, S, p, e, be, sh), Minus(h, p) < OffMod \div 2, NEW c \in Nat, b <= c,
         NEW g \in RingOffsets, g = After(d, h), g \notin S, d[At(h)].n \in 1 .. RingSize,
         \A o \in S : Minus(g, o) = Minus(h, o) + d[At(h)].n,
         RecordNode(d, h) => b <= Number(d, h) /\ Number(d, h) \in Nat
  PROVE  Pass(d, g, t, c, S \union {g}, p, e, be, sh)
<1> DEFINE n == d[At(h)].n
           U == S \union {g}
<1>1. Pass(d, h, t, c, S, p, e, be, sh)
  BY PassBelow
<1>2. /\ h \in S /\ t \in S /\ S \subseteq RingOffsets /\ p \in RingOffsets /\ e \in RingOffsets
      /\ Minus(h, e) <= Minus(h, p)
  BY DEF Chain, Spans, Pass, Placed
<1>3. n \in 1 .. RingSize /\ g = Plus(h, n)
  BY DEF After
<1>4. /\ Minus(h, p) \in Nat /\ Minus(h, e) \in Nat /\ Minus(h, t) \in Nat /\ Minus(h, h) = 0
      /\ \A o \in S : Minus(h, o) \in Nat
  BY <1>2, Distances
<1>5. \A o \in S : Minus(g, o) = Minus(h, o) + n
  OBVIOUS
<1> HIDE DEF n
<1>6. Minus(g, p) = Minus(h, p) + n /\ Minus(g, e) = Minus(h, e) + n
  <2>1. Minus(h, p) + n < OffMod /\ Minus(h, e) + n < OffMod
    BY <1>2, <1>3, <1>4, Sizes
  <2>2. h \in RingOffsets /\ n \in Nat
    BY <1>2, <1>3
  <2>3. Minus(Plus(h, n), p) = Minus(h, p) + n
    BY <1>2, <2>1, <2>2, Further
  <2>4. Minus(Plus(h, n), e) = Minus(h, e) + n
    BY <1>2, <2>1, <2>2, Further
  <2> QED
    BY <1>3, <2>3, <2>4
<1>7. Placed(g, t, U, p, e)
  BY <1>2, <1>3, <1>4, <1>5, <1>6 DEF Pass, Placed
<1>8. ASSUME NEW q \in U \ {g} PROVE q \in S /\ (q # h => q \in S \ {h}) /\ Minus(g, q) = Minus(h, q) + n
  BY <1>5
<1>9. Ahead(d, g, U, p, sh)
  <2> SUFFICES ASSUME NEW q \in U \ {g}, NEW k \in DOMAIN sh, RecordNode(d, q), Minus(g, q) <= Minus(g, p)
               PROVE  sh[k].seq < Number(d, q)
    BY DEF Ahead
  <2>1. CASE q = h
    <3>1. sh \in Seq(LogRecord(b))
      BY DEF Pass, InSequence
    <3>2. sh[k] \in LogRecord(b)
      BY <3>1, LenProperties, ElementOfSeq
    <3>3. sh[k].seq \in 0 .. b - 1
      BY <3>2 DEF LogRecord
    <3>4. b <= Number(d, q) /\ Number(d, q) \in Nat
      BY <2>1
    <3> QED
      BY <3>3, <3>4
  <2>2. CASE q # h
    <3>1. q \in S \ {h} /\ Minus(h, q) <= Minus(h, p)
      BY <1>3, <1>4, <1>6, <1>8, <2>2
    <3> QED
      BY <3>1 DEF Pass, Ahead
  <2> QED
    BY <2>1, <2>2
<1>10. ASSUME NEW q \in U \ {g}, RecordNode(d, q), Number(d, q) \in be PROVE q # h
  <2>1. be \subseteq 0 .. b - 1
    BY DEF Pass, Began
  <2>2. q = h => b <= Number(d, q) /\ Number(d, q) \in Nat
    BY <1>10
  <2> QED
    BY <1>10, <2>1, <2>2
<1>11. Began(d, g, c, U, e, be)
  <2>1. ASSUME NEW q \in U \ {g}, RecordNode(d, q), Number(d, q) \in be PROVE Minus(g, e) < Minus(g, q)
    <3>1. q \in S \ {h}
      BY <1>8, <1>10, <2>1
    <3>2. Minus(h, e) < Minus(h, q)
      BY <2>1, <3>1 DEF Pass, Began
    <3> QED
      BY <1>3, <1>4, <1>6, <1>8, <3>1, <3>2
  <2> QED
    BY <1>1, <2>1 DEF Pass, Began
<1>12. Behind(d, g, U, p, be, sh)
  <2> SUFFICES ASSUME NEW q \in U \ {g}, RecordNode(d, q), Number(d, q) \in be, Minus(g, p) < Minus(g, q)
               PROVE  WasShown(d, q, sh)
    BY DEF Behind
  <2>1. q \in S \ {h}
    BY <1>8, <1>10
  <2>2. Minus(h, p) < Minus(h, q)
    BY <1>3, <1>4, <1>6, <1>8, <2>1
  <2> QED
    BY <2>1, <2>2 DEF Pass, Behind
<1> QED
  BY <1>1, <1>7, <1>9, <1>11, <1>12 DEF Pass

\* Evictions, even of all.
LEMMA PassShrinks ==
  ASSUME NEW d, NEW h, NEW t, NEW b, NEW S, Chain(d, h, t, b, S), NEW p, NEW e, NEW be, NEW sh,
         Pass(d, h, t, b, S, p, e, be, sh), NEW u \in S
  PROVE  Pass(d, h, u, b, {o \in S : Minus(h, o) <= Minus(h, u)}, p, e, be, sh)
<1> DEFINE U == {o \in S : Minus(h, o) <= Minus(h, u)}
<1>1. /\ Minus(h, u) <= Minus(h, t) /\ h \in RingOffsets /\ u \in RingOffsets /\ t \in RingOffsets
      /\ p \in RingOffsets /\ e \in RingOffsets
  BY DEF Chain, Spans, Pass, Placed
<1>2. Minus(h, u) \in Nat /\ Minus(h, t) \in Nat /\ Minus(h, p) \in Nat /\ Minus(h, e) \in Nat
  BY <1>1, Distances
<1>3. Placed(h, u, U, p, e)
  BY <1>1, <1>2 DEF Pass, Placed
<1>4. U \subseteq S
  OBVIOUS
<1> HIDE DEF U
<1>5. Ahead(d, h, U, p, sh) /\ Began(d, h, b, U, e, be) /\ Behind(d, h, U, p, be, sh)
  BY <1>4 DEF Pass, Ahead, Began, Behind
<1> QED
  BY <1>3, <1>5 DEF Pass, U

------------------------------------------------------------------------------
(* What the iterator finds next.                                            *)

LEMMA Halves ==
  ASSUME NEW S, LogChain(S)
  PROVE  \A o \in S : /\ o \in RingOffsets /\ Minus(head, o) \in Nat /\ Minus(head, o) <= Minus(head, tail)
                      /\ Minus(head, o) < OffMod \div 2
<1>1. Chain(data, head, tail, Bound, S) /\ S \subseteq RingOffsets /\ head \in S /\ tail \in S
  BY TailInChain DEF LogChain
<1>2. Minus(head, tail) <= RingSize /\ \A o \in S : Minus(head, o) <= Minus(head, tail)
  BY <1>1 DEF Chain, Spans
<1>3. RingSize < OffMod \div 2 /\ OffMod \div 2 \in Nat
  BY Sizes
<1> SUFFICES ASSUME NEW o \in S
             PROVE  /\ o \in RingOffsets /\ Minus(head, o) \in Nat /\ Minus(head, o) <= Minus(head, tail)
                    /\ Minus(head, o) < OffMod \div 2
  OBVIOUS
<1>4. Minus(head, o) \in Nat /\ Minus(head, tail) \in Nat
  BY <1>1, Distances
<1> QED
  BY <1>1, <1>2, <1>3, <1>4, Sizes

LEMMA ReadableIs ==
  ASSUME LogTypes, NEW S, LogChain(S), Minus(head, it.end) < OffMod \div 2, NEW o \in S
  PROVE  Readable(o) <=> Minus(head, it.end) < Minus(head, o)
<1>1. it.end \in RingOffsets /\ head \in RingOffsets /\ o \in RingOffsets /\ Minus(head, o) < OffMod \div 2
  BY Halves DEF LogTypes
<1>2. Precedes(o, it.end) <=> Minus(head, it.end) < Minus(head, o)
  BY <1>1, PrecedesIs
<1>3. CASE o = head
  <2>1. Minus(head, o) = 0 /\ Minus(head, it.end) \in Nat
    BY <1>1, <1>3, Distances
  <2>2. ~ (Minus(head, it.end) < Minus(head, o))
    BY <2>1
  <2> QED
    BY <1>2, <2>2 DEF Readable
<1>4. CASE o # head
  <2>1. PlausibleAt(data, At(o))
    BY <1>4, RecordOfLink DEF LogChain
  <2>2. Plausible(o)
    BY <2>1 DEF PlausibleAt, Plausible
  <2> QED
    BY <1>2, <2>2 DEF Readable
<1> QED
  BY <1>3, <1>4

LEMMA WrapsToStart ==
  ASSUME NEW o \in RingOffsets, NEW n \in 1 .. RingSize, At(o) + n = RingSize
  PROVE  At(Plus(o, n)) = 0
<1>1. n \in 0 .. RingSize /\ At(o) \in Nat
  BY PositionIs
<1>2. At(Plus(o, n)) = IF At(o) + n < RingSize THEN At(o) + n ELSE At(o) + n - RingSize
  BY <1>1, PositionMoves
<1> QED
  BY <1>1, <1>2, Sizes

\* A SKIP is followed by the record at the start of the ring, or by head.
LEMMA AfterSkip ==
  ASSUME NEW S, LogChain(S), NEW r \in S, r # head, ~ RecordNode(data, r)
  PROVE  /\ After(data, r) \in S /\ Minus(head, After(data, r)) < Minus(head, r)
         /\ After(data, r) # head => RecordNode(data, After(data, r))
         /\ \A q \in S : RecordNode(data, q) /\ Minus(head, q) <= Minus(head, r) =>
                Minus(head, q) <= Minus(head, After(data, r))
<1> DEFINE u == After(data, r)
           n == data[At(r)].n
<1>1. Chain(data, head, tail, Bound, S)
  BY DEF LogChain
<1>2. /\ r \in RingOffsets /\ head \in RingOffsets /\ At(r) \in 0 .. RingSize - 1 /\ SoundAt(data, At(r), Bound)
      /\ n \in 1 .. RingSize /\ u \in S /\ Minus(head, u) = Minus(head, r) - n
  BY <1>1, LinkIs
<1>3. data[At(r)].kind = "skip" /\ At(r) + n = RingSize
  BY <1>2 DEF SoundAt, SoundSkip, SoundRecord, RecordNode
<1>4. At(u) = 0
  <2>1. n \in 1 .. RingSize /\ At(r) + n = RingSize
    BY <1>2, <1>3
  <2> HIDE DEF n
  <2>2. At(Plus(r, n)) = 0
    BY <1>2, <2>1, WrapsToStart
  <2> QED
    BY <2>2 DEF After, n
<1>5. Minus(head, r) \in Nat /\ Minus(head, u) \in Nat
  BY <1>2, Halves
<1> HIDE DEF u, n
<1>6. Minus(head, u) < Minus(head, r)
  BY <1>2, <1>5, Sizes
<1>7. ASSUME u # head PROVE RecordNode(data, u)
  <2>1. SoundAt(data, At(u), Bound)
    BY <1>1, <1>2, <1>7, LinkIs
  <2> QED
    BY <1>4, <2>1 DEF SoundAt, SoundSkip, SoundRecord, RecordNode
<1>8. ASSUME NEW q \in S, RecordNode(data, q), Minus(head, q) <= Minus(head, r)
      PROVE  Minus(head, q) <= Minus(head, u)
  <2>1. q \in RingOffsets /\ Minus(head, q) \in Nat
    BY Halves
  <2>2. Minus(head, q) # Minus(head, r)
    BY <1>2, <1>8, <2>1, SameDistance
  <2>3. Before(head, r, q)
    BY <1>5, <1>8, <2>1, <2>2 DEF Before
  <2>4. Minus(head, q) + n <= Minus(head, r)
    BY <1>1, <2>3 DEF Chain, Disjoint, n
  <2> QED
    BY <1>2, <1>5, <2>1, <2>4, Sizes
<1> QED
  BY <1>2, <1>6, <1>7, <1>8 DEF u

\* From r, dmesg reads the next record there is before the end of its pass.
LEMMA NextIs ==
  ASSUME LogTypes, NEW S, LogChain(S), Minus(head, it.end) < OffMod \div 2, NEW r \in S
  PROVE  /\ \A o \in NextRecord(r) :
                /\ o \in S /\ o # head /\ RecordNode(data, o) /\ Minus(head, it.end) < Minus(head, o)
                /\ Minus(head, o) <= Minus(head, r)
                /\ \A q \in S : RecordNode(data, q) /\ Minus(head, q) <= Minus(head, r) =>
                       Minus(head, q) <= Minus(head, o)
         /\ NextRecord(r) = {} =>
                \A q \in S : RecordNode(data, q) /\ Minus(head, q) <= Minus(head, r) /\ q # head =>
                    Minus(head, q) <= Minus(head, it.end)
<1>1. head \in RingOffsets /\ it.end \in RingOffsets /\ Minus(head, it.end) \in Nat
  BY Distances DEF LogTypes
<1>2. \A o \in S : Minus(head, o) \in Nat /\ (o = head => Minus(head, o) = 0)
  BY <1>1, Halves, Distances
<1>3. \A o \in S : Readable(o) <=> Minus(head, it.end) < Minus(head, o)
  BY ReadableIs
<1>4. \A o \in S : Readable(o) => o # head
  BY <1>1, <1>2, <1>3
<1>5. CASE ~ Readable(r)
  <2>1. NextRecord(r) = {}
    BY <1>5 DEF NextRecord, OverSkip
  <2>2. Minus(head, r) <= Minus(head, it.end)
    BY <1>1, <1>2, <1>3, <1>5
  <2>3. ASSUME NEW q \in S, Minus(head, q) <= Minus(head, r) PROVE Minus(head, q) <= Minus(head, it.end)
    BY <1>1, <1>2, <2>2, <2>3
  <2> QED
    BY <2>1, <2>3
<1>6. CASE Readable(r) /\ RecordNode(data, r)
  <2>1. NextRecord(r) = {r}
    BY <1>6 DEF NextRecord, OverSkip, RecordNode
  <2>2. Minus(head, it.end) < Minus(head, r) /\ r # head
    BY <1>3, <1>4, <1>6
  <2>3. Minus(head, r) <= Minus(head, r)
    BY <1>2
  <2> QED
    BY <1>6, <2>1, <2>2, <2>3
<1>7. CASE Readable(r) /\ ~ RecordNode(data, r)
  <2> DEFINE u == After(data, r)
  <2>1. /\ u \in S /\ Minus(head, u) < Minus(head, r) /\ (u # head => RecordNode(data, u))
        /\ \A q \in S : RecordNode(data, q) /\ Minus(head, q) <= Minus(head, r) =>
               Minus(head, q) <= Minus(head, u)
    BY <1>4, <1>7, AfterSkip
  <2>2. OverSkip(r) = u
    <3>1. data[At(r)].kind = "skip"
      BY <1>4, <1>7, RecordOfLink DEF RecordNode, LogChain
    <3> QED
      BY <1>7, <3>1 DEF OverSkip, After
  <2>3. OverSkip(u) = u
    BY <1>4, <2>1 DEF OverSkip, RecordNode
  <2>4. NextRecord(r) = {o \in {u} : Readable(o) /\ data[At(o)].kind = "rec"}
    BY <2>2, <2>3 DEF NextRecord
  <2> HIDE DEF u
  <2>5. Readable(u) => RecordNode(data, u) /\ u # head /\ Minus(head, it.end) < Minus(head, u)
    BY <1>3, <1>4, <2>1
  <2>6. Minus(head, u) <= Minus(head, r)
    BY <1>2, <2>1
  <2>7. CASE Readable(u)
    <3>1. NextRecord(r) = {u}
      BY <2>4, <2>5, <2>7 DEF RecordNode
    <3> QED
      BY <2>1, <2>5, <2>6, <2>7, <3>1
  <2>8. CASE ~ Readable(u)
    <3>1. NextRecord(r) = {}
      BY <2>4, <2>8
    <3>2. Minus(head, u) <= Minus(head, it.end)
      BY <1>1, <1>2, <1>3, <2>1, <2>8
    <3>3. ASSUME NEW q \in S, RecordNode(data, q), Minus(head, q) <= Minus(head, r)
          PROVE  Minus(head, q) <= Minus(head, it.end)
      <4>1. Minus(head, q) <= Minus(head, u)
        BY <2>1, <3>3
      <4> QED
        BY <1>1, <1>2, <2>1, <3>2, <4>1
    <3> QED
      BY <3>1, <3>3
  <2> QED
    BY <2>7, <2>8
<1> QED
  BY <1>5, <1>6, <1>7

\* Where a pass goes on: at its place, or at tail if it was overtaken.
LEMMA ResyncedIs ==
  ASSUME LogTypes, NEW S, LogChain(S), Placed(head, tail, S, it.pos, it.end),
         Minus(head, it.pos) < OffMod \div 2
  PROVE  /\ Resynced \in S /\ Minus(head, Resynced) <= Minus(head, it.pos)
         /\ \A q \in S : Minus(head, q) <= Minus(head, it.pos) => Minus(head, q) <= Minus(head, Resynced)
         /\ Minus(head, it.end) < OffMod \div 2
<1>1. /\ head \in RingOffsets /\ tail \in RingOffsets /\ it.pos \in RingOffsets /\ it.end \in RingOffsets /\ tail \in S
      /\ Minus(head, it.end) <= Minus(head, it.pos)
  BY TailInChain DEF LogTypes, Placed
<1>2. /\ Minus(head, it.pos) \in Nat /\ Minus(head, it.end) \in Nat /\ Minus(head, tail) \in Nat
      /\ Minus(head, tail) < OffMod \div 2
  BY <1>1, Distances, Halves
<1>3. \A q \in S : Minus(head, q) \in Nat /\ Minus(head, q) <= Minus(head, tail)
  BY Halves
<1>4. Precedes(it.pos, tail) <=> Minus(head, tail) < Minus(head, it.pos)
  BY <1>1, <1>2, PrecedesIs
<1>5. Minus(head, it.end) < OffMod \div 2
  <2>1. OffMod \div 2 \in Nat
    BY Sizes
  <2> QED
    BY <1>1, <1>2, <2>1
<1>6. CASE Precedes(it.pos, tail)
  <2>1. Resynced = tail
    BY <1>6 DEF Resynced
  <2>2. Minus(head, tail) <= Minus(head, it.pos)
    BY <1>2, <1>4, <1>6
  <2> QED
    BY <1>1, <1>3, <1>5, <2>1, <2>2
<1>7. CASE ~ Precedes(it.pos, tail)
  <2>1. Resynced = it.pos
    BY <1>7 DEF Resynced
  <2>2. Minus(head, it.pos) <= Minus(head, tail)
    BY <1>2, <1>4, <1>7
  <2>3. it.pos \in S
    BY <2>2 DEF Placed
  <2>4. Minus(head, it.pos) <= Minus(head, it.pos)
    BY <1>2
  <2> QED
    BY <1>5, <2>1, <2>3, <2>4
<1> QED
  BY <1>6, <1>7

------------------------------------------------------------------------------
(* The steps keep a pass in order.                                          *)

\* What the iterator reads is appended to what was shown.
LEMMA PassMoves ==
  ASSUME NEW d, NEW h, NEW t, NEW b, NEW S, Chain(d, h, t, b, S), NEW p, NEW e, NEW be, NEW sh,
         Pass(d, h, t, b, S, p, e, be, sh), NEW r \in S, Minus(h, r) <= Minus(h, p),
         \A q \in S : Minus(h, q) <= Minus(h, p) => Minus(h, q) <= Minus(h, r),
         NEW o \in S, o # h, RecordNode(d, o), Minus(h, e) < Minus(h, o), Minus(h, o) <= Minus(h, r),
         \A q \in S : RecordNode(d, q) /\ Minus(h, q) <= Minus(h, r) => Minus(h, q) <= Minus(h, o)
  PROVE  Pass(d, h, t, b, S, After(d, o), e, be, Append(sh, RecordOf(d, At(o))))
<1> DEFINE u == After(d, o)
           n == d[At(o)].n
           x == RecordOf(d, At(o))
           s2 == Append(sh, x)
<1>1. /\ h \in S /\ S \subseteq RingOffsets /\ t \in RingOffsets /\ p \in RingOffsets /\ e \in RingOffsets
      /\ \A q \in S : Minus(h, q) <= Minus(h, t)
  BY DEF Chain, Spans, Pass, Placed
<1>2. /\ n \in 1 .. RingSize /\ u \in S /\ Minus(h, u) = Minus(h, o) - n
  BY LinkIs
<1>3. /\ \A q \in S : Minus(h, q) \in Nat
      /\ Minus(h, p) \in Nat /\ Minus(h, e) \in Nat /\ Minus(h, t) \in Nat
  BY <1>1, Distances
<1>4. x \in LogRecord(b) /\ x.seq = Number(d, o) /\ Number(d, o) \in Nat
  BY RecordOfLink
<1>5. \A q \in S : Before(h, o, q) => Minus(h, q) + n <= Minus(h, o)
  BY DEF Chain, Disjoint
<1>6. sh \in Seq(LogRecord(b)) /\ \A k \in DOMAIN sh : sh[k] \in LogRecord(b) /\ sh[k].seq < x.seq
  <2>1. sh \in Seq(LogRecord(b))
    BY DEF Pass, InSequence
  <2>2. \A k \in DOMAIN sh : sh[k] \in LogRecord(b)
    BY <2>1, LenProperties, ElementOfSeq
  <2>3. Minus(h, o) <= Minus(h, p)
    BY <1>1, <1>3
  <2>4. \A k \in DOMAIN sh : sh[k].seq < Number(d, o)
    BY <2>3 DEF Pass, Ahead
  <2> QED
    BY <1>4, <2>1, <2>2, <2>4
<1> HIDE DEF u, n, x
<1>7. /\ s2 \in Seq(LogRecord(b)) /\ Len(s2) = Len(sh) + 1 /\ s2[Len(sh) + 1] = x
      /\ \A k \in 1 .. Len(sh) : s2[k] = sh[k]
      /\ DOMAIN s2 = 1 .. Len(sh) + 1 /\ DOMAIN sh = 1 .. Len(sh) /\ Len(sh) \in Nat
  BY <1>4, <1>6, AppendProperties, LenProperties
<1> HIDE DEF s2
<1>8. Placed(h, t, S, u, e)
  <2>1. Minus(h, e) <= Minus(h, t)
    BY <1>1, <1>3
  <2>2. e \in S
    BY <2>1 DEF Pass, Placed
  <2>3. Before(h, o, e)
    BY DEF Before
  <2>4. Minus(h, e) + n <= Minus(h, o)
    BY <1>5, <2>2, <2>3
  <2>5. Minus(h, e) <= Minus(h, u)
    BY <1>2, <1>3, <2>2, <2>4, Sizes
  <2> QED
    BY <1>1, <1>2, <2>2, <2>5 DEF Placed
<1>9. InSequence(s2, b)
  <2> SUFFICES ASSUME NEW k \in 2 .. Len(s2) PROVE s2[k - 1].seq < s2[k].seq
    BY <1>7 DEF InSequence
  <2>1. CASE k = Len(sh) + 1
    <3>1. k - 1 = Len(sh) /\ Len(sh) \in DOMAIN sh /\ Len(sh) \in 1 .. Len(sh)
      BY <1>7, <2>1
    <3>2. s2[k - 1] = sh[Len(sh)] /\ s2[k] = x
      BY <1>7, <2>1, <3>1
    <3> QED
      BY <1>6, <3>1, <3>2
  <2>2. CASE k # Len(sh) + 1
    <3>1. k \in 2 .. Len(sh) /\ k - 1 \in 1 .. Len(sh) /\ k \in 1 .. Len(sh)
      BY <1>7, <2>2
    <3>2. s2[k] = sh[k] /\ s2[k - 1] = sh[k - 1]
      BY <1>7, <3>1
    <3>3. sh[k - 1].seq < sh[k].seq
      BY <3>1 DEF Pass, InSequence
    <3> QED
      BY <3>2, <3>3
  <2> QED
    BY <2>1, <2>2
<1>10. Ahead(d, h, S, u, s2)
  <2> SUFFICES ASSUME NEW q \in S \ {h}, NEW k \in DOMAIN s2, RecordNode(d, q), Minus(h, q) <= Minus(h, u)
               PROVE  s2[k].seq < Number(d, q)
    BY DEF Ahead
  <2>1. Minus(h, q) < Minus(h, o)
    BY <1>2, <1>3, Sizes
  <2>2. CASE k = Len(sh) + 1
    <3>1. Number(d, o) < Number(d, q)
      BY <2>1 DEF Chain, Ordered, Before
    <3> QED
      BY <1>4, <1>7, <2>2, <3>1
  <2>3. CASE k # Len(sh) + 1
    <3>1. k \in 1 .. Len(sh) /\ k \in DOMAIN sh
      BY <1>7, <2>3
    <3>2. Minus(h, q) <= Minus(h, p)
      BY <1>3, <2>1
    <3>3. sh[k].seq < Number(d, q)
      BY <3>1, <3>2 DEF Pass, Ahead
    <3> QED
      BY <1>7, <3>1, <3>3
  <2> QED
    BY <2>2, <2>3
<1>11. Began(d, h, b, S, e, be)
  BY DEF Pass
<1>12. Behind(d, h, S, u, be, s2)
  <2> SUFFICES ASSUME NEW q \in S \ {h}, RecordNode(d, q), Number(d, q) \in be, Minus(h, u) < Minus(h, q)
               PROVE  WasShown(d, q, s2)
    BY DEF Behind
  <2>1. CASE q = o
    <3>1. s2[Len(sh) + 1] = RecordOf(d, At(q)) /\ Len(sh) + 1 \in DOMAIN s2
      BY <1>7, <2>1 DEF x
    <3> QED
      BY <3>1 DEF WasShown
  <2>2. CASE q # o
    <3>1. Minus(h, q) # Minus(h, o)
      BY <1>1, <2>2, SameDistance
    <3>2. ~ Before(h, o, q)
      <4>1. ASSUME Before(h, o, q) PROVE FALSE
        <5>1. Minus(h, q) + n <= Minus(h, o)
          BY <1>5, <4>1
        <5> QED
          BY <1>2, <1>3, <5>1, Sizes
      <4> QED
        BY <4>1
    <3>3. Minus(h, o) < Minus(h, q)
      BY <1>3, <3>1, <3>2 DEF Before
    <3>4. ~ (Minus(h, q) <= Minus(h, r))
      BY <1>3, <3>3
    <3>5. ~ (Minus(h, q) <= Minus(h, p))
      BY <3>4
    <3>6. Minus(h, p) < Minus(h, q)
      BY <1>3, <3>5
    <3>7. WasShown(d, q, sh)
      BY <3>6 DEF Pass, Behind
    <3>8. PICK j \in DOMAIN sh : sh[j] = RecordOf(d, At(q))
      BY <3>7 DEF WasShown
    <3>9. j \in 1 .. Len(sh) /\ j \in DOMAIN s2 /\ s2[j] = RecordOf(d, At(q))
      BY <1>7, <3>8
    <3> QED
      BY <3>9 DEF WasShown
  <2> QED
    BY <2>1, <2>2
<1> QED
  BY <1>8, <1>9, <1>10, <1>11, <1>12 DEF Pass, u, x, s2

LEMMA PassInvIs ==
  ASSUME PassInv, it.on
  PROVE  \E S : LogChain(S) /\ Pass(data, head, tail, Bound, S, it.pos, it.end, began, shown)
BY DEF PassInv

LEMMA PassInvNext ==
  ASSUME NEW S, Chain(data', head', tail', Bound', S),
         Pass(data', head', tail', Bound', S, it'.pos, it'.end, began', shown')
  PROVE  PassInv'
BY DEF PassInv, LogChain

LEMMA PassStarts ==
  ASSUME LogInv, LogTypes', IterStart
  PROVE  PassInv'
<1>1. PICK S : LogChain(S)
  BY DEF LogInv, WriteInv, ReadyInv, IterStart
<1>2. LogTypes /\ Elsewhere
  BY DEF LogInv, Elsewhere
<1>3. /\ LogChain(S)' /\ data' = data /\ head' = head /\ tail' = tail
      /\ Bound \in Nat /\ Bound' \in Nat /\ Bound <= Bound'
  BY <1>1, <1>2, ElsewhereChain, ElsewhereKeeps
<1>4. /\ it'.pos = tail /\ it'.end = head /\ shown' = <<>>
      /\ began' = {Contents[k].seq : k \in DOMAIN Contents}
  BY DEF IterStart
<1>5. /\ head \in RingOffsets /\ tail \in RingOffsets /\ head \in S /\ tail \in S
      /\ \A q \in S : Minus(head, q) \in Nat /\ Minus(head, q) <= Minus(head, tail) /\ q \in RingOffsets
  BY <1>1, <1>2, TailInChain, Halves DEF LogTypes
<1>6. Placed(head, tail, S, tail, head)
  <2>1. Minus(head, head) <= Minus(head, tail)
    BY <1>5
  <2> QED
    BY <1>5, <2>1 DEF Placed
<1>7. InSequence(<<>>, Bound)
  BY EmptySeq DEF InSequence
<1>8. began' \subseteq 0 .. Bound - 1
  <2>1. \A k \in DOMAIN Contents : Contents[k] \in LogRecord(Bound)
    BY <1>1, <1>2, ContentsAre
  <2>2. ASSUME NEW k \in DOMAIN Contents PROVE Contents[k].seq \in 0 .. Bound - 1
    <3> DEFINE x == Contents[k]
    <3>1. x \in LogRecord(Bound)
      BY <2>1
    <3> HIDE DEF x
    <3>2. x.seq \in 0 .. Bound - 1
      BY <3>1 DEF LogRecord
    <3> QED
      BY <3>2 DEF x
  <2> QED
    BY <1>4, <2>2
<1>9. Began(data, head, Bound, S, head, began')
  <2>1. ASSUME NEW q \in S \ {head} PROVE Minus(head, head) < Minus(head, q)
    <3>1. Minus(head, head) = 0 /\ Minus(head, q) # 0 /\ Minus(head, q) \in Nat
      BY <1>5, Distances
    <3> QED
      BY <3>1
  <2> QED
    BY <1>8, <2>1 DEF Began
<1>10. Ahead(data, head, S, tail, <<>>)
  BY DEF Ahead
<1>11. Behind(data, head, S, tail, began', <<>>)
  <2>1. ASSUME NEW q \in S \ {head} PROVE ~ (Minus(head, tail) < Minus(head, q))
    BY <1>5
  <2> QED
    BY <2>1 DEF Behind
<1>12. Pass(data, head, tail, Bound, S, tail, head, began', <<>>)
  BY <1>6, <1>7, <1>9, <1>10, <1>11 DEF Pass
<1>13. Pass(data, head, tail, Bound', S, tail, head, began', <<>>)
  BY <1>3, <1>12, PassBelow
<1>14. Chain(data', head', tail', Bound', S)
  BY <1>3 DEF LogChain
<1> QED
  BY <1>3, <1>4, <1>13, <1>14, PassInvNext

LEMMA PassGoesOn ==
  ASSUME LogInv, LogTypes', PassInv, ShortPass, IterNext
  PROVE  PassInv'
<1>1. LogTypes /\ it.on /\ Elsewhere
  BY DEF LogInv, IterNext, Elsewhere
<1>2. PICK S : LogChain(S) /\ Pass(data, head, tail, Bound, S, it.pos, it.end, began, shown)
  BY <1>1, PassInvIs
<1>3. /\ LogChain(S)' /\ data' = data /\ head' = head /\ tail' = tail
      /\ Bound \in Nat /\ Bound' \in Nat /\ Bound <= Bound'
  BY <1>1, <1>2, ElsewhereChain, ElsewhereKeeps
<1>4. PICK o \in NextRecord(Resynced) :
          it' = [it EXCEPT !.pos = Plus(o, data[At(o)].n)] /\ shown' = Append(shown, RecordAt(o))
  BY DEF IterNext
<1>5. it'.pos = After(data, o) /\ it'.end = it.end /\ began' = began
      /\ shown' = Append(shown, RecordOf(data, At(o)))
  BY <1>1, <1>4 DEF IterNext, After, RecordAt, RecordOf, LogTypes
<1>6. Minus(head, it.pos) < OffMod \div 2 /\ Placed(head, tail, S, it.pos, it.end)
  BY <1>1, <1>2 DEF ShortPass, Pass
<1>7. /\ Resynced \in S /\ Minus(head, Resynced) <= Minus(head, it.pos)
      /\ \A q \in S : Minus(head, q) <= Minus(head, it.pos) => Minus(head, q) <= Minus(head, Resynced)
      /\ Minus(head, it.end) < OffMod \div 2
  BY <1>1, <1>2, <1>6, ResyncedIs
<1>8. /\ o \in S /\ o # head /\ RecordNode(data, o) /\ Minus(head, it.end) < Minus(head, o)
      /\ Minus(head, o) <= Minus(head, Resynced)
      /\ \A q \in S : RecordNode(data, q) /\ Minus(head, q) <= Minus(head, Resynced) =>
             Minus(head, q) <= Minus(head, o)
  BY <1>1, <1>2, <1>4, <1>7, NextIs
<1>9. Pass(data, head, tail, Bound, S, After(data, o), it.end, began, Append(shown, RecordOf(data, At(o))))
  <2> DEFINE d == data
             h == head
             b == Bound
             r == Resynced
             p == it.pos
             e == it.end
  <2>1. /\ Chain(d, h, tail, b, S) /\ Pass(d, h, tail, b, S, p, e, began, shown)
        /\ r \in S /\ Minus(h, r) <= Minus(h, p)
        /\ o \in S /\ o # h /\ RecordNode(d, o) /\ Minus(h, e) < Minus(h, o) /\ Minus(h, o) <= Minus(h, r)
    BY <1>2, <1>7, <1>8 DEF LogChain
  <2>2. \A q \in S : Minus(h, q) <= Minus(h, p) => Minus(h, q) <= Minus(h, r)
    BY <1>7
  <2>3. \A q \in S : RecordNode(d, q) /\ Minus(h, q) <= Minus(h, r) => Minus(h, q) <= Minus(h, o)
    BY <1>8
  <2> HIDE DEF d, h, b, r, p, e
  <2>4. Pass(d, h, tail, b, S, After(d, o), e, began, Append(shown, RecordOf(d, At(o))))
    BY <2>1, <2>2, <2>3, PassMoves
  <2> QED
    BY <2>4 DEF d, h, b, e
<1>10. Pass(data, head, tail, Bound', S, After(data, o), it.end, began, Append(shown, RecordOf(data, At(o))))
  BY <1>3, <1>9, PassBelow
<1>11. Chain(data', head', tail', Bound', S)
  BY <1>3 DEF LogChain
<1> QED
  BY <1>3, <1>5, <1>10, <1>11, PassInvNext

\* The steps of others, while a pass is on.
LEMMA PassOvertaken ==
  ASSUME LogInv, LogTypes', LogNext, PassInv, ShortPass, it.on, it' = it, shown' = shown, began' = began
  PROVE  PassInv'
<1>0. LogTypes /\ WriteInv /\ ready /\ step # "boot" /\ step # "stamp"
  BY DEF LogInv, WriteInv, ReadyInv
<1>1. PICK S : LogChain(S) /\ Pass(data, head, tail, Bound, S, it.pos, it.end, began, shown)
  BY PassInvIs
<1>2. /\ Chain(data, head, tail, Bound, S) /\ Bound \in Nat /\ Bound' \in Nat
      /\ Minus(head, it.pos) < OffMod \div 2
  <2>1. Chain(data, head, tail, Bound, S)
    BY <1>1 DEF LogChain
  <2>2. seq' \in 0 .. MaxSeq /\ rec'.seq \in 0 .. MaxSeq
    BY DEF LogTypes
  <2>3. Bound' = IF step' = "commit" THEN rec'.seq ELSE seq'
    BY DEF Bound
  <2>4. Bound' \in Nat
    BY <2>2, <2>3, Sizes
  <2> QED
    BY <1>0, <2>1, <2>4, BoundIs DEF ShortPass
<1>3. CASE Elsewhere
  <2>1. /\ LogChain(S)' /\ data' = data /\ head' = head /\ tail' = tail /\ Bound <= Bound'
    BY <1>1, <1>3, ElsewhereChain, ElsewhereKeeps
  <2>2. Pass(data, head, tail, Bound', S, it.pos, it.end, began, shown)
    BY <1>1, <1>2, <2>1, PassBelow
  <2>3. Chain(data', head', tail', Bound', S)
    BY <2>1 DEF LogChain
  <2> QED
    BY <2>1, <2>2, <2>3, PassInvNext
<1>4. CASE PutSkip \/ PutWord
  <2>1. /\ LogChain(S)' /\ head' = head /\ tail' = tail /\ Bound' = Bound
        /\ \A o \in S \ {head} : data'[At(o)] = data[At(o)]
               /\ (RecordNode(data, o) => RecordOf(data', At(o)) = RecordOf(data, At(o)))
    BY <1>1, <1>4, PutsChain
  <2>2. Pass(data', head, tail, Bound, S, it.pos, it.end, began, shown)
    <3> DEFINE d == data
               d2 == data'
               h == head
    <3>1. Pass(d, h, tail, Bound, S, it.pos, it.end, began, shown)
      BY <1>1
    <3>2. \A o \in S \ {h} : d2[At(o)] = d[At(o)]
               /\ (RecordNode(d, o) => RecordOf(d2, At(o)) = RecordOf(d, At(o)))
      BY <2>1
    <3> HIDE DEF d, d2, h
    <3>3. Pass(d2, h, tail, Bound, S, it.pos, it.end, began, shown)
      BY <3>1, <3>2, PassUntouched
    <3> QED
      BY <3>3 DEF d2, h
  <2>3. Chain(data', head', tail', Bound', S)
    BY <2>1 DEF LogChain
  <2> QED
    BY <2>1, <2>2, <2>3, PassInvNext
<1>5. CASE PassSkip \/ Commit
  <2>1. /\ Chain(data', head', tail', Bound', S \union {head'}) /\ data' = data /\ tail' = tail
        /\ head' = After(data, head) /\ data[At(head)].n \in 1 .. RingSize /\ head' \in RingOffsets /\ head' \notin S
        /\ \A o \in S : Minus(head', o) = Minus(head, o) + data[At(head)].n
    BY <1>1, <1>5, PassSkipChain, CommitChain
  <2>2. Bound <= Bound' /\ (RecordNode(data, head) => Bound <= Number(data, head) /\ Number(data, head) \in Nat)
    <3>1. CASE PassSkip
      <4>1. Bound' = Bound /\ ~ RecordNode(data, head)
        BY <1>1, <3>1, PassSkipChain
      <4> QED
        BY <1>2, <4>1
    <3>2. CASE Commit
      <4>1. Bound = rec.seq /\ Bound' = rec.seq + 1 /\ Number(data, head) = rec.seq
        BY <1>1, <3>2, CommitChain
      <4> QED
        BY <1>2, <4>1
    <3> QED
      BY <1>5, <3>1, <3>2
  <2>3. Pass(data, head', tail, Bound', S \union {head'}, it.pos, it.end, began, shown)
    <3> DEFINE d == data
               h == head
               g == head'
               b == Bound
               c == Bound'
               p == it.pos
    <3>1. /\ Chain(d, h, tail, b, S) /\ Pass(d, h, tail, b, S, p, it.end, began, shown)
          /\ Minus(h, p) < OffMod \div 2 /\ b \in Nat /\ c \in Nat /\ b <= c
      BY <1>1, <1>2, <2>2
    <3>2. /\ g \in RingOffsets /\ g = After(d, h) /\ g \notin S /\ d[At(h)].n \in 1 .. RingSize
          /\ \A o \in S : Minus(g, o) = Minus(h, o) + d[At(h)].n
      BY <2>1
    <3>3. RecordNode(d, h) => b <= Number(d, h) /\ Number(d, h) \in Nat
      BY <2>2
    <3> HIDE DEF d, h, g, b, c, p
    <3>4. Pass(d, g, tail, c, S \union {g}, p, it.end, began, shown)
      BY <3>1, <3>2, <3>3, PassGrows
    <3> QED
      BY <3>4 DEF d, g, c, p
  <2> QED
    BY <2>1, <2>3, PassInvNext
<1>6. CASE Evict
  <2>1. /\ Chain(data', head', tail', Bound', {o \in S : Minus(head, o) <= Minus(head, tail')})
        /\ data' = data /\ head' = head /\ Bound' = Bound /\ tail' \in S
    BY <1>1, <1>6, EvictChain
  <2>2. Pass(data, head, tail', Bound, {o \in S : Minus(head, o) <= Minus(head, tail')},
             it.pos, it.end, began, shown)
    BY <1>1, <1>2, <2>1, PassShrinks
  <2> QED
    BY <2>1, <2>2, PassInvNext
<1>7. CASE LogClear
  <2>1. data' = data /\ head' = head /\ tail' = head /\ Bound' = Bound
    BY <1>7 DEF LogClear, Bound
  <2>2. Chain(data', head', tail', Bound', {head'})
    BY <1>0, <2>1, EmptiedChain
  <2>3. head \in S /\ head \in RingOffsets /\ \A o \in S : Minus(head, o) \in Nat /\ o \in RingOffsets
    BY <1>0, <1>1, TailInChain, Halves DEF LogTypes
  <2>4. {o \in S : Minus(head, o) <= Minus(head, head)} = {head}
    <3>1. Minus(head, head) = 0 /\ \A o \in S : Minus(head, o) = 0 => o = head
      BY <2>3, Distances
    <3> QED
      BY <2>3, <3>1
  <2>5. Pass(data, head, head, Bound, {o \in S : Minus(head, o) <= Minus(head, head)},
             it.pos, it.end, began, shown)
    BY <1>1, <1>2, <2>3, PassShrinks
  <2> QED
    BY <2>1, <2>2, <2>4, <2>5, PassInvNext
<1>8. CASE BootInvalid \/ BootStamp
  BY <1>0, <1>8 DEF BootInvalid, BootStamp
<1>9. CASE PowerLoss \/ IterEnd
  BY <1>9 DEF PowerLoss, Restart, IterEnd, NoPass
<1> QED
  BY <1>3, <1>4, <1>5, <1>6, <1>7, <1>8, <1>9 DEF LogNext, Writing, Elsewhere

LEMMA PassInvStep ==
  ASSUME LogInv, LogInv', LogNext, PassInv, ShortPass
  PROVE  PassInv'
<1>0. LogTypes /\ LogTypes' /\ ReadyInv
  BY DEF LogInv, WriteInv
<1>1. CASE IterStart
  BY <1>0, <1>1, PassStarts
<1>2. CASE IterNext
  BY <1>0, <1>2, PassGoesOn
<1>3. CASE Fault \/ Reset \/ PowerLoss \/ IterEnd
  <2>1. ~ it'.on
    BY <1>3 DEF Fault, Reset, PowerLoss, Restart, IterEnd, NoPass
  <2> QED
    BY <2>1 DEF PassInv
<1>4. CASE ~ (IterStart \/ IterNext \/ Fault \/ Reset \/ PowerLoss \/ IterEnd)
  <2>1. it' = it /\ shown' = shown /\ began' = began
    BY <1>4 DEF LogNext, Writing, FaultWrites, LogClear, BootValid, BootInvalid, BootStamp, BootStamped, Write,
         Evict, PutSkip, PassSkip, NoSkip, PutWord, BumpSeq, Commit, readVars
  <2>2. CASE it.on
    BY <1>0, <2>1, <2>2, PassOvertaken
  <2>3. CASE ~ it.on
    BY <2>1, <2>3 DEF PassInv
  <2> QED
    BY <2>2, <2>3
<1> QED
  BY <1>1, <1>2, <1>3, <1>4

LEMMA PassFaithful ==
  ASSUME LogInv, PassInv, ShortPass
  PROVE  DmesgFaithful
<1> SUFFICES ASSUME it.on PROVE DmesgFaithful
  BY DEF DmesgFaithful
<1>0. LogTypes
  BY DEF LogInv
<1>1. PICK S : LogChain(S) /\ Pass(data, head, tail, Bound, S, it.pos, it.end, began, shown)
  BY PassInvIs
<1>2. Chain(data, head, tail, Bound, S) /\ head \in RingOffsets
  BY <1>0, <1>1 DEF LogChain, LogTypes
<1>3. shown \in Seq(LogRecord(Bound)) /\ \A k \in 2 .. Len(shown) : shown[k - 1].seq < shown[k].seq
  BY <1>1 DEF Pass, InSequence
<1>4. ASSUME NEW k \in DOMAIN shown PROVE shown[k].whole /\ (k > 1 => shown[k - 1].seq < shown[k].seq)
  <2>1. DOMAIN shown = 1 .. Len(shown) /\ Len(shown) \in Nat /\ shown[k] \in LogRecord(Bound)
    BY <1>3, LenProperties, ElementOfSeq
  <2>2. shown[k].whole
    BY <2>1 DEF LogRecord
  <2>3. k > 1 => k \in 2 .. Len(shown)
    BY <2>1
  <2> QED
    BY <1>3, <2>2, <2>3
<1>5. ASSUME NextRecord(Resynced) = {}, NEW k \in DOMAIN Contents, Contents[k].seq \in began
      PROVE  \E j \in DOMAIN shown : shown[j] = Contents[k]
  <2>1. PICK q \in S \ {head} : RecordNode(data, q) /\ Contents[k] = RecordOf(data, At(q))
    BY <1>0, <1>1, ContentsAre
  <2>2. Number(data, q) \in began
    <3>1. RecordOf(data, At(q)).seq = Number(data, q)
      BY <1>2, <2>1, RecordOfLink
    <3>2. Contents[k].seq = Number(data, q)
      BY <2>1, <3>1
    <3> QED
      BY <1>5, <3>2
  <2>3. Minus(head, it.end) < Minus(head, q)
    BY <1>1, <2>1, <2>2 DEF Pass, Began
  <2>4. /\ Resynced \in S
        /\ Minus(head, q) <= Minus(head, it.pos) => Minus(head, q) <= Minus(head, Resynced)
        /\ Minus(head, it.end) < OffMod \div 2
    BY <1>0, <1>1, ResyncedIs DEF ShortPass, Pass
  <2>5. Minus(head, q) <= Minus(head, Resynced) => Minus(head, q) <= Minus(head, it.end)
    BY <1>0, <1>1, <1>5, <2>1, <2>4, NextIs
  <2>6. Minus(head, q) \in Nat /\ Minus(head, it.end) \in Nat /\ Minus(head, it.pos) \in Nat
    BY <1>0, <1>1, Halves, Distances DEF LogTypes
  <2>7. Minus(head, it.pos) < Minus(head, q)
    BY <2>3, <2>4, <2>5, <2>6
  <2>8. WasShown(data, q, shown)
    BY <1>1, <2>1, <2>2, <2>7 DEF Pass, Behind
  <2> QED
    BY <2>1, <2>8 DEF WasShown
<1> QED
  BY <1>4, <1>5 DEF DmesgFaithful

\* svc/log.c and cmd_dmesg.c keep their promise: the ring is whole at every
\* instant a reset may come, and a pass of dmesg that is over before 2 GiB were
\* written shows whole records, in order, each of its beginning that is left.
THEOREM DmesgIsFaithful == LogSpec /\ []ShortPass => []LogSound
<1>1. LogInit => PassInv
  BY DEF LogInit, NoPass, PassInv
<1>2. LogInv /\ LogInv' /\ PassInv /\ ShortPass /\ [LogNext]_logVars => PassInv'
  <2>1. ASSUME LogInv, LogInv', PassInv, ShortPass, LogNext PROVE PassInv'
    BY <2>1, PassInvStep
  <2>2. ASSUME PassInv, UNCHANGED logVars PROVE PassInv'
    BY <2>2 DEF PassInv, LogChain, Bound, logVars, ringVars, readVars
  <2> QED
    BY <2>1, <2>2
<1>3. LogInv /\ PassInv /\ ShortPass => DmesgFaithful
  BY PassFaithful
<1>4. (LogTypeOK /\ RingWhole) /\ DmesgFaithful => LogSound
  BY DEF LogSound
<1> QED
  BY <1>1, <1>2, <1>3, <1>4, LogInvAlways, RingStaysWhole, PTL DEF LogSpec
====
