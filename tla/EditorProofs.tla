----------------------------- MODULE EditorProofs -----------------------------
(***************************************************************************)
(* Proofs about LineEditor: the terminal shows the line that is edited,    *)
(* and the history ring holds the newest lines, for any width, prompt,     *)
(* size of the line and of the ring.                                       *)
(***************************************************************************)
EXTENDS LineEditor, SequenceTheorems, WellFoundedInduction, FiniteSetTheorems, TLAPS

Width == Len(PromptText)
EdText == {t \in Seq(Printable) : Len(t) <= MaxLen}

LEMMA EditorSizes ==
  /\ Cols \in Nat \ {0} /\ MaxLen \in Nat /\ HistSize \in Nat
  /\ Width \in Nat /\ Width >= 1 /\ Width < Cols
<1>1. Cols \in Nat \ {0} /\ MaxLen \in Nat /\ HistSize \in Nat /\ Len(PromptText) \in 1 .. Cols - 1
  BY EditorAssumption
<1> QED
  BY <1>1 DEF Width
------------------------------------------------------------------------------
(* Rows and columns.                                                        *)

LEMMA Quotient ==
  ASSUME NEW c \in Nat \ {0}, NEW n \in Nat
  PROVE  /\ n \div c \in Nat /\ n % c \in 0 .. c - 1
         /\ n = (c * (n \div c)) + (n % c)
<1>1. n \div c \in Nat /\ c * (n \div c) <= n
  OBVIOUS
<1>2. n % c = n - c * (n \div c)
  OBVIOUS
<1>3. n % c \in 0 .. c - 1
  OBVIOUS
<1> DEFINE q == n \div c
           r == n % c
<1> HIDE DEF q, r
<1>4. q \in Nat /\ r = n - c * q /\ c * q \in Nat
  BY <1>1, <1>2 DEF q, r
<1>5. n = c * q + r
  BY <1>4
<1> QED
  BY <1>1, <1>3, <1>5 DEF q, r

\* A quotient and a remainder are told by the remainder's range.
LEMMA QuotientTold ==
  ASSUME NEW c \in Nat \ {0}, NEW q \in Nat, NEW r \in 0 .. c - 1
  PROVE  (c * q + r) \div c = q /\ (c * q + r) % c = r
OBVIOUS

\* A row further down.
LEMMA RowBelow ==
  ASSUME NEW n \in Nat
  PROVE  (Cols + n) \div Cols = 1 + n \div Cols /\ (Cols + n) % Cols = n % Cols
<1> DEFINE q == n \div Cols
           r == n % Cols
<1>0. Cols \in Nat \ {0}
  BY EditorSizes
<1>1. q \in Nat /\ r \in 0 .. Cols - 1 /\ n = Cols * q + r
  BY <1>0, Quotient
<1> HIDE DEF q, r
<1>2. Cols + n = Cols * (q + 1) + r
  BY <1>0, <1>1
<1>3. (Cols * (q + 1) + r) \div Cols = q + 1 /\ (Cols * (q + 1) + r) % Cols = r
  BY <1>0, <1>1, QuotientTold
<1> QED
  BY <1>1, <1>2, <1>3 DEF q, r

\* The cell of a row and a column, one row down.
LEMMA CellOf ==
  ASSUME NEW n \in Nat
  PROVE  (1 + n \div Cols) * Cols + (n % Cols) = Cols + n
<1> DEFINE q == n \div Cols
           r == n % Cols
<1>0. Cols \in Nat \ {0}
  BY EditorSizes
<1>1. q \in Nat /\ r \in 0 .. Cols - 1 /\ n = Cols * q + r
  BY <1>0, Quotient
<1> HIDE DEF q, r
<1>2. (1 + q) * Cols = Cols + Cols * q
  BY <1>0, <1>1
<1>3. Cols * q \in Nat
  BY <1>0, <1>1
<1>4. (1 + q) * Cols + r = Cols + n
  BY <1>0, <1>1, <1>2, <1>3
<1> QED
  BY <1>4 DEF q, r

\* One byte more or less stays in the row, unless it begins one.
LEMMA SameRow ==
  ASSUME NEW n \in Nat, (n + 1) % Cols # 0
  PROVE  (n + 1) \div Cols = n \div Cols
BY EditorSizes

LEMMA RowsInOrder ==
  ASSUME NEW m \in Nat, NEW n \in Nat, m <= n
  PROVE  m \div Cols <= n \div Cols /\ m \div Cols \in Nat /\ n \div Cols \in Nat
BY EditorSizes

\* The row that a full one is followed by.
LEMMA RowFull ==
  ASSUME NEW n \in Nat, n >= 1, n % Cols = 0
  PROVE  (n - 1) \div Cols + 1 = n \div Cols /\ (n \div Cols) * Cols = n
<1> DEFINE q == n \div Cols
<1>0. Cols \in Nat \ {0}
  BY EditorSizes
<1>1. q \in Nat /\ n = (Cols * q) + (n % Cols)
  BY <1>0, Quotient
<1> HIDE DEF q
<1>2. n = Cols * q /\ q * Cols = n /\ q # 0
  <2>1. Cols * q \in Nat
    BY <1>0, <1>1
  <2>2. n = Cols * q
    BY <1>1, <2>1
  <2>3. q * Cols = Cols * q
    BY <1>0, <1>1
  <2>4. q = 0 => Cols * q = 0
    BY <1>0
  <2> QED
    BY <2>2, <2>3, <2>4
<1>3. n - 1 = Cols * (q - 1) + (Cols - 1) /\ q - 1 \in Nat
  <2>1. Cols * (q - 1) = Cols * q - Cols
    BY <1>0, <1>1
  <2> QED
    BY <1>0, <1>1, <1>2, <2>1
<1>4. (Cols * (q - 1) + (Cols - 1)) \div Cols = q - 1
  BY <1>0, <1>3, QuotientTold
<1> QED
  BY <1>1, <1>2, <1>3, <1>4 DEF q

\* The cells of the first row, and those below the rows of a text.
LEMMA CellRow ==
  ASSUME NEW i \in Nat, NEW n \in Nat
  PROVE  /\ i < Cols <=> i \div Cols = 0
         /\ i \div Cols > 1 + n \div Cols => i > Cols + n
         /\ i \div Cols \in Nat
<1> DEFINE q == n \div Cols
           p == i \div Cols
<1>0. Cols \in Nat \ {0}
  BY EditorSizes
<1>1. q \in Nat /\ n % Cols \in 0 .. Cols - 1 /\ n = (Cols * q) + (n % Cols)
  BY <1>0, Quotient
<1>2. p \in Nat /\ i % Cols \in 0 .. Cols - 1 /\ i = (Cols * p) + (i % Cols)
  BY <1>0, Quotient
<1> HIDE DEF p, q
<1>3. p = 0 => i < Cols
  BY <1>0, <1>2
<1>4. p >= 1 => Cols * p >= Cols
  BY <1>0, <1>2
<1>5. p >= 1 => i >= Cols
  BY <1>0, <1>2, <1>4
<1>6. p > 1 + q => Cols * p >= Cols * (q + 2)
  BY <1>0, <1>1, <1>2
<1>7. Cols * (q + 2) = Cols * q + Cols + Cols /\ Cols * p \in Nat /\ Cols * q \in Nat
  BY <1>0, <1>1, <1>2
<1>8. p > 1 + q => i > Cols + n
  BY <1>0, <1>1, <1>2, <1>6, <1>7
<1> QED
  BY <1>0, <1>2, <1>3, <1>5, <1>8 DEF p, q
------------------------------------------------------------------------------
(* The terminal. Placed: where the editor left it with k of n characters    *)
(* before the cursor. Fresh: at a row below which nothing is rendered.      *)

Placed(s, n, k) ==
    /\ s.at = Cols + Width + k /\ s.wrap = FALSE
    /\ s.old = (Width + n) \div Cols + 1 /\ s.draw = (Width + k) \div Cols
Fresh(s) == s.at = Cols /\ s.wrap = FALSE /\ s.old = 0 /\ s.draw = 0
Prompted(t) == PromptText \o t
GlyphOf(w, n, i) == IF i < Cols THEN "#" ELSE IF i - Cols \in 0 .. n - 1 THEN w[i - Cols + 1] ELSE Gap
Glyph(t, i) == GlyphOf(Prompted(t), Width + Len(t), i)
Shows(s, t) == \A i \in Cells : s.cells[i] = Glyph(t, i)
Blank(s) == \A i \in Cells : s.cells[i] = IF i < Cols THEN "#" ELSE Gap

LEMMA TermIs ==
  ASSUME NEW c, NEW a, NEW w, NEW o, NEW d
  PROVE  /\ Term(c, a, w, o, d).cells = c /\ Term(c, a, w, o, d).at = a /\ Term(c, a, w, o, d).wrap = w
         /\ Term(c, a, w, o, d).old = o /\ Term(c, a, w, o, d).draw = d
BY DEF Term

\* The prompt and a text: so long, and first the prompt.
LEMMA PromptAnd ==
  ASSUME NEW t \in Seq(Printable)
  PROVE  /\ Len(Prompted(t)) = Width + Len(t) /\ Len(t) \in Nat
         /\ \A j \in 1 .. Width : Prompted(t)[j] = PromptText[j]
         /\ \A j \in 1 .. Len(t) : Prompted(t)[Width + j] = t[j]
<1>1. PromptText \in Seq(Range(PromptText))
  BY EditorAssumption
<1> DEFINE A == Range(PromptText)
<1> HIDE DEF A
<1>2. PromptText \in Seq(A) /\ t \in Seq(Printable)
  BY <1>1 DEF A
<1>3. \A j \in 1 .. Len(t) : Width + j \in 1 .. Width + Len(t) /\ Width + j > Width /\ (Width + j) - Width = j
  BY <1>2, EditorSizes
<1> QED
  BY <1>2, <1>3, EditorSizes DEF Width, Prompted

LEMMA CellsAre ==
  ASSUME NEW i \in Cells
  PROVE  i \in Nat
BY EditorSizes DEF Cells

\* The cursor stays within the terminal that is modelled.
LEMMA CellInside ==
  ASSUME NEW n \in Nat, n <= MaxLen
  PROVE  Cols + Width + n \in Cells
<1> DEFINE m == Width + MaxLen
           q == m \div Cols
<1>0. Cols \in Nat \ {0} /\ m \in Nat
  BY EditorSizes
<1>1. q \in Nat /\ m % Cols \in 0 .. Cols - 1 /\ m = (Cols * q) + (m % Cols)
  BY <1>0, Quotient
<1>2. Cells = 0 .. Cols * (4 + q) - 1
  BY DEF Cells, Width
<1> HIDE DEF q, m
<1>3. Cols * (4 + q) = 4 * Cols + Cols * q /\ Cols * q \in Nat
  BY <1>0, <1>1
<1>4. m < Cols * q + Cols
  BY <1>0, <1>1, <1>3
<1>5. Width + n <= m /\ Width + n \in Nat
  BY EditorSizes DEF m
<1>6. Cols + Width + n < Cols * (4 + q)
  BY <1>0, <1>3, <1>4, <1>5, EditorSizes
<1> QED
  BY <1>0, <1>2, <1>3, <1>6, EditorSizes

\* The row of the cursor where the editor left it.
LEMMA PlacedRow ==
  ASSUME NEW s, NEW n \in Nat, NEW k \in 0 .. n, Placed(s, n, k)
  PROVE  /\ RowOf(s) = 1 + s.draw /\ s.draw = (Width + k) \div Cols /\ s.draw \in Nat
         /\ s.old = (Width + n) \div Cols + 1 /\ s.old \in Nat \ {0} /\ s.draw < s.old
         /\ RowOf(s) + s.old - 1 - s.draw = s.old
<1>1. Width + k \in Nat /\ Width + n \in Nat /\ Width + k <= Width + n /\ s.at = Cols + (Width + k)
  BY EditorSizes DEF Placed
<1>2. RowOf(s) = (Cols + (Width + k)) \div Cols
  BY <1>1 DEF RowOf, Placed
<1>3. RowOf(s) = 1 + (Width + k) \div Cols
  BY <1>1, <1>2, RowBelow
<1>4. (Width + k) \div Cols <= (Width + n) \div Cols /\ (Width + k) \div Cols \in Nat /\ (Width + n) \div Cols \in Nat
  BY <1>1, RowsInOrder
<1>5. s.draw = (Width + k) \div Cols /\ s.old = (Width + n) \div Cols + 1
  BY DEF Placed
<1> QED
  BY <1>3, <1>4, <1>5

LEMMA FreshRow ==
  ASSUME NEW s, Fresh(s)
  PROVE  RowOf(s) = 1
<1>1. (Cols + 0) \div Cols = 1 + 0 \div Cols /\ 0 \div Cols = 0 /\ Cols + 0 = Cols
  BY RowBelow, EditorSizes
<1> QED
  BY <1>1 DEF RowOf, Fresh

\* Erasing clears all rows of the last render, and goes to the first.
LEMMA ErasedPlaced ==
  ASSUME NEW s, NEW n \in Nat, NEW k \in 0 .. n, Placed(s, n, k)
  PROVE  /\ Erased(s).at = Cols /\ Erased(s).wrap = FALSE
         /\ \A t \in Seq(Printable) : Len(t) = n /\ Shows(s, t) => Blank(Erased(s))
<1> DEFINE bottom == RowOf(s) + s.old - 1 - s.draw
           top == bottom - s.old + 1
<1>1. bottom = s.old /\ top = 1 /\ s.old # 0 /\ s.old = 1 + (Width + n) \div Cols
      /\ Width + n \in Nat /\ (Width + n) \div Cols \in Nat
  BY PlacedRow, EditorSizes
<1> DEFINE c == [i \in Cells |-> IF i \div Cols \in top .. bottom THEN Gap ELSE s.cells[i]]
<1>2. Erased(s) = Term(c, top * Cols, FALSE, s.old, s.draw)
  BY <1>1 DEF Erased
<1>3. \A i \in Cells : c[i] = IF i \div Cols \in 1 .. s.old THEN Gap ELSE s.cells[i]
  <2> HIDE DEF bottom, top
  <2> QED
    BY <1>1
<1> HIDE DEF bottom, top, c
<1>6. Erased(s).at = Cols /\ Erased(s).wrap = FALSE /\ Erased(s).cells = c
  BY <1>1, <1>2, EditorSizes DEF Term
<1>4. \A i \in Cells : Erased(s).cells[i] = IF i \div Cols \in 1 .. s.old THEN Gap ELSE s.cells[i]
  BY <1>3, <1>6
<1>5. ASSUME NEW t \in Seq(Printable), Len(t) = n, Shows(s, t), NEW i \in Cells
      PROVE  Erased(s).cells[i] = IF i < Cols THEN "#" ELSE Gap
  <2> DEFINE p == i \div Cols
             o == s.old
  <2>1. i \in Nat /\ o \in Nat
    BY <1>1, CellsAre
  <2>2. /\ i < Cols <=> p = 0
        /\ p > o => i > Cols + (Width + n)
        /\ p \in Nat
    BY <1>1, <2>1, CellRow
  <2>3. s.cells[i] = Glyph(t, i)
    BY <1>5 DEF Shows
  <2>7. Erased(s).cells[i] = IF p \in 1 .. o THEN Gap ELSE s.cells[i]
    BY <1>4
  <2> HIDE DEF p, o
  <2>4. CASE i < Cols
    BY EditorSizes, <2>1, <2>2, <2>3, <2>4, <2>7 DEF Glyph, GlyphOf
  <2>5. CASE p \in 1 .. o
    BY EditorSizes, <2>1, <2>2, <2>5, <2>7
  <2>6. CASE p > o
    <3> DEFINE m == Width + Len(t)
               w == Prompted(t)
    <3>1. ~ (i < Cols) /\ ~ (i - Cols \in 0 .. m - 1) /\ ~ (p \in 1 .. o)
      BY <1>1, <1>5, <2>1, <2>2, <2>6, EditorSizes
    <3>2. Glyph(t, i) = GlyphOf(w, m, i)
      BY DEF Glyph
    <3> HIDE DEF m, w
    <3> QED
      BY <2>7, <2>3, <3>1, <3>2 DEF GlyphOf
  <2> QED
    BY EditorSizes, <2>1, <2>2, <2>4, <2>5, <2>6
<1> QED
  BY <1>6, <1>5 DEF Blank

LEMMA ErasedFresh ==
  ASSUME NEW s, Fresh(s)
  PROVE  /\ Erased(s).at = Cols /\ Erased(s).wrap = FALSE
         /\ Blank(s) => Blank(Erased(s))
<1>1. Erased(s) = CursorTo(s, RowOf(s), 0) /\ RowOf(s) = 1
  BY FreshRow DEF Erased, Fresh
<1>2. Erased(s).at = Cols /\ Erased(s).wrap = FALSE /\ Erased(s).cells = s.cells
  BY <1>1, EditorSizes DEF CursorTo, Term
<1> QED
  BY <1>2 DEF Blank

LEMMA PutIs ==
  ASSUME NEW s, NEW w
  PROVE  /\ Put(s, w).at = s.at + Len(w) /\ Put(s, w).wrap = ((s.at + Len(w)) % Cols = 0)
         /\ Put(s, w).old = s.old /\ Put(s, w).draw = s.draw
         /\ \A i \in Cells : Put(s, w).cells[i] = IF i - s.at \in 0 .. Len(w) - 1 THEN w[i - s.at + 1] ELSE s.cells[i]
<1> DEFINE c == [i \in Cells |-> IF i - s.at \in 0 .. Len(w) - 1 THEN w[i - s.at + 1] ELSE s.cells[i]]
           u == (s.at + Len(w)) % Cols = 0
<1>1. \A i \in Cells : c[i] = IF i - s.at \in 0 .. Len(w) - 1 THEN w[i - s.at + 1] ELSE s.cells[i]
  OBVIOUS
<1>2. Put(s, w) = Term(c, s.at + Len(w), u, s.old, s.draw)
  BY DEF Put
<1> HIDE DEF c, u
<1>3. Put(s, w).cells = c /\ Put(s, w).at = s.at + Len(w) /\ Put(s, w).wrap = u
      /\ Put(s, w).old = s.old /\ Put(s, w).draw = s.draw
  BY <1>2 DEF Term
<1> QED
  BY <1>1, <1>3 DEF u

\* After the prompt and the line, the cursor is on the row after the last
\* full one.
LEMMA PaintedRow ==
  ASSUME NEW s, NEW pend \in Nat, pend >= 1, s.at = Cols + pend, s.wrap = (s.at % Cols = 0)
  PROVE  RowOf(Edge(s, pend)) = 1 + pend \div Cols /\ Edge(s, pend).cells = s.cells
<1> DEFINE q == pend \div Cols
<1>0. Cols \in Nat \ {0} /\ q \in Nat
  BY EditorSizes
<1>1. s.at \div Cols = 1 + q /\ s.at % Cols = pend % Cols
  BY RowBelow
<1>2. CASE pend % Cols = 0
  <2>1. (pend - 1) \div Cols + 1 = q /\ pend - 1 \in Nat
    BY <1>2, RowFull
  <2>11. Cols + (pend - 1) = s.at - 1
    BY <1>0, <2>1
  <2>3. RowOf(s) = (s.at - 1) \div Cols
    BY <1>1, <1>2 DEF RowOf
  <2>4. RowOf(s) = q
    <3> DEFINE m == pend - 1
    <3>1. m \in Nat /\ m \div Cols + 1 = q /\ RowOf(s) = (Cols + m) \div Cols
      BY <2>1, <2>3, <2>11
    <3> HIDE DEF m
    <3>2. (Cols + m) \div Cols = 1 + m \div Cols
      BY <3>1, RowBelow
    <3>3. m \div Cols \in Nat
      BY <3>1, <1>0
    <3> HIDE DEF q
    <3> QED
      BY <3>1, <3>2, <3>3, <1>0
  <2>5. Edge(s, pend) = CursorTo(s, q + 1, 0)
    BY <1>2, <2>4 DEF Edge, NewLine
  <2>6. Edge(s, pend).at = (q + 1) * Cols + 0 /\ Edge(s, pend).wrap = FALSE /\ Edge(s, pend).cells = s.cells
    BY <2>5 DEF CursorTo, Term
  <2> HIDE DEF q
  <2>7. (q + 1) * Cols + 0 = Cols * (q + 1) + 0
    BY <1>0
  <2>8. (Cols * (q + 1) + 0) \div Cols = q + 1
    <3>1. q + 1 \in Nat /\ 0 \in 0 .. Cols - 1
      BY <1>0
    <3> QED
      BY <1>0, <3>1, QuotientTold
  <2>9. RowOf(Edge(s, pend)) = Edge(s, pend).at \div Cols
    BY <2>6 DEF RowOf
  <2>10. RowOf(Edge(s, pend)) = 1 + q
    BY <1>0, <2>6, <2>7, <2>8, <2>9
  <2> QED
    BY <2>6, <2>10 DEF q
<1>3. CASE pend % Cols # 0
  <2>1. Edge(s, pend) = s /\ s.wrap = FALSE
    BY <1>1, <1>3 DEF Edge
  <2> QED
    BY <1>1, <2>1 DEF RowOf
<1> QED
  BY <1>2, <1>3

\* Painting on rows that were erased shows the text, and puts the cursor
\* back to where the next key edits.
LEMMA RefreshIs ==
  ASSUME NEW s, Erased(s).at = Cols, Erased(s).wrap = FALSE, NEW t \in Seq(Printable), NEW k \in 0 .. Len(t)
  PROVE  /\ Placed(Refresh(s, t, k), Len(t), k)
         /\ Blank(Erased(s)) => Shows(Refresh(s, t, k), t)
<1> DEFINE e == Erased(s)
           w == Prompted(t)
           pend == Width + Len(t)
           pcur == Width + k
           put == Put(e, w)
           painted == Edge(put, pend)
           up == pend \div Cols - pcur \div Cols
           r == Refresh(s, t, k)
<1>1. Len(t) \in Nat /\ Len(w) = pend /\ pend \in Nat /\ pcur \in Nat /\ pend >= 1
  BY PromptAnd, EditorSizes
<1>2. /\ put.at = Cols + pend /\ put.wrap = (put.at % Cols = 0)
      /\ \A i \in Cells : put.cells[i] = IF i - Cols \in 0 .. pend - 1 THEN w[i - Cols + 1] ELSE e.cells[i]
  <2> HIDE DEF e, w, pend
  <2>1. e.at = Cols
    BY DEF e
  <2> QED
    BY <1>1, <2>1, PutIs
<1>3. RowOf(painted) = 1 + pend \div Cols /\ painted.cells = put.cells
  <2> HIDE DEF put, pend
  <2> QED
    BY <1>1, <1>2, PaintedRow
<1>4. r = Rendered(CursorTo(painted, RowOf(painted) - up, pcur % Cols), pend \div Cols + 1, pcur \div Cols)
  BY DEF Refresh, Width, Prompted
<1>5. pend \div Cols \in Nat /\ pcur \div Cols \in Nat
  BY <1>1, EditorSizes
<1>6. RowOf(painted) - up = 1 + pcur \div Cols
  <2> HIDE DEF painted, pend, pcur
  <2> QED
    BY <1>3, <1>5
<1>7. (1 + pcur \div Cols) * Cols + (pcur % Cols) = Cols + pcur
  <2> HIDE DEF pcur
  <2> QED
    BY <1>1, CellOf
<1>8. r.at = Cols + pcur /\ r.wrap = FALSE /\ r.cells = put.cells
      /\ r.old = pend \div Cols + 1 /\ r.draw = pcur \div Cols
  <2> HIDE DEF painted, pend, pcur, put, r, up
  <2> QED
    BY <1>3, <1>4, <1>6, <1>7 DEF Rendered, CursorTo, Term
<1>9. Placed(r, Len(t), k)
  <2>1. Cols + pcur = Cols + Width + k
    BY EditorSizes
  <2> HIDE DEF r
  <2> QED
    BY <1>8, <2>1 DEF Placed
<1>10. ASSUME Blank(e), NEW i \in Cells
       PROVE  r.cells[i] = Glyph(t, i)
  <2>1. i \in Nat /\ r.cells[i] = IF i - Cols \in 0 .. pend - 1 THEN w[i - Cols + 1] ELSE e.cells[i]
    BY <1>2, <1>8, CellsAre
  <2>2. e.cells[i] = IF i < Cols THEN "#" ELSE Gap
    BY <1>10 DEF Blank
  <2>3. Glyph(t, i) = GlyphOf(w, pend, i)
    BY DEF Glyph
  <2> HIDE DEF r, e, pend, w
  <2> QED
    BY <2>1, <2>2, <2>3, <1>1, EditorSizes DEF GlyphOf
<1> QED
  BY <1>9, <1>10 DEF Shows

\* Moving the cursor within what is rendered.
LEMMA RepositionIs ==
  ASSUME NEW s, NEW n \in Nat, NEW k \in 0 .. n, Placed(s, n, k), NEW j \in 0 .. n
  PROVE  Placed(Reposition(s, j), n, j) /\ Reposition(s, j).cells = s.cells
<1> DEFINE pcur == Width + j
           r == Reposition(s, j)
<1>1. RowOf(s) = 1 + s.draw /\ s.draw \in Nat /\ s.old = (Width + n) \div Cols + 1
  BY PlacedRow
<1>2. pcur \in Nat /\ pcur \div Cols \in Nat
  BY EditorSizes
<1>3. r = Rendered(CursorTo(s, RowOf(s) - s.draw + pcur \div Cols, pcur % Cols), s.old, pcur \div Cols)
  BY DEF Reposition, Width
<1>4. (1 + pcur \div Cols) * Cols + (pcur % Cols) = Cols + pcur
  BY <1>2, CellOf
<1>5. RowOf(s) - s.draw + pcur \div Cols = 1 + pcur \div Cols
  <2> HIDE DEF pcur
  <2> QED
    BY <1>1, <1>2
<1>6. r.at = Cols + pcur /\ r.wrap = FALSE /\ r.cells = s.cells /\ r.old = s.old /\ r.draw = pcur \div Cols
  <2> HIDE DEF pcur, r
  <2> QED
    BY <1>3, <1>4, <1>5 DEF Rendered, CursorTo, Term
<1>7. Cols + pcur = Cols + Width + j
  BY EditorSizes
<1>8. r.at = Cols + Width + j
  BY <1>6, <1>7
<1>9. r.draw = (Width + j) \div Cols
  BY <1>6
<1>10. r.old = (Width + n) \div Cols + 1
  BY <1>1, <1>6
<1>11. Placed(r, n, j) /\ r.cells = s.cells
  <2> HIDE DEF r
  <2> QED
    BY <1>6, <1>8, <1>9, <1>10 DEF Placed
<1> QED
  BY <1>11

\* One character echoed behind the line.
LEMMA EchoIs ==
  ASSUME NEW s, NEW t \in Seq(Printable), NEW n \in Nat, n = Len(t), Placed(s, n, n),
         (Width + n + 1) % Cols # 0, NEW c \in Printable
  PROVE  /\ Placed(Put(s, <<c>>), n + 1, n + 1)
         /\ Shows(s, t) => Shows(Put(s, <<c>>), Append(t, c))
<1> DEFINE r == Put(s, <<c>>)
           m == Width + n
           u == Append(t, c)
<1>0. m \in Nat /\ m + 1 = Width + n + 1 /\ Cols + m \in Nat /\ m >= 1 /\ Cols \in Nat /\ Width \in Nat
  BY EditorSizes
<1>1. s.at = Cols + m /\ s.old = m \div Cols + 1 /\ s.draw = m \div Cols
  BY <1>0, EditorSizes DEF Placed
<1>2. (m + 1) \div Cols = m \div Cols /\ (Cols + (m + 1)) % Cols = (m + 1) % Cols
  BY <1>0, SameRow, RowBelow
<1> DEFINE echo == <<c>>
<1>3. Len(echo) = 1 /\ echo[1] = c
  OBVIOUS
<1>4. /\ r.at = s.at + 1 /\ r.wrap = ((s.at + 1) % Cols = 0) /\ r.old = s.old /\ r.draw = s.draw
      /\ \A i \in Cells : r.cells[i] = IF i - s.at \in 0 .. 1 - 1 THEN echo[i - s.at + 1] ELSE s.cells[i]
  <2> HIDE DEF echo
  <2>1. r = Put(s, echo)
    BY DEF echo
  <2> HIDE DEF r
  <2>2. /\ r.at = s.at + Len(echo) /\ r.wrap = ((s.at + Len(echo)) % Cols = 0) /\ r.old = s.old /\ r.draw = s.draw
        /\ \A i \in Cells : r.cells[i] = IF i - s.at \in 0 .. Len(echo) - 1 THEN echo[i - s.at + 1] ELSE s.cells[i]
    BY <2>1, PutIs
  <2> QED
    BY <1>3, <2>2
<1> HIDE DEF echo
<1>5. s.at + 1 = Cols + (m + 1)
  <2> HIDE DEF m
  <2> QED
    BY <1>0, <1>1
<1>6. r.wrap = FALSE
  BY <1>0, <1>2, <1>4, <1>5
<1>7. Placed(r, n + 1, n + 1)
  <2>1. Width + (n + 1) = m + 1 /\ Cols + Width + (n + 1) = Cols + (m + 1)
    BY EditorSizes
  <2> HIDE DEF r, m
  <2> QED
    BY <1>1, <1>2, <1>4, <1>5, <1>6, <2>1 DEF Placed
<1>8. ASSUME Shows(s, t), NEW i \in Cells
      PROVE  r.cells[i] = Glyph(u, i)
  <2> DEFINE v == Prompted(u)
             w == Prompted(t)
             o == m + 1
  <2>1. i \in Nat /\ u \in Seq(Printable) /\ Len(u) = n + 1
    BY CellsAre
  <2>2. s.cells[i] = GlyphOf(w, m, i)
    BY <1>8 DEF Shows, Glyph
  <2>3. Glyph(u, i) = GlyphOf(v, o, i)
    <3>1. Width + Len(u) = o
      BY <2>1, EditorSizes
    <3> QED
      BY <3>1 DEF Glyph
  <2>4. \A j \in 1 .. m : v[j] = w[j]
    <3>1. \A j \in 1 .. Width : v[j] = w[j]
      BY <2>1, PromptAnd
    <3>2. ASSUME NEW j \in 1 .. n PROVE v[Width + j] = w[Width + j]
      <4>1. w[Width + j] = t[j]
        BY PromptAnd
      <4>2. v[Width + j] = u[j]
        <5> HIDE DEF u
        <5> QED
          BY <2>1, PromptAnd
      <4>3. u[j] = t[j]
        OBVIOUS
      <4> HIDE DEF u, v, w
      <4> QED
        BY <4>1, <4>2, <4>3
    <3>3. ASSUME NEW j \in 1 .. m PROVE v[j] = w[j]
      <4>1. CASE j <= Width
        BY <3>1, <4>1, <1>0
      <4>2. CASE j > Width
        <5>1. j - Width \in 1 .. n /\ Width + (j - Width) = j
          BY <4>2, <1>0
        <5> HIDE DEF v, w
        <5> QED
          BY <3>2, <5>1
      <4> QED
        BY <4>1, <4>2, <1>0
    <3> QED
      BY <3>3
  <2>5. v[o] = c
    <3>1. v[Width + (n + 1)] = u[n + 1] /\ Width + (n + 1) = o
      <4>1. n + 1 \in 1 .. n + 1 /\ Width + (n + 1) = o
        BY EditorSizes
      <4> HIDE DEF u, o
      <4> QED
        BY <2>1, <4>1, PromptAnd
    <3>2. u[n + 1] = c
      OBVIOUS
    <3> HIDE DEF v, o, u
    <3> QED
      BY <3>1, <3>2
  <2>6. r.cells[i] = IF i = Cols + m THEN c ELSE s.cells[i]
    <3> HIDE DEF r, m
    <3>1. i - s.at \in 0 .. 1 - 1 <=> i = Cols + m
      BY <1>0, <1>1, <2>1
    <3>2. i = Cols + m => i - s.at + 1 = 1
      BY <1>0, <1>1
    <3> QED
      BY <1>3, <1>4, <3>1, <3>2
  <2> HIDE DEF r, v, w, u
  <2>7. CASE i < Cols
    <3> HIDE DEF m
    <3> QED
      BY <1>0, <2>1, <2>2, <2>3, <2>6, <2>7 DEF GlyphOf
  <2>8. CASE i - Cols \in 0 .. m - 1
    <3>1. i - Cols + 1 \in 1 .. m /\ i - Cols \in 0 .. o - 1 /\ i # Cols + m /\ ~ (i < Cols)
      BY <1>0, <2>1, <2>8
    <3> HIDE DEF m, o
    <3> QED
      BY <2>2, <2>3, <2>4, <2>6, <2>8, <3>1 DEF GlyphOf
  <2>9. CASE i = Cols + m
    <3>1. i - Cols + 1 = o /\ i - Cols \in 0 .. o - 1 /\ ~ (i < Cols)
      BY <1>0, <2>1, <2>9
    <3> HIDE DEF m, o
    <3> QED
      BY <2>3, <2>5, <2>6, <2>9, <3>1 DEF GlyphOf
  <2>10. CASE i > Cols + m
    <3>1. ~ (i - Cols \in 0 .. m - 1) /\ ~ (i - Cols \in 0 .. o - 1) /\ i # Cols + m /\ ~ (i < Cols)
      BY <1>0, <2>1, <2>10
    <3> HIDE DEF m, o
    <3> QED
      BY <2>2, <2>3, <2>6, <3>1 DEF GlyphOf
  <2>11. i < Cols \/ i - Cols \in 0 .. m - 1 \/ i = Cols + m \/ i > Cols + m
    <3> HIDE DEF m
    <3> QED
      BY <1>0, <2>1
  <2> QED
    BY <2>7, <2>8, <2>9, <2>10, <2>11
<1> QED
  BY <1>7, <1>8 DEF Shows

\* The last character taken back: one column left, a gap, one column left.
LEMMA RubOutIs ==
  ASSUME NEW s, NEW t \in Seq(Printable), NEW n \in Nat \ {0}, n = Len(t), Placed(s, n, n), (Width + n) % Cols # 0
  PROVE  /\ Placed(Back(Put(Back(s), <<Gap>>)), n - 1, n - 1)
         /\ Shows(s, t) => Shows(Back(Put(Back(s), <<Gap>>)), SubSeq(t, 1, n - 1))
<1> DEFINE b == Back(s)
           p == Put(b, <<Gap>>)
           r == Back(p)
           m == Width + n - 1
           u == SubSeq(t, 1, n - 1)
           echo == <<Gap>>
<1>0. m \in Nat /\ m + 1 = Width + n /\ Cols + m \in Nat /\ m >= 1 /\ Cols \in Nat /\ Width \in Nat
      /\ m = Width + (n - 1) /\ n - 1 \in Nat
  BY EditorSizes
<1>1. s.at = Cols + (m + 1) /\ s.old = (m + 1) \div Cols + 1 /\ s.draw = (m + 1) \div Cols
  <2>1. s.at = Cols + Width + n /\ s.old = (Width + n) \div Cols + 1 /\ s.draw = (Width + n) \div Cols
    BY DEF Placed
  <2>2. Cols + Width + n = Cols + (m + 1)
    BY EditorSizes
  <2> HIDE DEF m
  <2> QED
    BY <1>0, <2>1, <2>2
<1>2. (m + 1) \div Cols = m \div Cols
  <2> HIDE DEF m
  <2> QED
    BY <1>0, SameRow
<1>3. Len(echo) = 1 /\ echo[1] = Gap
  OBVIOUS
<1>4. b.at = Cols + m /\ b.cells = s.cells /\ b.old = s.old /\ b.draw = s.draw
  <2>1. b.at = s.at - 1 /\ b.cells = s.cells /\ b.old = s.old /\ b.draw = s.draw
    BY DEF Back, Term
  <2> HIDE DEF b, m
  <2> QED
    BY <1>0, <1>1, <2>1
<1>5. /\ p.at = b.at + 1 /\ p.old = b.old /\ p.draw = b.draw
      /\ \A i \in Cells : p.cells[i] = IF i - b.at \in 0 .. 1 - 1 THEN echo[i - b.at + 1] ELSE b.cells[i]
  <2> HIDE DEF echo, b
  <2>1. p = Put(b, echo)
    BY DEF echo
  <2> HIDE DEF p
  <2>2. /\ p.at = b.at + Len(echo) /\ p.old = b.old /\ p.draw = b.draw
        /\ \A i \in Cells : p.cells[i] = IF i - b.at \in 0 .. Len(echo) - 1 THEN echo[i - b.at + 1] ELSE b.cells[i]
    BY <2>1, PutIs
  <2> QED
    BY <1>3, <2>2
<1> HIDE DEF echo
<1>6. r.at = Cols + m /\ r.wrap = FALSE /\ r.old = s.old /\ r.draw = s.draw /\ r.cells = p.cells
  <2>1. r.at = p.at - 1 /\ r.wrap = FALSE /\ r.old = p.old /\ r.draw = p.draw /\ r.cells = p.cells
    BY DEF Back, Term
  <2> HIDE DEF r, p, b, m
  <2> QED
    BY <1>0, <1>4, <1>5, <2>1
<1>7. Placed(r, n - 1, n - 1)
  <2>1. Cols + m = Cols + Width + (n - 1)
    BY EditorSizes
  <2> HIDE DEF r, m
  <2> QED
    BY <1>0, <1>1, <1>2, <1>6, <2>1 DEF Placed
<1>8. ASSUME Shows(s, t), NEW i \in Cells
      PROVE  r.cells[i] = Glyph(u, i)
  <2> DEFINE v == Prompted(u)
             w == Prompted(t)
             o == m + 1
  <2>1. i \in Nat /\ u \in Seq(Printable) /\ Len(u) = n - 1
    BY CellsAre
  <2>2. s.cells[i] = GlyphOf(w, o, i)
    <3>1. Width + Len(t) = o
      BY EditorSizes
    <3> QED
      BY <1>8, <3>1 DEF Shows, Glyph
  <2>3. Glyph(u, i) = GlyphOf(v, m, i)
    <3>1. Width + Len(u) = m
      BY <2>1, EditorSizes
    <3> QED
      BY <3>1 DEF Glyph
  <2>4. \A j \in 1 .. m : v[j] = w[j]
    <3>1. \A j \in 1 .. Width : v[j] = w[j]
      BY <2>1, PromptAnd
    <3>2. ASSUME NEW j \in 1 .. n - 1 PROVE v[Width + j] = w[Width + j]
      <4>1. w[Width + j] = t[j]
        BY PromptAnd
      <4>2. v[Width + j] = u[j]
        <5> HIDE DEF u
        <5> QED
          BY <2>1, PromptAnd
      <4>3. u[j] = t[j]
        OBVIOUS
      <4> HIDE DEF u, v, w
      <4> QED
        BY <4>1, <4>2, <4>3
    <3>3. ASSUME NEW j \in 1 .. m PROVE v[j] = w[j]
      <4>1. CASE j <= Width
        BY <3>1, <4>1, <1>0
      <4>2. CASE j > Width
        <5>1. j - Width \in 1 .. n - 1 /\ Width + (j - Width) = j
          BY <4>2, <1>0
        <5> HIDE DEF v, w
        <5> QED
          BY <3>2, <5>1
      <4> QED
        BY <4>1, <4>2, <1>0
    <3> QED
      BY <3>3
  <2>6. r.cells[i] = IF i = Cols + m THEN Gap ELSE s.cells[i]
    <3> HIDE DEF r, m, b, p
    <3>1. i - b.at \in 0 .. 1 - 1 <=> i = Cols + m
      BY <1>0, <1>4, <2>1
    <3>2. i = Cols + m => i - b.at + 1 = 1
      BY <1>0, <1>4
    <3> QED
      BY <1>3, <1>4, <1>5, <1>6, <3>1, <3>2
  <2> HIDE DEF r, v, w, u
  <2>7. CASE i < Cols
    <3> HIDE DEF m
    <3> QED
      BY <1>0, <2>1, <2>2, <2>3, <2>6, <2>7 DEF GlyphOf
  <2>8. CASE i - Cols \in 0 .. m - 1
    <3>1. i - Cols + 1 \in 1 .. m /\ i - Cols \in 0 .. o - 1 /\ i # Cols + m /\ ~ (i < Cols)
      BY <1>0, <2>1, <2>8
    <3> HIDE DEF m, o
    <3> QED
      BY <2>2, <2>3, <2>4, <2>6, <2>8, <3>1 DEF GlyphOf
  <2>9. CASE i = Cols + m
    <3>1. ~ (i - Cols \in 0 .. m - 1) /\ ~ (i < Cols)
      BY <1>0, <2>1, <2>9
    <3> HIDE DEF m, o
    <3> QED
      BY <2>3, <2>6, <2>9, <3>1 DEF GlyphOf
  <2>10. CASE i > Cols + m
    <3>1. ~ (i - Cols \in 0 .. m - 1) /\ ~ (i - Cols \in 0 .. o - 1) /\ i # Cols + m /\ ~ (i < Cols)
      BY <1>0, <2>1, <2>10
    <3> HIDE DEF m, o
    <3> QED
      BY <2>2, <2>3, <2>6, <3>1 DEF GlyphOf
  <2>11. i < Cols \/ i - Cols \in 0 .. m - 1 \/ i = Cols + m \/ i > Cols + m
    <3> HIDE DEF m
    <3> QED
      BY <1>0, <2>1
  <2> QED
    BY <2>7, <2>8, <2>9, <2>10, <2>11
<1> QED
  BY <1>7, <1>8 DEF Shows

\* A row below r, counted from a cell that many rows further down.
LEMMA RowsDown ==
  ASSUME NEW i \in Nat, NEW r \in Nat, i >= Cols
  PROVE  (i + r * Cols) \div Cols > r /\ i + r * Cols \in Nat
<1> DEFINE q == i \div Cols
           o == i % Cols
<1>0. Cols \in Nat \ {0}
  BY EditorSizes
<1>1. q \in Nat /\ o \in 0 .. Cols - 1 /\ i = (Cols * q) + o
  BY <1>0, Quotient
<1>2. q # 0
  BY <1>0, CellRow
<1> HIDE DEF q, o
<1>3. Cols * (q + r) = Cols * q + r * Cols /\ Cols * q \in Nat /\ r * Cols \in Nat
  BY <1>0, <1>1
<1>4. i + r * Cols = Cols * (q + r) + o
  <2> DEFINE x == Cols * q
             y == r * Cols
             z == Cols * (q + r)
  <2> HIDE DEF x, y, z
  <2>1. z = x + y /\ x \in Nat /\ y \in Nat /\ i = x + o
    BY <1>1, <1>3 DEF x, y, z
  <2>2. i + y = z + o
    BY <1>1, <2>1
  <2> QED
    BY <2>2 DEF y, z
<1>5. (Cols * (q + r) + o) \div Cols = q + r
  <2>1. q + r \in Nat
    BY <1>1
  <2> QED
    BY <1>0, <1>1, <2>1, QuotientTold
<1>6. i + r * Cols \in Nat
  BY <1>3
<1>7. q + r > r
  BY <1>1, <1>2
<1> QED
  BY <1>4, <1>5, <1>6, <1>7

LEMMA NewLineIs ==
  ASSUME NEW s, RowOf(s) \in Nat
  PROVE  RowOf(NewLine(s)) = RowOf(s) + 1 /\ NewLine(s).cells = s.cells
<1> DEFINE r == RowOf(s) + 1
<1>0. Cols \in Nat \ {0} /\ r \in Nat
  BY EditorSizes
<1>1. NewLine(s).at = r * Cols + 0 /\ NewLine(s).wrap = FALSE /\ NewLine(s).cells = s.cells
  BY DEF NewLine, CursorTo, Term
<1>2. RowOf(NewLine(s)) = NewLine(s).at \div Cols
  BY <1>1 DEF RowOf
<1> HIDE DEF r
<1>3. r * Cols + 0 = Cols * r + 0
  BY <1>0
<1>4. (Cols * r + 0) \div Cols = r
  <2>1. 0 \in 0 .. Cols - 1
    BY <1>0
  <2> QED
    BY <1>0, <2>1, QuotientTold
<1>5. RowOf(NewLine(s)) = r
  BY <1>1, <1>2, <1>3, <1>4
<1> QED
  BY <1>1, <1>5 DEF r

\* Once the cursor went down a row, what is above it scrolls away; and when
\* nothing was below, nothing is left.
LEMMA ScrolledIs ==
  ASSUME NEW s, RowOf(s) \in Nat
  PROVE  LET n == Scrolled(NewLine(s)) IN
         n.at = Cols /\ n.wrap = FALSE /\ (~ BelowCursor(s) => Blank(n))
<1> DEFINE l == NewLine(s)
           n == Scrolled(l)
           c == [i \in Cells |-> LET j == i + (RowOf(l) - 1) * Cols IN
                                 IF i < Cols THEN "#" ELSE IF j \in Cells THEN l.cells[j] ELSE Gap]
           r == RowOf(s)
<1>1. RowOf(l) = r + 1 /\ l.cells = s.cells /\ r \in Nat
  BY NewLineIs
<1>2. n = Term(c, Cols, FALSE, l.old, l.draw)
  BY DEF Scrolled
<1>3. \A i \in Cells : c[i] = LET j == i + (RowOf(l) - 1) * Cols IN
                              IF i < Cols THEN "#" ELSE IF j \in Cells THEN l.cells[j] ELSE Gap
  OBVIOUS
<1>4. n.at = Cols /\ n.wrap = FALSE /\ n.cells = c
  <2> HIDE DEF c, n, l
  <2> QED
    BY <1>2 DEF Term
<1>5. ASSUME ~ BelowCursor(s), NEW i \in Cells
      PROVE  n.cells[i] = IF i < Cols THEN "#" ELSE Gap
  <2> DEFINE j == i + r * Cols
  <2>1. RowOf(l) - 1 = r
    <3> HIDE DEF l, r
    <3> QED
      BY <1>1
  <2>2. n.cells[i] = IF i < Cols THEN "#" ELSE IF j \in Cells THEN s.cells[j] ELSE Gap
    <3> HIDE DEF c, n, l, r
    <3> QED
      BY <1>1, <1>3, <1>4, <2>1
  <2>3. ~ (i < Cols) /\ j \in Cells => s.cells[j] = Gap
    <3>1. ~ (i < Cols) => j \div Cols > r
      <4>1. i \in Nat /\ (~ (i < Cols) => i >= Cols)
        BY CellsAre, EditorSizes
      <4> HIDE DEF r
      <4> QED
        BY <1>1, <4>1, RowsDown
    <3> HIDE DEF j
    <3> QED
      BY <1>5, <3>1 DEF BelowCursor
  <2> HIDE DEF n, j
  <2> QED
    BY <2>2, <2>3
<1> QED
  BY <1>4, <1>5 DEF Blank

\* A prompt under what was output: the line is empty again.
LEMMA PromptDrawnIs ==
  ASSUME NEW s, RowOf(s) \in Nat
  PROVE  /\ Placed(PromptDrawn(NewLine(s)), 0, 0)
         /\ ~ BelowCursor(s) => Shows(PromptDrawn(NewLine(s)), <<>>)
<1> DEFINE n == Scrolled(NewLine(s))
           p == Put(n, PromptText)
           r == PromptDrawn(NewLine(s))
           w == Prompted(<<>>)
<1>0. Cols \in Nat \ {0} /\ Width \in Nat /\ Width < Cols /\ Width >= 1 /\ Len(PromptText) = Width
  BY EditorSizes DEF Width
<1>1. n.at = Cols /\ n.wrap = FALSE /\ (~ BelowCursor(s) => Blank(n))
  BY ScrolledIs
<1>2. /\ p.at = Cols + Width /\ p.wrap = ((Cols + Width) % Cols = 0)
      /\ \A i \in Cells : p.cells[i] = IF i - Cols \in 0 .. Width - 1 THEN PromptText[i - Cols + 1] ELSE n.cells[i]
  <2> HIDE DEF n
  <2>1. p = Put(n, PromptText)
    OBVIOUS
  <2> HIDE DEF p
  <2>2. /\ p.at = n.at + Len(PromptText) /\ p.wrap = ((n.at + Len(PromptText)) % Cols = 0)
        /\ \A i \in Cells : p.cells[i] = IF i - n.at \in 0 .. Len(PromptText) - 1 THEN PromptText[i - n.at + 1]
                                       ELSE n.cells[i]
    BY <2>1, PutIs
  <2> QED
    BY <1>0, <1>1, <2>2
<1>3. r = Rendered(p, Width \div Cols + 1, 0)
  BY DEF PromptDrawn, Width
<1>4. r.at = p.at /\ r.wrap = p.wrap /\ r.cells = p.cells /\ r.old = Width \div Cols + 1 /\ r.draw = 0
  <2> HIDE DEF p, r
  <2> QED
    BY <1>3 DEF Rendered, Term
<1>5. (Cols + Width) % Cols # 0 /\ Width \div Cols = 0
  <2>1. (Cols * 1 + Width) % Cols = Width /\ (Cols * 0 + Width) \div Cols = 0
    BY <1>0, QuotientTold
  <2>2. Cols * 1 + Width = Cols + Width /\ Cols * 0 + Width = Width
    BY <1>0
  <2> QED
    BY <1>0, <2>1, <2>2
<1>6. Placed(r, 0, 0)
  <2>1. Width + 0 = Width /\ Cols + Width + 0 = Cols + Width
    BY <1>0
  <2> HIDE DEF p, r
  <2> QED
    BY <1>2, <1>4, <1>5, <2>1 DEF Placed
<1>7. ASSUME ~ BelowCursor(s), NEW i \in Cells
      PROVE  r.cells[i] = Glyph(<<>>, i)
  <2> DEFINE t == <<>>
  <2>1. n.cells[i] = IF i < Cols THEN "#" ELSE Gap
    <3> HIDE DEF n
    <3> QED
      BY <1>1, <1>7 DEF Blank
  <2>2. t \in Seq(Printable) /\ Len(t) = 0
    OBVIOUS
  <2>3. Glyph(t, i) = GlyphOf(w, Width, i)
    <3>1. Width + Len(t) = Width
      BY <1>0, <2>2
    <3> QED
      BY <3>1 DEF Glyph
  <2> HIDE DEF t
  <2>4. \A j \in 1 .. Width : w[j] = PromptText[j]
    <3>1. w = Prompted(t)
      BY DEF t
    <3> HIDE DEF w
    <3> QED
      BY <2>2, <3>1, PromptAnd
  <2>5. i \in Nat
    BY CellsAre
  <2>6. r.cells[i] = IF i - Cols \in 0 .. Width - 1 THEN PromptText[i - Cols + 1] ELSE n.cells[i]
    BY <1>2, <1>4
  <2> HIDE DEF r, n, w
  <2>7. CASE i - Cols \in 0 .. Width - 1
    <3>1. i - Cols + 1 \in 1 .. Width /\ ~ (i < Cols)
      BY <1>0, <2>5, <2>7
    <3>2. w[i - Cols + 1] = PromptText[i - Cols + 1]
      BY <2>4, <3>1
    <3>3. Glyph(t, i) = w[i - Cols + 1]
      BY <2>3, <2>7, <3>1 DEF GlyphOf
    <3> QED
      BY <2>6, <2>7, <3>2, <3>3 DEF t
  <2>8. CASE ~ (i - Cols \in 0 .. Width - 1)
    <3>1. Glyph(t, i) = IF i < Cols THEN "#" ELSE Gap
      BY <2>3, <2>8 DEF GlyphOf
    <3> QED
      BY <2>1, <2>6, <2>8, <3>1 DEF t
  <2> QED
    BY <2>7, <2>8
<1> QED
  BY <1>6, <1>7 DEF Shows

\* Output that broke the line: the render will start anew, below it.
LEMMA BrokenIs ==
  ASSUME NEW s, RowOf(s) \in Nat
  PROVE  LET n == Rendered(Scrolled(NewLine(s)), 0, 0) IN
         Fresh(n) /\ (~ BelowCursor(s) => Blank(n))
<1> DEFINE m == Scrolled(NewLine(s))
           n == Rendered(m, 0, 0)
<1>1. m.at = Cols /\ m.wrap = FALSE /\ (~ BelowCursor(s) => Blank(m))
  BY ScrolledIs
<1> HIDE DEF m
<1>2. n.at = m.at /\ n.wrap = m.wrap /\ n.cells = m.cells /\ n.old = 0 /\ n.draw = 0
  BY DEF Rendered, Term
<1> HIDE DEF n
<1>3. Fresh(n) /\ (~ BelowCursor(s) => Blank(n))
  BY <1>1, <1>2 DEF Fresh, Blank
<1> QED
  BY <1>3 DEF n, m

\* Nothing is below a render, nor below a row under which all is blank.
LEMMA NothingBelow ==
  ASSUME NEW s, Fresh(s), Blank(s)
  PROVE  ~ BelowCursor(s)
<1>1. RowOf(s) = 1
  BY FreshRow
<1>2. ASSUME NEW i \in Cells, i \div Cols > 1
      PROVE  s.cells[i] = Gap
  <2>1. i \in Nat /\ (i < Cols <=> i \div Cols = 0)
    BY CellsAre, CellRow
  <2>2. ~ (i < Cols)
    BY <1>2, <2>1
  <2> QED
    BY <2>2 DEF Blank
<1> QED
  BY <1>1, <1>2 DEF BelowCursor

LEMMA BottomIs ==
  ASSUME NEW s, NEW t \in Seq(Printable), NEW k \in 0 .. Len(t), Placed(s, Len(t), k)
  PROVE  LET b == CursorTo(s, RowOf(s) + s.old - 1 - s.draw, 0) IN
         RowOf(b) \in Nat /\ (Shows(s, t) => ~ BelowCursor(b))
<1> DEFINE n == Len(t)
           o == s.old
           b == CursorTo(s, RowOf(s) + s.old - 1 - s.draw, 0)
           m == Width + n
<1>0. Cols \in Nat \ {0} /\ n \in Nat /\ Width \in Nat /\ m \in Nat
  BY EditorSizes
<1>1. RowOf(s) + s.old - 1 - s.draw = o /\ o = m \div Cols + 1 /\ o \in Nat
  BY <1>0, PlacedRow
<1>2. b.at = o * Cols + 0 /\ b.wrap = FALSE /\ b.cells = s.cells
  BY <1>1 DEF CursorTo, Term
<1>3. RowOf(b) = o
  <2>1. RowOf(b) = (o * Cols + 0) \div Cols
    BY <1>2 DEF RowOf
  <2> HIDE DEF o, b
  <2>2. o * Cols + 0 = Cols * o + 0
    BY <1>0, <1>1
  <2>3. (Cols * o + 0) \div Cols = o
    <3>1. 0 \in 0 .. Cols - 1
      BY <1>0
    <3> QED
      BY <1>0, <1>1, <3>1, QuotientTold
  <2> QED
    BY <2>1, <2>2, <2>3
<1>4. ASSUME Shows(s, t), NEW i \in Cells, i \div Cols > o
      PROVE  s.cells[i] = Gap
  <2> DEFINE w == Prompted(t)
  <2>1. s.cells[i] = GlyphOf(w, m, i)
    BY <1>4 DEF Shows, Glyph
  <2>2. i \in Nat /\ i > Cols + m
    <3>1. i \in Nat
      BY CellsAre
    <3>2. i \div Cols > 1 + m \div Cols => i > Cols + m
      <4> HIDE DEF m
      <4> QED
        BY <1>0, <3>1, CellRow
    <3>3. i \div Cols > 1 + m \div Cols
      <4> DEFINE p == i \div Cols
                 q == m \div Cols
      <4>1. p > o /\ o = q + 1 /\ q \in Nat
        BY <1>0, <1>1, <1>4
      <4> HIDE DEF p, q, o
      <4>2. p > 1 + q
        BY <4>1
      <4> QED
        BY <4>2 DEF p, q
    <3> QED
      BY <3>1, <3>2, <3>3
  <2>3. ~ (i < Cols) /\ ~ (i - Cols \in 0 .. m - 1)
    <3> HIDE DEF m
    <3> QED
      BY <1>0, <2>2
  <2> HIDE DEF w, m
  <2> QED
    BY <2>1, <2>3 DEF GlyphOf
<1> HIDE DEF b, o
<1>5. Shows(s, t) => ~ BelowCursor(b)
  BY <1>2, <1>3, <1>4 DEF BelowCursor
<1>6. RowOf(b) \in Nat
  BY <1>1, <1>3
<1> QED
  BY <1>5, <1>6 DEF b
------------------------------------------------------------------------------
(* Bounds that are met, and the texts that an edit makes.                   *)

LEMMA LeastOf ==
  ASSUME NEW S, S \subseteq Nat, S # {}
  PROVE  \E x \in S : \A y \in S : x <= y
<1> DEFINE R == OpToRel(<, Nat)
<1>1. IsWellFoundedOn(R, Nat)
  BY NatLessThanWellFounded
<1>2. \A a, b \in Nat : a < b => <<a, b>> \in R
  BY DEF OpToRel
<1> HIDE DEF R
<1>3. PICK x \in S : \A y \in S : ~(<<y, x>> \in R)
  BY <1>1, WFMin
<1>4. ASSUME NEW y \in S PROVE x <= y
  <2>1. x \in Nat /\ y \in Nat /\ ~(<<y, x>> \in R)
    BY <1>3
  <2> QED
    BY <1>2, <2>1
<1> QED
  BY <1>4

LEMMA MinIs ==
  ASSUME NEW S, S \subseteq Nat, S # {}
  PROVE  Min(S) \in S /\ \A y \in S : Min(S) <= y
<1>1. \E x \in S : \A y \in S : x <= y
  BY LeastOf
<1> QED
  BY <1>1 DEF Min

\* The least number that has a property, told by two facts.
LEMMA MinTold ==
  ASSUME NEW S, S \subseteq Nat, NEW x \in S, \A y \in S : x <= y
  PROVE  Min(S) = x
<1>1. Min(S) \in S /\ \A y \in S : Min(S) <= y
  BY MinIs
<1>2. Min(S) \in Nat /\ x \in Nat /\ Min(S) <= x /\ x <= Min(S)
  BY <1>1
<1> QED
  BY <1>2

LEMMA MaxIs ==
  ASSUME NEW N \in Nat, NEW S, S \subseteq 0 .. N, S # {}
  PROVE  Max(S) \in S /\ \A y \in S : Max(S) >= y
<1> DEFINE T == {d \in Nat : \E y \in S : d = N - y}
<1>1. T \subseteq Nat /\ T # {}
  <2>1. PICK y \in S : TRUE
    OBVIOUS
  <2>2. N - y \in T
    BY <2>1
  <2> QED
    BY <2>2
<1>2. PICK d \in T : \A e \in T : d <= e
  <2> HIDE DEF T
  <2> QED
    BY <1>1, LeastOf
<1>3. PICK x \in S : d = N - x
  BY <1>2
<1>4. ASSUME NEW y \in S PROVE x >= y
  <2>1. N - y \in T /\ x \in Nat /\ y \in Nat
    OBVIOUS
  <2>2. d <= N - y
    BY <1>2, <2>1
  <2> QED
    BY <1>3, <2>1, <2>2
<1> QED
  BY <1>4 DEF Max

LEMMA MaxTold ==
  ASSUME NEW N \in Nat, NEW S, S \subseteq 0 .. N, NEW x \in S, \A y \in S : x >= y
  PROVE  Max(S) = x
<1>1. Max(S) \in S /\ \A y \in S : Max(S) >= y
  BY MaxIs
<1> DEFINE m == Max(S)
<1> HIDE DEF m
<1>2. m \in S /\ m >= x /\ x >= m
  BY <1>1 DEF m
<1>3. m \in 0 .. N /\ x \in 0 .. N
  BY <1>2
<1>4. m = x
  BY <1>2, <1>3
<1> QED
  BY <1>4 DEF m

LEMMA CommonPrefixIs ==
  ASSUME NEW A, NEW S, S \subseteq Seq(A), S # {}
  PROVE  LongestCommonPrefix(S) \in Seq(A)
<1> DEFINE C == CommonPrefixes(S)
<1>0. PICK x \in S : x \in Seq(A)
  OBVIOUS
<1>1. ASSUME NEW p \in C
      PROVE  p \in Seq(A) /\ Len(p) \in 0 .. Len(x)
  <2>5. PICK s \in S : p \in Prefixes(s)
    BY DEF CommonPrefixes
  <2>1. PICK l \in 0 .. Len(s) : p = SubSeq(s, 1, l)
    BY <2>5 DEF Prefixes
  <2>2. s \in Seq(A) /\ p \in Seq(A)
    BY <2>1
  <2>3. IsPrefix(p, x)
    BY DEF CommonPrefixes
  <2>4. Len(p) <= Len(x)
    BY <2>3 DEF IsPrefix
  <2> QED
    BY <1>0, <2>2, <2>4
<1>2. <<>> \in C
  <2>1. SubSeq(x, 1, 0) = <<>> /\ 0 \in 0 .. Len(x)
    BY <1>0
  <2>2. <<>> \in UNION {Prefixes(s) : s \in S}
    BY <1>0, <2>1 DEF Prefixes
  <2>3. ASSUME NEW t \in S PROVE IsPrefix(<<>>, t)
    <3>1. t \in Seq(A) /\ Len(<<>>) = 0
      OBVIOUS
    <3>2. SubSeq(<<>>, 1, 0) = <<>> /\ SubSeq(t, 1, 0) = <<>> /\ 0 <= Len(t)
      BY <3>1
    <3> QED
      BY <3>1, <3>2 DEF IsPrefix
  <2> QED
    BY <2>2, <2>3 DEF CommonPrefixes
<1> HIDE DEF C
<1> DEFINE L == {n \in 0 .. Len(x) : \E p \in C : n = Len(p)}
<1>3. L \subseteq 0 .. Len(x) /\ L # {} /\ Len(x) \in Nat
  <2>1. Len(<<>>) \in L
    BY <1>1, <1>2
  <2> QED
    BY <1>0, <2>1
<1>4. Max(L) \in L /\ \A n \in L : Max(L) >= n
  <2> HIDE DEF L
  <2> QED
    BY <1>3, MaxIs
<1>5. PICK longest \in C : Max(L) = Len(longest)
  BY <1>4
<1>6. ASSUME NEW p \in C PROVE Len(p) <= Len(longest)
  <2>1. Len(p) \in L /\ Len(p) \in Nat /\ Len(longest) \in Nat
    BY <1>1
  <2>2. Max(L) >= Len(p)
    BY <1>4, <2>1
  <2> QED
    BY <1>5, <2>1, <2>2
<1>7. LongestCommonPrefix(S) \in C
  BY <1>6 DEF LongestCommonPrefix, C
<1> QED
  BY <1>1, <1>7

\* The text before a character and the text from it.
LEMMA PiecesAre ==
  ASSUME NEW t \in Seq(Printable), NEW k \in 0 .. Len(t)
  PROVE  /\ SubSeq(t, 1, k) \in Seq(Printable) /\ Len(SubSeq(t, 1, k)) = k
         /\ SubSeq(t, k + 1, Len(t)) \in Seq(Printable) /\ Len(SubSeq(t, k + 1, Len(t))) = Len(t) - k
<1>1. Len(t) \in Nat /\ k \in Nat
  OBVIOUS
<1>2. SubSeq(t, 1, k) \in Seq(Printable) /\ Len(SubSeq(t, 1, k)) = k
  BY <1>1, SubSeqProperties
<1>3. SubSeq(t, k + 1, Len(t)) \in Seq(Printable) /\ Len(SubSeq(t, k + 1, Len(t))) = Len(t) - k
  BY <1>1, SubSeqProperties
<1> QED
  BY <1>2, <1>3

LEMMA JoinedAre ==
  ASSUME NEW t \in Seq(Printable), NEW u \in Seq(Printable), NEW v \in Seq(Printable)
  PROVE  /\ t \o u \in Seq(Printable) /\ Len(t \o u) = Len(t) + Len(u)
         /\ t \o u \o v \in Seq(Printable) /\ Len(t \o u \o v) = Len(t) + Len(u) + Len(v)
OBVIOUS
------------------------------------------------------------------------------
(* The inductive invariant, for the line and the screen: where the editor   *)
(* left the cursor, whatever was smeared, and what the cells hold while     *)
(* nothing was.                                                             *)

Drawn(s, t, k, smear) ==
    /\ t \in EdText /\ k \in 0 .. Len(t)
    /\ Placed(s, Len(t), k) /\ (~ smear => Shows(s, t))
Broken(s, smear) == Fresh(s) /\ (~ smear => Blank(s))
LineInv ==
    /\ line \in EdText /\ cur \in 0 .. Len(line) /\ renderDirty \in BOOLEAN
    /\ rx \in {"normal", "esc", "csi", "ss3"}
RenderInv ==
    /\ renderDirty => Broken(screen, smeared)
    /\ ~ renderDirty => Drawn(screen, line, cur, smeared)

LEMMA RefreshDrawn ==
  ASSUME NEW s, NEW t0, NEW k0, NEW smear, Drawn(s, t0, k0, smear), NEW t \in EdText, NEW k \in 0 .. Len(t)
  PROVE  Drawn(Refresh(s, t, k), t, k, smear)
<1>1. t0 \in Seq(Printable) /\ Len(t0) \in Nat /\ k0 \in 0 .. Len(t0) /\ Placed(s, Len(t0), k0)
      /\ (~ smear => Shows(s, t0)) /\ t \in Seq(Printable)
  BY DEF Drawn, EdText
<1>2. Erased(s).at = Cols /\ Erased(s).wrap = FALSE /\ (~ smear => Blank(Erased(s)))
  BY <1>1, ErasedPlaced
<1>3. Placed(Refresh(s, t, k), Len(t), k) /\ (Blank(Erased(s)) => Shows(Refresh(s, t, k), t))
  BY <1>1, <1>2, RefreshIs
<1> QED
  BY <1>2, <1>3 DEF Drawn

LEMMA RefreshBroken ==
  ASSUME NEW s, NEW smear, Broken(s, smear), NEW t \in EdText, NEW k \in 0 .. Len(t)
  PROVE  Drawn(Refresh(s, t, k), t, k, smear)
<1>1. Fresh(s) /\ (~ smear => Blank(s)) /\ t \in Seq(Printable)
  BY DEF Broken, EdText
<1>2. Erased(s).at = Cols /\ Erased(s).wrap = FALSE /\ (~ smear => Blank(Erased(s)))
  BY <1>1, ErasedFresh
<1>3. Placed(Refresh(s, t, k), Len(t), k) /\ (Blank(Erased(s)) => Shows(Refresh(s, t, k), t))
  BY <1>1, <1>2, RefreshIs
<1> QED
  BY <1>2, <1>3 DEF Drawn

LEMMA RepositionDrawn ==
  ASSUME NEW s, NEW t, NEW k, NEW smear, Drawn(s, t, k, smear), NEW j \in 0 .. Len(t)
  PROVE  Drawn(Reposition(s, j), t, j, smear)
<1>1. t \in EdText /\ Len(t) \in Nat /\ k \in 0 .. Len(t) /\ Placed(s, Len(t), k) /\ (~ smear => Shows(s, t))
  BY DEF Drawn, EdText
<1>2. Placed(Reposition(s, j), Len(t), j) /\ Reposition(s, j).cells = s.cells
  BY <1>1, RepositionIs
<1>3. ~ smear => Shows(Reposition(s, j), t)
  BY <1>1, <1>2 DEF Shows
<1> QED
  BY <1>1, <1>2, <1>3 DEF Drawn

LEMMA DrawnRow ==
  ASSUME NEW s, NEW t, NEW k, NEW smear, Drawn(s, t, k, smear)
  PROVE  RowOf(s) \in Nat /\ t \in EdText /\ t \in Seq(Printable) /\ Len(t) \in 0 .. MaxLen /\ k \in 0 .. Len(t)
<1>1. t \in EdText /\ Len(t) \in Nat /\ Len(t) <= MaxLen /\ k \in 0 .. Len(t) /\ Placed(s, Len(t), k)
  BY DEF Drawn, EdText
<1>2. RowOf(s) = 1 + s.draw /\ s.draw \in Nat
  BY <1>1, PlacedRow
<1> QED
  BY <1>1, <1>2, EditorSizes DEF EdText

LEMMA ClearedIs == Broken(Cleared, FALSE)
<1>1. Cleared.at = Cols /\ Cleared.wrap = FALSE /\ Cleared.old = 0 /\ Cleared.draw = 0 /\ Cleared.cells = Above
  BY DEF Cleared, Term
<1>2. \A i \in Cells : Above[i] = IF i < Cols THEN "#" ELSE Gap
  BY DEF Above
<1> HIDE DEF Cleared
<1> QED
  BY <1>1, <1>2 DEF Broken, Fresh, Blank

\* A key that comes first paints again what a job's output broke.
LEMMA SettledDrawn ==
  ASSUME LineInv, RenderInv
  PROVE  Drawn(Settled, line, cur, smeared)
<1>1. CASE renderDirty
  <2>1. Settled = Refresh(screen, line, cur) /\ Broken(screen, smeared)
    BY <1>1 DEF Settled, RenderInv
  <2>2. line \in EdText /\ cur \in 0 .. Len(line)
    BY DEF LineInv
  <2> QED
    BY <2>1, <2>2, RefreshBroken
<1>2. CASE ~ renderDirty
  <2>1. Settled = screen /\ Drawn(screen, line, cur, smeared)
    BY <1>2 DEF Settled, RenderInv
  <2> QED
    BY <2>1
<1> QED
  BY <1>1, <1>2

LEMMA EditsDraw ==
  ASSUME LineInv, RenderInv, NEW t \in EdText, NEW k \in 0 .. Len(t), Edits(t, k)
  PROVE  Drawn(screen', line', cur', smeared)
<1>1. Drawn(Refresh(Settled, t, k), t, k, smeared)
  <2> DEFINE s == Settled
  <2>1. Drawn(s, line, cur, smeared)
    BY SettledDrawn
  <2> HIDE DEF s
  <2>2. Drawn(Refresh(s, t, k), t, k, smeared)
    BY <2>1, RefreshDrawn
  <2> QED
    BY <2>2 DEF s
<1> QED
  BY <1>1 DEF Edits

LEMMA BelDraws ==
  ASSUME LineInv, RenderInv, Bel
  PROVE  Drawn(screen', line', cur', smeared)
BY SettledDrawn DEF Bel, lineVars

LEMMA MoveDraws ==
  ASSUME LineInv, RenderInv, NEW k \in 0 .. Len(line), MoveTo(k)
  PROVE  Drawn(screen', line', cur', smeared)
<1> DEFINE s == Settled
<1>1. Drawn(s, line, cur, smeared)
  BY SettledDrawn
<1>2. cur' = k /\ line' = line /\ screen' = IF k = cur THEN s ELSE Reposition(s, k)
  BY DEF MoveTo
<1> HIDE DEF s
<1>3. Drawn(Reposition(s, k), line, k, smeared)
  BY <1>1, RepositionDrawn
<1> QED
  BY <1>1, <1>2, <1>3

\* What an edit makes of the line is a line.
LEMMA LineIs ==
  ASSUME LineInv
  PROVE  /\ line \in Seq(Printable) /\ Len(line) \in Nat /\ Len(line) <= MaxLen /\ cur \in 0 .. Len(line)
         /\ \A k \in 0 .. Len(line) : /\ Before(k) \in Seq(Printable) /\ Len(Before(k)) = k
                                      /\ From(k) \in Seq(Printable) /\ Len(From(k)) = Len(line) - k
<1>1. line \in Seq(Printable) /\ Len(line) \in Nat /\ Len(line) <= MaxLen /\ cur \in 0 .. Len(line)
  BY DEF LineInv, EdText
<1> QED
  BY <1>1, PiecesAre DEF Before, From

LEMMA TextIs ==
  ASSUME NEW t \in Seq(Printable), Len(t) <= MaxLen
  PROVE  t \in EdText
BY DEF EdText

LEMMA InsertDraws ==
  ASSUME LineInv, RenderInv, NEW c \in Printable, OpInsert(c)
  PROVE  Drawn(screen', line', cur', smeared)
<1>0. /\ line \in Seq(Printable) /\ Len(line) \in Nat /\ Len(line) <= MaxLen /\ cur \in 0 .. Len(line)
      /\ MaxLen \in Nat
  BY LineIs, EditorSizes
<1>1. <<c>> \in Seq(Printable) /\ Len(<<c>>) = 1
  OBVIOUS
<1>2. CASE overwrite /\ ~ AtEnd /\ Edits(Before(cur) \o <<c>> \o From(cur + 1), cur + 1)
  <2> DEFINE b == Before(cur)
             e == <<c>>
             f == From(cur + 1)
             t == b \o e \o f
  <2>1. cur + 1 \in 0 .. Len(line)
    BY <1>0, <1>2 DEF AtEnd
  <2>2. b \in Seq(Printable) /\ Len(b) = cur /\ f \in Seq(Printable) /\ Len(f) = Len(line) - (cur + 1)
    BY <1>0, <2>1, LineIs
  <2>3. t \in Seq(Printable) /\ Len(t) = Len(line)
    <3> HIDE DEF b, e, f
    <3>1. e \in Seq(Printable) /\ Len(e) = 1
      BY <1>1 DEF e
    <3>2. t \in Seq(Printable) /\ Len(t) = Len(b) + Len(e) + Len(f)
      BY <2>2, <3>1, JoinedAre
    <3> QED
      BY <1>0, <2>2, <3>1, <3>2
  <2>4. Edits(t, cur + 1)
    BY <1>2
  <2> HIDE DEF t
  <2>5. t \in EdText /\ cur + 1 \in 0 .. Len(t)
    BY <1>0, <2>1, <2>3, TextIs
  <2> QED
    BY <2>4, <2>5, EditsDraw
<1>3. CASE Bel
  BY <1>3, BelDraws
<1>4. CASE Len(line) < MaxLen /\ Edits(Before(cur) \o <<c>> \o From(cur), cur + 1)
  <2> DEFINE b == Before(cur)
             e == <<c>>
             f == From(cur)
             t == b \o e \o f
  <2>2. b \in Seq(Printable) /\ Len(b) = cur /\ f \in Seq(Printable) /\ Len(f) = Len(line) - cur
    BY <1>0, LineIs
  <2>3. t \in Seq(Printable) /\ Len(t) = Len(line) + 1
    <3> HIDE DEF b, e, f
    <3>1. e \in Seq(Printable) /\ Len(e) = 1
      BY <1>1 DEF e
    <3>2. t \in Seq(Printable) /\ Len(t) = Len(b) + Len(e) + Len(f)
      BY <2>2, <3>1, JoinedAre
    <3> QED
      BY <1>0, <2>2, <3>1, <3>2
  <2>4. Edits(t, cur + 1)
    BY <1>4
  <2> HIDE DEF t
  <2>5. t \in EdText /\ cur + 1 \in 0 .. Len(t)
    BY <1>0, <1>4, <2>3, TextIs
  <2> QED
    BY <2>4, <2>5, EditsDraw
<1>5. CASE /\ Len(line) < MaxLen /\ CanEcho
           /\ line' = Append(line, c) /\ cur' = cur + 1 /\ screen' = Put(Settled, <<c>>)
  <2> DEFINE s == Settled
             n == Len(line)
             u == Append(line, c)
  <2>1. Drawn(s, line, cur, smeared)
    BY SettledDrawn
  <2>2. cur = n /\ (Width + n + 1) % Cols # 0
    BY <1>5 DEF CanEcho, AtEnd, Pend, Width
  <2>3. u \in Seq(Printable) /\ Len(u) = n + 1
    BY <1>0
  <2>4. Placed(s, n, n) /\ (~ smeared => Shows(s, line))
    <3> HIDE DEF s
    <3> QED
      BY <2>1, <2>2 DEF Drawn
  <2>5. Placed(Put(s, <<c>>), n + 1, n + 1) /\ (Shows(s, line) => Shows(Put(s, <<c>>), u))
    <3> HIDE DEF s
    <3>1. line \in Seq(Printable) /\ n \in Nat
      BY <1>0
    <3> QED
      BY <2>2, <2>4, <3>1, EchoIs
  <2>6. u \in EdText /\ n + 1 \in 0 .. Len(u)
    <3> HIDE DEF u
    <3> QED
      BY <1>0, <1>5, <2>3, TextIs
  <2>7. line' = u /\ cur' = n + 1 /\ screen' = Put(s, <<c>>)
    BY <1>5, <2>2
  <2> HIDE DEF s, u, n
  <2> QED
    BY <2>3, <2>4, <2>5, <2>6, <2>7 DEF Drawn
<1> QED
  BY <1>2, <1>3, <1>4, <1>5 DEF OpInsert

LEMMA BackspaceDraws ==
  ASSUME LineInv, RenderInv, OpBackspace
  PROVE  Drawn(screen', line', cur', smeared)
<1>0. /\ line \in Seq(Printable) /\ Len(line) \in Nat /\ Len(line) <= MaxLen /\ cur \in 0 .. Len(line)
      /\ MaxLen \in Nat
  BY LineIs, EditorSizes
<1>1. CASE Bel
  BY <1>1, BelDraws
<1>2. CASE cur > 0 /\ Edits(Before(cur - 1) \o From(cur), cur - 1)
  <2> DEFINE b == Before(cur - 1)
             f == From(cur)
             t == b \o f
  <2>1. cur - 1 \in 0 .. Len(line)
    BY <1>0, <1>2
  <2>2. b \in Seq(Printable) /\ Len(b) = cur - 1 /\ f \in Seq(Printable) /\ Len(f) = Len(line) - cur
    BY <1>0, <2>1, LineIs
  <2>3. t \in Seq(Printable) /\ Len(t) = Len(line) - 1
    <3> HIDE DEF b, f
    <3>2. t \in Seq(Printable) /\ Len(t) = Len(b) + Len(f)
      BY <2>2, JoinedAre
    <3> QED
      BY <1>0, <2>2, <3>2
  <2>4. Edits(t, cur - 1)
    BY <1>2
  <2> HIDE DEF t
  <2>5. t \in EdText /\ cur - 1 \in 0 .. Len(t)
    BY <1>0, <1>2, <2>3, TextIs
  <2> QED
    BY <2>4, <2>5, EditsDraw
<1>3. CASE /\ cur > 0 /\ CanRubOut /\ line' = Before(cur - 1) /\ cur' = cur - 1
           /\ screen' = Back(Put(Back(Settled), <<Gap>>))
  <2> DEFINE s == Settled
             n == Len(line)
             u == SubSeq(line, 1, n - 1)
             r == Back(Put(Back(s), <<Gap>>))
  <2>1. Drawn(s, line, cur, smeared)
    BY SettledDrawn
  <2>2. cur = n /\ (Width + n) % Cols # 0 /\ n \in Nat \ {0} /\ n - 1 \in 0 .. n
    BY <1>0, <1>3 DEF CanRubOut, AtEnd, Pend, Width
  <2>3. u \in Seq(Printable) /\ Len(u) = n - 1
    BY <1>0, <2>2, PiecesAre
  <2>4. Placed(s, n, n) /\ (~ smeared => Shows(s, line))
    <3> HIDE DEF s
    <3> QED
      BY <2>1, <2>2 DEF Drawn
  <2>5. Placed(r, n - 1, n - 1) /\ (Shows(s, line) => Shows(r, u))
    <3> HIDE DEF s
    <3> QED
      BY <1>0, <2>2, <2>4, RubOutIs
  <2>6. u \in EdText /\ n - 1 \in 0 .. Len(u)
    <3> HIDE DEF u
    <3> QED
      BY <1>0, <2>2, <2>3, TextIs
  <2>7. line' = u /\ cur' = n - 1 /\ screen' = r
    BY <1>3, <2>2 DEF Before
  <2> HIDE DEF s, u, n, r
  <2> QED
    BY <2>3, <2>4, <2>5, <2>6, <2>7 DEF Drawn
<1> QED
  BY <1>1, <1>2, <1>3 DEF OpBackspace

LEMMA WordEdges ==
  ASSUME LineInv
  PROVE  WordStart \in 0 .. cur /\ WordEnd \in 0 .. Len(line)
<1>0. Len(line) \in Nat /\ cur \in 0 .. Len(line) /\ cur \in Nat
  BY LineIs
<1> DEFINE A == {i \in 1 .. cur - 1 : Space(i) /\ ~ Space(i + 1)} \cup {0}
           B == {i \in cur + 1 .. Len(line) - 1 : ~ Space(i) /\ Space(i + 1)} \cup {Len(line)}
<1>1. A \subseteq 0 .. cur /\ A # {}
  BY <1>0
<1>2. B \subseteq 0 .. Len(line) /\ B # {} /\ B \subseteq Nat
  BY <1>0
<1>3. WordStart = Max(A) /\ WordEnd = Min(B)
  BY DEF WordStart, WordEnd
<1> HIDE DEF A, B
<1>4. Max(A) \in A
  BY <1>0, <1>1, MaxIs
<1>5. Min(B) \in B
  BY <1>2, MinIs
<1> QED
  BY <1>1, <1>2, <1>3, <1>4, <1>5

\* Deleting forward, to either end, or the word before the cursor.
LEMMA KillDraws ==
  ASSUME LineInv, RenderInv, OpDeleteFwd \/ OpKillEol \/ OpKillBol \/ OpDelWord
  PROVE  Drawn(screen', line', cur', smeared)
<1>0. /\ line \in Seq(Printable) /\ Len(line) \in Nat /\ Len(line) <= MaxLen /\ cur \in 0 .. Len(line)
      /\ MaxLen \in Nat /\ cur \in Nat
  BY LineIs, EditorSizes
<1>1. CASE Bel
  BY <1>1, BelDraws
<1>2. ASSUME NEW a \in 0 .. cur, NEW d \in cur .. Len(line), Edits(Before(a) \o From(d), a)
      PROVE  Drawn(screen', line', cur', smeared)
  <2> DEFINE b == Before(a)
             f == From(d)
             t == b \o f
  <2>1. a \in 0 .. Len(line) /\ d \in 0 .. Len(line)
    BY <1>0
  <2>2. b \in Seq(Printable) /\ Len(b) = a /\ f \in Seq(Printable) /\ Len(f) = Len(line) - d
    BY <2>1, LineIs
  <2>3. t \in Seq(Printable) /\ Len(t) = a + (Len(line) - d)
    <3> HIDE DEF b, f
    <3>2. t \in Seq(Printable) /\ Len(t) = Len(b) + Len(f)
      BY <2>2, JoinedAre
    <3> QED
      BY <2>2, <3>2
  <2>4. Edits(t, a)
    BY <1>2
  <2> HIDE DEF t
  <2>5. t \in EdText /\ a \in 0 .. Len(t)
    BY <1>0, <2>1, <2>3, TextIs
  <2> QED
    BY <2>4, <2>5, EditsDraw
<1>3. CASE OpDeleteFwd /\ ~ Bel
  <2>1. ~ AtEnd /\ Edits(Before(cur) \o From(cur + 1), cur)
    BY <1>3 DEF OpDeleteFwd
  <2>2. cur \in 0 .. cur /\ cur + 1 \in cur .. Len(line)
    BY <1>0, <2>1 DEF AtEnd
  <2> QED
    BY <1>2, <2>1, <2>2
<1>4. CASE OpKillEol /\ ~ Bel
  <2> DEFINE t == Before(cur)
  <2>1. Edits(t, cur)
    BY <1>4 DEF OpKillEol
  <2>2. t \in Seq(Printable) /\ Len(t) = cur
    BY <1>0, LineIs
  <2> HIDE DEF t
  <2>3. t \in EdText /\ cur \in 0 .. Len(t)
    BY <1>0, <2>2, TextIs
  <2> QED
    BY <2>1, <2>3, EditsDraw
<1>5. CASE OpKillBol /\ ~ Bel
  <2> DEFINE t == From(cur)
  <2>1. Edits(t, 0)
    BY <1>5 DEF OpKillBol
  <2>2. t \in Seq(Printable) /\ Len(t) = Len(line) - cur
    BY <1>0, LineIs
  <2> HIDE DEF t
  <2>3. t \in EdText /\ 0 \in 0 .. Len(t)
    BY <1>0, <2>2, TextIs
  <2> QED
    BY <2>1, <2>3, EditsDraw
<1>6. CASE OpDelWord /\ ~ Bel
  <2>1. Edits(Before(WordStart) \o From(cur), WordStart)
    BY <1>6 DEF OpDelWord
  <2>2. WordStart \in 0 .. cur /\ cur \in cur .. Len(line)
    BY <1>0, WordEdges
  <2> QED
    BY <1>2, <2>1, <2>2
<1> QED
  BY <1>1, <1>3, <1>4, <1>5, <1>6

LEMMA MovesDraw ==
  ASSUME LineInv, RenderInv,
         OpLeft \/ OpRight \/ MoveTo(0) \/ MoveTo(Len(line)) \/ MoveTo(WordStart) \/ MoveTo(WordEnd)
  PROVE  Drawn(screen', line', cur', smeared)
<1>0. Len(line) \in Nat /\ cur \in 0 .. Len(line) /\ cur \in Nat
  BY LineIs
<1>1. CASE OpLeft
  <2>1. (IF cur > 0 THEN cur - 1 ELSE 0) \in 0 .. Len(line)
    BY <1>0
  <2> QED
    BY <1>1, <2>1, MoveDraws DEF OpLeft
<1>2. CASE OpRight
  <2>1. (IF AtEnd THEN cur ELSE cur + 1) \in 0 .. Len(line)
    BY <1>0 DEF AtEnd
  <2> QED
    BY <1>2, <2>1, MoveDraws DEF OpRight
<1>3. 0 \in 0 .. Len(line) /\ Len(line) \in 0 .. Len(line)
  BY <1>0
<1>4. WordStart \in 0 .. Len(line) /\ WordEnd \in 0 .. Len(line)
  <2>1. WordStart \in 0 .. cur /\ WordEnd \in 0 .. Len(line)
    BY WordEdges
  <2> QED
    BY <1>0, <2>1
<1> QED
  BY <1>1, <1>2, <1>3, <1>4, MoveDraws

LEMMA ClearDraws ==
  ASSUME LineInv, OpClearScreen
  PROVE  Drawn(screen', line', cur', FALSE)
<1>1. line \in EdText /\ cur \in 0 .. Len(line)
  BY DEF LineInv
<1>2. Drawn(Refresh(Cleared, line, cur), line, cur, FALSE)
  BY <1>1, ClearedIs, RefreshBroken
<1> QED
  BY <1>2 DEF OpClearScreen, lineVars

\* What completes a word is text, no longer than the line has room for.
LEMMA CompletionIs ==
  ASSUME LineInv, NEW ws
  PROVE  CompleteFrom \in 0 .. cur /\ NameSet(ws) \subseteq Seq(Printable)
<1>0. cur \in Nat
  BY LineIs
<1> DEFINE A == {i \in 1 .. cur : Space(i)} \cup {0}
<1>1. A \subseteq 0 .. cur /\ A # {}
  BY <1>0
<1>2. CompleteFrom = Max(A)
  BY DEF CompleteFrom
<1> HIDE DEF A
<1>3. CompleteFrom \in 0 .. cur
  BY <1>0, <1>1, <1>2, MaxIs
<1>4. Roots \subseteq Seq(Printable) /\ \A n \in Roots : Subs[n] \subseteq Seq(Printable)
  BY EditorAssumption
<1> DEFINE W == WordsBefore(ws)
           first == WordAt(Min(WordsBefore(ws)))
<1>5. NameSet(ws) = IF W = {} THEN Roots ELSE IF Cardinality(W) = 1 /\ first \in Roots THEN Subs[first] ELSE {}
  BY DEF NameSet
<1> HIDE DEF W, first
<1>6. NameSet(ws) \subseteq Seq(Printable)
  BY <1>4, <1>5
<1> QED
  BY <1>3, <1>6

LEMMA InsertedIs ==
  ASSUME LineInv, NEW tail \in Seq(Printable), Len(line) + Len(tail) <= MaxLen
  PROVE  Inserted(line, cur, tail) \in EdText /\ cur + Len(tail) \in 0 .. Len(Inserted(line, cur, tail))
<1>0. /\ line \in Seq(Printable) /\ Len(line) \in Nat /\ cur \in 0 .. Len(line) /\ MaxLen \in Nat /\ Len(tail) \in Nat
  BY LineIs, EditorSizes
<1> DEFINE b == SubSeq(line, 1, cur)
           f == SubSeq(line, cur + 1, Len(line))
           t == b \o tail \o f
<1>1. b \in Seq(Printable) /\ Len(b) = cur /\ f \in Seq(Printable) /\ Len(f) = Len(line) - cur
  BY <1>0, PiecesAre
<1>2. t \in Seq(Printable) /\ Len(t) = Len(line) + Len(tail)
  <2> HIDE DEF b, f
  <2>1. t \in Seq(Printable) /\ Len(t) = Len(b) + Len(tail) + Len(f)
    BY <1>1, JoinedAre
  <2> QED
    BY <1>0, <1>1, <2>1
<1>3. Inserted(line, cur, tail) = t
  BY DEF Inserted
<1> HIDE DEF t
<1>4. t \in EdText /\ cur + Len(tail) \in 0 .. Len(t)
  BY <1>0, <1>2, TextIs
<1> QED
  BY <1>3, <1>4

LEMMA InsertedDraws ==
  ASSUME LineInv, RenderInv, NEW tail \in Seq(Printable), Len(line) + Len(tail) <= MaxLen,
         Edits(Inserted(line, cur, tail), cur + Len(tail))
  PROVE  Drawn(screen', line', cur', smeared)
<1> DEFINE t == Inserted(line, cur, tail)
           k == cur + Len(tail)
<1>1. t \in EdText /\ k \in 0 .. Len(t) /\ Edits(t, k)
  BY InsertedIs
<1> HIDE DEF t, k
<1> QED
  BY <1>1, EditsDraw

\* show_list(): the candidates are printed below the render.
LEMMA ListDraws ==
  ASSUME LineInv, RenderInv, UNCHANGED lineVars,
         LET s == Settled
             below == NewLine(CursorTo(s, RowOf(s) + s.old - 1 - s.draw, 0))
         IN screen' = Refresh(Rendered(Scrolled(below), 0, 0), line, cur)
  PROVE  Drawn(screen', line', cur', smeared)
<1> DEFINE s == Settled
           b == CursorTo(s, RowOf(s) + s.old - 1 - s.draw, 0)
           n == Rendered(Scrolled(NewLine(b)), 0, 0)
<1>1. Drawn(s, line, cur, smeared)
  BY SettledDrawn
<1>2. screen' = Refresh(n, line, cur) /\ line' = line /\ cur' = cur
  BY DEF lineVars
<1>3. RowOf(b) \in Nat /\ (~ smeared => ~ BelowCursor(b))
  <2>1. line \in Seq(Printable) /\ cur \in 0 .. Len(line) /\ Placed(s, Len(line), cur) /\ (~ smeared => Shows(s, line))
    <3> HIDE DEF s
    <3> QED
      BY <1>1 DEF Drawn, EdText
  <2>2. RowOf(b) \in Nat /\ (Shows(s, line) => ~ BelowCursor(b))
    <3> HIDE DEF s
    <3> QED
      BY <2>1, BottomIs
  <2> QED
    BY <2>1, <2>2
<1>4. Fresh(n) /\ (~ BelowCursor(b) => Blank(n))
  <2> HIDE DEF b
  <2> QED
    BY <1>3, BrokenIs
<1> HIDE DEF s, b, n
<1>5. Broken(n, smeared)
  BY <1>3, <1>4 DEF Broken
<1>6. line \in EdText /\ cur \in 0 .. Len(line)
  BY DEF LineInv
<1> QED
  BY <1>2, <1>5, <1>6, RefreshBroken

LEMMA TabDraws ==
  ASSUME LineInv, RenderInv, OpTab
  PROVE  Drawn(screen', line', cur', smeared)
<1> DEFINE prefix == SubSeq(line, CompleteFrom + 1, cur)
           found == {n \in NameSet(CompleteFrom) : IsPrefix(prefix, n)}
           common == LongestCommonPrefix(found)
           tail == SubSeq(common, Len(prefix) + 1, Len(common))
           room == Len(line) + Len(tail) <= MaxLen
           spaced == AtEnd /\ room /\ Len(line) + Len(tail) < MaxLen
           full == IF room THEN IF spaced THEN Append(tail, Gap) ELSE tail ELSE <<>>
<1>0. /\ line \in Seq(Printable) /\ Len(line) \in Nat /\ Len(line) <= MaxLen /\ cur \in 0 .. Len(line)
      /\ MaxLen \in Nat /\ Gap \in Printable
  BY LineIs, EditorSizes, EditorAssumption
<1>1. CASE Bel
  BY <1>1, BelDraws
<1>2. ASSUME found # {} PROVE tail \in Seq(Printable) /\ Len(tail) \in Nat
  <2>1. found \subseteq Seq(Printable)
    BY CompletionIs
  <2>2. common \in Seq(Printable)
    <3> HIDE DEF found
    <3> QED
      BY <1>2, <2>1, CommonPrefixIs
  <2>3. Len(prefix) \in Nat
    <3>1. CompleteFrom \in 0 .. cur
      BY CompletionIs
    <3>2. CompleteFrom + 1 \in 1 .. Len(line) + 1 /\ cur \in 0 .. Len(line)
      BY <1>0, <3>1
    <3>3. prefix \in Seq(Printable)
      BY <1>0, <3>2
    <3> QED
      BY <3>3
  <2> HIDE DEF common, prefix
  <2>4. tail \in Seq(Printable)
    BY <2>2, <2>3
  <2> QED
    BY <2>4
<1>3. CASE Cardinality(found) = 1 /\ Edits(Inserted(line, cur, full), cur + Len(full))
  <2>0. Cardinality(found) = 1
    BY <1>3
  <2>1. found # {}
    <3> HIDE DEF found
    <3> QED
      BY <2>0, FS_EmptySet
  <2>2. tail \in Seq(Printable) /\ Len(tail) \in Nat
    BY <1>2, <2>1
  <2>3. full \in Seq(Printable) /\ Len(line) + Len(full) <= MaxLen
    <3> HIDE DEF tail
    <3>1. CASE ~ room
      <4>1. full = <<>>
        BY <3>1
      <4> HIDE DEF full
      <4> QED
        BY <1>0, <4>1
    <3>2. CASE room /\ spaced
      <4>1. full = Append(tail, Gap) /\ Len(line) + Len(tail) < MaxLen
        BY <3>2
      <4>2. Append(tail, Gap) \in Seq(Printable) /\ Len(Append(tail, Gap)) = Len(tail) + 1
        BY <1>0, <2>2
      <4> HIDE DEF full
      <4> QED
        BY <1>0, <2>2, <4>1, <4>2
    <3>3. CASE room /\ ~ spaced
      <4>1. full = tail
        BY <3>3
      <4> HIDE DEF full
      <4> QED
        BY <2>2, <3>3, <4>1
    <3> QED
      BY <3>1, <3>2, <3>3
  <2>4. Edits(Inserted(line, cur, full), cur + Len(full))
    BY <1>3
  <2> HIDE DEF full
  <2> QED
    BY <2>3, <2>4, InsertedDraws
<1>4. CASE /\ Cardinality(found) > 1 /\ tail # <<>> /\ room
           /\ Edits(Inserted(line, cur, tail), cur + Len(tail))
  <2>0. Cardinality(found) > 1
    BY <1>4
  <2>1. found # {}
    <3> HIDE DEF found
    <3> QED
      BY <2>0, FS_EmptySet
  <2>2. tail \in Seq(Printable) /\ Len(line) + Len(tail) <= MaxLen
    BY <1>2, <1>4, <2>1
  <2>3. Edits(Inserted(line, cur, tail), cur + Len(tail))
    BY <1>4
  <2> HIDE DEF tail
  <2> QED
    BY <2>2, <2>3, InsertedDraws
<1>5. CASE /\ UNCHANGED lineVars
           /\ LET s == Settled
                  below == NewLine(CursorTo(s, RowOf(s) + s.old - 1 - s.draw, 0))
              IN screen' = Refresh(Rendered(Scrolled(below), 0, 0), line, cur)
  BY <1>5, ListDraws
<1>6. \/ Bel
      \/ Cardinality(found) = 1 /\ Edits(Inserted(line, cur, full), cur + Len(full))
      \/ /\ Cardinality(found) > 1 /\ tail # <<>> /\ room
         /\ Edits(Inserted(line, cur, tail), cur + Len(tail))
      \/ /\ UNCHANGED lineVars
         /\ LET s == Settled
                below == NewLine(CursorTo(s, RowOf(s) + s.old - 1 - s.draw, 0))
            IN screen' = Refresh(Rendered(Scrolled(below), 0, 0), line, cur)
  BY Zenon DEF OpTab
<1> QED
  BY <1>1, <1>3, <1>4, <1>5, <1>6

\* A prompt of its own, below the line: the screen at s, with the cursor on
\* a row of it.
LEMMA PromptDraws ==
  ASSUME NEW s, RowOf(s) \in Nat, screen' = PromptDrawn(NewLine(s)), line' = <<>>, cur' = 0,
         smeared' = (smeared \/ BelowCursor(s))
  PROVE  Drawn(screen', line', cur', smeared')
<1> DEFINE p == PromptDrawn(NewLine(s))
           t == <<>>
<1>1. Placed(p, 0, 0) /\ (~ BelowCursor(s) => Shows(p, t))
  BY PromptDrawnIs
<1>2. t \in EdText /\ Len(t) = 0
  BY EditorSizes DEF EdText
<1>3. screen' = p /\ line' = t
  OBVIOUS
<1> HIDE DEF p, t
<1>4. ~ smeared' => ~ BelowCursor(s)
  OBVIOUS
<1>5. Drawn(p, t, 0, smeared')
  BY <1>1, <1>2, <1>4 DEF Drawn
<1> QED
  BY <1>3, <1>5

\* A job's output breaks the line; more of it scrolls what is above away.
LEMMA JobBreaks ==
  ASSUME LineInv, RenderInv, JobPrints
  PROVE  Broken(screen', smeared')
<1> DEFINE s == screen
           n == Rendered(Scrolled(NewLine(s)), 0, 0)
<1>0. renderDirty \in BOOLEAN
  BY DEF LineInv
<1>1. RowOf(s) \in Nat
  <2>1. CASE renderDirty
    <3>1. Fresh(s)
      BY <2>1 DEF RenderInv, Broken
    <3> QED
      BY <3>1, FreshRow
  <2>2. CASE ~ renderDirty
    <3>1. Drawn(s, line, cur, smeared)
      BY <2>2 DEF RenderInv
    <3> QED
      BY <3>1, DrawnRow
  <2> QED
    BY <2>1, <2>2
<1>2. Fresh(n) /\ (~ BelowCursor(s) => Blank(n))
  BY <1>1, BrokenIs
<1>3. ~ smeared' => ~ BelowCursor(s)
  <2>1. smeared' = (smeared \/ (~ renderDirty /\ BelowCursor(s)))
    BY DEF JobPrints
  <2>2. CASE renderDirty /\ ~ smeared
    <3>1. Fresh(s) /\ Blank(s)
      BY <2>2 DEF RenderInv, Broken
    <3> QED
      BY <3>1, NothingBelow
  <2>3. CASE ~ renderDirty \/ smeared
    BY <2>1, <2>3, Zenon
  <2> QED
    BY <2>2, <2>3, Zenon
<1>4. screen' = n
  BY DEF JobPrints
<1> HIDE DEF n, s
<1> QED
  BY <1>2, <1>3, <1>4 DEF Broken

\* A line that ends leaves the prompt below it.
LEMMA CtrlCDraws ==
  ASSUME LineInv, RenderInv, CtrlC
  PROVE  Drawn(screen', line', cur', smeared')
<1> DEFINE s == Settled
<1>1. Drawn(s, line, cur, smeared)
  BY SettledDrawn
<1>2. screen' = PromptDrawn(NewLine(s)) /\ line' = <<>> /\ cur' = 0 /\ smeared' = (smeared \/ BelowCursor(s))
  BY DEF CtrlC
<1> HIDE DEF s
<1>3. RowOf(s) \in Nat
  BY <1>1, DrawnRow
<1> QED
  BY <1>2, <1>3, PromptDraws

LEMMA SubmitDraws ==
  ASSUME LineInv, RenderInv, NEW cr \in BOOLEAN, Submit(cr)
  PROVE  Drawn(screen', line', cur', smeared')
<1> DEFINE s == IF AtEnd THEN Settled ELSE Reposition(Settled, Len(line))
<1>1. CASE ~ cr /\ prevCr
  <2>1. Bel /\ smeared' = smeared
    BY <1>1 DEF Submit, Same
  <2> QED
    BY <2>1, BelDraws
<1>2. CASE ~ (~ cr /\ prevCr)
  <2>1. screen' = PromptDrawn(NewLine(s)) /\ line' = <<>> /\ cur' = 0 /\ smeared' = (smeared \/ BelowCursor(s))
    BY <1>2 DEF Submit
  <2>2. Drawn(Settled, line, cur, smeared)
    BY SettledDrawn
  <2>3. RowOf(s) \in Nat
    <3>1. CASE AtEnd
      <4>1. s = Settled
        BY <3>1
      <4> QED
        BY <2>2, <4>1, DrawnRow
    <3>2. CASE ~ AtEnd
      <4> DEFINE d == Settled
                 r == Reposition(d, Len(line))
      <4>1. s = r
        BY <3>2
      <4>2. Len(line) \in 0 .. Len(line)
        BY LineIs
      <4> HIDE DEF d
      <4>3. Drawn(d, line, cur, smeared)
        BY <2>2 DEF d
      <4>4. Drawn(r, line, Len(line), smeared)
        BY <4>2, <4>3, RepositionDrawn
      <4> HIDE DEF r, s
      <4> QED
        BY <4>1, <4>4, DrawnRow
    <3> QED
      BY <3>1, <3>2
  <2> HIDE DEF s
  <2> QED
    BY <2>1, <2>3, PromptDraws
<1> QED
  BY <1>1, <1>2
------------------------------------------------------------------------------
(* The ring. Laid(h, e, st): h holds the entries e, the i-th of them between *)
(* the positions st[i - 1] and st[i], where its terminator is.               *)

Entry == {t \in Seq(Printable) : t # <<>> /\ Len(t) <= MaxLen}
Marked == Printable \cup {"0"}
Held(h, e, st, i) ==
    /\ st[i] = st[i - 1] + Len(e[i]) + 1 /\ h[st[i]] = "0"
    /\ \A j \in 1 .. Len(e[i]) : h[st[i - 1] + j] = e[i][j]
Laid(h, e, st) ==
    /\ e \in Seq(Entry) /\ h \in Seq(Marked) /\ st \in [0 .. Len(e) -> Nat]
    /\ st[0] = 0 /\ st[Len(e)] = Len(h)
    /\ \A i \in 1 .. Len(e) : Held(h, e, st, i)

LEMMA EntryIs ==
  ASSUME NEW e \in Seq(Entry), NEW i \in 1 .. Len(e)
  PROVE  /\ e[i] \in Entry /\ e[i] \in EdText /\ e[i] \in Seq(Printable)
         /\ Len(e[i]) \in Nat /\ Len(e[i]) >= 1 /\ Len(e) \in Nat
<1>1. e[i] \in Entry /\ Len(e) \in Nat
  OBVIOUS
<1> DEFINE t == e[i]
<1> HIDE DEF t
<1>2. t \in Entry
  BY <1>1 DEF t
<1>3. t \in Seq(Printable) /\ t # <<>> /\ Len(t) <= MaxLen
  BY <1>2 DEF Entry
<1>4. Len(t) \in Nat /\ Len(t) >= 1
  BY <1>3
<1> QED
  BY <1>1, <1>3, <1>4 DEF t, EdText

LEMMA NumbersUpTo ==
  ASSUME NEW N \in Nat, NEW P, 0 \in P, \A n \in 1 .. N : n - 1 \in P => n \in P
  PROVE  0 .. N \subseteq P
<1> DEFINE Bad == {n \in 0 .. N : n \notin P}
<1> SUFFICES ASSUME Bad # {} PROVE FALSE
  OBVIOUS
<1>0. Bad \subseteq Nat
  OBVIOUS
<1>1. PICK n \in Bad : \A y \in Bad : n <= y
  <2> HIDE DEF Bad
  <2> QED
    BY <1>0, LeastOf
<1>2. n \in 1 .. N /\ n - 1 \in 0 .. N /\ n \notin P
  OBVIOUS
<1>3. n - 1 \notin Bad
  BY <1>1, <1>2
<1> QED
  BY <1>2, <1>3

\* The positions only grow.
LEMMA LaidGrows ==
  ASSUME NEW h, NEW e, NEW st, Laid(h, e, st)
  PROVE  /\ \A i \in 0 .. Len(e) : st[i] \in 0 .. Len(h)
         /\ \A k \in 0 .. Len(e) : \A i \in 0 .. Len(e) : i < k => st[i] < st[k]
<1> DEFINE n == Len(e)
           P == {k \in 0 .. n : \A i \in 0 .. n : i < k => st[i] < st[k]}
<1>0. n \in Nat /\ st \in [0 .. n -> Nat] /\ st[n] = Len(h) /\ h \in Seq(Marked)
  BY DEF Laid
<1>1. \A k \in 1 .. n : st[k] > st[k - 1]
  <2> SUFFICES ASSUME NEW k \in 1 .. n PROVE st[k] > st[k - 1]
    OBVIOUS
  <2>1. Held(h, e, st, k) /\ e \in Seq(Entry)
    BY DEF Laid
  <2>2. st[k] = st[k - 1] + Len(e[k]) + 1
    BY <2>1 DEF Held
  <2>3. Len(e[k]) \in Nat
    BY <2>1, EntryIs
  <2>4. st[k] \in Nat /\ st[k - 1] \in Nat
    BY <1>0
  <2> QED
    BY <2>2, <2>3, <2>4
<1> HIDE DEF n
<1>2. 0 \in P
  BY <1>0
<1>3. ASSUME NEW k \in 1 .. n, k - 1 \in P PROVE k \in P
  <2> SUFFICES ASSUME NEW i \in 0 .. n, i < k PROVE st[i] < st[k]
    OBVIOUS
  <2>1. st[k] > st[k - 1] /\ st[k] \in Nat /\ st[k - 1] \in Nat /\ st[i] \in Nat
    BY <1>0, <1>1
  <2>2. i = k - 1 \/ i < k - 1
    OBVIOUS
  <2>3. CASE i = k - 1
    BY <2>1, <2>3
  <2>4. CASE i < k - 1
    <3>1. st[i] < st[k - 1]
      BY <1>3, <2>4
    <3> QED
      BY <2>1, <3>1
  <2> QED
    BY <2>2, <2>3, <2>4
<1>4. 0 .. n \subseteq P
  <2> HIDE DEF P
  <2>1. \A k \in 1 .. n : k - 1 \in P => k \in P
    BY <1>3
  <2> QED
    BY <1>0, <1>2, <2>1, NumbersUpTo
<1>5. \A k \in 0 .. n : \A i \in 0 .. n : i < k => st[i] < st[k]
  BY <1>4
<1>6. ASSUME NEW i \in 0 .. n PROVE st[i] \in 0 .. Len(h)
  <2>1. i = n \/ st[i] < st[n]
    BY <1>0, <1>5
  <2>2. st[i] \in Nat /\ st[n] \in Nat
    BY <1>0
  <2> QED
    BY <1>0, <2>1, <2>2
<1> QED
  BY <1>5, <1>6 DEF n

\* Every position is of one entry.
LEMMA LaidCovers ==
  ASSUME NEW h, NEW e, NEW st, Laid(h, e, st), NEW p \in 1 .. Len(h)
  PROVE  \E i \in 1 .. Len(e) : /\ st[i - 1] < p /\ p <= st[i] /\ p - st[i - 1] \in 1 .. Len(e[i]) + 1
                                /\ (p = st[i] <=> p - st[i - 1] = Len(e[i]) + 1)
<1> DEFINE n == Len(e)
           S == {k \in 0 .. n : p <= st[k]}
<1>0. /\ n \in Nat /\ st \in [0 .. n -> Nat] /\ st[n] = Len(h) /\ h \in Seq(Marked) /\ e \in Seq(Entry)
      /\ Len(h) \in Nat /\ st[0] = 0
  BY DEF Laid
<1>1. S \subseteq Nat /\ n \in S
  BY <1>0
<1>2. PICK k \in S : \A y \in S : k <= y
  <2> HIDE DEF S
  <2> QED
    BY <1>1, LeastOf
<1>3. k \in 1 .. n /\ p <= st[k]
  BY <1>0
<1>4. st[k - 1] < p
  <2>1. k - 1 \notin S /\ k - 1 \in 0 .. n
    <3>1. k - 1 < k /\ k - 1 \in 0 .. n
      BY <1>0, <1>3
    <3> HIDE DEF S, n
    <3> QED
      BY <1>1, <1>2, <3>1
  <2>2. st[k - 1] \in Nat
    BY <1>0, <2>1
  <2> QED
    BY <2>1, <2>2
<1>5. st[k] = st[k - 1] + Len(e[k]) + 1
  BY <1>3 DEF Laid, Held
<1>6. Len(e[k]) \in Nat
  BY <1>0, <1>3, EntryIs
<1>7. st[k] \in Nat /\ st[k - 1] \in Nat
  BY <1>0, <1>3
<1>8. p - st[k - 1] \in 1 .. Len(e[k]) + 1 /\ (p = st[k] <=> p - st[k - 1] = Len(e[k]) + 1)
  <2> DEFINE a == st[k - 1]
             b == st[k]
             l == Len(e[k])
  <2>1. a \in Nat /\ b \in Nat /\ l \in Nat /\ b = a + l + 1 /\ a < p /\ p <= b
    BY <1>3, <1>4, <1>5, <1>6, <1>7
  <2> HIDE DEF a, b, l
  <2>2. p - a \in 1 .. l + 1 /\ (p = b <=> p - a = l + 1)
    BY <2>1
  <2> QED
    BY <2>2 DEF a, b, l
<1> QED
  BY <1>3, <1>4, <1>8

\* The entries say where each of them is, and all that the ring holds.
LEMMA LaidSame ==
  ASSUME NEW h, NEW g, NEW e, NEW st, NEW tt, Laid(h, e, st), Laid(g, e, tt)
  PROVE  h = g /\ st = tt
<1> DEFINE n == Len(e)
           P == {k \in 0 .. n : st[k] = tt[k]}
<1>0. /\ n \in Nat /\ st \in [0 .. n -> Nat] /\ tt \in [0 .. n -> Nat] /\ st[0] = 0 /\ tt[0] = 0
      /\ st[n] = Len(h) /\ tt[n] = Len(g) /\ h \in Seq(Marked) /\ g \in Seq(Marked) /\ e \in Seq(Entry)
  BY DEF Laid
<1>1. \A k \in 1 .. n : Held(h, e, st, k) /\ Held(g, e, tt, k)
  BY DEF Laid
<1> HIDE DEF n
<1>2. 0 \in P
  BY <1>0
<1>3. ASSUME NEW k \in 1 .. n, k - 1 \in P PROVE k \in P
  <2>1. st[k] = st[k - 1] + Len(e[k]) + 1 /\ tt[k] = tt[k - 1] + Len(e[k]) + 1
    BY <1>1 DEF Held
  <2>2. st[k - 1] = tt[k - 1]
    BY <1>3
  <2>3. st[k] = tt[k]
    BY <2>1, <2>2
  <2> QED
    BY <2>3
<1>4. 0 .. n \subseteq P
  <2> HIDE DEF P
  <2>1. \A k \in 1 .. n : k - 1 \in P => k \in P
    BY <1>3
  <2> QED
    BY <1>0, <1>2, <2>1, NumbersUpTo
<1>5. \A k \in 0 .. n : st[k] = tt[k]
  BY <1>4
<1>6. st = tt
  <2> HIDE DEF P
  <2> QED
    BY <1>0, <1>5
<1>7. Len(h) = Len(g) /\ Len(h) \in Nat
  BY <1>0, <1>6
<1>8. ASSUME NEW p \in 1 .. Len(h) PROVE h[p] = g[p]
  <2>1. PICK i \in 1 .. n : /\ st[i - 1] < p /\ p <= st[i] /\ p - st[i - 1] \in 1 .. Len(e[i]) + 1
                            /\ (p = st[i] <=> p - st[i - 1] = Len(e[i]) + 1)
    BY LaidCovers DEF n
  <2>2. Held(h, e, st, i) /\ Held(g, e, st, i)
    BY <1>1, <1>6
  <2>3. CASE p = st[i]
    BY <2>2, <2>3 DEF Held
  <2>4. CASE p # st[i]
    <3> DEFINE j == p - st[i - 1]
               l == Len(e[i])
               a == st[i - 1]
    <3>1. j # l + 1 /\ j \in 1 .. l + 1
      BY <2>1, <2>4
    <3>2. l \in Nat /\ a \in Nat
      <4>1. l \in Nat
        BY <1>0, EntryIs DEF n
      <4>2. i - 1 \in 0 .. n
        BY <1>0
      <4> QED
        BY <1>0, <4>1, <4>2
    <3>3. j \in 1 .. l
      <4> HIDE DEF j, l
      <4> QED
        BY <3>1, <3>2
    <3>4. p = a + j
      BY <1>7, <3>2
    <3>5. h[a + j] = e[i][j] /\ g[a + j] = e[i][j]
      <4> HIDE DEF j
      <4> QED
        BY <2>2, <3>3 DEF Held
    <3> HIDE DEF j, a
    <3> QED
      BY <3>4, <3>5
  <2> QED
    BY <2>3, <2>4
<1>9. h = [p \in 1 .. Len(h) |-> h[p]] /\ g = [p \in 1 .. Len(h) |-> g[p]]
  BY <1>0, <1>7
<1> QED
  BY <1>6, <1>8, <1>9

LEMMA ClosedIs ==
  ASSUME NEW u \in Seq(Marked), NEW x \in Marked
  PROVE  /\ u \o <<x>> \in Seq(Marked) /\ Len(u \o <<x>>) = Len(u) + 1 /\ (u \o <<x>>)[Len(u) + 1] = x
         /\ \A p \in 1 .. Len(u) : (u \o <<x>>)[p] = u[p]
OBVIOUS

\* Another entry after them.
After(st, n, m) == [i \in 0 .. n + 1 |-> IF i = n + 1 THEN st[n] + m + 1 ELSE st[i]]
LEMMA LaidAppend ==
  ASSUME NEW h, NEW e, NEW st, Laid(h, e, st), NEW t \in Entry
  PROVE  Laid(h \o t \o <<"0">>, Append(e, t), After(st, Len(e), Len(t)))
<1> DEFINE n == Len(e)
           l == Len(h)
           m == Len(t)
           g == h \o t \o <<"0">>
           f == Append(e, t)
           ss == After(st, n, m)
<1>0. /\ n \in Nat /\ st \in [0 .. n -> Nat] /\ st[0] = 0 /\ st[n] = l /\ h \in Seq(Marked) /\ e \in Seq(Entry)
      /\ l \in Nat
  BY DEF Laid
<1>1. t \in Seq(Printable) /\ m \in Nat /\ t \in Seq(Marked)
  BY DEF Entry, Marked
<1>2. /\ g \in Seq(Marked) /\ Len(g) = l + m + 1 /\ g[l + m + 1] = "0"
      /\ \A p \in 1 .. l : g[p] = h[p]
      /\ \A j \in 1 .. m : g[l + j] = t[j]
  <2> DEFINE u == h \o t
  <2>1. u \in Seq(Marked) /\ Len(u) = l + m /\ (\A p \in 1 .. l : u[p] = h[p]) /\ \A j \in 1 .. m : u[l + j] = t[j]
    BY <1>0, <1>1
  <2>2. "0" \in Marked /\ <<"0">> \in Seq(Marked)
    BY DEF Marked
  <2>3. g = u \o <<"0">>
    OBVIOUS
  <2> HIDE DEF u, l, m
  <2>4. u \o <<"0">> \in Seq(Marked) /\ Len(u \o <<"0">>) = l + m + 1
    BY <2>1, <2>2, ClosedIs
  <2>5. \A p \in 1 .. l + m : (u \o <<"0">>)[p] = u[p]
    BY <2>1, <2>2, ClosedIs
  <2>6. (u \o <<"0">>)[l + m + 1] = "0"
    <3>1. (u \o <<"0">>)[Len(u) + 1] = "0"
      BY <2>1, <2>2, ClosedIs
    <3> QED
      BY <2>1, <3>1
  <2>7. \A p \in 1 .. l : p \in 1 .. l + m
    BY <1>0, <1>1 DEF l, m
  <2>8. \A j \in 1 .. m : l + j \in 1 .. l + m
    BY <1>0, <1>1 DEF l, m
  <2> HIDE DEF g
  <2> QED
    BY <2>1, <2>3, <2>4, <2>5, <2>6, <2>7, <2>8
<1>3. f \in Seq(Entry) /\ Len(f) = n + 1 /\ f[n + 1] = t /\ \A i \in 1 .. n : f[i] = e[i]
  BY <1>0
<1>4. ss \in [0 .. n + 1 -> Nat] /\ ss[n + 1] = l + m + 1 /\ \A i \in 0 .. n : ss[i] = st[i]
  <2>1. ss = [i \in 0 .. n + 1 |-> IF i = n + 1 THEN st[n] + m + 1 ELSE st[i]]
    BY DEF After
  <2> HIDE DEF ss, n, m, l
  <2>2. \A i \in 0 .. n + 1 : i # n + 1 => i \in 0 .. n
    BY <1>0
  <2>3. \A i \in 0 .. n : i \in 0 .. n + 1 /\ i # n + 1
    BY <1>0
  <2>4. n + 1 \in 0 .. n + 1 /\ l + m + 1 \in Nat
    BY <1>0, <1>1
  <2> QED
    BY <1>0, <2>1, <2>2, <2>3, <2>4
<1>5. \A i \in 1 .. n : Held(h, e, st, i)
  BY DEF Laid
<1>6. \A i \in 0 .. n : st[i] \in 0 .. l
  BY LaidGrows
<1> HIDE DEF n, l, m, f, g, ss
<1>7. ASSUME NEW i \in 1 .. n + 1 PROVE Held(g, f, ss, i)
  <2>1. CASE i = n + 1
    <3>1. ss[i] = l + m + 1 /\ ss[i - 1] = l /\ f[i] = t /\ i - 1 = n
      BY <1>0, <1>3, <1>4, <2>1
    <3>2. ss[i] = ss[i - 1] + Len(f[i]) + 1
      BY <3>1 DEF m
    <3>3. g[ss[i]] = "0"
      BY <1>2, <3>1
    <3>4. \A j \in 1 .. Len(f[i]) : g[ss[i - 1] + j] = f[i][j]
      BY <1>2, <3>1 DEF m
    <3> QED
      BY <3>2, <3>3, <3>4 DEF Held
  <2>2. CASE i # n + 1
    <3>1. i \in 1 .. n /\ i \in 0 .. n /\ i - 1 \in 0 .. n
      BY <1>0, <2>2
    <3>2. ss[i] = st[i] /\ ss[i - 1] = st[i - 1] /\ f[i] = e[i]
      BY <1>3, <1>4, <3>1
    <3>3. st[i] = st[i - 1] + Len(e[i]) + 1 /\ h[st[i]] = "0" /\ \A j \in 1 .. Len(e[i]) : h[st[i - 1] + j] = e[i][j]
      BY <1>5, <3>1 DEF Held
    <3>4. Len(e[i]) \in Nat /\ st[i] \in 0 .. l /\ st[i - 1] \in Nat
      BY <1>0, <1>6, <3>1, EntryIs DEF n
    <3>5. st[i] \in 1 .. l
      BY <3>3, <3>4
    <3>6. \A j \in 1 .. Len(e[i]) : st[i - 1] + j \in 1 .. l
      <4> DEFINE a == st[i - 1]
                 b == st[i]
                 k == Len(e[i])
      <4>1. a \in Nat /\ k \in Nat /\ l \in Nat /\ b \in 0 .. l /\ b = a + k + 1
        BY <1>0, <3>3, <3>4
      <4> HIDE DEF a, b, k
      <4>2. \A j \in 1 .. k : a + j \in 1 .. l
        BY <4>1
      <4> QED
        BY <4>2 DEF a, k
    <3>7. g[st[i]] = "0"
      BY <1>2, <3>3, <3>5
    <3>8. \A j \in 1 .. Len(e[i]) : g[st[i - 1] + j] = e[i][j]
      BY <1>2, <3>3, <3>6
    <3> QED
      BY <3>2, <3>3, <3>7, <3>8 DEF Held
  <2> QED
    BY <2>1, <2>2
<1>8. ss[0] = 0 /\ ss[Len(f)] = Len(g) /\ ss \in [0 .. Len(f) -> Nat]
  BY <1>0, <1>2, <1>3, <1>4
<1>9. Laid(g, f, ss)
  BY <1>2, <1>3, <1>7, <1>8 DEF Laid
<1> QED
  BY <1>9 DEF g, f, ss, n, m

\* The oldest entries dropped.
Rest(st, n, a) == [i \in 0 .. n - a |-> st[a + i] - st[a]]
LEMMA LaidRest ==
  ASSUME NEW h, NEW e, NEW st, Laid(h, e, st), NEW a \in 0 .. Len(e)
  PROVE  Laid(SubSeq(h, st[a] + 1, Len(h)), SubSeq(e, a + 1, Len(e)), Rest(st, Len(e), a))
<1> DEFINE n == Len(e)
           l == Len(h)
           b == st[a]
           g == SubSeq(h, b + 1, l)
           f == SubSeq(e, a + 1, n)
           ss == Rest(st, n, a)
<1>0. /\ n \in Nat /\ st \in [0 .. n -> Nat] /\ st[0] = 0 /\ st[n] = l /\ h \in Seq(Marked) /\ e \in Seq(Entry)
      /\ l \in Nat /\ a \in 0 .. n /\ a \in Nat
  BY DEF Laid
<1>1. /\ \A i \in 0 .. n : st[i] \in 0 .. l
      /\ \A k \in 0 .. n : \A i \in 0 .. n : i < k => st[i] < st[k]
  BY LaidGrows
<1>2. b \in 0 .. l /\ b \in Nat
  BY <1>0, <1>1
<1>3. ss = [i \in 0 .. n - a |-> st[a + i] - b]
  BY DEF Rest
<1>4. \A i \in 1 .. n : Held(h, e, st, i)
  BY DEF Laid
<1> HIDE DEF n, l, b, ss
<1>5. g \in Seq(Marked) /\ Len(g) = l - b /\ \A p \in 1 .. l - b : g[p] = h[b + p]
  <2>1. b + 1 \in 1 .. l + 1 /\ l \in 0 .. l
    BY <1>0, <1>2
  <2>2. g \in Seq(Marked) /\ Len(g) = l - b
    BY <1>0, <1>2, <2>1, SubSeqProperties DEF l
  <2>3. \A p \in 1 .. l - b : g[p] = h[b + p]
    BY <1>0, <1>2, <2>1, <2>2, SubSeqProperties DEF l
  <2> QED
    BY <2>2, <2>3
<1>6. f \in Seq(Entry) /\ Len(f) = n - a /\ \A i \in 1 .. n - a : f[i] = e[a + i]
  <2>1. a + 1 \in 1 .. n + 1 /\ n \in 0 .. n
    BY <1>0
  <2>2. f \in Seq(Entry) /\ Len(f) = n - a
    BY <1>0, <2>1, SubSeqProperties DEF n
  <2>3. \A i \in 1 .. n - a : f[i] = e[a + i]
    BY <1>0, <2>1, <2>2, SubSeqProperties DEF n
  <2> QED
    BY <2>2, <2>3
<1>7. ASSUME NEW i \in 0 .. n - a PROVE st[a + i] - b \in Nat /\ ss[i] = st[a + i] - b /\ a + i \in 0 .. n
  <2>1. a + i \in 0 .. n /\ (a = a + i \/ a < a + i)
    BY <1>0
  <2>2. b = st[a + i] \/ b < st[a + i]
    BY <1>0, <1>1, <2>1 DEF b
  <2>3. st[a + i] \in Nat
    BY <1>0, <2>1
  <2> QED
    BY <1>2, <1>3, <2>1, <2>2, <2>3
<1>8. ss \in [0 .. n - a -> Nat]
  BY <1>3, <1>7
<1> HIDE DEF g, f
<1>9. ss[0] = 0 /\ ss[Len(f)] = Len(g)
  <2>1. 0 \in 0 .. n - a /\ n - a \in 0 .. n - a /\ a + (n - a) = n /\ a + 0 = a
    BY <1>0
  <2>2. ss[0] = st[a] - b /\ ss[n - a] = st[n] - b
    BY <1>7, <2>1
  <2> QED
    BY <1>0, <1>2, <1>5, <1>6, <2>2 DEF b
<1>10. ASSUME NEW i \in 1 .. n - a PROVE Held(g, f, ss, i)
  <2> DEFINE k == a + i
             c == st[k]
             d == st[k - 1]
             t == e[k]
  <2>1. k \in 1 .. n /\ k - 1 \in 0 .. n /\ i \in 0 .. n - a /\ i - 1 \in 0 .. n - a /\ k - 1 = a + (i - 1)
    BY <1>0
  <2>2. c = d + Len(t) + 1 /\ h[c] = "0" /\ \A j \in 1 .. Len(t) : h[d + j] = t[j]
    BY <1>4, <2>1 DEF Held
  <2>3. c \in 0 .. l /\ d \in 0 .. l /\ Len(t) \in Nat
    <3>1. c \in 0 .. l /\ d \in 0 .. l
      BY <1>1, <2>1
    <3>2. Len(t) \in Nat
      <4> HIDE DEF k
      <4> QED
        BY <1>0, <2>1, EntryIs DEF n
    <3> QED
      BY <3>1, <3>2
  <2>4. ss[i] = c - b /\ ss[i - 1] = d - b /\ d - b \in Nat
    BY <1>7, <2>1
  <2>5. f[i] = t
    BY <1>6
  <2> HIDE DEF c, d, t, k
  <2>6. ss[i] = ss[i - 1] + Len(f[i]) + 1
    BY <1>2, <2>2, <2>3, <2>4, <2>5
  <2>7. c - b \in 1 .. l - b /\ b + (c - b) = c
    BY <1>0, <1>2, <2>2, <2>3, <2>4
  <2>8. g[ss[i]] = "0"
    BY <1>5, <2>2, <2>4, <2>7
  <2>9. ASSUME NEW j \in 1 .. Len(t) PROVE g[ss[i - 1] + j] = t[j]
    <3>1. d - b + j \in 1 .. l - b /\ b + (d - b + j) = d + j
      BY <1>0, <1>2, <2>2, <2>3, <2>4
    <3> DEFINE p == d - b + j
    <3>2. ss[i - 1] + j = p
      BY <2>4
    <3>3. p \in 1 .. l - b /\ b + p = d + j
      BY <3>1
    <3> HIDE DEF p
    <3>4. g[p] = h[d + j]
      BY <1>5, <3>3
    <3> QED
      BY <2>2, <3>2, <3>4
  <2> QED
    BY <2>5, <2>6, <2>8, <2>9 DEF Held
<1>11. Laid(g, f, ss)
  BY <1>5, <1>6, <1>8, <1>9, <1>10 DEF Laid
<1> QED
  BY <1>11 DEF g, f, ss, n, b, l

\* Packed() folds a recursive function of the library.
FlattenStep(f, s) == [i \in 1 .. Len(s) |-> IF i = 1 THEN s[i] ELSE f[i - 1] \o s[i]]

LEMMA FlattenExists ==
  ASSUME NEW s, Len(s) \in Nat
  PROVE  \E f : f = FlattenStep(f, s)
<1> DEFINE N == Len(s)
           Row(f, i) == IF i = 1 THEN s[i] ELSE f[i - 1] \o s[i]
           Upto(n) == \E f : f = [i \in 1 .. n |-> Row(f, i)]
           P == {n \in 0 .. N : Upto(n)}
<1>0. N \in Nat
  OBVIOUS
<1> HIDE DEF N
<1>1. 0 \in P
  <2> DEFINE f == [i \in 1 .. 0 |-> s[i]]
  <2>1. f = [i \in 1 .. 0 |-> Row(f, i)]
    OBVIOUS
  <2>2. Upto(0)
    BY <2>1
  <2> HIDE DEF f, Upto
  <2> QED
    BY <1>0, <2>2
<1>2. ASSUME NEW n \in 1 .. N, n - 1 \in P PROVE n \in P
  <2>1. PICK g : g = [i \in 1 .. n - 1 |-> Row(g, i)]
    BY <1>2
  <2> DEFINE f == [i \in 1 .. n |-> IF i = n THEN Row(g, n) ELSE g[i]]
  <2>2. \A i \in 1 .. n - 1 : f[i] = g[i]
    BY <1>0
  <2>3. \A i \in 1 .. n : i # 1 => f[i - 1] = g[i - 1]
    <3>1. \A i \in 1 .. n : i # 1 => i - 1 \in 1 .. n - 1
      BY <1>0
    <3> HIDE DEF f
    <3> QED
      BY <2>2, <3>1
  <2>4. ASSUME NEW i \in 1 .. n PROVE Row(f, i) = Row(g, i)
    <3>1. CASE i = 1
      BY <3>1
    <3>2. CASE i # 1
      <4> HIDE DEF f
      <4> QED
        BY <2>3, <3>2
    <3> QED
      BY <3>1, <3>2
  <2>5. \A i \in 1 .. n : f[i] = Row(g, i)
    <3> HIDE DEF Row
    <3>1. \A i \in 1 .. n - 1 : g[i] = Row(g, i)
      BY <2>1
    <3>2. ASSUME NEW i \in 1 .. n PROVE f[i] = Row(g, i)
      <4>1. CASE i = n
        BY <4>1
      <4>2. CASE i # n
        <5>1. i \in 1 .. n - 1
          BY <1>0, <4>2
        <5> QED
          BY <3>1, <4>2, <5>1
      <4> QED
        BY <4>1, <4>2
    <3> QED
      BY <3>2
  <2>6. f = [i \in 1 .. n |-> Row(f, i)]
    <3>1. f = [i \in 1 .. n |-> f[i]]
      OBVIOUS
    <3> HIDE DEF f, Row
    <3>2. \A i \in 1 .. n : f[i] = Row(f, i)
      BY <2>4, <2>5
    <3> QED
      BY <3>1, <3>2
  <2> HIDE DEF f, Row
  <2>7. n \in 0 .. N
    BY <1>0
  <2> QED
    BY <2>6, <2>7
<1>3. N \in P
  <2> HIDE DEF P
  <2>1. \A n \in 1 .. N : n - 1 \in P => n \in P
    BY <1>2
  <2>2. 0 .. N \subseteq P
    BY <1>0, <1>1, <2>1, NumbersUpTo
  <2> QED
    BY <1>0, <2>2
<1>4. Upto(N)
  <2> HIDE DEF Upto
  <2> QED
    BY <1>3
<1> QED
  BY <1>4 DEF FlattenStep, N

LEMMA FlattenIs ==
  ASSUME NEW s, Len(s) \in Nat, Len(s) # 0
  PROVE  \E f : f = FlattenStep(f, s) /\ FlattenSeq(s) = f[Len(s)]
<1> DEFINE g == CHOOSE f : f = FlattenStep(f, s)
<1>1. FlattenSeq(s) = g[Len(s)]
  BY DEF FlattenSeq, FlattenStep
<1>2. g = FlattenStep(g, s)
  BY FlattenExists
<1> HIDE DEF g
<1> QED
  BY <1>1, <1>2

LEMMA NothingLaid ==
  /\ Packed(<<>>) = <<>>
  /\ Laid(<<>>, <<>>, [i \in 0 .. 0 |-> 0])
<1>1. Packed(<<>>) = <<>>
  BY DEF Packed, FlattenSeq
<1> DEFINE n == <<>>
           st == [i \in 0 .. 0 |-> 0]
<1>2. n \in Seq(Entry) /\ n \in Seq(Marked) /\ Len(n) = 0
  OBVIOUS
<1>3. st \in [0 .. 0 -> Nat] /\ st[0] = 0
  OBVIOUS
<1> HIDE DEF n, st
<1>4. Laid(n, n, st)
  BY <1>2, <1>3 DEF Laid
<1> QED
  BY <1>1, <1>4 DEF n, st

LEMMA PackedLaid ==
  ASSUME NEW e \in Seq(Entry)
  PROVE  \E st : Laid(Packed(e), e, st)
<1> DEFINE n == Len(e)
           s == [i \in DOMAIN e |-> e[i] \o <<"0">>]
<1>0. n \in Nat
  OBVIOUS
<1>1. CASE n = 0
  <2>1. e = <<>>
    BY <1>1
  <2> QED
    BY <2>1, NothingLaid
<1>2. CASE n # 0
  <2>1. Len(s) = n /\ \A i \in 1 .. n : s[i] = e[i] \o <<"0">>
    <3>1. DOMAIN e = 1 .. n
      OBVIOUS
    <3>2. s = [i \in 1 .. n |-> e[i] \o <<"0">>]
      BY <3>1
    <3> HIDE DEF n, s
    <3> QED
      BY <1>0, <3>2
  <2>2. Packed(e) = FlattenSeq(s)
    BY DEF Packed
  <2> HIDE DEF s
  <2>3. PICK f : f = FlattenStep(f, s) /\ FlattenSeq(s) = f[n]
    BY <1>0, <1>2, <2>1, FlattenIs
  <2>4. \A i \in 1 .. n : f[i] = IF i = 1 THEN s[i] ELSE f[i - 1] \o s[i]
    BY <2>1, <2>3 DEF FlattenStep
  <2> DEFINE W(k) == IF k = 0 THEN <<>> ELSE f[k]
             P == {k \in 0 .. n : \E st : Laid(W(k), SubSeq(e, 1, k), st)}
  <2>5. 0 \in P
    <3>1. SubSeq(e, 1, 0) = <<>> /\ W(0) = <<>>
      OBVIOUS
    <3>2. 0 \in 0 .. n
      BY <1>0
    <3> HIDE DEF W
    <3>3. \E st : Laid(W(0), SubSeq(e, 1, 0), st)
      BY <3>1, NothingLaid
    <3> QED
      BY <3>2, <3>3
  <2>6. ASSUME NEW k \in 1 .. n, k - 1 \in P PROVE k \in P
    <3> DEFINE h == W(k - 1)
               b == SubSeq(e, 1, k - 1)
               t == e[k]
    <3>1. PICK st : Laid(h, b, st)
      BY <2>6
    <3>2. t \in Entry /\ t \in Seq(Marked) /\ <<"0">> \in Seq(Marked)
      <4>1. t \in Entry
        BY EntryIs DEF n
      <4>2. "0" \in Marked /\ Printable \subseteq Marked
        BY DEF Marked
      <4> HIDE DEF t
      <4>3. t \in Seq(Printable)
        BY <4>1 DEF Entry
      <4> QED
        BY <4>1, <4>2, <4>3
    <3>3. h \in Seq(Marked)
      BY <3>1 DEF Laid
    <3>4. W(k) = h \o (t \o <<"0">>)
      <4>1. k # 0 /\ s[k] = t \o <<"0">>
        BY <1>0, <2>1
      <4>2. CASE k = 1
        <5>1. W(k) = s[k] /\ h = <<>>
          BY <1>0, <2>4, <4>2
        <5>2. t \o <<"0">> \in Seq(Marked)
          BY <3>2
        <5> HIDE DEF t, h, W
        <5>3. <<>> \o (t \o <<"0">>) = t \o <<"0">>
          BY <5>2, ConcatEmptySeq
        <5> QED
          BY <4>1, <5>1, <5>3
      <4>3. CASE k # 1
        <5>1. k - 1 # 0
          BY <1>0, <4>3
        <5>2. h = f[k - 1] /\ W(k) = f[k]
          BY <4>1, <5>1
        <5>3. f[k] = f[k - 1] \o s[k]
          BY <2>4, <4>3
        <5> HIDE DEF h, W, t
        <5> QED
          BY <4>1, <5>2, <5>3
      <4> QED
        BY <4>2, <4>3
    <3>5. SubSeq(e, 1, k) = Append(b, t)
      <4>1. 1 \in 1 .. n /\ k \in 1 .. n
        BY <1>0
      <4>2. SubSeq(e, 1, k) = b \o <<t>>
        BY <1>0, <4>1, SubSeqRecursiveSecond
      <4>3. b \in Seq(Entry)
        BY <3>1 DEF Laid
      <4>4. b \o <<t>> = Append(b, t)
        <5> HIDE DEF b, t
        <5> QED
          BY <3>2, <4>3
      <4> QED
        BY <4>2, <4>4
    <3> HIDE DEF h, b, t, W
    <3>6. Laid(h \o t \o <<"0">>, Append(b, t), After(st, Len(b), Len(t)))
      BY <3>1, <3>2, LaidAppend
    <3>7. h \o t \o <<"0">> = h \o (t \o <<"0">>)
      BY <3>2, <3>3, ConcatAssociative
    <3>8. Laid(W(k), SubSeq(e, 1, k), After(st, Len(b), Len(t)))
      BY <3>4, <3>5, <3>6, <3>7
    <3> QED
      BY <3>8
  <2>7. 0 .. n \subseteq P
    <3> HIDE DEF P
    <3>1. \A k \in 1 .. n : k - 1 \in P => k \in P
      BY <2>6
    <3> QED
      BY <1>0, <2>5, <3>1, NumbersUpTo
  <2>8. \E st : Laid(W(n), SubSeq(e, 1, n), st)
    <3>1. n \in 0 .. n
      BY <1>0
    <3> HIDE DEF W
    <3> QED
      BY <2>7, <3>1
  <2>9. SubSeq(e, 1, n) = e
    BY SubSeqFull
  <2>10. W(n) = FlattenSeq(s)
    BY <1>2, <2>3
  <2> HIDE DEF W, n
  <2> QED
    BY <2>2, <2>8, <2>9, <2>10
<1> QED
  BY <1>1, <1>2

LEMMA PackedIs ==
  ASSUME NEW h, NEW e, NEW st, Laid(h, e, st)
  PROVE  Packed(e) = h
<1>1. e \in Seq(Entry)
  BY DEF Laid
<1>2. PICK tt : Laid(Packed(e), e, tt)
  BY <1>1, PackedLaid
<1> QED
  BY <1>2, LaidSame

\* The terminators tell the entries apart: where an entry ends, and where
\* the entries begin.
LEMMA MarksAre ==
  ASSUME NEW h, NEW e, NEW st, Laid(h, e, st), NEW p \in 1 .. Len(h)
  PROVE  h[p] = "0" <=> \E i \in 1 .. Len(e) : p = st[i]
<1>1. \A i \in 1 .. Len(e) : h[st[i]] = "0"
  BY DEF Laid, Held
<1>2. ASSUME \A i \in 1 .. Len(e) : p # st[i] PROVE h[p] # "0"
  <2>1. PICK i \in 1 .. Len(e) : /\ st[i - 1] < p /\ p <= st[i] /\ p - st[i - 1] \in 1 .. Len(e[i]) + 1
                                 /\ (p = st[i] <=> p - st[i - 1] = Len(e[i]) + 1)
    BY LaidCovers
  <2>2. e \in Seq(Entry) /\ st \in [0 .. Len(e) -> Nat] /\ Len(e) \in Nat /\ h \in Seq(Marked)
    BY DEF Laid
  <2> DEFINE t == e[i]
             a == st[i - 1]
             j == p - a
  <2>3. t \in Seq(Printable) /\ Len(t) \in Nat
    BY <2>2, EntryIs
  <2>4. a \in Nat /\ p \in Nat
    <3>1. i - 1 \in 0 .. Len(e)
      BY <2>2
    <3>2. Len(h) \in Nat
      BY <2>2
    <3> QED
      BY <2>2, <3>1, <3>2
  <2>5. j \in 1 .. Len(t) + 1 /\ j # Len(t) + 1
    BY <1>2, <2>1
  <2>6. \A k \in 1 .. Len(t) : h[a + k] = t[k]
    BY DEF Laid, Held
  <2>7. p = a + j
    BY <2>4
  <2> HIDE DEF t, a, j
  <2>8. j \in 1 .. Len(t)
    BY <2>3, <2>5
  <2>9. h[p] = t[j] /\ t[j] \in Printable
    BY <2>3, <2>6, <2>7, <2>8
  <2> QED
    BY <2>9, EditorAssumption
<1> QED
  BY <1>1, <1>2

LEMMA EntryFound ==
  ASSUME NEW h, NEW e, NEW st, Laid(h, e, st), NEW i \in 1 .. Len(e)
  PROVE  NextOff(h, st[i - 1]) = st[i] /\ EntryAt(h, st[i - 1]) = e[i]
<1> DEFINE a == st[i - 1]
           b == st[i]
           t == e[i]
           S == {p \in a + 1 .. Len(h) : h[p] = "0"}
<1>0. /\ e \in Seq(Entry) /\ st \in [0 .. Len(e) -> Nat] /\ Len(e) \in Nat /\ h \in Seq(Marked)
      /\ Len(h) \in Nat /\ i - 1 \in 0 .. Len(e) /\ i \in 0 .. Len(e)
  BY DEF Laid
<1>1. t \in Seq(Printable) /\ Len(t) \in Nat /\ a \in 0 .. Len(h) /\ b \in 0 .. Len(h)
  BY <1>0, EntryIs, LaidGrows
<1>2. b = a + Len(t) + 1 /\ h[b] = "0" /\ \A j \in 1 .. Len(t) : h[a + j] = t[j]
  BY DEF Laid, Held
<1>3. S \subseteq Nat /\ b \in S
  <2> HIDE DEF a, b, t
  <2> QED
    BY <1>0, <1>1, <1>2
<1>4. ASSUME NEW p \in S PROVE b <= p
  <2> DEFINE j == p - a
  <2>1. p \in a + 1 .. Len(h) /\ h[p] = "0"
    OBVIOUS
  <2> HIDE DEF S, a, b, t
  <2>2. p \in Nat /\ j \in Nat /\ j >= 1 /\ p = a + j
    BY <1>0, <1>1, <2>1
  <2> HIDE DEF j
  <2>3. CASE j <= Len(t)
    <3>1. j \in 1 .. Len(t)
      BY <1>1, <2>2, <2>3
    <3>2. h[p] = t[j] /\ t[j] \in Printable
      BY <1>1, <1>2, <2>2, <3>1
    <3> QED
      BY <2>1, <3>2, EditorAssumption
  <2>4. CASE j > Len(t)
    BY <1>1, <1>2, <2>2, <2>4
  <2> QED
    BY <1>1, <2>2, <2>3, <2>4
<1>5. Min(S) = b
  <2> HIDE DEF S, b
  <2> QED
    BY <1>3, <1>4, MinTold
<1>6. NextOff(h, a) = b
  BY <1>5 DEF NextOff
<1>7. SubSeq(h, a + 1, b - 1) = t
  <2> HIDE DEF a, b, t, S
  <2> DEFINE u == SubSeq(h, a + 1, b - 1)
  <2>1. b - 1 = a + Len(t) /\ a + 1 \in Int /\ b - 1 \in Int /\ a \in Nat
    BY <1>1, <1>2
  <2>2. \A p \in a + 1 .. b - 1 : h[p] \in Marked
    BY <1>0, <1>1, <1>2
  <2>3. u \in Seq(Marked) /\ Len(u) = (IF a + 1 <= b - 1 THEN (b - 1) - (a + 1) + 1 ELSE 0)
        /\ \A j \in 1 .. (b - 1) - (a + 1) + 1 : u[j] = h[a + 1 + j - 1]
    BY <2>1, <2>2, SubSeqProperties
  <2> HIDE DEF u
  <2>4. Len(u) = Len(t)
    BY <1>1, <2>1, <2>3
  <2>5. ASSUME NEW j \in 1 .. Len(t) PROVE u[j] = t[j]
    <3>1. (b - 1) - (a + 1) + 1 = Len(t) /\ a + 1 + j - 1 = a + j
      BY <1>1, <2>1
    <3>2. u[j] = h[a + j]
      BY <2>3, <3>1
    <3> QED
      BY <1>2, <3>2
  <2>6. u = [j \in 1 .. Len(t) |-> u[j]] /\ t = [j \in 1 .. Len(t) |-> t[j]]
    BY <1>1, <2>3, <2>4
  <2>7. u = t
    BY <2>5, <2>6
  <2> QED
    BY <2>7 DEF u
<1>8. EntryAt(h, a) = t
  <2> HIDE DEF b, t
  <2> QED
    BY <1>6, <1>7 DEF EntryAt
<1> QED
  BY <1>6, <1>8

LEMMA OffsetsAre ==
  ASSUME NEW h, NEW e, NEW st, Laid(h, e, st)
  PROVE  /\ \A o \in Offsets(h) : \E k \in 0 .. Len(e) - 1 : o = st[k]
         /\ \A k \in 0 .. Len(e) - 1 : st[k] \in Offsets(h)
         /\ Offsets(h) \subseteq 0 .. Len(h) /\ (h = <<>> <=> e = <<>>)
<1> DEFINE n == Len(e)
           l == Len(h)
<1>0. /\ n \in Nat /\ st \in [0 .. n -> Nat] /\ st[0] = 0 /\ st[n] = l /\ h \in Seq(Marked) /\ e \in Seq(Entry)
      /\ l \in Nat
  BY DEF Laid
<1>1. /\ \A i \in 0 .. n : st[i] \in 0 .. l
      /\ \A k \in 0 .. n : \A i \in 0 .. n : i < k => st[i] < st[k]
  BY LaidGrows
<1>2. \A i \in 1 .. n : h[st[i]] = "0"
  BY DEF Laid, Held
<1>3. \A p \in 1 .. l : h[p] = "0" => \E i \in 1 .. n : p = st[i]
  BY MarksAre
<1>4. Offsets(h) = {i \in 0 .. l - 1 : i = 0 \/ h[i] = "0"}
  BY DEF Offsets
<1>5. h = <<>> <=> e = <<>>
  <2>1. h = <<>> <=> l = 0
    BY <1>0
  <2>2. e = <<>> <=> n = 0
    BY <1>0
  <2> HIDE DEF n, l
  <2>3. l = 0 <=> n = 0
    <3>1. n # 0 => 0 < n /\ 0 \in 0 .. n /\ n \in 0 .. n
      BY <1>0
    <3>2. n # 0 => st[0] < st[n]
      BY <1>1, <3>1
    <3> QED
      BY <1>0, <3>2
  <2> QED
    BY <2>1, <2>2, <2>3
<1> HIDE DEF n, l
<1>6. ASSUME NEW o \in Offsets(h) PROVE \E k \in 0 .. n - 1 : o = st[k]
  <2>1. o \in 0 .. l - 1 /\ (o = 0 \/ h[o] = "0")
    BY <1>4
  <2>2. CASE o = 0
    <3>1. n # 0
      BY <1>0, <2>1
    <3>2. 0 \in 0 .. n - 1
      BY <1>0, <3>1
    <3> QED
      BY <1>0, <2>2, <3>2
  <2>3. CASE o # 0
    <3>1. o \in 1 .. l /\ h[o] = "0" /\ o # l
      BY <1>0, <2>1, <2>3
    <3>2. PICK i \in 1 .. n : o = st[i]
      BY <1>3, <3>1
    <3>3. i # n
      BY <1>0, <3>1, <3>2
    <3>4. i \in 0 .. n - 1
      BY <1>0, <3>3
    <3> QED
      BY <3>2, <3>4
  <2> QED
    BY <2>2, <2>3
<1>7. ASSUME NEW k \in 0 .. n - 1 PROVE st[k] \in Offsets(h)
  <2>1. k \in 0 .. n /\ n \in 0 .. n /\ k < n
    BY <1>0
  <2>2. st[k] < l /\ st[k] \in 0 .. l
    BY <1>0, <1>1, <2>1
  <2>3. st[k] \in 0 .. l - 1
    BY <1>0, <2>2
  <2>4. CASE k = 0
    BY <1>0, <1>4, <2>3, <2>4
  <2>5. CASE k # 0
    <3>1. k \in 1 .. n
      BY <2>1, <2>5
    <3> QED
      BY <1>2, <1>4, <2>3, <3>1
  <2> QED
    BY <2>4, <2>5
<1>8. Offsets(h) \subseteq 0 .. l
  BY <1>0, <1>4
<1> QED
  BY <1>5, <1>6, <1>7, <1>8 DEF n, l

LEMMA NewestIs ==
  ASSUME NEW h, NEW e, NEW st, Laid(h, e, st), e # <<>>
  PROVE  /\ Max(Offsets(h)) = st[Len(e) - 1] /\ EntryAt(h, Max(Offsets(h))) = Last(e)
         /\ Len(e) \in Nat /\ Len(e) >= 1
<1> DEFINE n == Len(e)
           S == Offsets(h)
<1>0. /\ n \in Nat /\ n >= 1 /\ st \in [0 .. n -> Nat] /\ h \in Seq(Marked) /\ Len(h) \in Nat
  BY DEF Laid
<1>1. /\ \A o \in S : \E k \in 0 .. n - 1 : o = st[k]
      /\ \A k \in 0 .. n - 1 : st[k] \in S
      /\ S \subseteq 0 .. Len(h)
  BY OffsetsAre
<1>2. \A k \in 0 .. n : \A i \in 0 .. n : i < k => st[i] < st[k]
  BY LaidGrows
<1>3. EntryAt(h, st[n - 1]) = e[n]
  BY <1>0, EntryFound
<1> HIDE DEF n, S
<1>4. n - 1 \in 0 .. n - 1 /\ n - 1 \in 0 .. n
  BY <1>0
<1>5. st[n - 1] \in S
  BY <1>1, <1>4
<1>6. ASSUME NEW o \in S PROVE st[n - 1] >= o
  <2>1. PICK k \in 0 .. n - 1 : o = st[k]
    BY <1>1
  <2>2. k \in 0 .. n /\ (k = n - 1 \/ k < n - 1)
    BY <1>0
  <2>3. st[k] = st[n - 1] \/ st[k] < st[n - 1]
    BY <1>2, <1>4, <2>2
  <2>4. st[k] \in Nat /\ st[n - 1] \in Nat
    BY <1>0, <1>4, <2>2
  <2> QED
    BY <2>1, <2>3, <2>4
<1>7. Max(S) = st[n - 1]
  BY <1>0, <1>1, <1>5, <1>6, MaxTold
<1> QED
  BY <1>0, <1>3, <1>7 DEF n, S, Last
------------------------------------------------------------------------------
(* The inductive invariant, for the history: the ring holds the entries, and *)
(* the offset that the walk keeps is where the entry it shows begins.        *)

HistInv ==
    /\ navOn \in BOOLEAN /\ Len(hist) <= HistSize /\ (~ navOn => navAt = 0)
    /\ \E st : Laid(hist, entries, st) /\ (navOn => navAt \in 1 .. Len(entries) /\ nav = st[navAt - 1])

LEMMA HistSays ==
  ASSUME HistInv
  PROVE  Len(hist) \in 0 .. HistSize /\ HistoryFaithful
<1>1. PICK st : Laid(hist, entries, st) /\ (navOn => navAt \in 1 .. Len(entries) /\ nav = st[navAt - 1])
  BY DEF HistInv
<1>2. hist = Packed(entries)
  BY <1>1, PackedIs
<1>3. Len(hist) \in 0 .. HistSize
  <2>1. Len(hist) \in Nat /\ Len(hist) <= HistSize
    BY <1>1 DEF HistInv, Laid
  <2> QED
    BY <2>1, EditorSizes
<1>4. CASE navOn
  <2>1. navAt \in 1 .. Len(entries) /\ nav = st[navAt - 1]
    BY <1>1, <1>4
  <2>2. navAt > 0
    BY <2>1
  <2>3. EntryAt(hist, st[navAt - 1]) = entries[navAt]
    BY <1>1, <2>1, EntryFound
  <2>4. EntryAt(hist, nav) = entries[navAt]
    BY <2>1, <2>3
  <2> QED
    BY <1>2, <1>3, <1>4, <2>2, <2>4 DEF HistoryFaithful
<1>5. CASE ~ navOn
  <2>1. navAt = 0
    BY <1>5 DEF HistInv
  <2>2. ~ (navAt > 0)
    BY <2>1
  <2> QED
    BY <1>2, <1>3, <1>5, <2>2 DEF HistoryFaithful
<1> QED
  BY <1>4, <1>5

LEMMA RecallDraws ==
  ASSUME LineInv, RenderInv, NEW st, Laid(hist, entries, st), NEW i \in 1 .. Len(entries), Recall(st[i - 1])
  PROVE  Drawn(screen', line', cur', smeared) /\ navOn' = TRUE /\ nav' = st[i - 1]
<1> DEFINE o == st[i - 1]
           t == entries[i]
<1>1. EntryAt(hist, o) = t
  BY EntryFound
<1>2. t \in EdText /\ Len(t) \in Nat
  BY EntryIs DEF Laid
<1>3. Edits(EntryAt(hist, o), Len(EntryAt(hist, o))) /\ navOn' = TRUE /\ nav' = o
  BY DEF Recall
<1> HIDE DEF t
<1>4. Edits(t, Len(t))
  BY <1>1, <1>3
<1>5. Len(t) \in 0 .. Len(t)
  BY <1>2
<1>6. Drawn(screen', line', cur', smeared)
  BY <1>2, <1>4, <1>5, EditsDraw
<1> QED
  BY <1>3, <1>6

\* The arrow keys: to the entry before, to the one after, or to an empty line.
LEMMA PrevKeeps ==
  ASSUME LineInv, RenderInv, HistInv, HistoryPrev, hist' = hist, entries' = entries
  PROVE  Drawn(screen', line', cur', smeared) /\ HistInv'
<1> DEFINE n == Len(entries)
           S == {o \in Offsets(hist) : navOn => o < nav}
<1>0. PICK st : Laid(hist, entries, st) /\ (navOn => navAt \in 1 .. Len(entries) /\ nav = st[navAt - 1])
  BY DEF HistInv
<1>1. n \in Nat /\ st \in [0 .. n -> Nat] /\ st[0] = 0 /\ hist \in Seq(Marked) /\ Len(hist) \in Nat
  BY <1>0 DEF Laid
<1>2. navOn \in BOOLEAN /\ Len(hist) <= HistSize /\ (~ navOn => navAt = 0)
  BY DEF HistInv
<1>3. CASE hist = <<>> \/ (navOn /\ nav = 0)
  <2>1. Bel /\ navOn' = navOn /\ nav' = nav /\ navAt' = navAt
    BY <1>3 DEF HistoryPrev, navVars
  <2>2. Drawn(screen', line', cur', smeared)
    BY <2>1, BelDraws
  <2>3. HistInv'
    BY <1>0, <1>2, <2>1 DEF HistInv
  <2> QED
    BY <2>2, <2>3
<1>4. CASE ~ (hist = <<>> \/ (navOn /\ nav = 0))
  <2>1. Recall(Max(S)) /\ navAt' = IF navOn THEN navAt - 1 ELSE n
    BY <1>4 DEF HistoryPrev
  <2>2. entries # <<>>
    BY <1>0, <1>4, OffsetsAre
  <2>3. ASSUME NEW i \in 1 .. n, Max(S) = st[i - 1], navAt' = i
        PROVE  Drawn(screen', line', cur', smeared) /\ HistInv'
    <3>1. Recall(st[i - 1])
      <4> HIDE DEF S
      <4> QED
        BY <2>1, <2>3
    <3>2. Drawn(screen', line', cur', smeared) /\ navOn' = TRUE /\ nav' = st[i - 1]
      BY <1>0, <3>1, RecallDraws
    <3>3. Laid(hist', entries', st) /\ (navOn' => navAt' \in 1 .. Len(entries') /\ nav' = st[navAt' - 1])
      BY <1>0, <2>3, <3>2
    <3>4. HistInv'
      BY <1>2, <3>2, <3>3 DEF HistInv
    <3> QED
      BY <3>2, <3>4
  <2>4. CASE ~ navOn
    <3>1. Max(Offsets(hist)) = st[n - 1] /\ n \in Nat /\ n >= 1
      BY <1>0, <2>2, NewestIs
    <3>2. S = Offsets(hist)
      BY <2>4
    <3>3. navAt' = n /\ n \in 1 .. n
      BY <1>1, <2>1, <2>4, <3>1
    <3>4. Max(S) = st[n - 1]
      BY <3>1, <3>2
    <3> HIDE DEF S, n
    <3> QED
      BY <2>3, <3>3, <3>4
  <2>5. CASE navOn
    <3> DEFINE i == navAt - 1
    <3>1. navAt \in 1 .. n /\ nav = st[navAt - 1] /\ nav # 0
      BY <1>0, <1>4, <2>5
    <3>2. i \in 1 .. n /\ navAt' = i /\ i - 1 \in 0 .. n - 1 /\ i \in 0 .. n /\ i - 1 \in 0 .. n /\ i - 1 < i
      BY <1>1, <2>1, <2>5, <3>1
    <3>3. /\ \A o \in Offsets(hist) : \E k \in 0 .. n - 1 : o = st[k]
          /\ \A k \in 0 .. n - 1 : st[k] \in Offsets(hist)
          /\ Offsets(hist) \subseteq 0 .. Len(hist)
      BY <1>0, OffsetsAre
    <3>4. \A k \in 0 .. n : \A m \in 0 .. n : m < k => st[m] < st[k]
      BY <1>0, LaidGrows
    <3>5. nav = st[i]
      BY <3>1
    <3> HIDE DEF n, i
    <3>6. st[i - 1] \in S /\ S \subseteq 0 .. Len(hist)
      <4>1. st[i - 1] \in Offsets(hist) /\ st[i - 1] < nav
        BY <3>2, <3>3, <3>4, <3>5
      <4> QED
        BY <3>3, <4>1
    <3>7. ASSUME NEW o \in S PROVE st[i - 1] >= o
      <4>1. o \in Offsets(hist) /\ o < st[i]
        BY <2>5, <3>5
      <4>2. PICK k \in 0 .. n - 1 : o = st[k]
        BY <3>3, <4>1
      <4>3. k \in 0 .. n /\ (i < k \/ i = k \/ k = i - 1 \/ k < i - 1)
        BY <1>1, <3>2, <4>2 DEF n
      <4>4. st[k] \in Nat /\ st[i] \in Nat /\ st[i - 1] \in Nat
        BY <1>1, <3>2, <4>3
      <4>5. ~ (i < k)
        <5>1. i < k => st[i] < st[k]
          BY <3>2, <3>4, <4>3
        <5> QED
          BY <4>1, <4>2, <4>4, <5>1
      <4>6. i # k
        BY <4>1, <4>2, <4>4
      <4>7. k < i - 1 => st[k] < st[i - 1]
        BY <3>2, <3>4, <4>3
      <4>8. k = i - 1 => st[k] = st[i - 1]
        OBVIOUS
      <4> QED
        BY <4>2, <4>3, <4>4, <4>5, <4>6, <4>7, <4>8
    <3>8. Max(S) = st[i - 1]
      <4> HIDE DEF S
      <4> QED
        BY <1>1, <3>6, <3>7, MaxTold
    <3> HIDE DEF S
    <3> QED
      BY <2>3, <3>2, <3>8
  <2> QED
    BY <1>2, <2>4, <2>5
<1> QED
  BY <1>3, <1>4

LEMMA NextKeeps ==
  ASSUME LineInv, RenderInv, HistInv, HistoryNext, hist' = hist, entries' = entries
  PROVE  Drawn(screen', line', cur', smeared) /\ HistInv'
<1> DEFINE n == Len(entries)
<1>0. PICK st : Laid(hist, entries, st) /\ (navOn => navAt \in 1 .. Len(entries) /\ nav = st[navAt - 1])
  BY DEF HistInv
<1>1. n \in Nat /\ st \in [0 .. n -> Nat] /\ st[n] = Len(hist) /\ Len(hist) \in Nat
  BY <1>0 DEF Laid
<1>2. navOn \in BOOLEAN /\ Len(hist) <= HistSize /\ (~ navOn => navAt = 0)
  BY DEF HistInv
<1>3. CASE ~ navOn
  <2>1. Bel /\ navOn' = navOn /\ nav' = nav /\ navAt' = navAt
    BY <1>3 DEF HistoryNext, navVars
  <2>2. Drawn(screen', line', cur', smeared)
    BY <2>1, BelDraws
  <2>3. HistInv'
    BY <1>0, <1>2, <2>1 DEF HistInv
  <2> QED
    BY <2>2, <2>3
<1>4. CASE navOn
  <2>1. navAt \in 1 .. n /\ nav = st[navAt - 1]
    BY <1>0, <1>4
  <2>2. NextOff(hist, nav) = st[navAt]
    <3>1. NextOff(hist, st[navAt - 1]) = st[navAt]
      BY <1>0, <2>1, EntryFound
    <3> QED
      BY <2>1, <3>1
  <2>3. CASE NextOff(hist, nav) < Len(hist)
    <3> DEFINE i == navAt + 1
    <3>1. Recall(NextOff(hist, nav)) /\ navAt' = i
      BY <1>4, <2>3 DEF HistoryNext
    <3>2. navAt # n
      BY <1>1, <2>2, <2>3
    <3>3. i \in 1 .. n /\ i - 1 = navAt
      BY <1>1, <2>1, <3>2
    <3>4. Recall(st[i - 1])
      BY <2>2, <3>1, <3>3
    <3> HIDE DEF i
    <3>5. Drawn(screen', line', cur', smeared) /\ navOn' = TRUE /\ nav' = st[i - 1]
      BY <1>0, <3>3, <3>4, RecallDraws
    <3>6. Laid(hist', entries', st) /\ (navOn' => navAt' \in 1 .. Len(entries') /\ nav' = st[navAt' - 1])
      BY <1>0, <3>1, <3>3, <3>5
    <3>7. HistInv'
      BY <1>2, <3>5, <3>6 DEF HistInv
    <3> QED
      BY <3>5, <3>7
  <2>4. CASE ~ (NextOff(hist, nav) < Len(hist))
    <3>1. navOn' = FALSE /\ navAt' = 0 /\ Edits(<<>>, 0)
      BY <1>4, <2>4 DEF HistoryNext
    <3> DEFINE t == <<>>
    <3>2. t \in EdText /\ 0 \in 0 .. Len(t) /\ Edits(t, 0)
      BY <3>1, EditorSizes DEF EdText
    <3> HIDE DEF t
    <3>3. Drawn(screen', line', cur', smeared)
      BY <3>2, EditsDraw
    <3>4. HistInv'
      BY <1>0, <1>2, <3>1 DEF HistInv
    <3> QED
      BY <3>3, <3>4
  <2> QED
    BY <2>3, <2>4
<1> QED
  BY <1>2, <1>3, <1>4
------------------------------------------------------------------------------
(* A line that is submitted: the oldest entries go until it fits.            *)

LEMMA TailAppended ==
  ASSUME NEW e \in Seq(Entry), NEW t \in Entry, NEW a \in 0 .. Len(e)
  PROVE  SubSeq(Append(e, t), a + 1, Len(e) + 1) = Append(SubSeq(e, a + 1, Len(e)), t)
<1> DEFINE n == Len(e)
           f == Append(e, t)
           r == SubSeq(e, a + 1, n)
<1>0. n \in Nat /\ a \in Nat /\ a <= n
  OBVIOUS
<1>1. f \in Seq(Entry) /\ Len(f) = n + 1 /\ f[n + 1] = t /\ f = e \o <<t>>
  OBVIOUS
<1>2. r \in Seq(Entry)
  <2>1. \A i \in a + 1 .. n : e[i] \in Entry
    BY <1>0
  <2> QED
    BY <1>0, <2>1, SubSeqProperties
<1>3. SubSeq(f, a + 1, n) = r
  <2>1. CASE a = n
    <3>1. a + 1 \in Int /\ n \in Int /\ n < a + 1
      BY <1>0, <2>1
    <3> HIDE DEF n, f
    <3>2. SubSeq(f, a + 1, n) = <<>> /\ SubSeq(e, a + 1, n) = <<>>
      BY <3>1, SubSeqEmpty
    <3> QED
      BY <3>2
  <2>2. CASE a # n
    <3>1. a + 1 \in 1 .. Len(e) /\ n \in 1 .. Len(e)
      BY <1>0, <2>2
    <3>2. <<t>> \in Seq(Entry)
      OBVIOUS
    <3>3. SubSeq(e \o <<t>>, a + 1, n) = SubSeq(e, a + 1, n)
      BY <3>1, <3>2, SubSeqOfConcat1
    <3> QED
      BY <1>1, <3>3
  <2> QED
    BY <2>1, <2>2
<1> HIDE DEF n, f, r
<1> DEFINE j == a + 1
           k == n + 1
<1>4. j \in 1 .. Len(f) /\ k \in j .. Len(f) /\ k - 1 = n /\ f[k] = t /\ SubSeq(f, j, n) = r
  BY <1>0, <1>1, <1>3
<1> HIDE DEF j, k
<1>5. SubSeq(f, j, k) = SubSeq(f, j, k - 1) \o <<f[k]>>
  BY <1>1, <1>4, SubSeqRecursiveSecond
<1>6. SubSeq(f, j, k) = r \o <<t>>
  BY <1>4, <1>5
<1>7. r \o <<t>> = Append(r, t)
  BY <1>2
<1> QED
  BY <1>6, <1>7 DEF n, f, r, j, k

LEMMA AddIs ==
  ASSUME NEW h, NEW e, NEW st, Laid(h, e, st), NEW t \in Entry, Len(t) + 1 <= HistSize
  PROVE  LET g == Evicted(h, Len(t) + 1) \o t \o <<"0">>
             f == Append(e, t)
             s == Min({i \in 1 .. Len(f) : Len(Packed(SubSeq(f, i, Len(f)))) <= HistSize})
         IN  Len(g) <= HistSize /\ \E tt : Laid(g, SubSeq(f, s, Len(f)), tt)
<1> DEFINE n == Len(e)
           l == Len(h)
           m == Len(t)
           g == Evicted(h, m + 1) \o t \o <<"0">>
           f == Append(e, t)
           w == h \o t \o <<"0">>
           ss == After(st, n, m)
           U == {i \in 1 .. Len(f) : Len(Packed(SubSeq(f, i, Len(f)))) <= HistSize}
           A == {a \in 0 .. n : l - st[a] + (m + 1) <= HistSize}
<1>0. /\ n \in Nat /\ st \in [0 .. n -> Nat] /\ st[n] = l /\ h \in Seq(Marked) /\ e \in Seq(Entry)
      /\ l \in Nat /\ HistSize \in Nat
  BY EditorSizes DEF Laid
<1>1. m \in Nat /\ m + 1 <= HistSize /\ t \in Seq(Printable) /\ t \in Seq(Marked)
  BY DEF Entry, Marked
<1>2. /\ \A i \in 0 .. n : st[i] \in 0 .. l
      /\ \A k \in 0 .. n : \A i \in 0 .. n : i < k => st[i] < st[k]
  BY LaidGrows
<1>3. Laid(w, f, ss)
  BY LaidAppend
<1>4. Len(f) = n + 1 /\ f \in Seq(Entry)
  BY <1>0
<1>5. /\ \A o \in Offsets(h) : \E k \in 0 .. n - 1 : o = st[k]
      /\ \A k \in 0 .. n - 1 : st[k] \in Offsets(h)
      /\ Offsets(h) \subseteq 0 .. l
  BY OffsetsAre
<1>6. \A i \in 0 .. n : ss[i] = st[i]
  <2>1. ss = [i \in 0 .. n + 1 |-> IF i = n + 1 THEN st[n] + m + 1 ELSE st[i]]
    BY DEF After
  <2>2. \A i \in 0 .. n : i \in 0 .. n + 1 /\ i # n + 1
    BY <1>0
  <2> HIDE DEF ss, n, m
  <2> QED
    BY <2>1, <2>2
<1>7. ss[n + 1] = l + m + 1 /\ ss[n + 1] = Len(w)
  <2>1. n + 1 \in 0 .. n + 1
    BY <1>0
  <2>2. ss[n + 1] = st[n] + m + 1
    BY <2>1 DEF After
  <2>3. ss[Len(f)] = Len(w)
    BY <1>3 DEF Laid
  <2> HIDE DEF ss, w, f, n, m, l
  <2> QED
    BY <1>0, <1>4, <2>2, <2>3
<1>8. n \in A /\ A \subseteq Nat /\ A \subseteq 0 .. n
  <2>1. l - st[n] + (m + 1) = m + 1
    BY <1>0, <1>1
  <2>2. n \in 0 .. n
    BY <1>0
  <2> HIDE DEF n, l, m
  <2> QED
    BY <1>0, <1>1, <2>1, <2>2
<1>9. PICK a \in A : \A y \in A : a <= y
  <2> HIDE DEF A
  <2> QED
    BY <1>8, LeastOf
<1> DEFINE b == st[a]
<1>10. a \in 0 .. n /\ l - b + (m + 1) <= HistSize /\ b \in 0 .. l
  BY <1>2
<1>11. \A k \in A : b <= st[k]
  <2> SUFFICES ASSUME NEW k \in A PROVE b <= st[k]
    OBVIOUS
  <2>1. a <= k /\ k \in 0 .. n /\ a \in 0 .. n
    BY <1>9, <1>10
  <2>2. a = k \/ a < k
    BY <2>1
  <2>3. b = st[k] \/ b < st[k]
    BY <1>2, <2>1, <2>2
  <2>4. b \in Nat /\ st[k] \in Nat
    BY <1>0, <2>1
  <2> QED
    BY <2>3, <2>4
<1> HIDE DEF A, ss, w
<1>12. Evicted(h, m + 1) = SubSeq(h, b + 1, l)
  <2> DEFINE T == {i \in Offsets(h) \cup {l} : EntryFits(l - i, m + 1)}
  <2>1. Evicted(h, m + 1) = SubSeq(h, Min(T) + 1, l)
    BY DEF Evicted
  <2> HIDE DEF n, l, m, b
  <2>2. T \subseteq Nat
    BY <1>0, <1>5
  <2>3. b \in T
    <3>1. b \in Offsets(h) \cup {l}
      <4>1. CASE a = n
        BY <1>0, <4>1 DEF b
      <4>2. CASE a # n
        <5>1. a \in 0 .. n - 1
          BY <1>0, <1>10, <4>2
        <5> QED
          BY <1>5, <5>1 DEF b
      <4> QED
        BY <4>1, <4>2
    <3> QED
      BY <1>10, <3>1 DEF EntryFits
  <2>4. ASSUME NEW y \in T PROVE b <= y
    <3>1. l - y + (m + 1) <= HistSize
      BY DEF EntryFits
    <3>2. \E k \in 0 .. n : y = st[k]
      <4>1. CASE y = l
        <5>1. n \in 0 .. n
          BY <1>0
        <5> QED
          BY <1>0, <4>1, <5>1
      <4>2. CASE y # l
        <5>1. PICK k \in 0 .. n - 1 : y = st[k]
          BY <1>5, <4>2
        <5>2. k \in 0 .. n
          BY <1>0
        <5> QED
          BY <5>1, <5>2
      <4> QED
        BY <4>1, <4>2
    <3>3. PICK k \in 0 .. n : y = st[k]
      BY <3>2
    <3>4. k \in A
      BY <3>1, <3>3 DEF A, n, l, m
    <3> QED
      BY <1>11, <3>3, <3>4
  <2>5. Min(T) = b
    <3> HIDE DEF T
    <3> QED
      BY <2>2, <2>3, <2>4, MinTold
  <2> HIDE DEF T
  <2> QED
    BY <2>1, <2>5
<1> HIDE DEF n, l, m, b
<1>13. ASSUME NEW i \in 1 .. n + 1
       PROVE  /\ Len(Packed(SubSeq(f, i, n + 1))) = l - st[i - 1] + (m + 1)
              /\ i - 1 \in 0 .. n /\ i = (i - 1) + 1
  <2> DEFINE c == i - 1
             d == ss[c]
             v == SubSeq(w, d + 1, Len(w))
  <2>1. c \in 0 .. n /\ c \in 0 .. Len(f) /\ i = c + 1
    BY <1>0, <1>4
  <2>2. d = st[c] /\ d \in 0 .. l /\ d \in Nat
    BY <1>0, <1>2, <1>6, <2>1
  <2> HIDE DEF c, f
  <2>3. Laid(v, SubSeq(f, c + 1, Len(f)), Rest(ss, Len(f), c))
    BY <1>3, <2>1, LaidRest
  <2>4. Packed(SubSeq(f, c + 1, Len(f))) = v
    BY <2>3, PackedIs
  <2>5. Packed(SubSeq(f, i, n + 1)) = v
    BY <1>4, <2>1, <2>4
  <2>6. w \in Seq(Marked) /\ Len(w) = l + m + 1
    BY <1>3, <1>7 DEF Laid
  <2> HIDE DEF d
  <2>7. Len(v) = Len(w) - d
    <3>1. d + 1 \in Int /\ Len(w) \in Int /\ \A p \in d + 1 .. Len(w) : w[p] \in Marked
      BY <1>0, <1>1, <2>2, <2>6
    <3>2. Len(v) = IF d + 1 <= Len(w) THEN Len(w) - (d + 1) + 1 ELSE 0
      BY <3>1, SubSeqProperties
    <3> HIDE DEF v
    <3> QED
      BY <1>0, <1>1, <2>2, <2>6, <3>2
  <2> HIDE DEF v
  <2>8. Len(v) = l - st[c] + (m + 1)
    BY <1>0, <1>1, <2>2, <2>6, <2>7
  <2> QED
    BY <2>1, <2>5, <2>8 DEF c
<1>14. Min(U) = a + 1
  <2>1. U \subseteq Nat /\ \A i \in U : i \in 1 .. n + 1 /\ Len(Packed(SubSeq(f, i, n + 1))) <= HistSize
    BY <1>0, <1>4
  <2>2. \A i \in 1 .. n + 1 : Len(Packed(SubSeq(f, i, n + 1))) <= HistSize => i \in U
    BY <1>4
  <2> HIDE DEF U, f
  <2>3. a + 1 \in U
    <3>1. a + 1 \in 1 .. n + 1 /\ (a + 1) - 1 = a
      BY <1>0, <1>10
    <3>2. Len(Packed(SubSeq(f, a + 1, n + 1))) = l - st[(a + 1) - 1] + (m + 1)
      BY <1>13, <3>1
    <3>3. Len(Packed(SubSeq(f, a + 1, n + 1))) = l - b + (m + 1)
      BY <3>1, <3>2 DEF b
    <3> QED
      BY <1>10, <2>2, <3>1, <3>3
  <2>4. ASSUME NEW i \in U PROVE a + 1 <= i
    <3>1. i \in 1 .. n + 1 /\ Len(Packed(SubSeq(f, i, n + 1))) <= HistSize
      BY <2>1
    <3>2. Len(Packed(SubSeq(f, i, n + 1))) = l - st[i - 1] + (m + 1) /\ i - 1 \in 0 .. n
      BY <1>13, <3>1
    <3>3. i - 1 \in A
      BY <3>1, <3>2 DEF A, n, l, m
    <3>4. a <= i - 1
      BY <1>9, <3>3
    <3> QED
      BY <1>0, <1>10, <3>1, <3>4
  <2> QED
    BY <2>1, <2>3, <2>4, MinTold
<1> DEFINE r == SubSeq(h, b + 1, l)
           q == SubSeq(e, a + 1, n)
           rs == Rest(st, n, a)
<1>15. Laid(r, q, rs)
  BY <1>10, LaidRest DEF b, l, n
<1> HIDE DEF r, q, rs
<1>16. Laid(r \o t \o <<"0">>, Append(q, t), After(rs, Len(q), m))
  BY <1>15, LaidAppend DEF m
<1>17. g = r \o t \o <<"0">>
  BY <1>12 DEF r
<1>18. SubSeq(f, a + 1, n + 1) = Append(q, t)
  BY <1>0, <1>10, TailAppended DEF q, n
<1>19. Len(g) <= HistSize
  <2>1. r \in Seq(Marked) /\ Len(r) = l - b
    <3>1. b + 1 \in Int /\ l \in Int /\ \A p \in b + 1 .. l : h[p] \in Marked
      BY <1>0, <1>10 DEF l
    <3>2. r \in Seq(Marked) /\ Len(r) = IF b + 1 <= l THEN l - (b + 1) + 1 ELSE 0
      BY <3>1, SubSeqProperties DEF r
    <3> QED
      BY <1>0, <1>10, <3>2
  <2>2. r \o t \in Seq(Marked) /\ Len(r \o t) = Len(r) + m
    BY <1>1, <2>1 DEF m
  <2>3. "0" \in Marked
    BY DEF Marked
  <2> DEFINE u == r \o t
  <2> HIDE DEF u
  <2>4. u \in Seq(Marked) /\ Len(u) = Len(r) + m
    BY <2>2 DEF u
  <2>5. Len(u \o <<"0">>) = Len(u) + 1
    BY <2>3, <2>4, ClosedIs
  <2>6. g = u \o <<"0">>
    BY <1>17 DEF u
  <2> HIDE DEF g
  <2>7. Len(g) = l - b + m + 1
    BY <2>1, <2>4, <2>5, <2>6
  <2> QED
    BY <1>0, <1>1, <1>10, <2>7
<1> HIDE DEF g, f, U
<1>20. Laid(g, SubSeq(f, Min(U), Len(f)), After(rs, Len(q), m))
  BY <1>4, <1>14, <1>16, <1>17, <1>18
<1>21. Len(g) <= HistSize /\ \E tt : Laid(g, SubSeq(f, Min(U), Len(f)), tt)
  BY <1>19, <1>20
<1> QED
  BY <1>21 DEF g, f, U, m

LEMMA AddKeeps ==
  ASSUME LineInv, HistInv, HistoryAdd(line), entries' = Remembered(line), navOn' = FALSE, navAt' = 0
  PROVE  HistInv'
<1> DEFINE t == line
           e == entries
           same == ~ Kept(t) \/ (e # <<>> /\ Last(e) = t)
           f == Append(e, t)
           s == Min({i \in 1 .. Len(f) : Len(Packed(SubSeq(f, i, Len(f)))) <= HistSize})
           g == Evicted(hist, Len(t) + 1) \o t \o <<"0">>
<1>0. PICK st : Laid(hist, entries, st)
  BY DEF HistInv
<1>1. (hist # <<>> /\ EntryAt(hist, Max(Offsets(hist))) = t) <=> (e # <<>> /\ Last(e) = t)
  <2>1. hist = <<>> <=> e = <<>>
    BY <1>0, OffsetsAre
  <2>2. e # <<>> => EntryAt(hist, Max(Offsets(hist))) = Last(e)
    BY <1>0, NewestIs
  <2> HIDE DEF t, e
  <2> QED
    BY <2>1, <2>2
<1>2. hist' = IF same THEN hist ELSE g
  <2>1. hist' = IF ~ Kept(t) \/ (hist # <<>> /\ EntryAt(hist, Max(Offsets(hist))) = t) THEN hist ELSE g
    BY DEF HistoryAdd
  <2> HIDE DEF t, e, g
  <2> QED
    BY <1>1, <2>1
<1>3. entries' = IF same THEN e ELSE SubSeq(f, s, Len(f))
  BY DEF Remembered
<1>4. Len(hist) <= HistSize
  BY DEF HistInv
<1>5. ASSUME NEW tt, Laid(hist', entries', tt), Len(hist') <= HistSize PROVE HistInv'
  BY <1>5 DEF HistInv
<1>6. CASE same
  <2>1. hist' = hist /\ entries' = entries
    BY <1>2, <1>3, <1>6
  <2>2. Laid(hist', entries', st) /\ Len(hist') <= HistSize
    BY <1>0, <1>4, <2>1
  <2> QED
    BY <1>5, <2>2
<1>7. CASE ~ same
  <2>1. t \in Entry /\ Len(t) + 1 <= HistSize
    <3>1. Kept(t)
      BY <1>7
    <3>2. t \in Seq(Printable) /\ Len(t) <= MaxLen
      BY LineIs
    <3> HIDE DEF t
    <3> QED
      BY <3>1, <3>2 DEF Kept, Entry
  <2>2. hist' = g /\ entries' = SubSeq(f, s, Len(f))
    BY <1>2, <1>3, <1>7
  <2>3. Len(g) <= HistSize /\ \E tt : Laid(g, SubSeq(f, s, Len(f)), tt)
    <3> HIDE DEF t
    <3> QED
      BY <1>0, <2>1, AddIs
  <2> HIDE DEF g, f, s
  <2>4. PICK tt : Laid(g, SubSeq(f, s, Len(f)), tt)
    BY <2>3
  <2>5. Laid(hist', entries', tt) /\ Len(hist') <= HistSize
    BY <2>2, <2>3, <2>4
  <2> QED
    BY <1>5, <2>5
<1> QED
  BY <1>6, <1>7

\* The keys that leave the history alone.
LEMMA HistKept ==
  ASSUME HistInv, UNCHANGED navVars, hist' = hist, entries' = entries
  PROVE  HistInv'
BY DEF HistInv, navVars

LEMMA HistLeft ==
  ASSUME HistInv, navOn' = FALSE, navAt' = 0, hist' = hist, entries' = entries
  PROVE  HistInv'
BY DEF HistInv
------------------------------------------------------------------------------
(* A step of the editor.                                                     *)

EdInv == LineInv /\ RenderInv /\ HistInv

\* A key that leaves the line drawn and no longer dirty.
LEMMA KeyKeeps ==
  ASSUME NEW m, m = smeared', Drawn(screen', line', cur', m), renderDirty' = FALSE,
         rx' \in {"normal", "esc", "csi", "ss3"}
  PROVE  LineInv' /\ RenderInv'
<1>1. line' \in EdText /\ cur' \in 0 .. Len(line')
  BY DEF Drawn
<1>2. LineInv'
  BY <1>1 DEF LineInv
<1>3. RenderInv'
  BY DEF RenderInv
<1> QED
  BY <1>2, <1>3

LEMMA EdInitInv == EdInit => EdInv
<1> SUFFICES ASSUME EdInit PROVE EdInv
  OBVIOUS
<1> DEFINE t == <<>>
           c == Cleared
           st == [i \in 0 .. 0 |-> 0]
<1>1. line = t /\ cur = 0 /\ screen = Refresh(c, t, 0) /\ renderDirty = FALSE /\ smeared = FALSE /\ rx = "normal"
  BY DEF EdInit
<1>2. hist = <<>> /\ entries = <<>> /\ navOn = FALSE /\ navAt = 0
  BY DEF EdInit
<1>3. t \in EdText /\ 0 \in 0 .. Len(t)
  BY EditorSizes DEF EdText
<1>4. Broken(c, FALSE)
  BY ClearedIs
<1>5. Laid(<<>>, <<>>, st)
  BY NothingLaid
<1> HIDE DEF t, c, st
<1>6. Drawn(Refresh(c, t, 0), t, 0, FALSE)
  BY <1>3, <1>4, RefreshBroken
<1>7. LineInv
  BY <1>1, <1>3 DEF LineInv
<1>8. RenderInv
  BY <1>1, <1>6 DEF RenderInv
<1>9. HistInv
  <2>1. Laid(hist, entries, st)
    BY <1>2, <1>5
  <2>2. Len(hist) <= HistSize
    BY <1>2, EditorSizes
  <2> QED
    BY <1>2, <2>1, <2>2 DEF HistInv
<1> QED
  BY <1>7, <1>8, <1>9 DEF EdInv

LEMMA SubmitKeeps ==
  ASSUME EdInv, NEW cr \in BOOLEAN, Submit(cr)
  PROVE  EdInv'
<1>0. LineInv /\ RenderInv /\ HistInv
  BY DEF EdInv
<1>1. Drawn(screen', line', cur', smeared')
  BY <1>0, SubmitDraws
<1>2. renderDirty' = FALSE /\ rx' = rx /\ rx = "normal"
  BY DEF Submit, Handled
<1>3. LineInv' /\ RenderInv'
  BY <1>1, <1>2, KeyKeeps
<1>4. CASE ~ cr /\ prevCr
  <2>1. UNCHANGED navVars /\ hist' = hist /\ entries' = entries
    BY <1>4 DEF Submit, NoNav, Same
  <2> QED
    BY <1>0, <1>3, <2>1, HistKept DEF EdInv
<1>5. CASE ~ (~ cr /\ prevCr)
  <2>1. HistoryAdd(line) /\ entries' = Remembered(line) /\ navOn' = FALSE /\ navAt' = 0
    BY <1>5 DEF Submit
  <2> QED
    BY <1>0, <1>3, <2>1, AddKeeps DEF EdInv
<1> QED
  BY <1>4, <1>5

LEMMA CtrlCKeeps ==
  ASSUME EdInv, CtrlC
  PROVE  EdInv'
<1>0. LineInv /\ RenderInv /\ HistInv
  BY DEF EdInv
<1>1. Drawn(screen', line', cur', smeared')
  BY <1>0, CtrlCDraws
<1>2. renderDirty' = FALSE /\ rx' = "normal" /\ navOn' = FALSE /\ navAt' = 0 /\ hist' = hist /\ entries' = entries
  BY DEF CtrlC, Handled
<1>3. LineInv' /\ RenderInv'
  BY <1>1, <1>2, KeyKeeps
<1> QED
  BY <1>0, <1>2, <1>3, HistLeft DEF EdInv

LEMMA JobKeeps ==
  ASSUME EdInv, JobPrints
  PROVE  EdInv'
<1>0. LineInv /\ RenderInv /\ HistInv
  BY DEF EdInv
<1>1. Broken(screen', smeared')
  BY <1>0, JobBreaks
<1>2. /\ renderDirty' = TRUE /\ line' = line /\ cur' = cur /\ rx' = rx
      /\ UNCHANGED navVars /\ hist' = hist /\ entries' = entries
  BY DEF JobPrints, lineVars, inputVars, histVars
<1>3. LineInv'
  BY <1>0, <1>2 DEF LineInv
<1>4. RenderInv'
  BY <1>1, <1>2 DEF RenderInv
<1> QED
  BY <1>0, <1>2, <1>3, <1>4, HistKept DEF EdInv

\* A key that edits or moves: what it draws, and the history it leaves.
LEMMA EditKeeps ==
  ASSUME EdInv, renderDirty' = FALSE, rx' \in {"normal", "esc", "csi", "ss3"},
         hist' = hist, entries' = entries,
         \/ /\ UNCHANGED navVars /\ smeared' = smeared
            /\ \/ Bel \/ OpTab
               \/ \E c \in Printable : OpInsert(c)
               \/ OpBackspace
               \/ OpDeleteFwd \/ OpKillEol \/ OpKillBol \/ OpDelWord
               \/ OpLeft \/ OpRight \/ MoveTo(0) \/ MoveTo(Len(line)) \/ MoveTo(WordStart) \/ MoveTo(WordEnd)
         \/ UNCHANGED navVars /\ smeared' = FALSE /\ OpClearScreen
         \/ smeared' = smeared /\ (HistoryPrev \/ HistoryNext)
  PROVE  EdInv'
<1>0. LineInv /\ RenderInv /\ HistInv
  BY DEF EdInv
<1>1. ASSUME Drawn(screen', line', cur', smeared'), HistInv' PROVE EdInv'
  <2>1. LineInv' /\ RenderInv'
    BY <1>1, KeyKeeps
  <2> QED
    BY <1>1, <2>1 DEF EdInv
<1>2. ASSUME Drawn(screen', line', cur', smeared), smeared' = smeared, UNCHANGED navVars PROVE EdInv'
  <2>1. Drawn(screen', line', cur', smeared')
    BY <1>2
  <2>2. HistInv'
    BY <1>0, <1>2, HistKept
  <2> QED
    BY <1>1, <2>1, <2>2
<1>3. CASE Bel /\ UNCHANGED navVars /\ smeared' = smeared
  BY <1>0, <1>2, <1>3, BelDraws
<1>4. CASE OpTab /\ UNCHANGED navVars /\ smeared' = smeared
  BY <1>0, <1>2, <1>4, TabDraws
<1>5. CASE (\E c \in Printable : OpInsert(c)) /\ UNCHANGED navVars /\ smeared' = smeared
  <2>1. PICK c \in Printable : OpInsert(c)
    BY <1>5
  <2>2. Drawn(screen', line', cur', smeared)
    BY <1>0, <2>1, InsertDraws
  <2> QED
    BY <1>2, <1>5, <2>2
<1>6. CASE OpBackspace /\ UNCHANGED navVars /\ smeared' = smeared
  BY <1>0, <1>2, <1>6, BackspaceDraws
<1>7. CASE (OpDeleteFwd \/ OpKillEol \/ OpKillBol \/ OpDelWord) /\ UNCHANGED navVars /\ smeared' = smeared
  BY <1>0, <1>2, <1>7, KillDraws
<1>8. CASE /\ OpLeft \/ OpRight \/ MoveTo(0) \/ MoveTo(Len(line)) \/ MoveTo(WordStart) \/ MoveTo(WordEnd)
           /\ UNCHANGED navVars /\ smeared' = smeared
  BY <1>0, <1>2, <1>8, MovesDraw
<1>9. CASE UNCHANGED navVars /\ smeared' = FALSE /\ OpClearScreen
  <2>1. Drawn(screen', line', cur', FALSE)
    BY <1>0, <1>9, ClearDraws
  <2>2. Drawn(screen', line', cur', smeared')
    BY <1>9, <2>1
  <2>3. HistInv'
    BY <1>0, <1>9, HistKept
  <2> QED
    BY <1>1, <2>2, <2>3
<1>10. CASE smeared' = smeared /\ HistoryPrev
  <2>1. Drawn(screen', line', cur', smeared) /\ HistInv'
    BY <1>0, <1>10, PrevKeeps
  <2> QED
    BY <1>1, <1>10, <2>1
<1>11. CASE smeared' = smeared /\ HistoryNext
  <2>1. Drawn(screen', line', cur', smeared) /\ HistInv'
    BY <1>0, <1>11, NextKeeps
  <2> QED
    BY <1>1, <1>11, <2>1
<1> QED
  BY <1>3, <1>4, <1>5, <1>6, <1>7, <1>8, <1>9, <1>10, <1>11, Zenon

LEMMA KeysKeep ==
  ASSUME EdInv, Control \/ Tab \/ Escape \/ AltKey \/ Parameter \/ Final
  PROVE  EdInv'
<1> DEFINE Typed == renderDirty' = FALSE /\ rx' \in {"normal", "esc", "csi", "ss3"}
           Kind == hist' = hist /\ entries' = entries
           Quiet == UNCHANGED navVars /\ smeared' = smeared
           Edit == \/ Bel \/ OpTab
                   \/ \E c \in Printable : OpInsert(c)
                   \/ OpBackspace
                   \/ OpDeleteFwd \/ OpKillEol \/ OpKillBol \/ OpDelWord
                   \/ OpLeft \/ OpRight \/ MoveTo(0) \/ MoveTo(Len(line)) \/ MoveTo(WordStart) \/ MoveTo(WordEnd)
           Clear == UNCHANGED navVars /\ smeared' = FALSE /\ OpClearScreen
           Walk == smeared' = smeared /\ (HistoryPrev \/ HistoryNext)
<1>0. ASSUME Typed, Kind, (Quiet /\ Edit) \/ Clear \/ Walk PROVE EdInv'
  BY <1>0, EditKeeps, Zenon
<1>1. CASE Control
  <2>1. Typed
    BY <1>1 DEF Control, Handled
  <2>2. Kind
    BY <1>1 DEF Control, Same
  <2>3. (Quiet /\ Edit) \/ Clear \/ Walk
    <3>1. \/ (\E c \in Printable : OpInsert(c)) /\ NoNav /\ Same
          \/ (OpBackspace \/ OpDeleteFwd \/ OpKillEol \/ OpKillBol \/ OpDelWord) /\ NoNav /\ Same
          \/ (OpLeft \/ OpRight \/ MoveTo(0) \/ MoveTo(Len(line))) /\ NoNav /\ Same
          \/ OpClearScreen /\ NoNav /\ smeared' = FALSE
          \/ (HistoryPrev \/ HistoryNext) /\ Same
      BY <1>1, Zenon DEF Control
    <3>2. /\ NoNav => UNCHANGED navVars
          /\ Same => smeared' = smeared
      BY DEF NoNav, Same
    <3> QED
      BY <3>1, <3>2, Zenon
  <2> QED
    BY <1>0, <2>1, <2>2, <2>3
<1>2. CASE Tab
  <2>1. Typed
    BY <1>2 DEF Tab, Handled
  <2>2. Kind /\ Quiet /\ OpTab
    BY <1>2 DEF Tab, Same, NoNav
  <2> QED
    BY <1>0, <2>1, <2>2
<1>3. CASE Escape
  <2>1. Typed
    BY <1>3 DEF Escape, Handled
  <2>2. Kind /\ Quiet /\ Bel
    BY <1>3 DEF Escape, Same, NoNav
  <2> QED
    BY <1>0, <2>1, <2>2
<1>4. CASE AltKey
  <2>1. Typed
    BY <1>4 DEF AltKey, Handled
  <2>2. Kind /\ Quiet
    BY <1>4 DEF AltKey, Same, NoNav
  <2>3. MoveTo(WordStart) \/ MoveTo(WordEnd) \/ Bel
    BY <1>4, Zenon DEF AltKey
  <2> QED
    BY <1>0, <2>1, <2>2, <2>3, Zenon
<1>5. CASE Parameter
  <2>1. Typed
    BY <1>5 DEF Parameter, Handled
  <2>2. Kind /\ Quiet /\ Bel
    BY <1>5 DEF Parameter, Same, NoNav
  <2> QED
    BY <1>0, <2>1, <2>2
<1>6. CASE Final
  <2>1. Typed
    BY <1>6 DEF Final, Handled
  <2>2. \/ (HistoryPrev \/ HistoryNext) /\ Same
        \/ (OpLeft \/ OpRight \/ MoveTo(0) \/ MoveTo(Len(line)) \/ Bel) /\ NoNav /\ Same
        \/ OpDeleteFwd /\ NoNav /\ Same
        \/ Bel /\ NoNav /\ UNCHANGED <<hist, entries, smeared>>
    BY <1>6, Zenon DEF Final
  <2>3. /\ NoNav => UNCHANGED navVars
        /\ Same => smeared' = smeared /\ hist' = hist /\ entries' = entries
        /\ UNCHANGED <<hist, entries, smeared>> => smeared' = smeared /\ hist' = hist /\ entries' = entries
    BY DEF NoNav, Same
  <2>4. Kind /\ ((Quiet /\ Edit) \/ Walk)
    BY <2>2, <2>3, Zenon
  <2> QED
    BY <1>0, <2>1, <2>4
<1> QED
  BY <1>1, <1>2, <1>3, <1>4, <1>5, <1>6

LEMMA EdStepInv == EdInv /\ [EdNext]_edVars => EdInv'
<1> SUFFICES ASSUME EdInv, [EdNext]_edVars PROVE EdInv'
  OBVIOUS
<1>1. CASE CtrlC
  BY <1>1, CtrlCKeeps
<1>2. CASE Submit(TRUE)
  BY <1>2, SubmitKeeps
<1>3. CASE Submit(FALSE)
  BY <1>3, SubmitKeeps
<1>4. CASE Control \/ Tab \/ Escape \/ AltKey \/ Parameter \/ Final
  BY <1>4, KeysKeep
<1>5. CASE JobPrints
  BY <1>5, JobKeeps
<1>6. CASE UNCHANGED edVars
  BY <1>6 DEF edVars, EdInv, LineInv, RenderInv, HistInv
<1> QED
  BY <1>1, <1>2, <1>3, <1>4, <1>5, <1>6, Zenon DEF EdNext

\* What the invariant says of the screen and of the ring.
LEMMA EdInvSound == EdInv => EditorSound
<1> SUFFICES ASSUME EdInv PROVE EditorSound
  OBVIOUS
<1>0. LineInv /\ RenderInv /\ HistInv
  BY DEF EdInv
<1>1. /\ line \in Seq(Printable) /\ Len(line) \in Nat /\ Len(line) <= MaxLen /\ cur \in 0 .. Len(line) /\ cur \in Nat
      /\ rx \in {"normal", "esc", "csi", "ss3"} /\ renderDirty \in BOOLEAN
  BY <1>0, LineIs DEF LineInv
<1>2. Len(hist) \in 0 .. HistSize /\ HistoryFaithful
  BY <1>0, HistSays
<1>3. CASE renderDirty
  <2>1. screen.at = Cols
    BY <1>0, <1>3 DEF RenderInv, Broken, Fresh
  <2>2. Cols \in Cells
    <3>1. Cols + Width + 0 \in Cells
      BY EditorSizes, CellInside
    <3> DEFINE top == Cols * (4 + (Len(PromptText) + MaxLen) \div Cols) - 1
    <3>2. Cells = 0 .. top /\ top \in Int
      <4>1. Len(PromptText) + MaxLen \in Nat
        BY EditorSizes DEF Width
      <4>2. (Len(PromptText) + MaxLen) \div Cols \in Nat
        BY <4>1, EditorSizes, Quotient
      <4> DEFINE q == (Len(PromptText) + MaxLen) \div Cols
      <4> HIDE DEF q
      <4>3. q \in Nat
        BY <4>2 DEF q
      <4>4. Cols * (4 + q) - 1 \in Int
        BY <4>3, EditorSizes
      <4>5. top = Cols * (4 + q) - 1
        BY DEF q
      <4> HIDE DEF top
      <4> QED
        BY <4>4, <4>5 DEF Cells, top, q
    <3> HIDE DEF top
    <3> QED
      BY <3>1, <3>2, EditorSizes
  <2>3. EdTypeOK
    BY <1>1, <1>2, <2>1, <2>2 DEF EdTypeOK
  <2>4. ScreenShowsLine
    BY <1>3 DEF ScreenShowsLine
  <2> QED
    BY <1>2, <2>3, <2>4 DEF EditorSound
<1>4. CASE ~ renderDirty
  <2>1. Placed(screen, Len(line), cur) /\ (~ smeared => Shows(screen, line))
    BY <1>0, <1>4 DEF RenderInv, Drawn
  <2>2. screen.at = Cols + Width + cur /\ screen.wrap = FALSE
    BY <2>1 DEF Placed
  <2>3. Cols + Width + cur \in Cells
    <3>1. cur \in Nat /\ cur <= MaxLen
      BY <1>1, EditorSizes
    <3> QED
      BY <3>1, CellInside
  <2>4. EdTypeOK
    BY <1>1, <1>2, <2>2, <2>3 DEF EdTypeOK
  <2>5. ScreenShowsLine
    <3> DEFINE w == Prompted(line)
    <3>1. SUFFICES ASSUME ~ smeared
          PROVE  /\ screen.at = Cols + (Width + cur) /\ ~ screen.wrap
                 /\ \A i \in Cells : screen.cells[i] =
                       IF i < Cols THEN "#" ELSE IF i - Cols \in 0 .. Len(w) - 1 THEN w[i - Cols + 1] ELSE Gap
      BY DEF ScreenShowsLine, Prompted, Width
    <3>2. Len(w) = Width + Len(line)
      BY <1>1, PromptAnd
    <3>3. \A i \in Cells : screen.cells[i] = GlyphOf(w, Width + Len(line), i)
      BY <2>1, <3>1 DEF Shows, Glyph
    <3> HIDE DEF w
    <3>4. \A i \in Cells : screen.cells[i] = GlyphOf(w, Len(w), i)
      BY <3>2, <3>3
    <3>5. \A i \in Cells : screen.cells[i] =
             IF i < Cols THEN "#" ELSE IF i - Cols \in 0 .. Len(w) - 1 THEN w[i - Cols + 1] ELSE Gap
      BY <3>4 DEF GlyphOf
    <3>6. screen.at = Cols + (Width + cur)
      BY <1>1, <2>2, EditorSizes
    <3> QED
      BY <2>2, <3>5, <3>6
  <2> QED
    BY <1>2, <2>4, <2>5 DEF EditorSound
<1> QED
  BY <1>1, <1>3, <1>4

\* After every key the terminal shows the prompt and the line, with the cursor
\* where the next key edits (until output begins above rows of a wrapped line,
\* which only a cleared screen mends); the ring holds the newest submitted lines
\* that fit, and the arrow keys walk them one by one.
THEOREM EditorStaysSound == EdSpec => []EditorSound
<1>1. EdInit => EdInv
  BY EdInitInv
<1>2. EdInv /\ [EdNext]_edVars => EdInv'
  BY EdStepInv
<1>3. EdInv => EditorSound
  BY EdInvSound
<1> QED
  BY <1>1, <1>2, <1>3, PTL DEF EdSpec
==============================================================================
