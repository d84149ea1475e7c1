----------------------------- MODULE PagingProofs -----------------------------
(***************************************************************************)
(* The walk over the pages of a list, for any events, sessions, page and   *)
(* part sizes and any number of deletions: it misses nothing and comes in  *)
(* order.  The dashboard's conversation is left out: its walk does miss    *)
(* rows (DashboardMissesNothing).                                          *)
(***************************************************************************)
EXTENDS Paging, SequenceTheorems, FiniteSetTheorems, Induction

(***************************************************************************)
(* The order of rows.                                                      *)
(***************************************************************************)
LEMMA TextRankType == \A at \in Nat : TextRank(at) \in Int
BY ResolutionAssumption DEF TextRank

LEMMA KeyOrder ==
    ASSUME NEW r \in Row, NEW q \in Row
    PROVE  /\ ~ (KeyBefore(r, q) /\ KeyBefore(q, r))
           /\ ~ KeyBefore(r, r)
           /\ r.rank # q.rank => KeyBefore(r, q) \/ KeyBefore(q, r)
<1>1. TextRank(r.at) \in Int /\ TextRank(q.at) \in Int /\ r.rank \in Nat /\ q.rank \in Nat
  BY TextRankType DEF Row
<1> QED BY <1>1 DEF KeyBefore

LEMMA KeyTransitive ==
    ASSUME NEW r \in Row, NEW q \in Row, NEW p \in Row, KeyBefore(r, q), KeyBefore(q, p)
    PROVE  KeyBefore(r, p)
<1>1. /\ TextRank(r.at) \in Int /\ TextRank(q.at) \in Int /\ TextRank(p.at) \in Int
      /\ r.rank \in Nat /\ q.rank \in Nat /\ p.rank \in Nat
  BY TextRankType DEF Row
<1> QED BY <1>1 DEF KeyBefore

LEMMA ListOrder ==
    ASSUME NEW list, NEW r \in Row, NEW q \in Row
    PROVE  /\ ~ (Precedes(list, r, q) /\ Precedes(list, q, r))
           /\ ~ Precedes(list, r, r)
           /\ r.rank # q.rank => Precedes(list, r, q) \/ Precedes(list, q, r)
BY KeyOrder DEF Precedes

LEMMA ListTransitive ==
    ASSUME NEW list, NEW r \in Row, NEW q \in Row, NEW p \in Row,
           Precedes(list, r, q), Precedes(list, q, p)
    PROVE  Precedes(list, r, p)
BY KeyTransitive DEF Precedes

\* Rows that are told apart by their ranks, as the rows of any list are.
Keyed(rows) ==
    /\ rows \in SUBSET Row
    /\ IsFiniteSet(rows)
    /\ \A r, q \in rows : r.rank = q.rank => r = q

LEMMA PositionIsNat ==
    ASSUME NEW list, NEW rows, Keyed(rows), NEW r \in rows
    PROVE  Position(list, rows, r) \in 0 .. Cardinality(rows) - 1
<1> DEFINE before == {q \in rows : Precedes(list, q, r)}
<1>1. ~ Precedes(list, r, r)
  BY ListOrder DEF Keyed
<1>2. before \in SUBSET rows /\ before # rows
  BY <1>1
<1>3. Cardinality(rows) \in Nat /\ IsFiniteSet(rows)
  BY FS_CardinalityType DEF Keyed
<1>4. IsFiniteSet(before) /\ Cardinality(before) <= Cardinality(rows)
      /\ Cardinality(before) # Cardinality(rows)
  BY <1>2, <1>3, FS_Subset
<1>5. Cardinality(before) \in Nat
  BY <1>4, FS_CardinalityType
<1>6. Position(list, rows, r) = Cardinality(before)
  BY DEF Position
<1> HIDE DEF before
<1> QED BY <1>3, <1>4, <1>5, <1>6

LEMMA PositionGrows ==
    ASSUME NEW list, NEW rows, Keyed(rows), NEW r \in rows, NEW q \in rows,
           Precedes(list, r, q)
    PROVE  Position(list, rows, r) < Position(list, rows, q)
<1> DEFINE before(x) == {p \in rows : Precedes(list, p, x)}
<1>1. r \in before(q) /\ r \notin before(r)
  BY ListOrder DEF Keyed
<1>2. before(r) \in SUBSET before(q)
  <2> SUFFICES ASSUME NEW p \in rows, Precedes(list, p, r)
               PROVE  Precedes(list, p, q)
    OBVIOUS
  <2>1. p \in Row /\ q \in Row /\ r \in Row
    BY DEF Keyed
  <2> QED BY <2>1, ListTransitive
<1>3. IsFiniteSet(before(q))
  <2>1. before(q) \in SUBSET rows
    OBVIOUS
  <2> QED BY <2>1, FS_Subset DEF Keyed
<1>4. before(r) # before(q)
  BY <1>1
<1>5. /\ Position(list, rows, r) = Cardinality(before(r))
      /\ Position(list, rows, q) = Cardinality(before(q))
  BY DEF Position
<1> HIDE DEF before
<1>6. Cardinality(before(r)) <= Cardinality(before(q))
      /\ Cardinality(before(r)) # Cardinality(before(q)) /\ IsFiniteSet(before(r))
  BY <1>2, <1>3, <1>4, FS_Subset
<1>7. Cardinality(before(r)) \in Nat /\ Cardinality(before(q)) \in Nat
  BY <1>3, <1>6, FS_CardinalityType
<1> QED BY <1>5, <1>6, <1>7

\* Two rows with one position are one row; each position is one row's.
LEMMA PositionsOnce ==
    ASSUME NEW list, NEW rows, Keyed(rows), NEW r \in rows, NEW q \in rows,
           Position(list, rows, r) = Position(list, rows, q)
    PROVE  r = q
<1>1. r \in Row /\ q \in Row
  BY DEF Keyed
<1>2. Position(list, rows, r) \in Int /\ Position(list, rows, q) \in Int
  BY PositionIsNat
<1>3. ~ Precedes(list, r, q) /\ ~ Precedes(list, q, r)
  BY <1>2, PositionGrows
<1>4. r.rank = q.rank
  BY <1>1, <1>3, ListOrder
<1> QED BY <1>4 DEF Keyed

LEMMA PositionsAll ==
    ASSUME NEW list, NEW rows, Keyed(rows), NEW n \in 0 .. Cardinality(rows) - 1
    PROVE  \E r \in rows : Position(list, rows, r) = n
<1> DEFINE last == Cardinality(rows) - 1
           position == [r \in rows |-> Position(list, rows, r)]
<1>1. Cardinality(rows) \in Nat
  BY FS_CardinalityType DEF Keyed
<1>2. position \in [rows -> 0 .. last]
  BY PositionIsNat
<1>3. \A r, q \in rows : position[r] = position[q] => r = q
  BY PositionsOnce
<1>4. position \in Injection(rows, 0 .. last)
  BY <1>2, <1>3 DEF Injection, IsInjective
<1>5. last \in Int /\ last = Cardinality(rows) - 1 /\ last >= -1
  BY <1>1
<1> HIDE DEF last
<1>6. IsFiniteSet(0 .. last) /\ Cardinality(0 .. last) = Cardinality(rows)
  <2>1. 0 \in Int /\ last \in Int
    BY <1>5
  <2>2. /\ IsFiniteSet(0 .. last)
        /\ Cardinality(0 .. last) = IF 0 > last THEN 0 ELSE last - 0 + 1
    BY <2>1, FS_Interval
  <2> QED BY <1>1, <1>5, <2>2
<1>7. position \in Surjection(rows, 0 .. last)
  BY <1>4, <1>6, FS_Injection
<1>8. \E r \in rows : position[r] = n
  BY <1>7 DEF Surjection, last
<1> QED BY <1>8

\* InOrder lists each row once, in order.
LEMMA InOrderIsSorted ==
    ASSUME NEW list, NEW rows, Keyed(rows)
    PROVE  /\ Cardinality(rows) \in Nat
           /\ \A i \in 1 .. Cardinality(rows) : InOrder(list, rows)[i] \in rows
           /\ \A i, j \in 1 .. Cardinality(rows) :
                i < j => Precedes(list, InOrder(list, rows)[i], InOrder(list, rows)[j])
           /\ \A r \in rows : \E i \in 1 .. Cardinality(rows) : InOrder(list, rows)[i] = r
<1> DEFINE n == Cardinality(rows)
           sorted == InOrder(list, rows)
<1>1. n \in Nat
  BY FS_CardinalityType DEF Keyed
<1>2. ASSUME NEW i \in 1 .. n
      PROVE  sorted[i] \in rows /\ Position(list, rows, sorted[i]) = i - 1
  <2>1. i - 1 \in 0 .. n - 1
    BY <1>1
  <2>2. \E r \in rows : Position(list, rows, r) = i - 1
    BY <2>1, PositionsAll
  <2>3. sorted[i] = CHOOSE r \in rows : Position(list, rows, r) = i - 1
    BY DEF InOrder
  <2> QED BY <2>2, <2>3
<1>3. ASSUME NEW i \in 1 .. n, NEW j \in 1 .. n, i < j
      PROVE  Precedes(list, sorted[i], sorted[j])
  <2> DEFINE r == sorted[i]
             q == sorted[j]
  <2>1. /\ r \in rows /\ q \in rows
        /\ Position(list, rows, r) = i - 1 /\ Position(list, rows, q) = j - 1
    BY <1>2
  <2> HIDE DEF r, q
  <2>2. ~ Precedes(list, q, r)
    BY <1>1, <1>3, <2>1, PositionGrows
  <2>3. r # q
    BY <1>1, <1>3, <2>1
  <2>4. r.rank # q.rank /\ r \in Row /\ q \in Row
    BY <2>1, <2>3 DEF Keyed
  <2>5. Precedes(list, r, q)
    BY <2>2, <2>4, ListOrder
  <2> QED BY <2>5 DEF r, q
<1>4. ASSUME NEW r \in rows
      PROVE  \E i \in 1 .. n : sorted[i] = r
  <2> DEFINE i == Position(list, rows, r) + 1
  <2>1. i \in 1 .. n /\ Position(list, rows, r) = i - 1
    BY <1>1, PositionIsNat
  <2> HIDE DEF i
  <2>2. sorted[i] \in rows /\ Position(list, rows, sorted[i]) = Position(list, rows, r)
    BY <1>2, <2>1
  <2>3. sorted[i] = r
    BY <2>2, PositionsOnce
  <2> QED BY <2>1, <2>3
<1> HIDE DEF sorted
<1> QED BY <1>1, <1>2, <1>3, <1>4 DEF sorted

-----------------------------------------------------------------------------
(***************************************************************************)
(* Pages.                                                                  *)
(***************************************************************************)
\* A page is sorted, has rows of the list only, and every row that it leaves
\* out comes after its last one; if it leaves one out it has PageLimit rows.
LEMMA PageIsFirst ==
    ASSUME NEW list, NEW rest, Keyed(rest)
    PROVE  LET page == Page(list, rest)
           IN  /\ page \in Seq(Row)
               /\ Cardinality(rest) \in Nat
               /\ Cardinality(rest) > PageLimit => Len(page) > 0
               /\ \A i \in 1 .. Len(page) : page[i] \in rest
               /\ \A i, j \in 1 .. Len(page) : i < j => Precedes(list, page[i], page[j])
               /\ \A r \in rest :
                    \/ \E i \in 1 .. Len(page) : page[i] = r
                    \/ Cardinality(rest) > PageLimit /\ Precedes(list, page[Len(page)], r)
<1> DEFINE n == Cardinality(rest)
           sorted == InOrder(list, rest)
           m == IF n > PageLimit THEN PageLimit ELSE n
           page == Page(list, rest)
<1>1. /\ n \in Nat
      /\ \A i \in 1 .. n : sorted[i] \in rest
      /\ \A i, j \in 1 .. n : i < j => Precedes(list, sorted[i], sorted[j])
      /\ \A r \in rest : \E i \in 1 .. n : sorted[i] = r
  BY InOrderIsSorted
<1>2. PageLimit \in Nat /\ PageLimit >= 1
  BY LimitAssumption
<1>3. page = SubSeq(sorted, 1, m)
  BY DEF Page
<1>4. rest \in SUBSET Row
  BY DEF Keyed
<1> HIDE DEF n, sorted, page
<1>5. m \in Nat /\ m <= n /\ (n <= PageLimit => m = n) /\ (n > PageLimit => m >= 1)
  BY <1>1, <1>2
<1> HIDE DEF m
<1>6. \A i \in 1 .. m : sorted[i] \in Row
  BY <1>1, <1>4, <1>5
<1>7. /\ page \in Seq(Row)
      /\ Len(page) = m
      /\ \A i \in 1 .. m : page[i] = sorted[i]
  <2>1. /\ SubSeq(sorted, 1, m) \in Seq(Row)
        /\ Len(SubSeq(sorted, 1, m)) = IF 1 <= m THEN m - 1 + 1 ELSE 0
        /\ \A i \in 1 .. m - 1 + 1 : SubSeq(sorted, 1, m)[i] = sorted[1 + i - 1]
    BY <1>5, <1>6, SubSeqProperties
  <2> QED BY <1>3, <1>5, <2>1
<1>8. \A i \in 1 .. m : page[i] \in rest
  BY <1>1, <1>5, <1>7
<1>9. \A i, j \in 1 .. m : i < j => Precedes(list, page[i], page[j])
  BY <1>1, <1>5, <1>7
<1>10. ASSUME NEW r \in rest
       PROVE  \/ \E i \in 1 .. m : page[i] = r
              \/ n > PageLimit /\ Precedes(list, page[m], r)
  <2>1. PICK i \in 1 .. n : sorted[i] = r
    BY <1>1
  <2>2. CASE i <= m
    BY <1>5, <1>7, <2>1, <2>2
  <2>3. CASE i > m
    <3>1. n > PageLimit /\ m >= 1
      BY <1>1, <1>2, <1>5, <2>1, <2>3
    <3>2. Precedes(list, sorted[m], sorted[i]) /\ page[m] = sorted[m]
      BY <1>1, <1>5, <1>7, <2>1, <2>3, <3>1
    <3> QED BY <2>1, <3>1, <3>2
  <2> QED BY <1>1, <1>5, <2>1, <2>2, <2>3
<1> QED BY <1>1, <1>5, <1>7, <1>8, <1>9, <1>10 DEF n, page

\* Rows in the order of a list.
Ascends(list, shown) ==
    \A j \in DOMAIN shown : \A i \in 1 .. j - 1 : Precedes(list, shown[i], shown[j])

\* A row of this rank is among them.
HasRank(shown, rank) == \E i \in DOMAIN shown : shown[i].rank = rank

\* What one more page adds to what was shown: order is kept, what was shown
\* stays, and a row that is left is shown or comes after the last one.
LEMMA PageAppended ==
    ASSUME NEW list, NEW shown \in Seq(Row), NEW rest, Keyed(rest)
    PROVE  LET all == shown \o Page(list, rest)
           IN  /\ all \in Seq(Row)
               /\ Len(shown) > 0 /\ Ascends(list, shown)
                    /\ (\A r \in rest : Precedes(list, shown[Len(shown)], r))
                  => Ascends(list, all)
               /\ shown = <<>> => Ascends(list, all)
               /\ \A rank : HasRank(shown, rank) => HasRank(all, rank)
               /\ \A i \in DOMAIN all : (\E j \in DOMAIN shown : all[i] = shown[j]) \/ all[i] \in rest
               /\ \A r \in rest :
                    \/ HasRank(all, r.rank)
                    \/ Cardinality(rest) > PageLimit /\ Precedes(list, all[Len(all)], r)
               /\ Cardinality(rest) > PageLimit =>
                    /\ Len(all) > 0 /\ Len(Page(list, rest)) > 0
                    /\ all[Len(all)] = Page(list, rest)[Len(Page(list, rest))]
                    /\ all[Len(all)] \in rest
<1> DEFINE page == Page(list, rest)
           all == shown \o page
           n == Len(shown)
           m == Len(page)
<1>1. /\ page \in Seq(Row)
      /\ Cardinality(rest) > PageLimit => m > 0
      /\ \A i \in 1 .. m : page[i] \in rest
      /\ \A i, j \in 1 .. m : i < j => Precedes(list, page[i], page[j])
      /\ \A r \in rest :
            \/ \E i \in 1 .. m : page[i] = r
            \/ Cardinality(rest) > PageLimit /\ Precedes(list, page[m], r)
  BY PageIsFirst
<1> HIDE DEF page
<1>2. /\ n \in Nat /\ m \in Nat
      /\ DOMAIN shown = 1 .. n
      /\ \A i \in 1 .. n : shown[i] \in Row
  BY <1>1, LenProperties
<1>3. /\ all \in Seq(Row)
      /\ Len(all) = n + m
      /\ \A i \in 1 .. n + m : all[i] = IF i <= n THEN shown[i] ELSE page[i - n]
  BY <1>1, ConcatProperties
<1>4. DOMAIN all = 1 .. n + m
  BY <1>3, LenProperties
<1> HIDE DEF all, n, m
<1>5. /\ \A i \in 1 .. n : all[i] = shown[i]
      /\ \A i \in 1 .. m : all[n + i] = page[i] /\ n + i \in 1 .. n + m
  BY <1>2, <1>3
<1>6. ASSUME n > 0 => Ascends(list, shown) /\ (\A r \in rest : Precedes(list, shown[n], r))
      PROVE  Ascends(list, all)
  <2> SUFFICES ASSUME NEW j \in 1 .. n + m, NEW i \in 1 .. j - 1
               PROVE  Precedes(list, all[i], all[j])
    BY <1>4 DEF Ascends
  <2>1. i \in Int /\ j \in Int /\ i < j /\ 1 <= i /\ j <= n + m
    BY <1>2
  <2>2. CASE j <= n
    <3>1. j \in DOMAIN shown /\ n > 0 /\ i \in 1 .. j - 1 /\ all[i] = shown[i] /\ all[j] = shown[j]
      BY <1>2, <1>5, <2>1, <2>2
    <3> QED BY <1>6, <3>1 DEF Ascends
  <2>3. CASE i > n
    <3>1. /\ i - n \in 1 .. m /\ j - n \in 1 .. m /\ i - n < j - n
          /\ all[i] = page[i - n] /\ all[j] = page[j - n]
      BY <1>2, <1>3, <2>1, <2>3
    <3> QED BY <1>1, <3>1
  <2>4. CASE i <= n /\ j > n
    <3>1. /\ j - n \in 1 .. m /\ i \in 1 .. n /\ n > 0 /\ n \in 1 .. n
          /\ all[i] = shown[i] /\ all[j] = page[j - n]
      BY <1>2, <1>3, <2>1, <2>4
    <3>2. page[j - n] \in rest
      BY <1>1, <3>1
    <3>3. Precedes(list, shown[n], page[j - n])
      BY <1>6, <3>1, <3>2
    <3>4. shown[i] \in Row /\ shown[n] \in Row /\ page[j - n] \in Row
      BY <1>2, <3>1, <3>2 DEF Keyed
    <3>5. i = n \/ Precedes(list, shown[i], shown[n])
      <4>1. i # n => n \in DOMAIN shown /\ i \in 1 .. n - 1
        BY <1>2, <3>1
      <4> QED BY <1>6, <3>1, <4>1 DEF Ascends
    <3> QED BY <3>1, <3>3, <3>4, <3>5, ListTransitive
  <2> QED BY <1>2, <2>1, <2>2, <2>3, <2>4
<1>7. \A rank : HasRank(shown, rank) => HasRank(all, rank)
  <2>1. \A i \in DOMAIN shown : i \in DOMAIN all /\ all[i] = shown[i]
    BY <1>2, <1>4, <1>5
  <2> QED BY <2>1 DEF HasRank
<1>8. \A i \in DOMAIN all : (\E j \in DOMAIN shown : all[i] = shown[j]) \/ all[i] \in rest
  <2> SUFFICES ASSUME NEW i \in 1 .. n + m
               PROVE  (\E j \in DOMAIN shown : all[i] = shown[j]) \/ all[i] \in rest
    BY <1>4
  <2>1. CASE i <= n
    BY <1>2, <1>3, <2>1
  <2>2. CASE i > n
    <3>1. i - n \in 1 .. m /\ all[i] = page[i - n]
      BY <1>2, <1>3, <2>2
    <3> QED BY <1>1, <3>1
  <2> QED BY <1>2, <2>1, <2>2
<1>9. m > 0 => all[Len(all)] = page[m] /\ m \in 1 .. m
  BY <1>2, <1>3, <1>5
<1>10. ASSUME NEW r \in rest
       PROVE  \/ HasRank(all, r.rank)
              \/ Cardinality(rest) > PageLimit /\ Precedes(list, all[Len(all)], r)
  <2>1. CASE \E i \in 1 .. m : page[i] = r
    <3>1. PICK i \in 1 .. m : page[i] = r
      BY <2>1
    <3>2. n + i \in DOMAIN all /\ all[n + i] = r
      BY <1>4, <1>5, <3>1
    <3> QED BY <3>2 DEF HasRank
  <2>2. CASE Cardinality(rest) > PageLimit /\ Precedes(list, page[m], r)
    BY <1>1, <1>9, <2>2
  <2> QED BY <1>1, <2>1, <2>2
<1>11. shown = <<>> => n = 0
  BY EmptySeq DEF n
<1>12. Cardinality(rest) > PageLimit => m > 0 /\ Len(all) > 0 /\ all[Len(all)] \in rest
  BY <1>1, <1>2, <1>3, <1>9
<1> QED BY <1>1, <1>3, <1>6, <1>7, <1>8, <1>9, <1>10, <1>11, <1>12, <1>2 DEF all, n, m, page

-----------------------------------------------------------------------------
(***************************************************************************)
(* The rows of a list.                                                     *)
(***************************************************************************)
LEMMA EventFields ==
    \A e \in Event :
        /\ e.id \in Nat /\ e.id > 0 /\ e.at \in Nat /\ e.session \in Session
        /\ e.body.kind = "span" => e.body.order \in Nat /\ e.body.order > 0
<1> SUFFICES ASSUME NEW e \in Event
             PROVE  /\ e.id \in Nat /\ e.id > 0 /\ e.at \in Nat /\ e.session \in Session
                    /\ e.body.kind = "span" => e.body.order \in Nat /\ e.body.order > 0
  OBVIOUS
<1>1. e \in EventRecord
  BY EventsAreRecords
<1>2. e.id \in Nat /\ e.at \in Nat /\ e.session \in Session
      /\ e.body \in RolloutBody \cup SpanBody \cup OtherBody
  BY <1>1 DEF EventRecord
<1>3. e.id > 0
  BY IdAssumption
<1>4. ASSUME e.body.kind = "span"
      PROVE  e.body.order \in Nat /\ e.body.order > 0
  <2>1. e.body \notin RolloutBody /\ e.body \notin OtherBody
    BY <1>4 DEF RolloutBody, RolloutKinds, OtherBody
  <2>2. e.body \in SpanBody
    BY <1>2, <2>1
  <2> QED BY <1>4, <2>2, SpanAssumption DEF SpanBody
<1> QED BY <1>2, <1>3, <1>4

\* EventRow keeps the order, and tells events apart.
LEMMA EventRows ==
    /\ \A e \in Event : EventRow(e) \in Row /\ EventRow(e).rank = e.id /\ EventRow(e) # NoRow
    /\ \A e, f \in Event : e.id = f.id => e = f
    /\ \A e, f \in Event : StoreBefore(e, f) <=> KeyBefore(EventRow(e), EventRow(f))
<1>1. \A e \in Event : EventRow(e) \in Row /\ EventRow(e).rank = e.id /\ EventRow(e) # NoRow
  BY EventFields DEF EventRow, Row, NoRow
<1>2. \A e, f \in Event : e.id = f.id => e = f
  BY IdAssumption DEF UniqueIds
<1>3. \A e, f \in Event : StoreBefore(e, f) <=> KeyBefore(EventRow(e), EventRow(f))
  BY DEF EventRow, StoreBefore, KeyBefore
<1> QED BY <1>1, <1>2, <1>3

\* Of some rows one comes first.
LEMMA FirstRow ==
    ASSUME NEW list, NEW rows, Keyed(rows), rows # {}
    PROVE  \E r \in rows : \A q \in rows \ {r} : Precedes(list, r, q)
<1>1. PICK x \in rows : TRUE
  OBVIOUS
<1>2. Position(list, rows, x) \in 0 .. Cardinality(rows) - 1
  BY PositionIsNat
<1>3. Cardinality(rows) \in Nat
  BY FS_CardinalityType DEF Keyed
<1>4. 0 \in 0 .. Cardinality(rows) - 1
  BY <1>2, <1>3
<1>5. PICK r \in rows : Position(list, rows, r) = 0
  BY <1>4, PositionsAll
<1>6. ASSUME NEW q \in rows \ {r}
      PROVE  Precedes(list, r, q)
  <2>1. Position(list, rows, q) \in Nat
    BY <1>3, PositionIsNat
  <2>2. ~ Precedes(list, q, r)
    BY <1>5, <2>1, PositionGrows
  <2>3. q \in Row /\ r \in Row /\ q.rank # r.rank
    BY <1>6 DEF Keyed
  <2> QED BY <2>2, <2>3, ListOrder
<1> QED BY <1>6

\* The rows of some events.
RowsOfEvents(evs) == {EventRow(e) : e \in evs}

LEMMA RowsOfEventsKeyed ==
    ASSUME NEW evs \in SUBSET Event, IsFiniteSet(evs)
    PROVE  Keyed(RowsOfEvents(evs)) /\ \A r \in RowsOfEvents(evs) : r # NoRow
<1> DEFINE row == [e \in evs |-> EventRow(e)]
<1>1. row \in Surjection(evs, RowsOfEvents(evs))
  BY DEF Surjection, RowsOfEvents
<1>2. IsFiniteSet(RowsOfEvents(evs))
  BY <1>1, FS_Surjection
<1>3. RowsOfEvents(evs) \in SUBSET Row
  BY EventRows DEF RowsOfEvents
<1>4. \A r, q \in RowsOfEvents(evs) : r.rank = q.rank => r = q
  BY EventRows DEF RowsOfEvents
<1>5. \A r \in RowsOfEvents(evs) : r # NoRow
  BY EventRows DEF RowsOfEvents
<1> QED BY <1>2, <1>3, <1>4, <1>5 DEF Keyed

LEMMA StoreFirstIsFirst ==
    ASSUME NEW evs \in SUBSET Event, IsFiniteSet(evs), evs # {}
    PROVE  /\ StoreFirst(evs) \in evs
           /\ \A f \in evs \ {StoreFirst(evs)} : StoreBefore(StoreFirst(evs), f)
<1>1. Keyed(RowsOfEvents(evs)) /\ RowsOfEvents(evs) # {}
  BY RowsOfEventsKeyed DEF RowsOfEvents
<1>2. PICK r \in RowsOfEvents(evs) : \A q \in RowsOfEvents(evs) \ {r} : Precedes("events", r, q)
  BY <1>1, FirstRow
<1>3. PICK e \in evs : r = EventRow(e)
  BY DEF RowsOfEvents
<1>4. ASSUME NEW f \in evs \ {e}
      PROVE  StoreBefore(e, f)
  <2>1. EventRow(f) \in RowsOfEvents(evs) \ {r}
    BY <1>3, <1>4, EventRows DEF RowsOfEvents
  <2> QED BY <1>2, <1>3, <2>1, EventRows DEF Precedes
<1> QED BY <1>4 DEF StoreFirst

LEMMA StoreLastIsLast ==
    ASSUME NEW evs \in SUBSET Event, IsFiniteSet(evs), evs # {}
    PROVE  /\ StoreLast(evs) \in evs
           /\ \A f \in evs \ {StoreLast(evs)} : StoreBefore(f, StoreLast(evs))
<1>1. Keyed(RowsOfEvents(evs)) /\ RowsOfEvents(evs) # {}
  BY RowsOfEventsKeyed DEF RowsOfEvents
<1>2. PICK r \in RowsOfEvents(evs) : \A q \in RowsOfEvents(evs) \ {r} : Precedes("sessions", r, q)
  BY <1>1, FirstRow
<1>3. PICK e \in evs : r = EventRow(e)
  BY DEF RowsOfEvents
<1>4. ASSUME NEW f \in evs \ {e}
      PROVE  StoreBefore(f, e)
  <2>1. EventRow(f) \in RowsOfEvents(evs) \ {r}
    BY <1>3, <1>4, EventRows DEF RowsOfEvents
  <2> QED BY <1>2, <1>3, <2>1, EventRows DEF Precedes
<1> QED BY <1>4 DEF StoreLast

LEMMA SessionRowType ==
    ASSUME NEW evs \in SUBSET Event, IsFiniteSet(evs), NEW t \in SessionIds(evs)
    PROVE  /\ t \in Session
           /\ SessionRow(evs, t) \in Row
           /\ SessionRow(evs, t).rank = SessionRank[t]
           /\ SessionRow(evs, t) # NoRow
<1>1. PICK e \in evs : e.session = t
  BY DEF SessionIds
<1>2. t \in Session
  BY <1>1, EventFields
<1>3. SessionEvents(evs, t) \in SUBSET evs /\ SessionEvents(evs, t) # {}
  BY <1>1 DEF SessionEvents
<1>4. IsFiniteSet(SessionEvents(evs, t))
  BY <1>3, FS_Subset
<1>5. StoreFirst(SessionEvents(evs, t)) \in Event
  BY <1>3, <1>4, StoreFirstIsFirst
<1>6. SessionRank[t] \in Nat /\ SessionRank[t] > 0
  BY <1>2, RankAssumption
<1> QED BY <1>2, <1>5, <1>6, EventFields DEF SessionRow, Row, NoRow

\* A session that gets older events moves down its list, never up.
LEMMA SessionRowMoves ==
    ASSUME NEW evs \in SUBSET Event, IsFiniteSet(evs), NEW more \in SUBSET Event,
           IsFiniteSet(more), evs \subseteq more, NEW t \in SessionIds(evs),
           NEW r \in Row, Precedes("sessions", r, SessionRow(evs, t))
    PROVE  Precedes("sessions", r, SessionRow(more, t))
<1> DEFINE old == StoreFirst(SessionEvents(evs, t))
           new == StoreFirst(SessionEvents(more, t))
<1>1. PICK e \in evs : e.session = t
  BY DEF SessionIds
<1>2. /\ SessionEvents(evs, t) \in SUBSET evs /\ SessionEvents(evs, t) # {}
      /\ SessionEvents(more, t) \in SUBSET more /\ SessionEvents(more, t) # {}
      /\ SessionEvents(evs, t) \subseteq SessionEvents(more, t)
  BY <1>1 DEF SessionEvents
<1>3. IsFiniteSet(SessionEvents(evs, t)) /\ IsFiniteSet(SessionEvents(more, t))
  BY <1>2, FS_Subset
<1>4. old \in SessionEvents(evs, t) /\ old \in Event
  BY <1>2, <1>3, StoreFirstIsFirst
<1>5. new \in Event /\ \A f \in SessionEvents(more, t) \ {new} : StoreBefore(new, f)
  BY <1>2, <1>3, StoreFirstIsFirst
<1> HIDE DEF old, new
<1>6. old = new \/ StoreBefore(new, old)
  BY <1>2, <1>4, <1>5
<1>7. TextRank(new.at) \in Int /\ TextRank(old.at) \in Int /\ TextRank(r.at) \in Int
  BY <1>4, <1>5, EventFields, TextRankType DEF Row
<1>8. TextRank(new.at) <= TextRank(old.at)
  BY <1>6, <1>7 DEF StoreBefore
<1>9. /\ SessionRow(evs, t).at = old.at /\ SessionRow(evs, t).rank = SessionRank[t]
      /\ SessionRow(more, t).at = new.at /\ SessionRow(more, t).rank = SessionRank[t]
  BY DEF SessionRow, old, new
<1>10. KeyBefore(SessionRow(evs, t), r)
  BY DEF Precedes
<1>11. KeyBefore(SessionRow(more, t), r)
  BY <1>7, <1>8, <1>9, <1>10 DEF KeyBefore
<1> QED BY <1>11 DEF Precedes

\* The rows of every list but the sessions', as a function of its events.
LEMMA SpanRowsKeyed ==
    ASSUME NEW evs \in SUBSET Event, IsFiniteSet(evs), NEW s,
           \A e \in evs : e.session = s
    PROVE  Keyed(SpanRows(evs)) /\ \A r \in SpanRows(evs) : r # NoRow
<1> DEFINE spans == {e \in evs : e.body.kind = "span"}
           row == [e \in spans |-> [at |-> e.at, rank |-> e.body.order]]
<1>1. spans \in SUBSET evs
  OBVIOUS
<1>2. IsFiniteSet(spans)
  BY <1>1, FS_Subset
<1>3. row \in Surjection(spans, SpanRows(evs))
  BY DEF Surjection, SpanRows
<1>4. IsFiniteSet(SpanRows(evs))
  BY <1>2, <1>3, FS_Surjection
<1>5. \A r \in SpanRows(evs) : r \in Row /\ r # NoRow
  BY EventFields DEF SpanRows, Row, NoRow
<1>6. \A r, q \in SpanRows(evs) : r.rank = q.rank => r = q
  <2> SUFFICES ASSUME NEW e \in evs, NEW f \in evs, e.body.kind = "span", f.body.kind = "span",
                      e.body.order = f.body.order
               PROVE  e.at = f.at
    BY DEF SpanRows
  <2> QED BY SpanAssumption
<1> QED BY <1>4, <1>5, <1>6 DEF Keyed

LEMMA RowsKeyed ==
    ASSUME NEW evs \in SUBSET Event, IsFiniteSet(evs), NEW list \in Lists, NEW s
    PROVE  Keyed(Rows(list, evs, s)) /\ \A r \in Rows(list, evs, s) : r # NoRow
<1>1. SessionEvents(evs, s) \in SUBSET evs /\ \A e \in SessionEvents(evs, s) : e.session = s
  BY DEF SessionEvents
<1>2. IsFiniteSet(SessionEvents(evs, s)) /\ SessionEvents(evs, s) \in SUBSET Event
  BY <1>1, FS_Subset
<1>3. CASE list = "sessions"
  <2>1. Rows(list, evs, s) = {SessionRow(evs, t) : t \in SessionIds(evs)}
    BY <1>3 DEF Rows
  <2> DEFINE row == [t \in SessionIds(evs) |-> SessionRow(evs, t)]
             id == [e \in evs |-> e.session]
  <2>2. id \in Surjection(evs, SessionIds(evs))
    BY DEF Surjection, SessionIds
  <2>3. IsFiniteSet(SessionIds(evs))
    BY <2>2, FS_Surjection
  <2>4. row \in Surjection(SessionIds(evs), Rows(list, evs, s))
    BY <2>1 DEF Surjection
  <2>5. IsFiniteSet(Rows(list, evs, s))
    BY <2>3, <2>4, FS_Surjection
  <2>6. \A r \in Rows(list, evs, s) : r \in Row /\ r # NoRow
    BY <2>1, SessionRowType
  <2>7. \A r, q \in Rows(list, evs, s) : r.rank = q.rank => r = q
    <3> SUFFICES ASSUME NEW t \in SessionIds(evs), NEW u \in SessionIds(evs),
                        SessionRow(evs, t).rank = SessionRow(evs, u).rank
                 PROVE  SessionRow(evs, t) = SessionRow(evs, u)
      BY <2>1
    <3>1. t \in Session /\ u \in Session /\ SessionRank[t] = SessionRank[u]
      BY SessionRowType
    <3> QED BY <3>1, RankAssumption
  <2> QED BY <2>5, <2>6, <2>7 DEF Keyed
<1>4. CASE list = "events"
  <2>1. Rows(list, evs, s) = RowsOfEvents(SessionEvents(evs, s))
    BY <1>4 DEF Rows, RowsOfEvents
  <2> QED BY <1>2, <2>1, RowsOfEventsKeyed
<1>5. CASE list = "spans"
  <2>1. Rows(list, evs, s) = SpanRows(SessionEvents(evs, s))
    BY <1>5 DEF Rows
  <2> QED BY <1>1, <1>2, <2>1, SpanRowsKeyed
<1>6. CASE list \notin {"sessions", "events", "spans"}
  <2>1. Rows(list, evs, s) = RowsOfEvents(SessionEvents(evs, s) \cap Content)
    BY <1>6 DEF Rows, RowsOfEvents
  <2>2. SessionEvents(evs, s) \cap Content \in SUBSET SessionEvents(evs, s)
    OBVIOUS
  <2>3. IsFiniteSet(SessionEvents(evs, s) \cap Content)
    BY <1>2, <2>2, FS_Subset
  <2> QED BY <1>2, <2>1, <2>2, <2>3, RowsOfEventsKeyed
<1> QED BY <1>3, <1>4, <1>5, <1>6

\* More events, more rows; a session's rows depend on its events alone.
LEMMA RowsGrow ==
    ASSUME NEW evs, NEW more, NEW list, list # "sessions", NEW s,
           SessionEvents(evs, s) \subseteq SessionEvents(more, s)
    PROVE  Rows(list, evs, s) \subseteq Rows(list, more, s)
<1>1. CASE list = "events"
  BY <1>1 DEF Rows
<1>2. CASE list = "spans"
  <2>1. SpanRows(SessionEvents(evs, s)) \subseteq SpanRows(SessionEvents(more, s))
    BY DEF SpanRows
  <2> QED BY <1>2, <2>1 DEF Rows
<1>3. CASE list \notin {"events", "spans"}
  BY <1>3 DEF Rows
<1> QED BY <1>1, <1>2, <1>3

LEMMA NoEventsNoRows ==
    ASSUME NEW evs, NEW list, list # "sessions", NEW s, SessionEvents(evs, s) = {}
    PROVE  Rows(list, evs, s) = {}
<1>1. CASE list = "events"
  BY <1>1 DEF Rows
<1>2. CASE list = "spans"
  <2>1. SpanRows({}) = {}
    BY DEF SpanRows
  <2> QED BY <1>2, <2>1 DEF Rows
<1>3. CASE list \notin {"events", "spans"}
  BY <1>3 DEF Rows
<1> QED BY <1>1, <1>2, <1>3

-----------------------------------------------------------------------------
(***************************************************************************)
(* The inductive invariant.  Its parts are functions of the walk w, the    *)
(* events evs and those that were there all the time, st.                  *)
(***************************************************************************)
\* The lists that are paged by key, in one statement.
ByKey == {"sessions", "events"}

Underway(w) == w.phase \in {"asking", "reading"}

\* Unread, of any walk but the dashboard's.
Later(w, evs) ==
    {e \in SessionEvents(evs, w.session) : w.part = NoRow \/ KeyBefore(w.part, EventRow(e))}

\* What the request that reads in parts will have read when it is done, if
\* nothing changes.
Reach(w, evs) == w.read \cup Later(w, evs)

\* The cursor is the last row shown.
CursorIsLast(w) ==
    Underway(w) =>
        IF w.cursor = NoRow THEN w.shown = <<>>
        ELSE Len(w.shown) > 0 /\ w.cursor = w.shown[Len(w.shown)]

\* Until its session is deleted, a request reads all events that were there
\* when the walk began, and those of every row the walk has shown.
ReadsAll(w, evs, st) ==
    (Underway(w) /\ w.list \notin ByKey /\ SessionEvents(st, w.session) # {}) =>
        /\ w.read \subseteq SessionEvents(evs, w.session)
        /\ SessionEvents(st, w.session) \subseteq Reach(w, evs)
        /\ \A i \in DOMAIN w.shown : w.shown[i] \in Rows(w.list, Reach(w, evs), w.session)

\* The rows the walk owes; a session is owed where it stands now.
Due(w, evs, st) ==
    IF w.list = "sessions" THEN {SessionRow(evs, t) : t \in SessionIds(st)}
    ELSE Rows(w.list, st, w.session)

\* Each of them was shown or comes after the cursor, and was shown at the end.
NoneIsPassed(w, evs, st) ==
    /\ (Underway(w) /\ w.cursor # NoRow) =>
            \A r \in Due(w, evs, st) : HasRank(w.shown, r.rank) \/ Precedes(w.list, w.cursor, r)
    /\ w.phase = "ended" => \A r \in Due(w, evs, st) : HasRank(w.shown, r.rank)

\* WalkInOrder, of any walk.
InOrderSoFar(w, st) ==
    Ascends(w.list, w.shown) \/ (w.list \notin ByKey /\ SessionEvents(st, w.session) = {})

Sound(w, evs, st) ==
    /\ w \in Walk /\ w.list \in List /\ IsFiniteSet(w.read)
    /\ w.phase # "reading" => w.read = {} /\ w.part = NoRow
    /\ CursorIsLast(w)
    /\ ReadsAll(w, evs, st)
    /\ NoneIsPassed(w, evs, st)
    /\ InOrderSoFar(w, st)

WalkInvariant ==
    /\ events \in SUBSET Event /\ IsFiniteSet(events)
    /\ deletes \in 0 .. MaxDeletes
    /\ steady \subseteq events
    /\ Sound(walk, events, steady)

LEMMA InvariantGivesProperties ==
    WalkInvariant => TypeOK /\ WalkMissesNothing /\ WalkInOrder
<1> SUFFICES ASSUME WalkInvariant
             PROVE  TypeOK /\ WalkMissesNothing /\ WalkInOrder
  OBVIOUS
<1>1. TypeOK
  BY DEF WalkInvariant, Sound, TypeOK
<1>2. WalkMissesNothing
  <2> SUFFICES ASSUME walk.phase = "ended", NEW r \in Rows(walk.list, steady, walk.session)
               PROVE  HasRank(walk.shown, r.rank)
    BY DEF WalkMissesNothing, HasRank
  <2>1. \A q \in Due(walk, events, steady) : HasRank(walk.shown, q.rank)
    BY DEF WalkInvariant, Sound, NoneIsPassed
  <2>2. CASE walk.list = "sessions"
    <3>1. PICK t \in SessionIds(steady) : r = SessionRow(steady, t)
      BY <2>2 DEF Rows
    <3>2. SessionRow(events, t) \in Due(walk, events, steady)
      BY <2>2, <3>1 DEF Due
    <3>3. r.rank = SessionRank[t] /\ SessionRow(events, t).rank = SessionRank[t]
      BY <3>1 DEF SessionRow
    <3> QED BY <2>1, <3>2, <3>3
  <2>3. CASE walk.list # "sessions"
    BY <2>1, <2>3 DEF Due
  <2> QED BY <2>2, <2>3
<1>3. WalkInOrder
  BY DEF WalkInvariant, Sound, InOrderSoFar, Ascends, WalkInOrder, ByKey
<1> QED BY <1>1, <1>2, <1>3

LEMMA BegunIsSound ==
    ASSUME NEW list \in List, NEW s \in Session, NEW evs \in SUBSET Event
    PROVE  Sound(Begun(list, s), evs, evs)
<1> DEFINE w == Begun(list, s)
<1>1. /\ w.list = list /\ w.session = s /\ w.phase = "asking" /\ w.cursor = NoRow
      /\ w.shown = <<>> /\ w.read = {} /\ w.part = NoRow
  BY DEF Begun
<1>2. w \in Walk
  BY ListAssumption DEF Begun, Walk, NoRow, Row
<1>3. DOMAIN w.shown = {}
  BY <1>1
<1>4. Reach(w, evs) = SessionEvents(evs, s)
  BY <1>1 DEF Reach, Later, SessionEvents
<1> HIDE DEF w
<1>5. CursorIsLast(w)
  BY <1>1 DEF CursorIsLast
<1>6. ReadsAll(w, evs, evs)
  BY <1>1, <1>3, <1>4 DEF ReadsAll
<1>7. NoneIsPassed(w, evs, evs)
  BY <1>1 DEF NoneIsPassed
<1>8. InOrderSoFar(w, evs)
  BY <1>3 DEF InOrderSoFar, Ascends
<1>9. Sound(w, evs, evs)
  BY <1>1, <1>2, <1>5, <1>6, <1>7, <1>8, FS_EmptySet DEF Sound
<1> QED BY <1>9 DEF w

LEMMA WalkInit == Init => WalkInvariant
<1> SUFFICES ASSUME Init
             PROVE  WalkInvariant
  OBVIOUS
<1>1. PICK list \in List, s \in Session : walk = [Begun(list, s) EXCEPT !.phase = "idle"]
  BY DEF Init
<1>2. /\ walk.list = list /\ walk.session = s /\ walk.phase = "idle"
      /\ walk.shown = <<>> /\ walk.read = {} /\ walk.part = NoRow
  BY <1>1 DEF Begun
<1>3. walk \in Walk
  <2>1. Begun(list, s) \in Walk
    BY ListAssumption DEF Begun, Walk, NoRow, Row
  <2> QED BY <1>1, <2>1 DEF Walk
<1>4. DOMAIN walk.shown = {}
  BY <1>2
<1>5. /\ CursorIsLast(walk) /\ ReadsAll(walk, events, steady)
      /\ NoneIsPassed(walk, events, steady)
  BY <1>2 DEF CursorIsLast, ReadsAll, NoneIsPassed, Underway
<1>6. InOrderSoFar(walk, steady)
  BY <1>4 DEF InOrderSoFar, Ascends
<1>7. events = {} /\ steady = {} /\ deletes = 0 /\ IsFiniteSet(events)
  BY FS_EmptySet DEF Init
<1> QED BY <1>2, <1>3, <1>5, <1>6, <1>7, LimitAssumption, FS_EmptySet DEF WalkInvariant, Sound

-----------------------------------------------------------------------------
(***************************************************************************)
(* What others do while a client walks.                                    *)
(***************************************************************************)
\* Events of the walk's session come and none of it goes: what is read only grows.
LEMMA ReachGrows ==
    ASSUME NEW w, NEW evs, NEW more,
           SessionEvents(evs, w.session) \subseteq SessionEvents(more, w.session)
    PROVE  Reach(w, evs) \subseteq Reach(w, more)
BY DEF Reach, Later

LEMMA SessionEventsOfPart ==
    ASSUME NEW evs, NEW more, NEW s, evs \subseteq more
    PROVE  SessionEvents(evs, s) \subseteq SessionEvents(more, s)
BY DEF SessionEvents

LEMMA ReadsAllWithMore ==
    ASSUME NEW w, NEW evs, NEW more, NEW st, ReadsAll(w, evs, st),
           SessionEvents(evs, w.session) \subseteq SessionEvents(more, w.session)
    PROVE  ReadsAll(w, more, st)
<1> SUFFICES ASSUME Underway(w), w.list \notin ByKey, SessionEvents(st, w.session) # {}
             PROVE  /\ w.read \subseteq SessionEvents(more, w.session)
                    /\ SessionEvents(st, w.session) \subseteq Reach(w, more)
                    /\ \A i \in DOMAIN w.shown :
                            w.shown[i] \in Rows(w.list, Reach(w, more), w.session)
  BY DEF ReadsAll
<1>1. Reach(w, evs) \subseteq Reach(w, more)
  BY ReachGrows
<1>2. Rows(w.list, Reach(w, evs), w.session) \subseteq Rows(w.list, Reach(w, more), w.session)
  BY <1>1, RowsGrow, SessionEventsOfPart DEF ByKey
<1> QED BY <1>1, <1>2 DEF ReadsAll

LEMMA IngestIsSound ==
    ASSUME NEW w, NEW evs \in SUBSET Event, IsFiniteSet(evs), NEW e \in Event,
           NEW st \in SUBSET evs, Sound(w, evs, st)
    PROVE  Sound(w, evs \cup {e}, st)
<1> DEFINE more == evs \cup {e}
<1>1. more \in SUBSET Event /\ evs \subseteq more /\ IsFiniteSet(more)
  BY FS_AddElement
<1> HIDE DEF more
<1>2. ReadsAll(w, more, st)
  BY <1>1, ReadsAllWithMore, SessionEventsOfPart DEF Sound
<1>3. NoneIsPassed(w, more, st)
  <2>1. CASE w.list = "sessions"
    <3>1. \A t \in SessionIds(st) : t \in SessionIds(evs)
      BY DEF SessionIds
    <3>2. /\ Due(w, evs, st) = {SessionRow(evs, t) : t \in SessionIds(st)}
          /\ Due(w, more, st) = {SessionRow(more, t) : t \in SessionIds(st)}
      BY <2>1 DEF Due
    <3>3. \A t : SessionRow(evs, t).rank = SessionRow(more, t).rank
      BY DEF SessionRow
    <3>4. w.cursor \in Row
      BY DEF Sound, Walk
    <3>5. ASSUME Underway(w), w.cursor # NoRow, NEW t \in SessionIds(st)
          PROVE  \/ HasRank(w.shown, SessionRow(more, t).rank)
                 \/ Precedes(w.list, w.cursor, SessionRow(more, t))
      <4>1. \/ HasRank(w.shown, SessionRow(evs, t).rank)
            \/ Precedes("sessions", w.cursor, SessionRow(evs, t))
        BY <2>1, <3>2, <3>5 DEF Sound, NoneIsPassed
      <4>2. CASE Precedes("sessions", w.cursor, SessionRow(evs, t))
        BY <1>1, <2>1, <3>1, <3>4, <3>5, <4>2, SessionRowMoves
      <4> QED BY <3>3, <4>1, <4>2
    <3>6. ASSUME w.phase = "ended", NEW t \in SessionIds(st)
          PROVE  HasRank(w.shown, SessionRow(more, t).rank)
      BY <3>2, <3>3, <3>6 DEF Sound, NoneIsPassed
    <3> QED BY <3>2, <3>5, <3>6 DEF NoneIsPassed
  <2>2. CASE w.list # "sessions"
    <3>1. Due(w, more, st) = Due(w, evs, st)
      BY <2>2 DEF Due
    <3> QED BY <3>1 DEF Sound, NoneIsPassed
  <2> QED BY <2>1, <2>2
<1>4. Sound(w, more, st)
  BY <1>2, <1>3 DEF Sound
<1> QED BY <1>4 DEF more

LEMMA DeletionIsSound ==
    ASSUME NEW w, NEW evs \in SUBSET Event, NEW s,
           NEW st \in SUBSET evs, Sound(w, evs, st)
    PROVE  LET rest == evs \ SessionEvents(evs, s)
           IN  Sound(w, rest, st \cap rest)
<1> DEFINE rest == evs \ SessionEvents(evs, s)
           left == st \cap rest
<1>1. \A t : t # s => SessionEvents(rest, t) = SessionEvents(evs, t)
  BY DEF SessionEvents
<1>2. \A t : t # s => SessionEvents(left, t) = SessionEvents(st, t)
  BY DEF SessionEvents
<1>3. SessionEvents(left, s) = {}
  BY DEF SessionEvents
<1>4. left \subseteq st
  OBVIOUS
<1>5. \A t \in SessionIds(left) : t \in SessionIds(st) /\ t # s
  BY DEF SessionIds, SessionEvents
<1> HIDE DEF rest, left
<1>6. ReadsAll(w, rest, left)
  <2>1. CASE w.session = s
    BY <1>3, <2>1 DEF ReadsAll
  <2>2. CASE w.session # s
    <3>1. SessionEvents(left, w.session) = SessionEvents(st, w.session)
      BY <1>2, <2>2
    <3>2. ReadsAll(w, rest, st)
      BY <1>1, <2>2, ReadsAllWithMore DEF Sound
    <3> QED BY <3>1, <3>2 DEF ReadsAll
  <2> QED BY <2>1, <2>2
<1>7. Due(w, rest, left) \subseteq Due(w, evs, st)
  <2>1. CASE w.list = "sessions"
    <3>1. \A t \in SessionIds(left) : SessionRow(rest, t) = SessionRow(evs, t)
      BY <1>1, <1>5 DEF SessionRow
    <3> QED BY <1>5, <2>1, <3>1 DEF Due
  <2>2. CASE w.list # "sessions"
    BY <1>4, <2>2, RowsGrow, SessionEventsOfPart DEF Due
  <2> QED BY <2>1, <2>2
<1>8. NoneIsPassed(w, rest, left)
  BY <1>7 DEF Sound, NoneIsPassed
<1>9. InOrderSoFar(w, left)
  <2>1. SessionEvents(left, w.session) \subseteq SessionEvents(st, w.session)
    BY <1>4, SessionEventsOfPart
  <2> QED BY <2>1 DEF Sound, InOrderSoFar
<1>10. Sound(w, rest, left)
  BY <1>6, <1>8, <1>9 DEF Sound
<1> QED BY <1>10 DEF rest, left

-----------------------------------------------------------------------------
(***************************************************************************)
(* The requests of the walk.                                               *)
(***************************************************************************)
LEMMA RequestIsSound ==
    ASSUME NEW w, NEW evs, NEW st, Sound(w, evs, st), w.phase = "asking",
           NEW phase \in {"reading", "refused"}
    PROVE  Sound([w EXCEPT !.phase = phase], evs, st)
<1> DEFINE w2 == [w EXCEPT !.phase = phase]
<1>1. w \in Walk
  BY DEF Sound
<1>2. /\ w2.list = w.list /\ w2.session = w.session /\ w2.phase = phase
      /\ w2.cursor = w.cursor /\ w2.shown = w.shown /\ w2.read = w.read /\ w2.part = w.part
      /\ w2 \in Walk
  BY <1>1 DEF Walk
<1> HIDE DEF w2
<1>3. Reach(w2, evs) = Reach(w, evs) /\ Due(w2, evs, st) = Due(w, evs, st)
  BY <1>2 DEF Reach, Later, Due
<1>4. Underway(w) /\ phase # "ended"
  BY DEF Underway
<1>5. CursorIsLast(w2) /\ ReadsAll(w2, evs, st)
  BY <1>2, <1>3, <1>4 DEF Sound, CursorIsLast, ReadsAll
<1>6. NoneIsPassed(w2, evs, st) /\ InOrderSoFar(w2, st)
  BY <1>2, <1>3, <1>4 DEF Sound, NoneIsPassed, InOrderSoFar
<1>7. w.read = {} /\ w.part = NoRow
  BY DEF Sound
<1>8. Sound(w2, evs, st)
  BY <1>2, <1>5, <1>6, <1>7 DEF Sound
<1> QED BY <1>8 DEF w2

\* Show, as a function of the walk.
NextWalk(w, rest) ==
    LET page == Page(w.list, rest)
        more == Cardinality(rest) > PageLimit
    IN  [w EXCEPT !.shown = @ \o page,
                  !.phase = IF more THEN "asking" ELSE "ended",
                  !.cursor = IF more THEN page[Len(page)] ELSE NoRow,
                  !.read = {},
                  !.part = NoRow]

\* The rows that come after the cursor.
After(list, cursor, rows) == {r \in rows : cursor = NoRow \/ Precedes(list, cursor, r)}

LEMMA NextWalkFields ==
    ASSUME NEW w \in Walk, NEW rest, Keyed(rest), \A r \in rest : r # NoRow
    PROVE  LET w2 == NextWalk(w, rest)
               more == Cardinality(rest) > PageLimit
           IN  /\ w2 \in Walk
               /\ w2.list = w.list /\ w2.session = w.session
               /\ w2.read = {} /\ w2.part = NoRow
               /\ w2.shown = w.shown \o Page(w.list, rest)
               /\ w2.phase = IF more THEN "asking" ELSE "ended"
               /\ more => w2.cursor # NoRow /\ Len(w2.shown) > 0 /\ w2.cursor = w2.shown[Len(w2.shown)]
               /\ ~ more => w2.cursor = NoRow
<1> DEFINE page == Page(w.list, rest)
           more == Cardinality(rest) > PageLimit
           all == w.shown \o page
           cursor == IF more THEN page[Len(page)] ELSE NoRow
           phase == IF more THEN "asking" ELSE "ended"
           w2 == NextWalk(w, rest)
<1>1. w.shown \in Seq(Row)
  BY DEF Walk
<1>2. /\ all \in Seq(Row)
      /\ more => /\ Len(all) > 0
                 /\ all[Len(all)] = page[Len(page)]
                 /\ all[Len(all)] \in rest
  BY <1>1, PageAppended
<1>3. w2 = [w EXCEPT !.shown = all, !.phase = phase, !.cursor = cursor,
                     !.read = {}, !.part = NoRow]
  BY DEF NextWalk
<1>4. cursor \in Row /\ (more => cursor = all[Len(all)] /\ cursor # NoRow)
  <2>1. NoRow \in Row
    BY DEF NoRow, Row
  <2> QED BY <1>2, <2>1 DEF Keyed
<1>5. phase \in {"asking", "ended"}
  OBVIOUS
<1>6. ~ more => cursor = NoRow
  OBVIOUS
<1> HIDE DEF w2, all, cursor
<1>7. /\ w2.list = w.list /\ w2.session = w.session /\ w2.read = {} /\ w2.part = NoRow
      /\ w2.shown = all /\ w2.phase = phase /\ w2.cursor = cursor
  BY <1>3 DEF Walk
<1>8. w2 \in Walk
  <2>1. NoRow \in Row /\ {} \in SUBSET Event
    BY DEF NoRow, Row
  <2> HIDE DEF phase
  <2> QED BY <1>2, <1>3, <1>4, <1>5, <2>1 DEF Walk
<1> QED BY <1>2, <1>4, <1>6, <1>7, <1>8 DEF w2, all

\* The next page of rows that come after the cursor, of a list with these rows.
LEMMA PageIsSound ==
    ASSUME NEW w, NEW evs \in SUBSET Event, NEW st \in SUBSET evs, Sound(w, evs, st),
           w.phase = "reading",
           NEW rows, Keyed(rows), \A r \in rows : r # NoRow,
           NEW rest \in SUBSET rows,
           w.list \in ByKey \/ SessionEvents(st, w.session) # {} =>
                /\ rest = After(w.list, w.cursor, rows)
                /\ Due(w, evs, st) \subseteq rows,
           w.list \notin ByKey /\ SessionEvents(st, w.session) # {} =>
                rows \subseteq Rows(w.list, SessionEvents(evs, w.session), w.session)
                /\ Rows(w.list, Reach(w, evs), w.session) \subseteq rows
    PROVE  Sound(NextWalk(w, rest), evs, st)
<1> DEFINE w2 == NextWalk(w, rest)
           more == Cardinality(rest) > PageLimit
           page == Page(w.list, rest)
           all == w.shown \o page
<1>1. w \in Walk /\ w.list \in List /\ w.shown \in Seq(Row)
  BY DEF Sound, Walk
<1>2. Keyed(rest) /\ \A r \in rest : r # NoRow
  BY FS_Subset DEF Keyed
<1>3. /\ w2 \in Walk
      /\ w2.list = w.list /\ w2.session = w.session
      /\ w2.read = {} /\ w2.part = NoRow
      /\ w2.shown = all
      /\ w2.phase = IF more THEN "asking" ELSE "ended"
      /\ more => w2.cursor # NoRow /\ Len(w2.shown) > 0 /\ w2.cursor = w2.shown[Len(w2.shown)]
      /\ ~ more => w2.cursor = NoRow
  BY <1>1, <1>2, NextWalkFields
<1>4. /\ Len(w.shown) > 0 /\ Ascends(w.list, w.shown)
            /\ (\A r \in rest : Precedes(w.list, w.shown[Len(w.shown)], r))
           => Ascends(w.list, all)
      /\ w.shown = <<>> => Ascends(w.list, all)
      /\ \A rank : HasRank(w.shown, rank) => HasRank(all, rank)
      /\ \A i \in DOMAIN all : (\E j \in DOMAIN w.shown : all[i] = w.shown[j]) \/ all[i] \in rest
      /\ \A r \in rest :
            \/ HasRank(all, r.rank)
            \/ more /\ Precedes(w.list, all[Len(all)], r)
  BY <1>1, <1>2, PageAppended
<1> HIDE DEF w2, all, more
<1>5. Underway(w) /\ (Underway(w2) => more)
  BY <1>3 DEF Underway
<1>6. CursorIsLast(w2)
  BY <1>3, <1>5 DEF CursorIsLast
<1>7. Reach(w2, evs) = SessionEvents(evs, w.session)
  BY <1>3 DEF Reach, Later, SessionEvents
<1>8. Due(w2, evs, st) = Due(w, evs, st)
  BY <1>3 DEF Due
<1>9. ReadsAll(w2, evs, st)
  <2> SUFFICES ASSUME w.list \notin ByKey, SessionEvents(st, w.session) # {}
               PROVE  /\ SessionEvents(st, w.session) \subseteq SessionEvents(evs, w.session)
                      /\ \A i \in DOMAIN all :
                            all[i] \in Rows(w.list, SessionEvents(evs, w.session), w.session)
    BY <1>3, <1>7 DEF ReadsAll
  <2>1. SessionEvents(st, w.session) \subseteq SessionEvents(evs, w.session)
    BY SessionEventsOfPart
  <2>2. \A j \in DOMAIN w.shown : w.shown[j] \in rows
    BY <1>5 DEF Sound, ReadsAll
  <2> QED BY <1>4, <2>1, <2>2
<1>10. NoneIsPassed(w2, evs, st)
  <2> SUFFICES ASSUME NEW r \in Due(w, evs, st)
               PROVE  HasRank(all, r.rank) \/ (more /\ Precedes(w.list, w2.cursor, r))
    BY <1>3, <1>8, <1>5 DEF NoneIsPassed
  <2>1. w.list \in ByKey \/ SessionEvents(st, w.session) # {}
    BY NoEventsNoRows DEF Due, ByKey
  <2>2. rest = After(w.list, w.cursor, rows) /\ r \in rows
    BY <2>1
  <2>3. HasRank(w.shown, r.rank) \/ r \in rest
    BY <1>5, <2>2 DEF Sound, NoneIsPassed, After
  <2> QED BY <1>3, <1>4, <2>3
<1>11. InOrderSoFar(w2, st)
  <2>1. CASE w.list \in ByKey \/ SessionEvents(st, w.session) # {}
    <3>1. Ascends(w.list, w.shown)
      BY <2>1 DEF Sound, InOrderSoFar
    <3>2. CASE w.cursor = NoRow
      <4>1. w.shown = <<>>
        BY <1>5, <3>2 DEF Sound, CursorIsLast
      <4> QED BY <1>3, <1>4, <4>1 DEF InOrderSoFar
    <3>3. CASE w.cursor # NoRow
      <4>1. Len(w.shown) > 0 /\ w.cursor = w.shown[Len(w.shown)]
        BY <1>5, <3>3 DEF Sound, CursorIsLast
      <4>2. \A r \in rest : Precedes(w.list, w.cursor, r)
        BY <2>1, <3>3 DEF After
      <4> QED BY <1>3, <1>4, <3>1, <4>1, <4>2 DEF InOrderSoFar
    <3> QED BY <3>2, <3>3
  <2>2. CASE ~ (w.list \in ByKey \/ SessionEvents(st, w.session) # {})
    BY <1>3, <2>2 DEF InOrderSoFar
  <2> QED BY <2>1, <2>2
<1>12. Sound(w2, evs, st)
  BY <1>1, <1>3, <1>6, <1>9, <1>10, <1>11, FS_EmptySet DEF Sound
<1> QED BY <1>12 DEF w2

\* One statement of the sessions or the events.
LEMMA KeyPageIsSound ==
    ASSUME NEW w, NEW evs \in SUBSET Event, IsFiniteSet(evs), NEW st \in SUBSET evs,
           Sound(w, evs, st), w.phase = "reading", w.list \in ByKey
    PROVE  Sound(NextWalk(w, AfterKey(w.list, Rows(w.list, evs, w.session), w.cursor)), evs, st)
<1> DEFINE rows == Rows(w.list, evs, w.session)
           rest == AfterKey(w.list, rows, w.cursor)
<1>1. w.list \in Lists
  BY DEF ByKey, Lists
<1>2. Keyed(rows) /\ \A r \in rows : r # NoRow
  BY <1>1, RowsKeyed
<1>3. Due(w, evs, st) \subseteq rows
  <2>1. CASE w.list = "sessions"
    <3>1. SessionIds(st) \subseteq SessionIds(evs)
      BY DEF SessionIds
    <3> QED BY <2>1, <3>1 DEF Due, Rows
  <2>2. CASE w.list # "sessions"
    <3>1. SessionEvents(st, w.session) \subseteq SessionEvents(evs, w.session)
      BY SessionEventsOfPart
    <3> QED BY <2>2, <3>1, RowsGrow DEF Due
  <2> QED BY <2>1, <2>2
<1> HIDE DEF rows
<1>4. rest = After(w.list, w.cursor, rows) /\ rest \in SUBSET rows
  BY DEF AfterKey, After
<1> HIDE DEF rest
<1>5. Sound(NextWalk(w, rest), evs, st)
  BY <1>2, <1>3, <1>4, PageIsSound
<1> QED BY <1>5 DEF rest, rows

\* The last part of a list that is computed from all events of a session.
LEMMA PositionPageIsSound ==
    ASSUME NEW w, NEW evs \in SUBSET Event, IsFiniteSet(evs), NEW st \in SUBSET evs,
           Sound(w, evs, st), w.phase = "reading", w.list \notin ByKey
    PROVE  Sound(NextWalk(w, BehindCursor(w.list, Rows(w.list, Reach(w, evs), w.session),
                                          w.cursor)), evs, st)
<1> DEFINE rows == Rows(w.list, Reach(w, evs), w.session)
           rest == BehindCursor(w.list, rows, w.cursor)
<1>1. w.list \in Lists /\ w.read \in SUBSET Event
  BY DEF Sound, Walk
<1>2. Reach(w, evs) \in SUBSET Event /\ IsFiniteSet(Reach(w, evs))
  <2>1. Later(w, evs) \in SUBSET evs
    BY DEF Later, SessionEvents
  <2>2. IsFiniteSet(Later(w, evs))
    BY <2>1, FS_Subset
  <2>3. IsFiniteSet(w.read \cup Later(w, evs))
    BY <2>2, FS_Union DEF Sound
  <2> QED BY <1>1, <2>1, <2>3 DEF Reach
<1>3. Keyed(rows) /\ \A r \in rows : r # NoRow
  BY <1>1, <1>2, RowsKeyed
<1>4. ASSUME SessionEvents(st, w.session) # {}
      PROVE  /\ rest = After(w.list, w.cursor, rows)
             /\ Due(w, evs, st) \subseteq rows
             /\ rows \subseteq Rows(w.list, SessionEvents(evs, w.session), w.session)
  <2>1. /\ w.read \subseteq SessionEvents(evs, w.session)
        /\ SessionEvents(st, w.session) \subseteq Reach(w, evs)
        /\ \A i \in DOMAIN w.shown : w.shown[i] \in rows
    BY <1>4 DEF Sound, ReadsAll, Underway
  <2>2. w.cursor = NoRow \/ w.cursor \in rows
    <3>1. CASE w.cursor # NoRow
      <4>1. Len(w.shown) > 0 /\ w.cursor = w.shown[Len(w.shown)]
        BY <3>1 DEF Sound, CursorIsLast, Underway
      <4>2. Len(w.shown) \in DOMAIN w.shown
        <5>1. w.shown \in Seq(Row)
          BY DEF Sound, Walk
        <5>2. Len(w.shown) \in Nat /\ DOMAIN w.shown = 1 .. Len(w.shown)
          BY <5>1, LenProperties
        <5> QED BY <4>1, <5>2
      <4> QED BY <2>1, <4>1, <4>2
    <3> QED BY <3>1
  <2>3. rest = After(w.list, w.cursor, rows)
    BY <1>3, <2>2 DEF BehindCursor, After
  <2>4. Due(w, evs, st) \subseteq rows
    <3>1. SessionEvents(st, w.session) \subseteq SessionEvents(Reach(w, evs), w.session)
      BY <2>1 DEF SessionEvents
    <3>2. w.list # "sessions"
      BY DEF ByKey
    <3> QED BY <3>1, <3>2, RowsGrow DEF Due
  <2>5. Reach(w, evs) \subseteq SessionEvents(evs, w.session)
    BY <2>1 DEF Reach, Later, SessionEvents
  <2>6. SessionEvents(Reach(w, evs), w.session)
            \subseteq SessionEvents(SessionEvents(evs, w.session), w.session)
    BY <2>5, SessionEventsOfPart
  <2>7. rows \subseteq Rows(w.list, SessionEvents(evs, w.session), w.session)
    BY <2>6, RowsGrow DEF ByKey
  <2> QED BY <2>3, <2>4, <2>7
<1>5. rest \in SUBSET rows
  BY DEF BehindCursor
<1> HIDE DEF rest
<1>6. Sound(NextWalk(w, rest), evs, st)
  BY <1>3, <1>4, <1>5, PageIsSound
<1> QED BY <1>6 DEF rest

\* A part is the first of what is left: it leaves nothing out in between.
LEMMA PartIsFirst ==
    ASSUME NEW left \in SUBSET Event, IsFiniteSet(left), Cardinality(left) > ReadLimit
    PROVE  LET part == {e \in left : Cardinality({f \in left : StoreBefore(f, e)}) < ReadLimit}
           IN  /\ part \in SUBSET left /\ IsFiniteSet(part)
               /\ StoreLast(part) \in part
               /\ \A e \in left \ part : StoreBefore(StoreLast(part), e)
<1> DEFINE before(e) == {f \in left : StoreBefore(f, e)}
           part == {e \in left : Cardinality(before(e)) < ReadLimit}
           last == StoreLast(part)
<1>1. ReadLimit \in Nat /\ ReadLimit > 0
  BY LimitAssumption
<1>2. left # {}
  BY <1>1, FS_EmptySet
<1>3. part \in SUBSET left
  OBVIOUS
<1>4. part # {}
  <2> DEFINE first == StoreFirst(left)
  <2>1. first \in left /\ \A f \in left \ {first} : StoreBefore(first, f)
    BY <1>2, StoreFirstIsFirst
  <2> HIDE DEF first
  <2>2. \A f \in left : ~ StoreBefore(f, first)
    <3> SUFFICES ASSUME NEW f \in left, StoreBefore(f, first)
                 PROVE  FALSE
      OBVIOUS
    <3>1. EventRow(f) \in Row /\ EventRow(first) \in Row
      BY <2>1, EventRows
    <3>2. f = first \/ StoreBefore(first, f)
      BY <2>1
    <3> QED BY <2>1, <3>1, <3>2, EventRows, KeyOrder
  <2>3. before(first) = {}
    BY <2>2
  <2>4. Cardinality(before(first)) = 0
    BY <2>3, FS_EmptySet
  <2> QED BY <1>1, <2>1, <2>4
<1>5. IsFiniteSet(part)
  BY <1>3, FS_Subset
<1>6. last \in part /\ \A f \in part \ {last} : StoreBefore(f, last)
  BY <1>3, <1>4, <1>5, StoreLastIsLast
<1>7. last \in left /\ Cardinality(before(last)) < ReadLimit
  BY <1>6
<1> HIDE DEF last
<1>8. ASSUME NEW e \in left \ part, ~ StoreBefore(last, e)
      PROVE  FALSE
  <2>1. e \in Event /\ last \in Event /\ e # last
    BY <1>6, <1>7, <1>8
  <2>2. EventRow(e) \in Row /\ EventRow(last) \in Row /\ EventRow(e).rank # EventRow(last).rank
    BY <2>1, EventRows
  <2>3. KeyBefore(EventRow(e), EventRow(last))
    BY <1>8, <2>1, <2>2, EventRows, KeyOrder
  <2>4. before(e) \in SUBSET before(last)
    <3> SUFFICES ASSUME NEW f \in left, StoreBefore(f, e)
                 PROVE  StoreBefore(f, last)
      OBVIOUS
    <3>1. f \in Event /\ EventRow(f) \in Row
      BY EventRows
    <3>2. KeyBefore(EventRow(f), EventRow(e))
      BY <2>1, <3>1, EventRows
    <3>3. KeyBefore(EventRow(f), EventRow(last))
      BY <2>2, <2>3, <3>1, <3>2, KeyTransitive
    <3> QED BY <2>1, <3>1, <3>3, EventRows
  <2>5. before(last) \in SUBSET left
    OBVIOUS
  <2>6. ~ (Cardinality(before(e)) < ReadLimit)
    BY <1>8
  <2> HIDE DEF before
  <2>7. IsFiniteSet(before(last)) /\ IsFiniteSet(before(e))
        /\ Cardinality(before(e)) <= Cardinality(before(last))
    BY <2>4, <2>5, FS_Subset
  <2>8. Cardinality(before(e)) \in Nat /\ Cardinality(before(last)) \in Nat
    BY <2>7, FS_CardinalityType
  <2> QED BY <1>1, <1>7, <2>6, <2>7, <2>8
<1> QED BY <1>3, <1>5, <1>6, <1>8 DEF last

LEMMA PartIsSound ==
    ASSUME NEW w, NEW evs \in SUBSET Event, IsFiniteSet(evs), NEW st \in SUBSET evs,
           Sound(w, evs, st), w.phase = "reading",
           Cardinality(Later(w, evs)) > ReadLimit
    PROVE  LET part == {e \in Later(w, evs) :
                            Cardinality({f \in Later(w, evs) : StoreBefore(f, e)}) < ReadLimit}
           IN  Sound([w EXCEPT !.read = @ \cup part, !.part = EventRow(StoreLast(part))], evs, st)
<1> DEFINE left == Later(w, evs)
           part == {e \in left : Cardinality({f \in left : StoreBefore(f, e)}) < ReadLimit}
           last == StoreLast(part)
           w2 == [w EXCEPT !.read = @ \cup part, !.part = EventRow(last)]
<1>1. left \in SUBSET SessionEvents(evs, w.session) /\ left \in SUBSET evs
  BY DEF Later, SessionEvents
<1>2. left \in SUBSET Event /\ IsFiniteSet(left) /\ Cardinality(left) > ReadLimit
  BY <1>1, FS_Subset
<1> HIDE DEF left
<1>3. /\ part \in SUBSET left /\ IsFiniteSet(part)
      /\ last \in part
      /\ \A e \in left \ part : StoreBefore(last, e)
  BY <1>2, PartIsFirst
<1> HIDE DEF part, last
<1>4. EventRow(last) \in Row /\ EventRow(last) # NoRow /\ last \in Event
  BY <1>2, <1>3, EventRows
<1>5. w \in Walk
  BY DEF Sound
<1>6. w.read \cup part \in SUBSET Event
  BY <1>2, <1>3, <1>5 DEF Walk
<1>7. /\ w2.list = w.list /\ w2.session = w.session /\ w2.phase = w.phase
      /\ w2.cursor = w.cursor /\ w2.shown = w.shown /\ w2.read = w.read \cup part
      /\ w2.part = EventRow(last)
      /\ w2 \in Walk
  BY <1>4, <1>5, <1>6 DEF Walk
<1> HIDE DEF w2
<1>8. Reach(w, evs) \subseteq Reach(w2, evs)
  <2> SUFFICES ASSUME NEW e \in left, e \notin part
               PROVE  e \in Later(w2, evs)
    BY <1>7 DEF Reach, left
  <2>1. StoreBefore(last, e)
    BY <1>3
  <2>2. KeyBefore(EventRow(last), EventRow(e))
    BY <1>2, <1>4, <2>1, EventRows
  <2> QED BY <1>1, <1>7, <2>2 DEF Later
<1>9. Underway(w)
  BY DEF Underway
<1>10. ReadsAll(w2, evs, st)
  <2> SUFFICES ASSUME w.list \notin ByKey, SessionEvents(st, w.session) # {}
               PROVE  /\ w2.read \subseteq SessionEvents(evs, w.session)
                      /\ SessionEvents(st, w.session) \subseteq Reach(w2, evs)
                      /\ \A i \in DOMAIN w.shown :
                            w.shown[i] \in Rows(w.list, Reach(w2, evs), w.session)
    BY <1>7 DEF ReadsAll
  <2>1. /\ w.read \subseteq SessionEvents(evs, w.session)
        /\ SessionEvents(st, w.session) \subseteq Reach(w, evs)
        /\ \A i \in DOMAIN w.shown : w.shown[i] \in Rows(w.list, Reach(w, evs), w.session)
    BY <1>9 DEF Sound, ReadsAll
  <2>2. Rows(w.list, Reach(w, evs), w.session) \subseteq Rows(w.list, Reach(w2, evs), w.session)
    BY <1>8, RowsGrow, SessionEventsOfPart DEF ByKey
  <2> QED BY <1>1, <1>3, <1>7, <1>8, <2>1, <2>2
<1>11. CursorIsLast(w2)
  BY <1>7, <1>9 DEF Sound, CursorIsLast
<1>12. Due(w2, evs, st) = Due(w, evs, st)
  BY <1>7 DEF Due
<1>13. NoneIsPassed(w2, evs, st) /\ InOrderSoFar(w2, st)
  BY <1>7, <1>9, <1>12 DEF Sound, NoneIsPassed, InOrderSoFar
<1>14. IsFiniteSet(w.read \cup part)
  BY <1>3, FS_Union DEF Sound
<1>15. Sound(w2, evs, st)
  BY <1>7, <1>10, <1>11, <1>13, <1>14 DEF Sound
<1> QED BY <1>15 DEF w2, last, part, left

\* A span cursor that names no span.
LEMMA RefusalIsSound ==
    ASSUME NEW w, NEW evs, NEW st, Sound(w, evs, st), w.phase = "reading"
    PROVE  Sound([w EXCEPT !.phase = "refused", !.read = {}, !.part = NoRow], evs, st)
<1> DEFINE w2 == [w EXCEPT !.phase = "refused", !.read = {}, !.part = NoRow]
<1>1. w \in Walk
  BY DEF Sound
<1>2. /\ w2.list = w.list /\ w2.session = w.session /\ w2.phase = "refused"
      /\ w2.shown = w.shown /\ w2.read = {} /\ w2.part = NoRow
      /\ w2 \in Walk
  BY <1>1 DEF Walk, NoRow, Row
<1> HIDE DEF w2
<1>3. ~ Underway(w2) /\ w2.phase # "ended"
  BY <1>2 DEF Underway
<1>4. CursorIsLast(w2) /\ ReadsAll(w2, evs, st) /\ NoneIsPassed(w2, evs, st)
  BY <1>3 DEF CursorIsLast, ReadsAll, NoneIsPassed
<1>5. InOrderSoFar(w2, st)
  BY <1>2 DEF Sound, InOrderSoFar
<1>6. Sound(w2, evs, st)
  BY <1>2, <1>4, <1>5, FS_EmptySet DEF Sound
<1> QED BY <1>6 DEF w2

-----------------------------------------------------------------------------
(***************************************************************************)
(* The theorems.                                                           *)
(***************************************************************************)
LEMMA UnreadIsLater ==
    ASSUME walk.list # "dashboard", events \in SUBSET Event
    PROVE  Unread = Later(walk, events)
<1>1. SessionEvents(events, walk.session) \cap Wanted = SessionEvents(events, walk.session)
  BY DEF Wanted, SessionEvents
<1>2. \A e : EventRow(e) \in AfterKey("events", {EventRow(e)}, walk.part)
                <=> (walk.part = NoRow \/ KeyBefore(walk.part, EventRow(e)))
  BY DEF AfterKey, Precedes
<1> QED BY <1>1, <1>2 DEF Unread, Later

LEMMA WalkStep ==
    ASSUME "dashboard" \notin List, WalkInvariant, [Next]_vars
    PROVE  WalkInvariant'
<1>1. /\ events \in SUBSET Event /\ IsFiniteSet(events) /\ deletes \in 0 .. MaxDeletes
      /\ steady \in SUBSET events /\ Sound(walk, events, steady)
      /\ walk.list # "dashboard" /\ MaxDeletes \in Nat
  BY LimitAssumption DEF WalkInvariant, Sound
<1>2. CASE UNCHANGED vars
  BY <1>2 DEF vars, WalkInvariant
<1>3. ASSUME NEW list \in List, NEW s \in Session, Open(list, s)
      PROVE  WalkInvariant'
  <2>1. walk' = Begun(list, s) /\ steady' = events /\ events' = events /\ deletes' = deletes
    BY <1>3 DEF Open
  <2>2. Sound(walk', events', steady')
    BY <1>1, <2>1, BegunIsSound
  <2> QED BY <1>1, <2>1, <2>2 DEF WalkInvariant
<1>4. CASE RequireSession
  <2>1. PICK phase \in {"reading", "refused"} : walk' = [walk EXCEPT !.phase = phase]
    BY <1>4 DEF RequireSession
  <2>2. walk.phase = "asking" /\ events' = events /\ deletes' = deletes /\ steady' = steady
    BY <1>4 DEF RequireSession
  <2>3. Sound(walk', events', steady')
    BY <1>1, <2>1, <2>2, RequestIsSound
  <2> QED BY <1>1, <2>2, <2>3 DEF WalkInvariant
<1>5. CASE ShowByKey
  <2>1. walk' = NextWalk(walk, AfterKey(walk.list, Rows(walk.list, events, walk.session),
                                        walk.cursor))
    BY <1>5 DEF ShowByKey, Show, NextWalk
  <2>2. /\ walk.phase = "reading" /\ walk.list \in ByKey
        /\ events' = events /\ deletes' = deletes /\ steady' = steady
    BY <1>5 DEF ShowByKey, ByKey
  <2>3. Sound(walk', events', steady')
    BY <1>1, <2>1, <2>2, KeyPageIsSound
  <2> QED BY <1>1, <2>2, <2>3 DEF WalkInvariant
<1>6. CASE ReadPart
  <2> DEFINE part == {e \in Later(walk, events) :
                        Cardinality({f \in Later(walk, events) : StoreBefore(f, e)}) < ReadLimit}
  <2>1. Unread = Later(walk, events)
    BY <1>1, UnreadIsLater
  <2>2. /\ walk' = [walk EXCEPT !.read = @ \cup part, !.part = EventRow(StoreLast(part))]
        /\ Cardinality(Later(walk, events)) > ReadLimit
    BY <1>6, <2>1 DEF ReadPart
  <2>3. /\ walk.phase = "reading"
        /\ events' = events /\ deletes' = deletes /\ steady' = steady
    BY <1>6 DEF ReadPart
  <2>4. Sound(walk', events', steady')
    BY <1>1, <2>2, <2>3, PartIsSound
  <2> QED BY <1>1, <2>3, <2>4 DEF WalkInvariant
<1>7. CASE ShowByPosition
  <2> DEFINE rows == Rows(walk.list, Reach(walk, events), walk.session)
  <2>1. walk.read \cup Unread = Reach(walk, events)
    BY <1>1, UnreadIsLater DEF Reach
  <2>2. /\ walk.phase = "reading" /\ walk.list \notin ByKey
        /\ events' = events /\ deletes' = deletes /\ steady' = steady
    BY <1>7 DEF ShowByPosition, ByKey
  <2>3. \/ walk' = [walk EXCEPT !.phase = "refused", !.read = {}, !.part = NoRow]
        \/ walk' = NextWalk(walk, BehindCursor(walk.list, rows, walk.cursor))
    BY <1>7, <2>1 DEF ShowByPosition, Show, NextWalk
  <2>4. /\ Sound([walk EXCEPT !.phase = "refused", !.read = {}, !.part = NoRow], events, steady)
        /\ Sound(NextWalk(walk, BehindCursor(walk.list, rows, walk.cursor)), events, steady)
    BY <1>1, <2>2, PositionPageIsSound, RefusalIsSound
  <2>5. Sound(walk', events', steady')
    BY <2>2, <2>3, <2>4
  <2> QED BY <1>1, <2>2, <2>5 DEF WalkInvariant
<1>8. ASSUME NEW e \in Event, Ingest(e)
      PROVE  WalkInvariant'
  <2>1. events' = events \cup {e} /\ walk' = walk /\ steady' = steady /\ deletes' = deletes
    BY <1>8 DEF Ingest
  <2>2. IsFiniteSet(events') /\ events' \in SUBSET Event /\ steady' \subseteq events'
    BY <1>1, <2>1, FS_AddElement
  <2>3. Sound(walk', events', steady')
    BY <1>1, <2>1, IngestIsSound
  <2> QED BY <1>1, <2>1, <2>2, <2>3 DEF WalkInvariant
<1>9. ASSUME NEW s \in Session, Delete(s)
      PROVE  WalkInvariant'
  <2>1. /\ deletes < MaxDeletes /\ deletes' = deletes + 1 /\ walk' = walk
        /\ events' = events \ SessionEvents(events, s) /\ steady' = steady \cap events'
    BY <1>9 DEF Delete
  <2>2. events' \in SUBSET events
    BY <2>1
  <2>3. IsFiniteSet(events') /\ events' \in SUBSET Event /\ steady' \subseteq events'
    BY <1>1, <2>1, <2>2, FS_Subset
  <2>4. Sound(walk', events', steady')
    BY <1>1, <2>1, DeletionIsSound
  <2>5. deletes' \in 0 .. MaxDeletes
    BY <1>1, <2>1
  <2> QED BY <2>3, <2>4, <2>5 DEF WalkInvariant
<1> QED BY <1>2, <1>3, <1>4, <1>5, <1>6, <1>7, <1>8, <1>9 DEF Next, Serve

\* The invariant of a walk: until its session goes it reads every event that was
\* there when it began, and owes no row that is behind its cursor.
THEOREM WalkCorrect ==
    ASSUME "dashboard" \notin List
    PROVE  Spec => []WalkInvariant
<1>1. Init => WalkInvariant
  BY WalkInit
<1>2. WalkInvariant /\ [Next]_vars => WalkInvariant'
  BY WalkStep
<1> QED BY <1>1, <1>2, PTL DEF Spec

\* Every state is of its type.
THEOREM TypeCorrect ==
    ASSUME "dashboard" \notin List
    PROVE  Spec => []TypeOK
BY WalkCorrect, InvariantGivesProperties, PTL

\* Ingest and deletion around the cursor hide no row from a walk, nor does the
\* reading in parts, for any events, and pages and parts of any size.
THEOREM WalkMissesNothingCorrect ==
    ASSUME "dashboard" \notin List
    PROVE  Spec => []WalkMissesNothing
BY WalkCorrect, InvariantGivesProperties, PTL

\* Rows come in the order of their list, across all pages, and none comes twice.
THEOREM WalkInOrderCorrect ==
    ASSUME "dashboard" \notin List
    PROVE  Spec => []WalkInOrder
BY WalkCorrect, InvariantGivesProperties, PTL
=============================================================================
