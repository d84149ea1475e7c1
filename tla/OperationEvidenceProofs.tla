------------------------ MODULE OperationEvidenceProofs ------------------------
(***************************************************************************)
(* What merging observations keeps, for all observations: whatever one of  *)
(* them proves stays proved, and nothing is proved that none of them said. *)
(***************************************************************************)
EXTENDS OperationEvidence, Induction

Changed(p, outcome, category, provenance, extensions) ==
    [p EXCEPT !.outcome = outcome, !.category = category,
              !.provenance = provenance, !.extensions = extensions]

\* EXCEPT of four fields, one field after the other.
LEMMA ChangedFields ==
    ASSUME NEW p, NEW a, NEW b, NEW c, NEW d, NEW e, NEW f,
           p = [session |-> a, operation |-> b, outcome |-> c, category |-> d,
                provenance |-> e, extensions |-> f],
           NEW outcome, NEW category, NEW provenance, NEW extensions
    PROVE  Changed(p, outcome, category, provenance, extensions)
            = [session |-> a, operation |-> b, outcome |-> outcome,
               category |-> category, provenance |-> provenance, extensions |-> extensions]
<1> DEFINE p1 == [p EXCEPT !.outcome = outcome]
           p2 == [p1 EXCEPT !.category = category]
           p3 == [p2 EXCEPT !.provenance = provenance]
           p4 == [p3 EXCEPT !.extensions = extensions]
<1>1. Changed(p, outcome, category, provenance, extensions) = p4
  BY DEF Changed
<1>2. p1 = [session |-> a, operation |-> b, outcome |-> outcome, category |-> d,
            provenance |-> e, extensions |-> f]
  OBVIOUS
<1> HIDE DEF p1
<1>3. p2 = [session |-> a, operation |-> b, outcome |-> outcome,
            category |-> category, provenance |-> e, extensions |-> f]
  BY <1>2
<1> HIDE DEF p2
<1>4. p3 = [session |-> a, operation |-> b, outcome |-> outcome,
            category |-> category, provenance |-> provenance, extensions |-> f]
  BY <1>3
<1> HIDE DEF p3
<1>5. p4 = [session |-> a, operation |-> b, outcome |-> outcome,
            category |-> category, provenance |-> provenance, extensions |-> extensions]
  BY <1>4
<1> QED BY <1>1, <1>5 DEF p3, p2, p1

LEMMA MergedFields ==
    ASSUME NEW p, NEW o, IsOperation(p)
    PROVE  LET m == mergeOperationEvidence(p, o)
           IN  /\ IsOperation(m)
               /\ m.session = p.session /\ m.operation = p.operation
               /\ m.outcome = FillUnset(p.outcome, o.outcome)
               /\ m.category = FillUnset(p.category, o.category)
               /\ m.provenance = higherProvenance(p.provenance, o.provenance)
               /\ m.extensions = deepMergeMaps(p.extensions, o.extensions)
<1> DEFINE m == mergeOperationEvidence(p, o)
<1>1. p = [session |-> p.session, operation |-> p.operation, outcome |-> p.outcome,
           category |-> p.category, provenance |-> p.provenance,
           extensions |-> p.extensions]
  BY DEF IsOperation
<1>2. m = [session |-> p.session, operation |-> p.operation,
           outcome |-> FillUnset(p.outcome, o.outcome),
           category |-> FillUnset(p.category, o.category),
           provenance |-> higherProvenance(p.provenance, o.provenance),
           extensions |-> deepMergeMaps(p.extensions, o.extensions)]
  <2> DEFINE outcome == FillUnset(p.outcome, o.outcome)
             category == FillUnset(p.category, o.category)
             provenance == higherProvenance(p.provenance, o.provenance)
             extensions == deepMergeMaps(p.extensions, o.extensions)
  <2>1. m = Changed(p, outcome, category, provenance, extensions)
    BY Zenon DEF mergeOperationEvidence, Changed
  <2> HIDE DEF m, outcome, category, provenance, extensions
  <2>2. Changed(p, outcome, category, provenance, extensions)
          = [session |-> p.session, operation |-> p.operation, outcome |-> outcome,
             category |-> category, provenance |-> provenance, extensions |-> extensions]
    BY <1>1, ChangedFields
  <2> QED BY <2>1, <2>2 DEF outcome, category, provenance, extensions
<1> HIDE DEF m
<1>3. m.extensions = [path \in DOMAIN m.extensions |-> m.extensions[path]]
  <2> DEFINE f == deepMergeMaps(p.extensions, o.extensions)
  <2>1. f = [path \in DOMAIN f |-> f[path]]
    BY DEF deepMergeMaps
  <2> HIDE DEF f
  <2>2. m.extensions = f
    BY <1>2 DEF f
  <2> QED BY <2>1, <2>2
<1> QED BY <1>2, <1>3 DEF IsOperation, m

\* The merge of two observations of one operation is one of it, and covers both.
LEMMA MergeCovers ==
    ASSUME NEW p, NEW o, IsOperation(p)
    PROVE  /\ SameOperation(mergeOperationEvidence(p, o), p)
           /\ Covers(mergeOperationEvidence(p, o), p)
           /\ Covers(mergeOperationEvidence(p, o), o)
<1> DEFINE m == mergeOperationEvidence(p, o)
<1>1. provenanceRank(p.provenance) \in 0 .. 2 /\ provenanceRank(o.provenance) \in 0 .. 2
  BY DEF provenanceRank
<1>2. /\ provenanceRank(p.provenance) <= provenanceRank(m.provenance)
      /\ provenanceRank(o.provenance) <= provenanceRank(m.provenance)
  BY <1>1, MergedFields DEF higherProvenance
<1>3. DOMAIN m.extensions = DOMAIN p.extensions \cup DOMAIN o.extensions
  <2>1. m.extensions = deepMergeMaps(p.extensions, o.extensions)
    BY MergedFields
  <2> HIDE DEF m
  <2> QED BY <2>1 DEF deepMergeMaps
<1>4. /\ p.outcome \notin Unset \/ o.outcome \notin Unset => m.outcome \notin Unset
      /\ p.category \notin Unset \/ o.category \notin Unset => m.category \notin Unset
  BY MergedFields DEF FillUnset
<1> QED BY <1>2, <1>3, <1>4, MergedFields DEF SameOperation, Covers

LEMMA CoversItself == \A o : Covers(o, o)
<1> TAKE o
<1>1. provenanceRank(o.provenance) \in 0 .. 2
  BY DEF provenanceRank
<1> QED BY <1>1 DEF Covers

LEMMA CoversTransitive ==
    ASSUME NEW o, NEW p, NEW q, Covers(p, o), Covers(q, p)
    PROVE  Covers(q, o)
<1>1. /\ provenanceRank(o.provenance) \in 0 .. 2 /\ provenanceRank(p.provenance) \in 0 .. 2
      /\ provenanceRank(q.provenance) \in 0 .. 2
  BY DEF provenanceRank
<1> QED BY <1>1 DEF Covers

-----------------------------------------------------------------------------
LEMMA GrowsItself == \A rows : Grows(rows, rows)
BY CoversItself DEF Grows, SameOperation

LEMMA GrowsTransitive ==
    ASSUME NEW a, NEW b, NEW c, Grows(a, b), Grows(b, c)
    PROVE  Grows(a, c)
<1> SUFFICES ASSUME NEW p \in a
             PROVE  \E q \in c : SameOperation(p, q) /\ Covers(q, p)
  BY DEF Grows
<1>1. PICK q \in b : SameOperation(p, q) /\ Covers(q, p)
  BY DEF Grows
<1>2. PICK r \in c : SameOperation(q, r) /\ Covers(r, q)
  BY DEF Grows
<1> QED BY <1>1, <1>2, CoversTransitive DEF SameOperation

\* One observation: where the rows of the result come from.
LEMMA StoredRows ==
    ASSUME NEW rows, NEW o
    PROVE  \A q \in StoreOperation(rows, o) :
            \/ q \in rows /\ ~SameOperation(o, q)
            \/ q = o /\ \A p \in rows : ~SameOperation(o, p)
            \/ \E p \in rows : SameOperation(o, p) /\ q = mergeOperationEvidence(p, o)
BY DEF StoreOperation

LEMMA StoreKeepsRows ==
    ASSUME NEW rows, NEW o, AreRows(rows), IsOperation(o)
    PROVE  AreRows(StoreOperation(rows, o))
<1> DEFINE later == StoreOperation(rows, o)
<1>1. \A q \in later : IsOperation(q)
  BY StoredRows, MergedFields DEF AreRows
<1>2. CASE \E p \in rows : SameOperation(o, p)
  <2>1. PICK p \in rows : SameOperation(o, p)
    BY <1>2
  <2>2. \A q \in later : (q \in rows /\ ~SameOperation(o, q)) \/ q = mergeOperationEvidence(p, o)
    BY <2>1, StoredRows DEF AreRows, SameOperation
  <2>3. SameOperation(mergeOperationEvidence(p, o), p)
    BY MergeCovers DEF AreRows
  <2> HIDE DEF later
  <2> QED BY <1>1, <2>1, <2>2, <2>3 DEF AreRows, SameOperation, later
<1>3. CASE \A p \in rows : ~SameOperation(o, p)
  <2>1. later = rows \cup {o}
    BY <1>3 DEF StoreOperation
  <2> QED BY <1>1, <1>3, <2>1 DEF AreRows, SameOperation
<1> QED BY <1>2, <1>3

\* The observation has its row, and no row lost anything.
LEMMA StoreGrows ==
    ASSUME NEW rows, NEW o, AreRows(rows), IsOperation(o)
    PROVE  /\ Grows(rows, StoreOperation(rows, o))
           /\ \E q \in StoreOperation(rows, o) : SameOperation(o, q) /\ Covers(q, o)
<1>1. CASE \E p \in rows : SameOperation(o, p)
  <2> DEFINE kept(p) == IF SameOperation(o, p) THEN mergeOperationEvidence(p, o) ELSE p
  <2>1. StoreOperation(rows, o) = {kept(p) : p \in rows}
    BY <1>1 DEF StoreOperation
  <2>2. \A p \in rows : SameOperation(p, kept(p)) /\ Covers(kept(p), p)
    BY MergeCovers, CoversItself DEF AreRows, SameOperation
  <2>3. \A p \in rows : SameOperation(o, p) => Covers(kept(p), o)
    BY MergeCovers DEF AreRows
  <2> HIDE DEF kept
  <2> QED BY <1>1, <2>1, <2>2, <2>3 DEF Grows, SameOperation
<1>2. CASE \A p \in rows : ~SameOperation(o, p)
  <2>1. StoreOperation(rows, o) = rows \cup {o}
    BY <1>2 DEF StoreOperation
  <2> QED BY <2>1, CoversItself DEF Grows, SameOperation
<1> QED BY <1>1, <1>2

LEMMA StoredFrom ==
    ASSUME NEW rows, NEW o, AreRows(rows)
    PROVE  \A q \in StoreOperation(rows, o) :
            SameOperation(o, q) \/ \E p \in rows : SameOperation(p, q)
BY StoredRows, MergeCovers DEF AreRows, SameOperation

\* "Identical re-ingest is a no-op" (sqlite.go): an observation that is sent
\* again changes no row.
THEOREM ReplayedObservation ==
    ASSUME NEW rows, NEW o, AreRows(rows), IsOperation(o)
    PROVE  StoreOperation(StoreOperation(rows, o), o) = StoreOperation(rows, o)
<1> DEFINE later == StoreOperation(rows, o)
<1>1. AreRows(later)
  BY StoreKeepsRows
<1>2. PICK q \in later : SameOperation(o, q) /\ Covers(q, o)
  BY StoreGrows
<1>3. ASSUME NEW p \in later, SameOperation(o, p)
      PROVE  mergeOperationEvidence(p, o) = p
  <2>1. p = o \/ \E r \in rows : IsOperation(r) /\ p = mergeOperationEvidence(r, o)
    BY <1>3, StoredRows DEF AreRows
  <2>2. /\ FillUnset(p.outcome, o.outcome) = p.outcome
        /\ FillUnset(p.category, o.category) = p.category
    BY <2>1, MergedFields DEF FillUnset
  <2>3. higherProvenance(p.provenance, o.provenance) = p.provenance
    <3>1. CASE p = o
      BY <3>1 DEF higherProvenance
    <3>2. CASE \E r \in rows : IsOperation(r) /\ p = mergeOperationEvidence(r, o)
      <4>1. PICK r \in rows : IsOperation(r) /\ p = mergeOperationEvidence(r, o)
        BY <3>2
      <4>2. p.provenance = higherProvenance(r.provenance, o.provenance)
        BY <4>1, MergedFields
      <4>3. provenanceRank(r.provenance) \in 0 .. 2 /\ provenanceRank(o.provenance) \in 0 .. 2
        BY DEF provenanceRank
      <4> QED BY <4>2, <4>3 DEF higherProvenance
    <3> QED BY <2>1, <3>1, <3>2
  <2>4. DOMAIN o.extensions \subseteq DOMAIN p.extensions
    BY <2>1, MergeCovers DEF Covers
  <2>5. deepMergeMaps(p.extensions, o.extensions) = p.extensions
    BY <1>1, <2>4 DEF deepMergeMaps, AreRows, IsOperation
  <2>6. IsOperation(p)
    BY <1>1 DEF AreRows
  <2> DEFINE m == mergeOperationEvidence(p, o)
  <2>7. /\ IsOperation(m)
        /\ m.session = p.session /\ m.operation = p.operation /\ m.outcome = p.outcome
        /\ m.category = p.category /\ m.provenance = p.provenance
        /\ m.extensions = p.extensions
    BY <2>2, <2>3, <2>5, <2>6, MergedFields
  <2> HIDE DEF m
  <2>8. m = p
    BY <2>6, <2>7 DEF IsOperation
  <2> QED BY <2>8 DEF m
<1> HIDE DEF later
<1>4. StoreOperation(later, o) =
        {IF SameOperation(o, p) THEN mergeOperationEvidence(p, o) ELSE p : p \in later}
  BY <1>2 DEF StoreOperation
<1>5. StoreOperation(later, o) = {p : p \in later}
  BY <1>3, <1>4
<1> QED BY <1>5 DEF later

-----------------------------------------------------------------------------
(***************************************************************************)
(* A request stores its operations one after the other.                    *)
(***************************************************************************)
IsRun(f, rows, operations, n) ==
    f = [k \in 0 .. n |-> IF k = 0 THEN rows ELSE StoreOperation(f[k - 1], operations[k])]

LEMMA LongerRun ==
    ASSUME NEW rows, NEW operations, NEW n \in Nat, NEW f, IsRun(f, rows, operations, n)
    PROVE  \E g : IsRun(g, rows, operations, n + 1)
<1> DEFINE next == StoreOperation(f[n], operations[n + 1])
           g == [k \in 0 .. n + 1 |-> IF k = n + 1 THEN next ELSE f[k]]
           step(k) == StoreOperation(g[k - 1], operations[k])
<1>1. \A k \in 0 .. n : f[k] = IF k = 0 THEN rows ELSE StoreOperation(f[k - 1], operations[k])
  BY DEF IsRun
<1>2. g[n + 1] = next /\ \A k \in 0 .. n : g[k] = f[k]
  <2> HIDE DEF next
  <2> QED OBVIOUS
<1>3. \A k \in 0 .. n + 1 : g[k] = IF k = 0 THEN rows ELSE step(k)
  <2> SUFFICES ASSUME NEW k \in 0 .. n + 1
               PROVE  g[k] = IF k = 0 THEN rows ELSE step(k)
    OBVIOUS
  <2>1. CASE k = n + 1
    <3>1. k # 0 /\ k - 1 = n /\ n \in 0 .. n
      BY <2>1
    <3> HIDE DEF g
    <3> QED BY <2>1, <3>1, <1>2
  <2>2. CASE k = 0
    <3>1. 0 \in 0 .. n
      OBVIOUS
    <3> HIDE DEF g
    <3> QED BY <2>2, <3>1, <1>1, <1>2
  <2>3. CASE k \in 1 .. n
    <3>1. k \in 0 .. n /\ k - 1 \in 0 .. n /\ k # 0
      BY <2>3
    <3> HIDE DEF g
    <3> QED BY <3>1, <1>1, <1>2
  <2> QED BY <2>1, <2>2, <2>3
<1>4. g = [k \in 0 .. n + 1 |-> g[k]]
  <2> HIDE DEF next
  <2> QED OBVIOUS
<1>5. g = [k \in 0 .. n + 1 |-> IF k = 0 THEN rows ELSE step(k)]
  <2> HIDE DEF g, step
  <2> QED BY <1>3, <1>4
<1> HIDE DEF g
<1> QED BY <1>5 DEF IsRun

LEMMA RunExists ==
    ASSUME NEW rows, NEW operations, NEW N \in Nat
    PROVE  \E f : IsRun(f, rows, operations, N)
<1> DEFINE Lacks == {n \in Nat : ~ \E f : IsRun(f, rows, operations, n)}
<1> SUFFICES ASSUME Lacks # {} PROVE FALSE
  OBVIOUS
<1>1. Lacks \in SUBSET Nat
  OBVIOUS
<1>2. PICK n \in Lacks : \A k \in Lacks : n <= k
  <2> HIDE DEF Lacks
  <2> QED BY <1>1, Least
<1>3. n # 0
  <2> DEFINE f == [k \in 0 .. 0 |-> rows]
  <2>1. f = [k \in 0 .. 0 |-> IF k = 0 THEN rows ELSE StoreOperation(f[k - 1], operations[k])]
    OBVIOUS
  <2> HIDE DEF f
  <2>2. \E g : IsRun(g, rows, operations, 0)
    BY <2>1 DEF IsRun
  <2> QED BY <1>2, <2>2
<1>4. n - 1 \in Nat /\ n - 1 \notin Lacks
  <2>1. n \in Nat /\ n - 1 \in Nat /\ ~ (n <= n - 1)
    BY <1>2, <1>3
  <2> HIDE DEF Lacks
  <2> QED BY <1>2, <2>1
<1>5. \E f : IsRun(f, rows, operations, (n - 1) + 1)
  BY <1>4, LongerRun
<1>6. (n - 1) + 1 = n
  BY <1>4
<1> QED BY <1>2, <1>5, <1>6

\* What the recursive function is: where it starts, and how it goes on.
LEMMA RowsAfterSteps ==
    ASSUME NEW rows, NEW operations, Len(operations) \in Nat
    PROVE  /\ RowsAfter(rows, operations)[0] = rows
           /\ \A n \in 1 .. Len(operations) :
                RowsAfter(rows, operations)[n]
                  = StoreOperation(RowsAfter(rows, operations)[n - 1], operations[n])
<1> DEFINE after == RowsAfter(rows, operations)
<1>1. after = CHOOSE f : IsRun(f, rows, operations, Len(operations))
  BY DEF RowsAfter, IsRun
<1>2. IsRun(after, rows, operations, Len(operations))
  <2> HIDE DEF after
  <2> QED BY <1>1, RunExists
<1> HIDE DEF after
<1>3. \A k \in 0 .. Len(operations) :
        after[k] = IF k = 0 THEN rows ELSE StoreOperation(after[k - 1], operations[k])
  BY <1>2 DEF IsRun
<1>4. 0 \in 0 .. Len(operations) /\ \A n \in 1 .. Len(operations) : n \in 0 .. Len(operations) /\ n # 0
  OBVIOUS
<1> QED BY <1>3, <1>4 DEF after

\* At every point of the request the table has a row for each operation, and
\* each observation stored so far is covered by one.
LEMMA RowsAfterKeep ==
    ASSUME NEW rows, AreRows(rows), NEW operations, Len(operations) \in Nat,
           \A n \in 1 .. Len(operations) : IsOperation(operations[n])
    PROVE  \A n \in 0 .. Len(operations) :
            /\ AreRows(RowsAfter(rows, operations)[n])
            /\ Grows(rows, RowsAfter(rows, operations)[n])
            /\ \A k \in 1 .. n : \E q \in RowsAfter(rows, operations)[n] :
                SameOperation(operations[k], q) /\ Covers(q, operations[k])
            /\ \A q \in RowsAfter(rows, operations)[n] :
                \/ \E p \in rows : SameOperation(p, q)
                \/ \E k \in 1 .. n : SameOperation(operations[k], q)
<1> DEFINE after == RowsAfter(rows, operations)
           Kept(n) == /\ AreRows(after[n])
                      /\ Grows(rows, after[n])
                      /\ \A k \in 1 .. n : \E q \in after[n] :
                            SameOperation(operations[k], q) /\ Covers(q, operations[k])
                      /\ \A q \in after[n] :
                            \/ \E p \in rows : SameOperation(p, q)
                            \/ \E k \in 1 .. n : SameOperation(operations[k], q)
           Fails == {n \in Nat : n <= Len(operations) /\ ~Kept(n)}
<1>1. SUFFICES ASSUME Fails # {} PROVE FALSE
  <2> HIDE DEF Kept
  <2>1. \A n \in 0 .. Len(operations) : Kept(n)
    BY <1>1
  <2> QED BY <2>1 DEF Kept
<1>2. Fails \in SUBSET Nat
  OBVIOUS
<1>3. PICK n \in Fails : \A k \in Fails : n <= k
  <2> HIDE DEF Fails
  <2> QED BY <1>1, <1>2, Least
<1>4. /\ after[0] = rows
      /\ \A k \in 1 .. Len(operations) : after[k] = StoreOperation(after[k - 1], operations[k])
  BY RowsAfterSteps
<1> HIDE DEF after
<1>5. Kept(0)
  <2>1. AreRows(after[0]) /\ Grows(rows, after[0])
    BY <1>4, GrowsItself
  <2>2. 1 .. 0 = {}
    OBVIOUS
  <2>3. \A q \in after[0] : \E p \in rows : SameOperation(p, q)
    BY <1>4 DEF SameOperation
  <2> QED BY <2>1, <2>2, <2>3
<1>6. n \in 1 .. Len(operations) /\ n - 1 \in Nat /\ ~ (n <= n - 1) /\ n - 1 <= Len(operations)
  <2> HIDE DEF Kept
  <2> QED BY <1>3, <1>5
<1>7. Kept(n - 1)
  <2> HIDE DEF Kept
  <2> QED BY <1>3, <1>6
<1>8. after[n] = StoreOperation(after[n - 1], operations[n]) /\ IsOperation(operations[n])
  BY <1>4, <1>6
<1>9. AreRows(after[n])
  BY <1>7, <1>8, StoreKeepsRows
<1>10. /\ Grows(after[n - 1], after[n])
       /\ \E q \in after[n] : SameOperation(operations[n], q) /\ Covers(q, operations[n])
  BY <1>7, <1>8, StoreGrows
<1>11. Grows(rows, after[n])
  BY <1>7, <1>10, GrowsTransitive
<1>12. \A k \in 1 .. n : \E q \in after[n] :
          SameOperation(operations[k], q) /\ Covers(q, operations[k])
  <2> TAKE k \in 1 .. n
  <2>1. CASE k = n
    BY <2>1, <1>10
  <2>2. CASE k # n
    <3>1. k \in 1 .. n - 1
      BY <1>6, <2>2
    <3>2. PICK p \in after[n - 1] : SameOperation(operations[k], p) /\ Covers(p, operations[k])
      BY <1>7, <3>1
    <3>3. PICK q \in after[n] : SameOperation(p, q) /\ Covers(q, p)
      BY <1>10, <3>2 DEF Grows
    <3> QED BY <3>2, <3>3, CoversTransitive DEF SameOperation
  <2> QED BY <2>1, <2>2
<1>13. \A q \in after[n] :
          \/ \E p \in rows : SameOperation(p, q)
          \/ \E k \in 1 .. n : SameOperation(operations[k], q)
  <2> TAKE q \in after[n]
  <2>1. SameOperation(operations[n], q) \/ \E p \in after[n - 1] : SameOperation(p, q)
    BY <1>7, <1>8, StoredFrom
  <2>2. CASE SameOperation(operations[n], q)
    BY <1>6, <2>2
  <2>3. CASE \E p \in after[n - 1] : SameOperation(p, q)
    <3>1. PICK p \in after[n - 1] : SameOperation(p, q)
      BY <2>3
    <3>2. CASE \E r \in rows : SameOperation(r, p)
      BY <3>1, <3>2 DEF SameOperation
    <3>3. CASE \E k \in 1 .. n - 1 : SameOperation(operations[k], p)
      <4>1. 1 .. n - 1 \subseteq 1 .. n
        BY <1>6
      <4> QED BY <3>1, <3>3, <4>1 DEF SameOperation
    <3> QED BY <1>7, <3>1, <3>2, <3>3
  <2> QED BY <2>1, <2>2, <2>3
<1>14. Kept(n)
  BY <1>9, <1>11, <1>12, <1>13
<1> HIDE DEF Kept
<1> QED BY <1>3, <1>14

\* saveOperationsTx, for every list of observations: the rows stay one per
\* operation, none of them loses what it proves, every observation of the
\* request is covered by the row of its operation, and no other row appears.
THEOREM StoredOperationsKept ==
    ASSUME NEW rows, AreRows(rows), NEW operations, Len(operations) \in Nat,
           \A n \in 1 .. Len(operations) : IsOperation(operations[n])
    PROVE  /\ AreRows(StoredOperations(rows, operations))
           /\ Grows(rows, StoredOperations(rows, operations))
           /\ \A n \in 1 .. Len(operations) : \E q \in StoredOperations(rows, operations) :
                SameOperation(operations[n], q) /\ Covers(q, operations[n])
           /\ \A q \in StoredOperations(rows, operations) :
                \/ \E p \in rows : SameOperation(p, q)
                \/ \E n \in 1 .. Len(operations) : SameOperation(operations[n], q)
<1>1. Len(operations) \in 0 .. Len(operations)
  OBVIOUS
<1> QED BY <1>1, RowsAfterKeep DEF StoredOperations

-----------------------------------------------------------------------------
(***************************************************************************)
(* Each row is the union of the observations of its operation.             *)
(***************************************************************************)
Of(p, seen) == {o \in seen : SameOperation(o, p)}

\* The rows are what is known of seen: no observation without a row, no row that
\* is not the union of its observations.
AreUnions(rows, seen) ==
    /\ \A o \in seen : \E p \in rows : SameOperation(o, p)
    /\ \A p \in rows : IsUnionOf(p, Of(p, seen))

LEMMA UnionColumns ==
    ASSUME NEW p, NEW seen
    PROVE  IsUnionOf(p, seen) <=>
            /\ \A o \in seen : Covers(p, o)
            /\ \E o \in seen : o.outcome = p.outcome
            /\ \E o \in seen : o.category = p.category
            /\ \E o \in seen : o.provenance = p.provenance
            /\ \A path \in DOMAIN p.extensions : \E o \in seen :
                /\ path \in DOMAIN o.extensions
                /\ o.extensions[path] = p.extensions[path]
BY DEF IsUnionOf

\* A merge has each of its values from one of the two.
LEMMA MergeIsUnion ==
    ASSUME NEW p, IsOperation(p), NEW o, NEW seen, IsUnionOf(p, seen)
    PROVE  IsUnionOf(mergeOperationEvidence(p, o), seen \cup {o})
<1> DEFINE m == mergeOperationEvidence(p, o)
           all == seen \cup {o}
<1>1. /\ \A s \in seen : Covers(p, s)
      /\ \E s \in seen : s.outcome = p.outcome
      /\ \E s \in seen : s.category = p.category
      /\ \E s \in seen : s.provenance = p.provenance
      /\ \A path \in DOMAIN p.extensions : \E s \in seen :
            /\ path \in DOMAIN s.extensions
            /\ s.extensions[path] = p.extensions[path]
  BY UnionColumns
<1>2. /\ m.outcome \in {p.outcome, o.outcome}
      /\ m.category \in {p.category, o.category}
      /\ m.provenance \in {p.provenance, o.provenance}
      /\ m.extensions = deepMergeMaps(p.extensions, o.extensions)
  BY MergedFields DEF FillUnset, higherProvenance
<1>3. \A s \in all : Covers(m, s)
  BY <1>1, MergeCovers, CoversTransitive
<1> HIDE DEF m
<1>4. \A path \in DOMAIN m.extensions : \E s \in all :
            /\ path \in DOMAIN s.extensions
            /\ s.extensions[path] = m.extensions[path]
  <2> SUFFICES ASSUME NEW path \in DOMAIN m.extensions
               PROVE  \E s \in all : /\ path \in DOMAIN s.extensions
                                     /\ s.extensions[path] = m.extensions[path]
    OBVIOUS
  <2>1. /\ path \in DOMAIN p.extensions \/ path \in DOMAIN o.extensions
        /\ m.extensions[path] = IF path \in DOMAIN p.extensions THEN p.extensions[path]
                                ELSE o.extensions[path]
    BY <1>2 DEF deepMergeMaps
  <2> QED BY <1>1, <2>1
<1>5. /\ \E s \in all : s.outcome = m.outcome
      /\ \E s \in all : s.category = m.category
      /\ \E s \in all : s.provenance = m.provenance
  BY <1>1, <1>2
<1> HIDE DEF all
<1>6. IsUnionOf(m, all)
  BY <1>3, <1>4, <1>5, UnionColumns
<1> QED BY <1>6 DEF m, all

LEMMA UnionOfItself == \A o : IsUnionOf(o, {o})
BY CoversItself, UnionColumns

LEMMA StoreKeepsUnions ==
    ASSUME NEW rows, AreRows(rows), NEW seen, AreUnions(rows, seen), NEW o, IsOperation(o)
    PROVE  AreUnions(StoreOperation(rows, o), seen \cup {o})
<1> DEFINE later == StoreOperation(rows, o)
           all == seen \cup {o}
<1>1. \A s \in all : \E q \in later : SameOperation(s, q)
  <2>1. Grows(rows, later) /\ \E q \in later : SameOperation(o, q)
    BY StoreGrows
  <2> HIDE DEF later
  <2> QED BY <2>1 DEF AreUnions, Grows, SameOperation
<1>2. ASSUME NEW q \in later PROVE IsUnionOf(q, Of(q, all))
  <2>1. CASE q \in rows /\ ~SameOperation(o, q)
    <3>1. Of(q, all) = Of(q, seen)
      BY <2>1 DEF Of
    <3> QED BY <2>1, <3>1 DEF AreUnions
  <2>2. CASE q = o /\ \A p \in rows : ~SameOperation(o, p)
    <3>1. Of(q, all) = {o}
      BY <2>2 DEF Of, AreUnions, SameOperation
    <3> QED BY <2>2, <3>1, UnionOfItself
  <2>3. CASE \E p \in rows : SameOperation(o, p) /\ q = mergeOperationEvidence(p, o)
    <3>1. PICK p \in rows : SameOperation(o, p) /\ q = mergeOperationEvidence(p, o)
      BY <2>3
    <3>2. IsOperation(p) /\ SameOperation(q, p)
      BY <3>1, MergeCovers DEF AreRows
    <3>3. Of(q, all) = Of(p, seen) \cup {o}
      BY <3>1, <3>2 DEF Of, SameOperation
    <3>4. IsUnionOf(p, Of(p, seen))
      BY <3>1 DEF AreUnions
    <3> QED BY <3>1, <3>2, <3>3, <3>4, MergeIsUnion
  <2> QED BY <1>2, <2>1, <2>2, <2>3, StoredRows
<1> HIDE DEF later, all
<1>3. AreUnions(later, all)
  BY <1>1, <1>2 DEF AreUnions
<1> QED BY <1>3 DEF later, all

\* saveOperationsTx, for every list of observations: if each row was the union
\* of what was observed before, it is that of what is observed now, in whatever
\* order the observations come.
THEOREM StoredOperationsAreUnions ==
    ASSUME NEW rows, AreRows(rows), NEW seen, AreUnions(rows, seen),
           NEW operations, Len(operations) \in Nat,
           \A n \in 1 .. Len(operations) : IsOperation(operations[n])
    PROVE  AreUnions(StoredOperations(rows, operations),
                     seen \cup {operations[n] : n \in 1 .. Len(operations)})
<1> DEFINE after == RowsAfter(rows, operations)
           first(n) == seen \cup {operations[k] : k \in 1 .. n}
           Fails == {n \in Nat : n <= Len(operations) /\ ~AreUnions(after[n], first(n))}
<1>1. ASSUME Fails # {} PROVE FALSE
  <2>1. Fails \in SUBSET Nat
    OBVIOUS
  <2>2. PICK n \in Fails : \A k \in Fails : n <= k
    <3> HIDE DEF Fails
    <3> QED BY <1>1, <2>1, Least
  <2>3. /\ after[0] = rows
        /\ \A k \in 1 .. Len(operations) : after[k] = StoreOperation(after[k - 1], operations[k])
        /\ \A k \in 0 .. Len(operations) : AreRows(after[k])
    BY RowsAfterSteps, RowsAfterKeep
  <2> HIDE DEF after
  <2>4. AreUnions(after[0], first(0))
    <3>1. first(0) = seen
      OBVIOUS
    <3> HIDE DEF first
    <3> QED BY <2>3, <3>1
  <2>5. n \in 1 .. Len(operations) /\ n - 1 \in 0 .. Len(operations) /\ ~ (n <= n - 1)
    <3> HIDE DEF first
    <3> QED BY <2>2, <2>4
  <2>6. AreUnions(after[n - 1], first(n - 1))
    <3> HIDE DEF first
    <3> QED BY <2>2, <2>5
  <2>7. first(n) = first(n - 1) \cup {operations[n]}
    BY <2>5
  <2> HIDE DEF first
  <2>8. AreUnions(after[n], first(n))
    BY <2>3, <2>5, <2>6, <2>7, StoreKeepsUnions
  <2> QED BY <2>2, <2>8
<1>2. AreUnions(after[Len(operations)], first(Len(operations)))
  <2>1. Len(operations) \notin Fails
    BY <1>1
  <2> HIDE DEF after, first
  <2> QED BY <2>1
<1> QED BY <1>2 DEF StoredOperations
=============================================================================
