-------------------------- MODULE OperationEvidence --------------------------
(***************************************************************************)
(* One tool call is observed on several ingest routes (OTLP tool_result,   *)
(* JSONL transcript) under one operation identifier.  saveOperationTx      *)
(* stores the first observation and merges each later one into it.         *)
(*                                                                         *)
(* The extensions, nested maps in the code, are a function from leaf paths *)
(* to values.  Adapters give a path the same shape (map or leaf) on every  *)
(* route, so merging leaf by leaf is what deepMergeMaps does.              *)
(***************************************************************************)
EXTENDS Integers, Sequences

\* What the functions below read of a canonical.Operation.
IsOperation(o) ==
    /\ o = [session |-> o.session, operation |-> o.operation, outcome |-> o.outcome,
            category |-> o.category, provenance |-> o.provenance,
            extensions |-> o.extensions]
    /\ o.extensions = [path \in DOMAIN o.extensions |-> o.extensions[path]]

Unset == {"", "unknown"}

\* A set or known value stays, an unset or unknown one takes the new value.
FillUnset(stored, incoming) == IF stored \in Unset THEN incoming ELSE stored

provenanceRank(p) ==
    CASE p = "observed" -> 2
      [] p = "inferred" -> 1
      [] OTHER -> 0

higherProvenance(a, b) == IF provenanceRank(b) > provenanceRank(a) THEN b ELSE a

\* Union of two maps in which a leaf of the base is never overwritten.
deepMergeMaps(base, incoming) ==
    [path \in DOMAIN base \cup DOMAIN incoming |->
        IF path \in DOMAIN base THEN base[path] ELSE incoming[path]]

\* Mutant: only the columns are merged, not the extensions.
mergeOperationColumns(stored, incoming) ==
    [stored EXCEPT
        !.outcome = FillUnset(stored.outcome, incoming.outcome),
        !.category = FillUnset(stored.category, incoming.category),
        !.provenance = higherProvenance(stored.provenance, incoming.provenance)]

mergeOperationEvidence(stored, incoming) ==
    [stored EXCEPT
        !.outcome = FillUnset(stored.outcome, incoming.outcome),
        !.category = FillUnset(stored.category, incoming.category),
        !.provenance = higherProvenance(stored.provenance, incoming.provenance),
        !.extensions = deepMergeMaps(stored.extensions, incoming.extensions)]

\* Two observations of one row of the operations table.
SameOperation(o, p) == o.session = p.session /\ o.operation = p.operation

\* Mutant: INSERT OR REPLACE, the last observation is the row.
StoreOperationReplaced(rows, o) == {p \in rows : ~SameOperation(o, p)} \cup {o}

\* saveOperationTx: insert, or replace the stored row by the merge.
StoreOperation(rows, o) ==
    IF \E p \in rows : SameOperation(o, p)
    THEN {IF SameOperation(o, p) THEN mergeOperationEvidence(p, o) ELSE p : p \in rows}
    ELSE rows \cup {o}

\* saveOperationsTx: the rows after each of the operations of a request.
RowsAfter(rows, operations) ==
    LET after[n \in 0 .. Len(operations)] ==
            IF n = 0 THEN rows ELSE StoreOperation(after[n - 1], operations[n])
    IN  after

StoredOperations(rows, operations) == RowsAfter(rows, operations)[Len(operations)]

\* Nothing o proves is missing from p.
Covers(p, o) ==
    /\ o.outcome \notin Unset => p.outcome \notin Unset
    /\ o.category \notin Unset => p.category \notin Unset
    /\ provenanceRank(o.provenance) <= provenanceRank(p.provenance)
    /\ DOMAIN o.extensions \subseteq DOMAIN p.extensions

\* All that the observations prove is in p, and nothing else.
IsUnionOf(p, observations) ==
    /\ \A o \in observations : Covers(p, o)
    /\ \A column \in {"outcome", "category", "provenance"} :
        \E o \in observations : o[column] = p[column]
    /\ \A path \in DOMAIN p.extensions :
        \E o \in observations : /\ path \in DOMAIN o.extensions
                                /\ o.extensions[path] = p.extensions[path]

\* A row for each operation, and each of them an operation.
AreRows(rows) ==
    /\ \A p \in rows : IsOperation(p)
    /\ \A p, q \in rows : SameOperation(p, q) => p = q

\* Every row of the one table is kept, merged or not, in the other one.
Grows(rows, later) ==
    \A p \in rows : \E q \in later : SameOperation(p, q) /\ Covers(q, p)
=============================================================================
