-------------------------- MODULE ConfigManagerProofs --------------------------
(***************************************************************************)
(* ConfigManager, for any requests, lists, entries and bounds.             *)
(***************************************************************************)
EXTENDS ConfigManager, FiniteSetTheorems, Induction

\* What the daemon can start from.
Usable(content) ==
    /\ content.kind = "config" => Validate(content.config)
    /\ content.kind = "missing" => ~named
    /\ content.kind # "unusable"

\* The configuration a request saves: the live one with its own list.
Replacing(r) ==
    [memory EXCEPT ![draft[r].policy] = Stored(draft[r].policy, draft[r].list)]

\* A request inside a save replaces one list of the configuration that is
\* still live, and writes it only once it is validated; the file has run ahead
\* of the memory only for the request that replaced it.
SaveOK(r) ==
    /\ pc[r] = "waiting" => up
    /\ pc[r] \in Holding => up /\ next[r] = Replacing(r)
    /\ pc[r] \in {"written", "synced", "replaced"} => Validate(next[r])
    /\ (pc[r] = "replaced" /\ ~edited) => Loaded = next[r]

\* The inductive invariant.
ConfigInvariant ==
    /\ file \in durable
    /\ \A content \in durable : Usable(content)
    /\ \A r \in Request : SaveOK(r)
    /\ FileMatchesMemory

(***************************************************************************)
(* Lists are finite, so what is said of them is proved for the least       *)
(* number of entries it could fail at.                                     *)
(***************************************************************************)
\* Of finitely many entries one comes last.
Last(S, m) == m \in S /\ \A e \in S : e.fold <= m.fold

LEMMA LastExists ==
    ASSUME NEW S \in SUBSET Entry, IsFiniteSet(S), S # {}
    PROVE  \E m \in S : Last(S, m)
<1> DEFINE Lacks(T) == IsFiniteSet(T) /\ T # {} /\ \A m \in T : ~Last(T, m)
           Sizes == {n \in Nat : \E T \in SUBSET Entry : Lacks(T) /\ Cardinality(T) = n}
<1> SUFFICES ASSUME Lacks(S) PROVE FALSE
  OBVIOUS
<1>1. Cardinality(S) \in Sizes
  BY FS_CardinalityType
<1>2. PICK n \in Sizes : \A k \in Sizes : n <= k
  <2> HIDE DEF Lacks
  <2> QED BY <1>1, Least
<1>3. PICK T \in SUBSET Entry : Lacks(T) /\ Cardinality(T) = n
  BY <1>2
<1>4. PICK x \in T : TRUE
  BY <1>3
<1>5. /\ IsFiniteSet(T \ {x})
      /\ Cardinality(T \ {x}) = n - 1
      /\ n - 1 \in Nat
  <2>1. IsFiniteSet(T \ {x}) /\ Cardinality(T \ {x}) = n - 1
    BY <1>3, <1>4, FS_RemoveElement
  <2> QED BY <2>1, FS_CardinalityType
<1>6. x.fold \in Nat /\ \A e \in T : e.fold \in Nat
  BY <1>3, <1>4, EntryAssumption
<1>7. CASE T = {x}
  <2>1. Last(T, x)
    BY <1>6, <1>7 DEF Last
  <2> QED BY <1>3, <1>4, <2>1
<1>8. CASE T # {x}
  <2>1. ~Lacks(T \ {x})
    <3>1. SUFFICES ASSUME Lacks(T \ {x}) PROVE n - 1 \in Sizes
      BY <1>2, <1>5
    <3>2. T \ {x} \in SUBSET Entry
      OBVIOUS
    <3> QED BY <1>5, <3>1, <3>2
  <2>2. PICK m \in T \ {x} : Last(T \ {x}, m)
    BY <1>4, <1>5, <1>8, <2>1
  <2>3. Last(T, IF x.fold <= m.fold THEN m ELSE x)
    BY <1>4, <1>6, <2>2 DEF Last
  <2> QED BY <1>3, <1>4, <2>2, <2>3
<1> QED BY <1>7, <1>8

\* Entries of different names can be listed in the order of their names.
Distinct(S) == \A a, b \in S : a.fold = b.fold => a = b

Ascending(S, sorted) ==
    /\ sorted \in [1 .. Cardinality(S) -> S]
    /\ \A i, j \in 1 .. Cardinality(S) : i < j => sorted[i].fold < sorted[j].fold

LEMMA SortedExists ==
    ASSUME NEW S \in SUBSET Entry, IsFiniteSet(S), Distinct(S)
    PROVE  \E sorted : Ascending(S, sorted)
<1> DEFINE Lacks(T) == IsFiniteSet(T) /\ Distinct(T) /\ \A sorted : ~Ascending(T, sorted)
           Sizes == {n \in Nat : \E T \in SUBSET Entry : Lacks(T) /\ Cardinality(T) = n}
<1> SUFFICES ASSUME Lacks(S) PROVE FALSE
  OBVIOUS
<1>1. Cardinality(S) \in Sizes
  BY FS_CardinalityType
<1>2. PICK n \in Sizes : \A k \in Sizes : n <= k
  <2> HIDE DEF Lacks
  <2> QED BY <1>1, Least
<1>3. PICK T \in SUBSET Entry : Lacks(T) /\ Cardinality(T) = n
  BY <1>2
<1>4. T # {}
  <2> SUFFICES ASSUME T = {} PROVE FALSE
    OBVIOUS
  <2>1. n = 0
    BY <1>3, FS_EmptySet
  <2>2. Ascending(T, [i \in 1 .. 0 |-> 0])
    BY <1>3, <2>1 DEF Ascending
  <2> QED BY <1>3, <2>2
<1>5. PICK m \in T : Last(T, m)
  BY <1>3, <1>4, LastExists
<1> DEFINE R == T \ {m}
<1>6. /\ IsFiniteSet(R)
      /\ Cardinality(R) = n - 1
      /\ n - 1 \in Nat
  <2>1. IsFiniteSet(R) /\ Cardinality(R) = n - 1
    BY <1>3, FS_RemoveElement
  <2> QED BY <2>1, FS_CardinalityType
<1>7. ~Lacks(R)
  <2>1. SUFFICES ASSUME Lacks(R) PROVE n - 1 \in Sizes
    BY <1>2, <1>6
  <2>2. R \in SUBSET Entry
    OBVIOUS
  <2> QED BY <1>6, <2>1, <2>2
<1>8. PICK front : Ascending(R, front)
  BY <1>3, <1>6, <1>7 DEF Distinct
<1>9. \A e \in R : e.fold \in Nat /\ m.fold \in Nat /\ e.fold < m.fold
  <2> TAKE e \in R
  <2>1. e \in Entry /\ m \in Entry
    BY <1>3
  <2>2. e.fold \in Nat /\ m.fold \in Nat
    BY <2>1, EntryAssumption
  <2>3. e.fold <= m.fold /\ e.fold # m.fold
    BY <1>3, <1>5 DEF Last, Distinct
  <2> QED BY <2>2, <2>3
<1> DEFINE sorted == [i \in 1 .. n |-> IF i = n THEN m ELSE front[i]]
<1>10. \A i \in 1 .. n : i # n => i \in 1 .. Cardinality(R) /\ front[i] \in R
  <2> HIDE DEF R
  <2>1. n \in Nat
    OBVIOUS
  <2>2. \A i \in 1 .. n : i # n => i \in 1 .. n - 1
    BY <2>1
  <2>3. front \in [1 .. n - 1 -> R]
    BY <1>6, <1>8 DEF Ascending
  <2> QED BY <1>6, <2>2, <2>3
<1>11. Ascending(T, sorted)
  <2>1. sorted \in [1 .. n -> T]
    BY <1>10
  <2>2. ASSUME NEW i \in 1 .. n, NEW j \in 1 .. n, i < j
        PROVE  sorted[i].fold < sorted[j].fold
    <3>1. i # n /\ sorted[i] = front[i]
      BY <1>6, <2>2
    <3>2. CASE j = n
      BY <1>9, <1>10, <3>1, <3>2
    <3>3. CASE j # n
      BY <1>8, <1>10, <2>2, <3>1, <3>3 DEF Ascending
    <3> QED BY <3>2, <3>3
  <2> QED BY <1>3, <2>1, <2>2 DEF Ascending
<1> QED BY <1>3, <1>11

\* What normalizedAllowlist stores: entries of the list, in the order of their
\* names and each name once, and no name of the list is left out.
THEOREM NormalizedListCorrect ==
    ASSUME NEW list \in Seq(Entry)
    PROVE  LET stored == normalizedAllowlist(list)
           IN  /\ stored \in Seq(Entry)
               /\ \A i, j \in DOMAIN stored : i < j => stored[i].fold < stored[j].fold
               /\ \A i \in DOMAIN stored : \E j \in DOMAIN list : stored[i] = list[j]
               /\ \A j \in DOMAIN list : \E i \in DOMAIN stored : stored[i].fold = list[j].fold
<1> DEFINE kept == {list[i] : i \in {j \in DOMAIN list :
                        \A k \in 1 .. j - 1 : list[k].fold # list[j].fold}}
<1>1. Len(list) \in Nat /\ DOMAIN list = 1 .. Len(list)
  OBVIOUS
<1>2. \A i \in DOMAIN list : list[i] \in Entry
  OBVIOUS
<1>3. kept \in SUBSET Entry
  BY <1>2
<1>4. IsFiniteSet(kept)
  <2>1. IsFiniteSet(DOMAIN list)
    BY <1>1, FS_Interval
  <2>2. IsFiniteSet({list[i] : i \in DOMAIN list})
    <3> DEFINE entries == {list[i] : i \in DOMAIN list}
    <3>1. list \in Surjection(DOMAIN list, entries)
      BY DEF Surjection
    <3> HIDE DEF entries
    <3>2. IsFiniteSet(entries)
      BY <2>1, <3>1, FS_Surjection
    <3> QED BY <3>2 DEF entries
  <2>3. kept \subseteq {list[i] : i \in DOMAIN list}
    OBVIOUS
  <2> QED BY <2>2, <2>3, FS_Subset
<1>5. Distinct(kept)
  <2> SUFFICES ASSUME NEW i \in DOMAIN list, NEW j \in DOMAIN list,
                      \A k \in 1 .. i - 1 : list[k].fold # list[i].fold,
                      \A k \in 1 .. j - 1 : list[k].fold # list[j].fold,
                      list[i].fold = list[j].fold
               PROVE  i = j
    BY DEF Distinct
  <2>1. i \in 1 .. Len(list) /\ j \in 1 .. Len(list)
    BY <1>1
  <2>2. ~(i < j) /\ ~(j < i)
    BY <1>1, <2>1
  <2> QED BY <1>1, <2>1, <2>2
<1>6. Ascending(kept, normalizedAllowlist(list))
  <2>1. \E sorted : Ascending(kept, sorted)
    BY <1>3, <1>4, <1>5, SortedExists
  <2>2. \E sorted \in [1 .. Cardinality(kept) -> kept] :
            \A i, j \in 1 .. Cardinality(kept) : i < j => sorted[i].fold < sorted[j].fold
    BY <2>1 DEF Ascending
  <2>3. normalizedAllowlist(list) =
          CHOOSE sorted \in [1 .. Cardinality(kept) -> kept] :
            \A i, j \in 1 .. Cardinality(kept) : i < j => sorted[i].fold < sorted[j].fold
    BY DEF normalizedAllowlist
  <2> HIDE DEF kept
  <2> QED BY <2>2, <2>3 DEF Ascending
<1>7. Cardinality(kept) \in Nat
  BY <1>4, FS_CardinalityType
<1> HIDE DEF kept
<1>8. normalizedAllowlist(list) \in [1 .. Cardinality(kept) -> Entry]
  BY <1>3, <1>6 DEF Ascending
<1>9. DOMAIN normalizedAllowlist(list) = 1 .. Cardinality(kept)
  BY <1>8
<1>10. normalizedAllowlist(list) \in Seq(Entry)
  BY <1>7, <1>8
<1> DEFINE stored == normalizedAllowlist(list)
           places == 1 .. Cardinality(kept)
<1>11. stored \in Surjection(places, kept)
  <2>1. stored \in Injection(places, kept)
    <3>1. stored \in [places -> kept]
      BY <1>6 DEF Ascending
    <3>2. ASSUME NEW i \in places, NEW j \in places, stored[i] = stored[j]
          PROVE  i = j
      <4>1. stored[i].fold \in Nat
        BY <1>3, <3>1, EntryAssumption
      <4>2. ~(i < j) /\ ~(j < i)
        BY <1>6, <3>2, <4>1 DEF Ascending
      <4> QED BY <1>7, <4>2
    <3> QED BY <3>1, <3>2 DEF Injection, IsInjective
  <2>2. IsFiniteSet(places) /\ Cardinality(places) = Cardinality(kept)
    BY <1>7, FS_Interval
  <2> QED BY <1>4, <2>1, <2>2, FS_Injection
<1>12. ASSUME NEW j \in DOMAIN list
       PROVE  \E e \in kept : e.fold = list[j].fold
  <2> DEFINE same == {k \in 1 .. Len(list) : list[k].fold = list[j].fold}
  <2>1. same \in SUBSET Nat /\ same # {}
    BY <1>1
  <2>2. PICK k \in same : \A l \in same : k <= l
    BY <2>1, Least
  <2>3. \A l \in 1 .. k - 1 : list[l].fold # list[k].fold
    <3> TAKE l \in 1 .. k - 1
    <3>1. l \in 1 .. Len(list) /\ ~(k <= l)
      BY <1>1, <2>2
    <3> QED BY <2>2, <3>1
  <2>4. list[k] \in kept
    BY <1>1, <2>2, <2>3 DEF kept
  <2> QED BY <2>2, <2>4
<1>13. \A i \in places : \E j \in DOMAIN list : stored[i] = list[j]
  BY <1>6 DEF Ascending, kept
<1>14. \A j \in DOMAIN list : \E i \in places : stored[i].fold = list[j].fold
  BY <1>11, <1>12 DEF Surjection
<1> QED BY <1>6, <1>9, <1>10, <1>13, <1>14 DEF Ascending

(***************************************************************************)
(* The types, which hold because a list a request sends is stored as a     *)
(* list of entries again.                                                  *)
(***************************************************************************)
LEMMA DefaultIsValid == Default \in Config /\ Validate(Default)
<1>1. Default \in Config
  BY DEF Default, Config
<1>2. Validate(Default)
  BY BoundsAssumption DEF Validate, ValidPolicy, Default
<1> QED BY <1>1, <1>2

LEMMA StoredType ==
    ASSUME NEW p \in Policy, NEW list \in Draft \cup {<<>>}
    PROVE  Stored(p, list) \in Seq(Entry)
<1>1. <<>> \in Seq(Entry)
  OBVIOUS
<1>2. list \in Seq(Entry)
  BY <1>1, DraftAssumption
<1> QED BY <1>2, NormalizedListCorrect DEF Stored

LEMMA ReplacingType ==
    ASSUME TypeOK, NEW r \in Request
    PROVE  /\ Replacing(r) \in Config
           /\ \A p \in Policy \ {draft[r].policy} : Replacing(r)[p] = memory[p]
<1>1. draft[r].policy \in Policy /\ draft[r].list \in Draft \cup {<<>>}
  BY DEF TypeOK
<1>2. Stored(draft[r].policy, draft[r].list) \in Seq(Entry)
  BY <1>1, StoredType
<1> QED BY <1>1, <1>2 DEF TypeOK, Replacing, Config

LEMMA LoadedType == TypeOK => Loaded \in Config
BY DefaultIsValid DEF TypeOK, Content, Loaded

LEMMA SavedType == \A config \in Config : Saved(config) \in Content
BY DEF Saved, Content

\* The end of a save, answered or refused, and of a process.
LEMMA ReleaseType ==
    ASSUME TypeOK, NEW r \in Request, pc[r] \in Holding,
           pc' = [pc EXCEPT ![r] = "done"],
           lock' = Nobody
    PROVE  /\ lock' \in Request \cup {Nobody}
           /\ pc' \in [Request -> {"idle", "waiting", "done"} \cup Holding]
           /\ \A q \in Request : pc'[q] \in Holding <=> lock' = q
<1>1. \A q \in Request \ {r} : pc[q] \notin Holding
  BY DEF TypeOK
<1> QED BY <1>1, NobodyAssumption DEF TypeOK, Holding

\* A step of the holder that keeps the lock.
LEMMA StepType ==
    ASSUME TypeOK, NEW r \in Request, pc[r] \in Holding, NEW at \in Holding,
           pc' = [pc EXCEPT ![r] = at],
           lock' = lock
    PROVE  /\ pc' \in [Request -> {"idle", "waiting", "done"} \cup Holding]
           /\ \A q \in Request : pc'[q] \in Holding <=> lock' = q
BY DEF TypeOK

LEMMA NoDraftType == NoDraft \in [policy : Policy, list : Draft \cup {<<>>}]
BY PolicyAssumption DEF NoDraft

LEMMA EndedType ==
    ASSUME TypeOK, pc' = Ended, lock' = Nobody
    PROVE  /\ pc' \in [Request -> {"idle", "waiting", "done"} \cup Holding]
           /\ lock' \in Request \cup {Nobody}
           /\ \A q \in Request : pc'[q] \in Holding <=> lock' = q
BY NobodyAssumption DEF TypeOK, Ended, Holding

LEMMA InitType == Init => TypeOK
<1> SUFFICES ASSUME Init PROVE TypeOK
  OBVIOUS
<1>1. file \in Content
  BY DefaultIsValid DEF Init, Content, Saved, Missing
<1>2. \A r \in Request : pc[r] \in Holding <=> lock = r
  BY NobodyAssumption DEF Init, Holding
<1> QED BY <1>1, <1>2, DefaultIsValid, NoDraftType DEF Init, TypeOK

LEMMA NextType == TypeOK /\ [Next]_vars => TypeOK'
<1> SUFFICES ASSUME TypeOK, [Next]_vars PROVE TypeOK'
  OBVIOUS
<1>1. ASSUME Start PROVE TypeOK'
  BY <1>1, LoadedType DEF Start, TypeOK
<1>2. ASSUME NEW r \in Request, NEW p \in Policy, NEW list \in Draft, Submit(r, p, list)
      PROVE  TypeOK'
  <2>1. draft' \in [Request -> [policy : Policy, list : Draft \cup {<<>>}]]
    BY <1>2 DEF Submit, TypeOK
  <2>2. /\ pc' \in [Request -> {"idle", "waiting", "done"} \cup Holding]
        /\ \A q \in Request : pc'[q] \in Holding <=> lock' = q
    BY <1>2 DEF Submit, TypeOK, Holding
  <2> QED BY <1>2, <2>1, <2>2 DEF Submit, TypeOK
<1>3. ASSUME NEW r \in Request, Lock(r) PROVE TypeOK'
  <2>1. next' \in [Request -> Config]
    <3>1. next' = [next EXCEPT ![r] = Replacing(r)]
      BY <1>3 DEF Lock, Replacing
    <3> QED BY <3>1, ReplacingType DEF TypeOK
  <2>2. /\ pc' \in [Request -> {"idle", "waiting", "done"} \cup Holding]
        /\ \A q \in Request : pc'[q] \in Holding <=> lock' = q
    BY <1>3, NobodyAssumption DEF Lock, TypeOK, Holding
  <2> QED BY <1>3, <2>1, <2>2 DEF Lock, TypeOK
<1>4. ASSUME NEW r \in Request, Refuse(r) \/ Publish(r) \/ FailSave(r) PROVE TypeOK'
  <2>1. pc[r] \in Holding /\ pc' = [pc EXCEPT ![r] = "done"] /\ lock' = Nobody
    BY <1>4 DEF Refuse, Publish, FailSave, Holding
  <2>2. /\ draft' \in [Request -> [policy : Policy, list : Draft \cup {<<>>}]]
        /\ next' \in [Request -> Config]
    BY <1>4, NoDraftType, DefaultIsValid DEF Refuse, Publish, FailSave, TypeOK
  <2>3. memory' \in Config /\ faults' \in Nat
    BY <1>4 DEF Refuse, Publish, FailSave, TypeOK
  <2> QED BY <1>4, <2>1, <2>2, <2>3, ReleaseType DEF Refuse, Publish, FailSave, TypeOK
<1>5. ASSUME NEW r \in Request, WriteTemp(r) \/ SyncTemp(r) PROVE TypeOK'
  <2>1. /\ pc[r] \in Holding /\ lock' = lock
        /\ pc' = [pc EXCEPT ![r] = "written"] \/ pc' = [pc EXCEPT ![r] = "synced"]
    BY <1>5 DEF WriteTemp, SyncTemp, Holding
  <2>2. "written" \in Holding /\ "synced" \in Holding
    BY DEF Holding
  <2> QED BY <1>5, <2>1, <2>2, StepType DEF WriteTemp, SyncTemp, TypeOK
<1>6. ASSUME NEW r \in Request, Replace(r) PROVE TypeOK'
  <2>1. pc[r] \in Holding /\ lock' = lock /\ "replaced" \in Holding
    BY <1>6 DEF Replace, Holding
  <2>2. file' \in Content
    BY <1>6, SavedType DEF Replace, TypeOK
  <2> QED BY <1>6, <2>1, <2>2, StepType DEF Replace, TypeOK
<1>7. ASSUME Crash \/ PowerLoss PROVE TypeOK'
  <2>1. /\ draft' \in [Request -> [policy : Policy, list : Draft \cup {<<>>}]]
        /\ next' \in [Request -> Config]
    BY <1>7, NoDraftType, DefaultIsValid DEF Crash, PowerLoss
  <2>2. file' \in Content /\ durable' \subseteq Content
    BY <1>7 DEF Crash, PowerLoss, TypeOK
  <2>3. /\ memory' = memory /\ up' = FALSE /\ edited' = edited
        /\ faults' = faults + 1 /\ named' = named
    BY <1>7 DEF Crash, PowerLoss
  <2>4. pc' = Ended /\ lock' = Nobody
    BY <1>7 DEF Crash, PowerLoss
  <2>5. /\ pc' \in [Request -> {"idle", "waiting", "done"} \cup Holding]
        /\ lock' \in Request \cup {Nobody}
        /\ \A q \in Request : pc'[q] \in Holding <=> lock' = q
    BY <2>4, EndedType
  <2>6. faults' \in Nat
    BY <2>3 DEF TypeOK
  <2> QED BY <2>1, <2>2, <2>3, <2>5, <2>6 DEF TypeOK
<1>8. ASSUME WriteBack PROVE TypeOK'
  BY <1>8 DEF WriteBack, TypeOK
<1>9. ASSUME NEW p \in Policy, NEW list \in Draft, OperatorEdit(p, list) PROVE TypeOK'
  <2>1. [Loaded EXCEPT ![p] = list] \in Config
    BY LoadedType, DraftAssumption DEF Config
  <2>2. file' \in Content
    BY <1>9, <2>1, SavedType DEF OperatorEdit
  <2>3. durable' \subseteq Content /\ edited' \in BOOLEAN /\ faults' \in Nat
    BY <1>9, <2>2 DEF OperatorEdit, TypeOK
  <2>4. UNCHANGED <<memory, up, lock, pc, draft, next, named>>
    BY <1>9 DEF OperatorEdit
  <2> QED BY <2>2, <2>3, <2>4 DEF TypeOK
<1>10. CASE UNCHANGED vars
  BY <1>10 DEF vars, TypeOK
<1> QED
  BY <1>1, <1>2, <1>3, <1>4, <1>5, <1>6, <1>7, <1>8, <1>9, <1>10 DEF Next, Work

\* Every state is of its type; the request that holds the lock is the one
\* inside a save.
THEOREM TypeCorrect == Spec => []TypeOK
<1> QED BY InitType, NextType, PTL DEF Spec

(***************************************************************************)
(* The invariant.                                                          *)
(***************************************************************************)
LEMMA InitConfig == Init => ConfigInvariant
<1> SUFFICES ASSUME Init PROVE ConfigInvariant
  OBVIOUS
<1>1. Usable(file)
  BY DefaultIsValid DEF Init, Usable, Saved, Missing
<1> QED BY <1>1 DEF Init, ConfigInvariant, SaveOK, Holding, FileMatchesMemory

\* The steps that leave the file alone leave what a failure can leave of it.
LEMMA ContentsKept ==
    ASSUME ConfigInvariant, UNCHANGED <<file, durable, named>>
    PROVE  file' \in durable' /\ \A content \in durable' : Usable(content)'
BY DEF ConfigInvariant, Usable

\* One request holds the lock, and the others are outside of their saves.
LEMMA OneHolds ==
    ASSUME TypeOK, NEW r \in Request, pc[r] \in Holding, NEW q \in Request \ {r}
    PROVE  pc[q] \notin Holding /\ pc[q] # "replaced"
BY DEF TypeOK, Holding

\* A request outside of a save has nothing to lose but its process.
LEMMA OutsideKept ==
    ASSUME ConfigInvariant, NEW q \in Request, pc[q] \notin Holding,
           pc'[q] = pc[q], up' = up
    PROVE  SaveOK(q)'
BY DEF ConfigInvariant, SaveOK, Holding

LEMMA StartKeeps ==
    ASSUME TypeOK, ConfigInvariant, Start
    PROVE  ConfigInvariant'
<1>1. \A r \in Request : pc[r] \notin Holding /\ pc[r] # "waiting"
  BY DEF ConfigInvariant, SaveOK, Start
<1>2. \A r \in Request : SaveOK(r)'
  BY <1>1 DEF SaveOK, Start, Holding
<1>3. FileMatchesMemory'
  BY DEF FileMatchesMemory, Start, Loaded
<1> QED BY <1>2, <1>3, ContentsKept DEF ConfigInvariant, Start

LEMMA SubmitKeeps ==
    ASSUME TypeOK, ConfigInvariant,
           NEW r \in Request, NEW p \in Policy, NEW list \in Draft, Submit(r, p, list)
    PROVE  ConfigInvariant'
<1>1. ASSUME NEW q \in Request PROVE SaveOK(q)'
  <2>1. CASE q = r
    BY <2>1 DEF Submit, SaveOK, TypeOK, Holding
  <2>2. CASE q # r
    <3>1. pc'[q] = pc[q] /\ draft'[q] = draft[q] /\ next'[q] = next[q]
      BY <2>2 DEF Submit, TypeOK
    <3> QED BY <3>1 DEF Submit, SaveOK, ConfigInvariant, Replacing, Loaded
  <2> QED BY <2>1, <2>2
<1>2. FileMatchesMemory'
  BY DEF ConfigInvariant, FileMatchesMemory, Submit, Loaded, TypeOK
<1> QED BY <1>1, <1>2, ContentsKept DEF ConfigInvariant, Submit

LEMMA LockKeeps ==
    ASSUME TypeOK, ConfigInvariant, NEW r \in Request, Lock(r)
    PROVE  ConfigInvariant'
<1>1. \A q \in Request : pc[q] \notin Holding
  BY NobodyAssumption DEF TypeOK, Lock
<1>2. ASSUME NEW q \in Request PROVE SaveOK(q)'
  <2>1. CASE q = r
    <3>1. pc'[q] = "locked" /\ next'[q] = Replacing(q)
      BY <2>1 DEF Lock, TypeOK, Replacing
    <3>2. up' /\ Replacing(q)' = Replacing(q)
      BY <2>1 DEF Lock, ConfigInvariant, SaveOK, Replacing
    <3> QED BY <3>1, <3>2 DEF SaveOK
  <2>2. CASE q # r
    <3>1. pc'[q] = pc[q] /\ up' = up
      BY <2>2 DEF Lock, TypeOK
    <3> QED BY <1>1, <3>1, OutsideKept
  <2> QED BY <2>1, <2>2
<1>3. FileMatchesMemory'
  BY <1>1 DEF ConfigInvariant, FileMatchesMemory, Lock, Loaded, Holding
<1> QED BY <1>2, <1>3, ContentsKept DEF ConfigInvariant, Lock

\* A save that ends without a new file.
LEMMA GiveUpKeeps ==
    ASSUME TypeOK, ConfigInvariant, NEW r \in Request, Refuse(r) \/ FailSave(r)
    PROVE  ConfigInvariant'
<1>1. /\ pc[r] \in {"locked", "written", "synced"}
      /\ pc' = [pc EXCEPT ![r] = "done"]
      /\ UNCHANGED <<file, durable, memory, up, edited, named>>
  BY DEF Refuse, FailSave
<1>2. pc[r] \in Holding /\ pc[r] # "replaced"
  BY <1>1 DEF Holding
<1>3. ASSUME NEW q \in Request PROVE SaveOK(q)'
  <2>1. CASE q = r
    BY <1>1, <2>1 DEF SaveOK, TypeOK, Holding
  <2>2. CASE q # r
    BY <1>1, <1>2, <2>2, OneHolds, OutsideKept DEF TypeOK
  <2> QED BY <2>1, <2>2
<1>4. \A q \in Request : pc[q] # "replaced"
  BY <1>2, OneHolds
<1>5. FileMatchesMemory'
  BY <1>1, <1>4 DEF ConfigInvariant, FileMatchesMemory, Loaded
<1> QED BY <1>1, <1>3, <1>5, ContentsKept DEF ConfigInvariant

LEMMA WriteKeeps ==
    ASSUME TypeOK, ConfigInvariant, NEW r \in Request, WriteTemp(r) \/ SyncTemp(r)
    PROVE  ConfigInvariant'
<1>1. /\ pc[r] \in {"locked", "written"}
      /\ pc'[r] \in {"written", "synced"}
      /\ \A q \in Request \ {r} : pc'[q] = pc[q]
      /\ UNCHANGED <<file, durable, memory, up, draft, next, edited, named>>
  BY DEF WriteTemp, SyncTemp, TypeOK
<1>2. Validate(next[r])
  BY DEF WriteTemp, SyncTemp, ConfigInvariant, SaveOK
<1>3. pc[r] \in Holding
  BY <1>1 DEF Holding
<1>4. ASSUME NEW q \in Request PROVE SaveOK(q)'
  <2>1. CASE q = r
    <3>1. up /\ next[r] = Replacing(r)
      BY <1>3 DEF ConfigInvariant, SaveOK
    <3>2. Replacing(r)' = Replacing(r)
      BY <1>1 DEF Replacing
    <3> QED BY <1>1, <1>2, <2>1, <3>1, <3>2 DEF SaveOK
  <2>2. CASE q # r
    BY <1>1, <1>3, <2>2, OneHolds, OutsideKept
  <2> QED BY <2>1, <2>2
<1>5. \A q \in Request : pc[q] # "replaced"
  BY <1>1, <1>3, OneHolds
<1>6. FileMatchesMemory'
  BY <1>1, <1>5 DEF ConfigInvariant, FileMatchesMemory, Loaded
<1> QED BY <1>1, <1>4, <1>6, ContentsKept DEF ConfigInvariant

LEMMA ReplaceKeeps ==
    ASSUME TypeOK, ConfigInvariant, NEW r \in Request, Replace(r)
    PROVE  ConfigInvariant'
<1>1. pc[r] \in Holding /\ Validate(next[r]) /\ up /\ next[r] = Replacing(r)
  BY DEF Replace, Holding, ConfigInvariant, SaveOK
<1>2. /\ pc'[r] = "replaced"
      /\ \A q \in Request \ {r} : pc'[q] = pc[q]
      /\ UNCHANGED <<memory, up, draft, next, named>>
  BY DEF Replace, TypeOK
<1>3. file' \in durable' /\ \A content \in durable' : Usable(content)'
  <2>1. Usable(Saved(next[r]))'
    BY <1>1, <1>2 DEF Usable, Saved
  <2>2. file' = Saved(next[r]) /\ durable' = durable \cup {file'}
    BY DEF Replace
  <2>3. \A content \in durable : Usable(content)'
    BY <1>2 DEF ConfigInvariant, Usable
  <2> QED BY <1>2, <2>1, <2>2, <2>3
<1>4. ASSUME NEW q \in Request PROVE SaveOK(q)'
  <2>1. CASE q = r
    <3>1. Replacing(r)' = Replacing(r)
      BY <1>2 DEF Replacing
    <3>2. Loaded' = next'[r]
      BY <1>2 DEF Replace, Loaded, Saved
    <3> QED BY <1>1, <1>2, <2>1, <3>1, <3>2 DEF SaveOK
  <2>2. CASE q # r
    BY <1>1, <1>2, <2>2, OneHolds, OutsideKept
  <2> QED BY <2>1, <2>2
<1>5. FileMatchesMemory'
  BY <1>2 DEF FileMatchesMemory
<1> QED BY <1>3, <1>4, <1>5 DEF ConfigInvariant

LEMMA PublishKeeps ==
    ASSUME TypeOK, ConfigInvariant, NEW r \in Request, Publish(r)
    PROVE  ConfigInvariant'
<1>1. pc[r] = "replaced" /\ pc[r] \in Holding
  BY DEF Publish, Holding
<1>2. ASSUME NEW q \in Request PROVE SaveOK(q)'
  <2>1. CASE q = r
    BY <2>1 DEF Publish, SaveOK, TypeOK, Holding
  <2>2. CASE q # r
    <3>1. pc'[q] = pc[q] /\ up' = up
      BY <2>2 DEF Publish, TypeOK
    <3> QED BY <1>1, <2>2, <3>1, OneHolds, OutsideKept
  <2> QED BY <2>1, <2>2
<1>3. FileMatchesMemory'
  BY <1>1 DEF ConfigInvariant, SaveOK, FileMatchesMemory, Publish, Loaded
<1> QED BY <1>2, <1>3, ContentsKept DEF ConfigInvariant, Publish

\* After the death of the process or of the machine nobody is inside a save.
LEMMA EndKeeps ==
    ASSUME TypeOK, ConfigInvariant, Crash \/ PowerLoss
    PROVE  ConfigInvariant'
<1>1. up' = FALSE /\ pc' = Ended
  BY DEF Crash, PowerLoss
<1>2. file' \in durable' /\ \A content \in durable' : Usable(content)'
  <2>1. named' = named /\ durable' \subseteq durable /\ file' \in durable'
    BY DEF Crash, PowerLoss, ConfigInvariant
  <2> QED BY <2>1 DEF ConfigInvariant, Usable
<1>3. \A q \in Request : SaveOK(q)'
  BY <1>1 DEF SaveOK, Ended, Holding
<1>4. FileMatchesMemory'
  BY <1>1 DEF FileMatchesMemory
<1> QED BY <1>2, <1>3, <1>4 DEF ConfigInvariant

LEMMA EditKeeps ==
    ASSUME TypeOK, ConfigInvariant,
           NEW p \in Policy, NEW list \in Draft, OperatorEdit(p, list)
    PROVE  ConfigInvariant'
<1> DEFINE config == [Loaded EXCEPT ![p] = list]
<1>1. Loaded \in Config /\ Validate(Loaded)
  BY LoadedType, DefaultIsValid DEF ConfigInvariant, Usable, Loaded
<1>2. Validate(config)
  BY <1>1 DEF Validate, Config, OperatorEdit
<1>3. file' = Saved(config) /\ durable' = {file'} /\ edited' = TRUE
  BY DEF OperatorEdit
<1>4. UNCHANGED <<memory, up, pc, draft, next, named>>
  BY DEF OperatorEdit
<1> HIDE DEF config
<1>5. Saved(config).kind = "config" /\ Saved(config).config = config
  BY DEF Saved
<1>6. \A content \in durable' : Usable(content)'
  BY <1>2, <1>3, <1>4, <1>5 DEF Usable
<1>7. \A q \in Request : SaveOK(q)'
  <2> TAKE q \in Request
  <2>1. Replacing(q)' = Replacing(q) /\ SaveOK(q)
    BY <1>4 DEF Replacing, ConfigInvariant
  <2> QED BY <1>3, <1>4, <2>1 DEF SaveOK
<1> QED BY <1>3, <1>6, <1>7 DEF ConfigInvariant, FileMatchesMemory

\* What does not touch the daemon, and leaves the file readable as it is.
LEMMA QuietKeeps ==
    ASSUME ConfigInvariant,
           UNCHANGED <<file, memory, up, pc, draft, next, edited, named>>,
           file' \in durable', durable' \subseteq durable
    PROVE  ConfigInvariant'
<1>1. \A content \in durable' : Usable(content)'
  BY DEF ConfigInvariant, Usable
<1>2. \A q \in Request : SaveOK(q)'
  <2> TAKE q \in Request
  <2>1. Replacing(q)' = Replacing(q) /\ Loaded' = Loaded /\ SaveOK(q)
    BY DEF Replacing, Loaded, ConfigInvariant
  <2> QED BY <2>1 DEF SaveOK
<1>3. FileMatchesMemory'
  BY DEF ConfigInvariant, FileMatchesMemory, Loaded
<1> QED BY <1>1, <1>2, <1>3 DEF ConfigInvariant

LEMMA NextConfig == TypeOK /\ ConfigInvariant /\ [Next]_vars => ConfigInvariant'
<1> SUFFICES ASSUME TypeOK, ConfigInvariant, [Next]_vars PROVE ConfigInvariant'
  OBVIOUS
<1>1. CASE WriteBack
  <2>1. file \in durable
    BY DEF ConfigInvariant
  <2>2. durable' = {file} /\ UNCHANGED <<file, memory, up, pc, draft, next, edited, named>>
    BY <1>1 DEF WriteBack
  <2> QED BY <2>1, <2>2, QuietKeeps
<1>2. CASE UNCHANGED vars
  <2>1. file \in durable
    BY DEF ConfigInvariant
  <2>2. UNCHANGED <<file, durable, memory, up, pc, draft, next, edited, named>>
    BY <1>2 DEF vars
  <2> QED BY <2>1, <2>2, QuietKeeps
<1> QED
  BY <1>1, <1>2, StartKeeps, SubmitKeeps, LockKeeps, GiveUpKeeps, WriteKeeps, ReplaceKeeps,
     PublishKeeps, EndKeeps, EditKeeps
  DEF Next, Work

\* What the three properties rest on holds throughout.
THEOREM ConfigCorrect == Spec => []ConfigInvariant
<1> QED BY InitType, NextType, InitConfig, NextConfig, PTL DEF Spec

(***************************************************************************)
(* The properties.                                                         *)
(***************************************************************************)
\* Wherever a save is cut off, and whatever else fails, the daemon can start
\* from each content the path may then have.
THEOREM StartsAgainCorrect == Spec => []StartsAgain
<1>1. ConfigInvariant => StartsAgain
  BY DEF ConfigInvariant, Usable, StartsAgain
<1> QED BY <1>1, ConfigCorrect, PTL

\* The live configuration is the one the file would load, except between the
\* rename and the end of a save, and until an operator edits the file.
THEOREM FileMatchesMemoryCorrect == Spec => []FileMatchesMemory
<1>1. ConfigInvariant => FileMatchesMemory
  BY DEF ConfigInvariant
<1> QED BY <1>1, ConfigCorrect, PTL

\* A save that ends well has changed no list but its own, whatever other saves
\* were waiting or ended while it ran.
THEOREM SavesDoNotMixCorrect == Spec => SavesDoNotMix
<1> DEFINE OthersKept == \A r \in Request : (pc[r] = "replaced" /\ up') =>
                            \A p \in Policy \ {draft[r].policy} : memory'[p] = memory[p]
<1>1. ASSUME TypeOK, ConfigInvariant, [Next]_vars PROVE OthersKept
  <2> SUFFICES ASSUME NEW r \in Request, pc[r] = "replaced", up'
               PROVE  \A p \in Policy \ {draft[r].policy} : memory'[p] = memory[p]
    OBVIOUS
  <2>1. pc[r] \in Holding /\ up /\ next[r] = Replacing(r)
    BY <1>1 DEF ConfigInvariant, SaveOK, Holding
  <2>2. CASE memory' = memory
    BY <2>2
  <2>3. CASE memory' = next[r]
    BY <1>1, <2>1, <2>3, ReplacingType
  <2>4. memory' = memory \/ Publish(r)
    <3>1. \A q \in Request : Publish(q) => q = r
      BY <1>1, <2>1, OneHolds DEF Publish
    <3> QED
      BY <1>1, <2>1, <3>1
      DEF Next, Work, vars, Start, Crash, PowerLoss, WriteBack, Lock, Refuse, WriteTemp,
          SyncTemp, Replace, FailSave, OperatorEdit, Submit
  <2> QED BY <2>2, <2>3, <2>4 DEF Publish
<1>2. ConfigInvariant /\ TypeOK /\ [Next]_vars => [OthersKept]_vars
  BY <1>1
<1> QED BY <1>2, TypeCorrect, ConfigCorrect, PTL DEF Spec, SavesDoNotMix
=============================================================================
