----------------------------- MODULE StartUpProofs -----------------------------
(***************************************************************************)
(* Starting daemons, for any processes and any file found.  A start-up is  *)
(* an upgrade of Migrations with more ways to end, so the invariant of the *)
(* upgrade holds; the token has an invariant of its own.                   *)
(***************************************************************************)
EXTENDS StartUp, FiniteSetTheorems, Induction

(***************************************************************************)
(* The migrations by themselves.                                           *)
(***************************************************************************)
\* At most one process is up.
Alone == \A c, d \in Daemon : pc[c] # "down" /\ pc[d] # "down" => c = d

LEMMA InitUpgrade == Init => TypeOK /\ UpgradeInvariant
<1> SUFFICES ASSUME Init
             PROVE  TypeOK /\ UpgradeInvariant
  OBVIOUS
<1>1. PICK v \in FirstVersion :
        /\ schema = SchemaAt(v)
        /\ versions = 1 .. v
        /\ stored \in IF v = 0 THEN {{}} ELSE SUBSET Session
        /\ valued = [x \in Values |-> IF x \in ValuesAt(v) THEN stored ELSE {}]
  BY DEF Init
<1>2. v \in Nat /\ (v = 0 \/ v \in 2 .. 10)
  BY <1>1, FirstVersionAssumption
<1>3. stored \subseteq Session
  BY <1>1
<1>4. schema \subseteq Schema
  <2>1. \A w \in 4 .. v : Added(w) \subseteq Schema
    BY <1>2 DEF Schema, Versions
  <2>2. UNION {Added(w) : w \in 4 .. v} \subseteq Schema
    BY <2>1
  <2>3. BaseTables \cup {"events.provenance_json"} \subseteq Schema
    BY DEF Schema
  <2>4. \/ schema = {}
        \/ schema = (BaseTables \ {"operations"}) \cup {"events.provenance_json"}
        \/ schema = (BaseTables \ {"operations"}) \cup UNION {Added(w) : w \in 4 .. v}
    BY <1>1 DEF SchemaAt
  <2> QED BY <2>2, <2>3, <2>4
<1>0. lost = {} /\ met = FALSE
  BY DEF Init
<1>5. TypeOK
  <2>1. versions \subseteq Versions
    BY <1>1, <1>2 DEF Versions
  <2>2. valued \in [Values -> SUBSET Session]
    BY <1>1, <1>3
  <2>3. lost \subseteq EventColumns /\ met \in BOOLEAN
    BY <1>0, Zenon
  <2>4. /\ pc = [d \in Daemon |-> "down"] /\ version = [d \in Daemon |-> 1]
        /\ seen = [d \in Daemon |-> "nothing"] /\ stops = 0
    BY DEF Init
  <2> QED BY <1>3, <1>4, <2>1, <2>2, <2>3, <2>4 DEF TypeOK
<1>6. RecordedIsApplied
  <2> SUFFICES ASSUME NEW w \in versions
               PROVE  /\ Added(w) \subseteq schema
                      /\ w >= 3 => "events.provenance_json" \notin schema
                      /\ \A x \in ValuesAt(w) : valued[x] = stored
    BY <1>0 DEF RecordedIsApplied
  <2>1. w \in Nat /\ 1 <= w /\ w <= v /\ v >= 2
    BY <1>1, <1>2
  <2>2. ValuesAt(w) \subseteq ValuesAt(v) /\ ValuesAt(v) \subseteq Values
    BY <1>2, <2>1 DEF ValuesAt, Values
  <2>3. \A x \in ValuesAt(w) : valued[x] = stored
    BY <1>1, <2>2
  <2>4. Added(w) \subseteq schema
    <3>1. CASE w < 4
      BY <2>1, <3>1 DEF Added
    <3>2. CASE w >= 4
      <4>1. w \in 4 .. v /\ v # 2 /\ v # 0
        BY <1>2, <2>1, <3>2
      <4>2. schema = (BaseTables \ {"operations"}) \cup UNION {Added(u) : u \in 4 .. v}
        BY <1>1, <4>1 DEF SchemaAt
      <4> QED BY <4>1, <4>2
    <3> QED BY <2>1, <3>1, <3>2
  <2>5. w >= 3 => "events.provenance_json" \notin schema
    <3> SUFFICES ASSUME w >= 3
                 PROVE  "events.provenance_json" \notin schema
      OBVIOUS
    <3>1. v # 2 /\ v # 0
      BY <1>2, <2>1
    <3>2. schema = (BaseTables \ {"operations"}) \cup UNION {Added(u) : u \in 4 .. v}
      BY <1>1, <3>1 DEF SchemaAt
    <3>3. \A u \in 4 .. v : "events.provenance_json" \notin Added(u)
      BY <1>2 DEF Added
    <3> QED BY <3>2, <3>3 DEF BaseTables
  <2> QED BY <2>3, <2>4, <2>5
<1>7. \A w \in versions : 3 .. w - 1 \subseteq versions
  BY <1>1, <1>2
<1> QED BY <1>0, <1>5, <1>6, <1>7 DEF Init, UpgradeInvariant, ProcessOK

(***************************************************************************)
(* What a migration leaves: it is recorded and applied, and so is every    *)
(* recorded one before it.                                                 *)
(***************************************************************************)
\* The values a file of version v has were there before it, but for those
\* that v fills.
LEMMA ValuesGrow ==
    ASSUME NEW v \in 3 .. 10
    PROVE  ValuesAt(v) \subseteq ValuesAt(v - 1) \cup Filled(v)
<1>1. ValuesAt(3) = {} /\ ValuesAt(4) = {} /\ ValuesAt(5) = {}
  BY DEF ValuesAt
<1>2. CASE v \in 3 .. 5
  BY <1>1, <1>2
<1>3. CASE v = 6
  BY <1>3 DEF ValuesAt, Filled
<1>4. CASE v = 7
  BY <1>4 DEF ValuesAt, Filled
<1>5. CASE v = 8
  BY <1>5 DEF ValuesAt, Filled
<1>6. CASE v = 9
  BY <1>6 DEF ValuesAt, Filled
<1>7. CASE v = 10
  BY <1>7 DEF ValuesAt, Filled
<1> QED BY <1>2, <1>3, <1>4, <1>5, <1>6, <1>7

LEMMA AppliedIsRecorded ==
    ASSUME TypeOK, UpgradeInvariant, NEW d \in Daemon, Apply(d)
    PROVE  RecordedIsApplied'
<1> DEFINE v == version[d]
           rebuilt == IF v = 3 /\ seen[d] = "todo" THEN EventsRebuilt ELSE schema
<1>1. v \in 3 .. 10
  <2>1. v \in 1 .. 11 /\ v >= 3 /\ (v = 11 => seen[d] = "nothing")
    BY DEF TypeOK, UpgradeInvariant, ProcessOK, Apply
  <2>2. v # 11
    BY <2>1 DEF Apply
  <2> QED BY <2>1, <2>2
<1>2. /\ schema' = rebuilt \cup Added(v)
      /\ versions' = versions \cup {v}
      /\ stored' = stored
      /\ lost' = Taken(v, schema \ rebuilt)
      /\ valued' = [x \in Values |->
                      IF x \in Filled(v) THEN stored
                      ELSE IF x \in schema \ rebuilt THEN {} ELSE valued[x]]
      /\ Needed(v) \subseteq schema
      /\ pc[d] = "migrating"
      /\ seen[d] = "todo" \/ (seen[d] = "done" /\ v = 3)
  BY DEF Apply
<1>3. 3 .. v - 1 \subseteq versions /\ BaseTables \subseteq schema
  BY <1>2 DEF UpgradeInvariant, ProcessOK
\* What is not lost by now was not lost before, unless this migration adds it.
<1>4. lost \subseteq lost' \cup Added(v) /\ lost' \cap Added(v) = {}
  BY <1>2 DEF Taken
<1>5. v # 3 => rebuilt = schema
  OBVIOUS
<1>6. "events.provenance_json" \notin schema'
  <2>1. "events.provenance_json" \notin Added(v)
    BY <1>1 DEF Added
  <2>2. CASE v = 3
    <3>1. CASE seen[d] = "todo"
      BY <1>2, <2>1, <2>2, <3>1 DEF EventsRebuilt, EventColumns
    <3>2. CASE seen[d] = "done"
      <4>1. LooksDone(3)
        BY <1>2, <2>2, <3>2 DEF UpgradeInvariant, ProcessOK
      <4>2. "events.provenance_json" \notin schema
        BY <4>1 DEF LooksDone
      <4> QED BY <1>2, <2>1, <3>2, <4>2
    <3> QED BY <1>2, <3>1, <3>2
  <2>3. CASE v # 3
    <3>1. 3 \in versions
      BY <1>1, <1>3, <2>3
    <3>2. "events.provenance_json" \notin schema
      BY <3>1 DEF UpgradeInvariant, RecordedIsApplied
    <3> QED BY <1>2, <1>5, <2>1, <2>3, <3>2
  <2> QED BY <2>2, <2>3
<1>7. ASSUME NEW w \in versions
      PROVE  /\ Added(w) \subseteq schema' \cup lost'
             /\ \A x \in ValuesAt(w) \ lost' : valued'[x] = stored'
  <2>1. /\ Added(w) \subseteq schema \cup lost
        /\ \A x \in ValuesAt(w) \ lost : valued[x] = stored
        /\ w \in 1 .. 10 /\ 3 .. w - 1 \subseteq versions
    BY DEF UpgradeInvariant, RecordedIsApplied, TypeOK, Versions
  <2>2. ValuesAt(w) \subseteq Values
    BY DEF ValuesAt, Values
  \* A value of w that is a column is one that w or an earlier version added.
  <2>3. ASSUME NEW x \in ValuesAt(w), x \in schema \ rebuilt
        PROVE  \E u \in versions : x \in Added(u)
    <3>1. v = 3 /\ x \in EventColumns
      BY <2>3 DEF EventsRebuilt
    <3>2. x \in {"events.event_type", "events.provider_tool"}
      BY <3>1 DEF EventColumns, ValuesAt
    <3>3. CASE x = "events.event_type"
      <4>1. w >= 7
        BY <2>1, <3>3 DEF ValuesAt
      <4>2. 7 \in versions
        BY <2>1, <4>1
      <4> QED BY <3>3, <4>2 DEF Added
    <3>4. CASE x = "events.provider_tool"
      <4>1. w >= 9
        BY <2>1, <3>4 DEF ValuesAt
      <4>2. 9 \in versions
        BY <2>1, <4>1
      <4> QED BY <3>4, <4>2 DEF Added
    <3> QED BY <3>2, <3>3, <3>4
  <2>4. Added(w) \subseteq schema' \cup lost'
    BY <1>2, <2>1 DEF Taken
  <2>5. ASSUME NEW x \in ValuesAt(w), x \notin lost'
        PROVE  valued'[x] = stored'
    <3>1. x \in Values
      BY <2>2
    <3>2. CASE x \in Filled(v)
      BY <1>2, <3>1, <3>2
    <3>3. CASE x \notin Filled(v)
      <4>1. x \notin schema \ rebuilt
        <5> SUFFICES ASSUME x \in schema \ rebuilt PROVE FALSE
          OBVIOUS
        <5>1. v = 3
          OBVIOUS
        <5>2. Added(3) = {}
          BY DEF Added
        <5> QED BY <1>2, <2>3, <2>5, <5>1, <5>2 DEF Taken
      <4>2. x \notin Added(v)
        BY <1>1, <2>5, <3>3 DEF Added, Filled, ValuesAt
      <4>3. x \notin lost
        BY <1>4, <2>5, <4>2
      <4> QED BY <1>2, <2>1, <3>1, <3>3, <4>1, <4>3
    <3> QED BY <3>2, <3>3
  <2> QED BY <2>4, <2>5
<1>8. Added(v) \subseteq schema'
  BY <1>2
<1>9. \A x \in ValuesAt(v) \ lost' : valued'[x] = stored'
  <2> SUFFICES ASSUME NEW x \in ValuesAt(v), x \notin lost'
               PROVE  valued'[x] = stored'
    OBVIOUS
  <2>1. x \in Values
    BY DEF ValuesAt, Values
  <2>2. CASE x \in Filled(v)
    BY <1>2, <2>1, <2>2
  <2>3. CASE x \in ValuesAt(v - 1)
    <3>1. v # 3
      BY <2>3 DEF ValuesAt
    <3>2. v - 1 \in versions
      BY <1>1, <1>3, <3>1
    <3> QED BY <1>7, <2>3, <3>2
  <2> QED BY <1>1, <2>2, <2>3, ValuesGrow
<1> QED BY <1>2, <1>6, <1>7, <1>8, <1>9 DEF RecordedIsApplied

(***************************************************************************)
(* Every step keeps the types and the invariant.                           *)
(***************************************************************************)
LEMMA TypeStep == TypeOK /\ UpgradeInvariant /\ [Next]_vars => TypeOK'
<1> SUFFICES ASSUME TypeOK, UpgradeInvariant, [Next]_vars
             PROVE  TypeOK'
  OBVIOUS
<1> USE DEF TypeOK
<1>1. ASSUME NEW d \in Daemon, Start(d)
      PROVE  TypeOK'
  <2>1. met' \in BOOLEAN
    BY <1>1, Zenon DEF Start
  <2> QED BY <1>1, <2>1 DEF Start
<1>2. ASSUME NEW d \in Daemon, CreateTable(d)
      PROVE  TypeOK'
  <2>1. BaseTables \subseteq Schema
    BY DEF Schema
  <2>2. schema' \subseteq Schema
    BY <1>2, <2>1 DEF CreateTable
  <2> QED BY <1>2, <2>2 DEF CreateTable
<1>3. ASSUME NEW d \in Daemon, RecordBase(d)
      PROVE  TypeOK'
  <2>1. version[d] \in {1, 2}
    BY <1>3 DEF RecordBase, UpgradeInvariant, ProcessOK
  <2>2. version[d] + 1 \in 1 .. 11 /\ version[d] \in Versions
    BY <2>1 DEF Versions
  <2>4. version' \in [Daemon -> 1 .. 11] /\ versions' \subseteq Versions
    BY <1>3, <2>2 DEF RecordBase
  <2>3. pc' \in [Daemon -> {"down", "base", "migrating", "open"}]
    BY <1>3 DEF RecordBase
  <2> QED BY <1>3, <2>4, <2>3 DEF RecordBase
<1>4. ASSUME NEW d \in Daemon, Inspect(d)
      PROVE  TypeOK'
  BY <1>4 DEF Inspect, file
<1>5. ASSUME NEW d \in Daemon, Skip(d)
      PROVE  TypeOK'
  <2>1. version[d] \in 1 .. 11 /\ version[d] # 11
    BY <1>5 DEF Skip, UpgradeInvariant, ProcessOK
  <2>2. version' \in [Daemon -> 1 .. 11]
    BY <1>5, <2>1 DEF Skip
  <2> QED BY <1>5, <2>2 DEF Skip, file
<1>6. ASSUME NEW d \in Daemon, Apply(d)
      PROVE  TypeOK'
  <2>1. version[d] \in 1 .. 11 /\ version[d] # 11
    BY <1>6 DEF Apply, UpgradeInvariant, ProcessOK
  <2>9. version[d] + 1 \in 1 .. 11 /\ version[d] \in Versions
    BY <2>1 DEF Versions
  <2>2. version' \in [Daemon -> 1 .. 11] /\ versions' \subseteq Versions
    BY <1>6, <2>9 DEF Apply
  <2>3. \A v \in 1 .. 10 : Added(v) \subseteq Schema
    BY DEF Schema, Versions
  <2>4. schema' \subseteq schema \cup Added(version[d])
    BY <1>6 DEF Apply, EventsRebuilt
  <2>5. schema' \subseteq Schema
    BY <2>1, <2>3, <2>4
  <2>6. stored' \subseteq Session /\ lost' \subseteq EventColumns /\ met' \in BOOLEAN
    <3>1. schema \ (IF version[d] = 3 /\ seen[d] = "todo" THEN EventsRebuilt ELSE schema)
            \subseteq EventColumns
      BY DEF EventsRebuilt
    <3> QED BY <1>6, <3>1 DEF Apply, Taken
  <2>7. valued' \in [Values -> SUBSET Session]
    BY <1>6 DEF Apply
  <2>8. seen' \in [Daemon -> {"nothing", "todo", "done"}]
    BY <1>6 DEF Apply
  <2> QED BY <1>6, <2>2, <2>5, <2>6, <2>7, <2>8 DEF Apply
<1>7. ASSUME NEW d \in Daemon, Opened(d)
      PROVE  TypeOK'
  BY <1>7 DEF Opened, file
<1>8. ASSUME NEW d \in Daemon, Stop(d)
      PROVE  TypeOK'
  BY <1>8 DEF Stop, file
<1>9. ASSUME NEW d \in Daemon, NEW s \in Session, Ingest(d, s)
      PROVE  TypeOK'
  BY <1>9 DEF Ingest
<1>10. CASE UNCHANGED vars
  BY <1>10 DEF vars, file
<1> QED BY <1>1, <1>2, <1>3, <1>4, <1>5, <1>6, <1>7, <1>8, <1>9, <1>10 DEF Next, Migrate

\* A step that leaves the file alone, and one that only adds to it, keep what
\* the recorded versions say.
LEMMA FileStep ==
    ASSUME RecordedIsApplied, UNCHANGED <<schema, versions, stored, valued, lost>>
    PROVE  RecordedIsApplied'
  BY DEF RecordedIsApplied

\* The steps of other processes keep what the invariant says of one, if they
\* only add to the file.
LEMMA OtherProcess ==
    ASSUME TypeOK, NEW e \in Daemon, ProcessOK(e), met => met',
           BaseTables \cap schema \subseteq schema',
           versions \subseteq versions',
           "events.provenance_json" \in schema' <=> "events.provenance_json" \in schema,
           pc'[e] = pc[e], version'[e] = version[e], seen'[e] = seen[e]
    PROVE  ProcessOK(e)'
<1>1. version[e] \in 1 .. 11
  BY DEF TypeOK
<1>2. ASSUME LooksDone(version[e])
      PROVE  LooksDone(version[e])'
  <2>1. CASE version[e] = 3
    BY <1>2, <2>1 DEF LooksDone
  <2>2. CASE version[e] \in {4, 5}
    BY <1>2, <2>2 DEF LooksDone
  <2>3. CASE version[e] \notin {3, 4, 5}
    BY <1>2, <2>3 DEF LooksDone
  <2> QED BY <2>1, <2>2, <2>3
<1>3. BaseTables \subseteq schema => BaseTables \subseteq schema'
  OBVIOUS
<1>4. 3 .. version[e] - 1 \subseteq versions => (3 .. version[e] - 1 \subseteq versions)'
  OBVIOUS
<1>5. (met \/ "events.provenance_json" \in schema)
        => (met \/ "events.provenance_json" \in schema)'
  OBVIOUS
<1> QED BY <1>1, <1>2, <1>3, <1>4, <1>5 DEF ProcessOK

\* What the invariant says of losses, and of meetings.
LossesOK ==
    /\ \A column \in lost : \A v \in Versions : column \in Added(v) => v \in versions
    /\ lost # {} => met
    /\ ("events.provenance_json" \in schema /\ ~met) => Alone

\* A step that copies nothing and brings no process up leaves that as it is.
LEMMA NoLoss ==
    ASSUME LossesOK, lost' = lost, met' = met, versions \subseteq versions',
           "events.provenance_json" \in schema' => "events.provenance_json" \in schema,
           \A e \in Daemon : pc[e] = "down" => pc'[e] = "down"
    PROVE  LossesOK'
  BY DEF LossesOK, Alone

LEMMA UpgradeStep == TypeOK /\ UpgradeInvariant /\ [Next]_vars => UpgradeInvariant'
<1> SUFFICES ASSUME TypeOK, UpgradeInvariant, [Next]_vars
             PROVE  UpgradeInvariant'
  OBVIOUS
<1> DEFINE old == "events.provenance_json" \in schema
<1> USE DEF TypeOK
<1> DEFINE closed == \A v \in versions : 3 .. v - 1 \subseteq versions
<1>p. RecordedIsApplied /\ closed /\ LossesOK /\ \A d \in Daemon : ProcessOK(d)
  BY DEF UpgradeInvariant, LossesOK, Alone
\* It is enough to look at the file and at the process that moves.
<1>q. ASSUME RecordedIsApplied', closed', LossesOK', \A d \in Daemon : ProcessOK(d)'
      PROVE  UpgradeInvariant'
  BY <1>q DEF UpgradeInvariant, LossesOK, Alone
<1>1. ASSUME NEW d \in Daemon, Start(d)
      PROVE  UpgradeInvariant'
  <2>0. /\ UNCHANGED <<schema, versions, stored, valued, lost>>
        /\ \A e \in Daemon \ {d} :
                pc'[e] = pc[e] /\ version'[e] = version[e] /\ seen'[e] = seen[e]
    BY <1>1 DEF Start
  <2>1. RecordedIsApplied' /\ closed'
    BY <1>p, <2>0, FileStep DEF Start
  <2>2. ProcessOK(d)'
    BY <1>1 DEF Start, ProcessOK
  <2>3. met => met'
    BY <1>1, Zenon DEF Start
  <2>4. \A e \in Daemon \ {d} : ProcessOK(e)'
    BY <1>p, <2>0, <2>3, OtherProcess
  <2>5. ASSUME old, ~met' PROVE \A e \in Daemon \ {d} : pc'[e] = "down"
    <3>1. \A e \in Daemon \ {d} : pc[e] = "down"
      BY <1>1, <2>5, Zenon DEF Start
    <3> QED BY <2>0, <3>1
  <2>6. LossesOK'
    BY <1>p, <2>0, <2>3, <2>5 DEF LossesOK, Alone
  <2> QED BY <1>q, <2>1, <2>2, <2>4, <2>6
<1>2. ASSUME NEW d \in Daemon, CreateTable(d)
      PROVE  UpgradeInvariant'
  <2>1. schema \subseteq schema' /\ schema' \subseteq schema \cup BaseTables
    BY <1>2 DEF CreateTable
  <2>2. old' <=> old
    BY <2>1 DEF BaseTables
  <2>3. RecordedIsApplied' /\ closed' /\ LossesOK'
    BY <1>2, <1>p, <2>1, <2>2, NoLoss DEF CreateTable, RecordedIsApplied
  <2>4. \A e \in Daemon : ProcessOK(e)'
    BY <1>2, <1>p, <2>1, <2>2, OtherProcess DEF CreateTable
  <2> QED BY <1>q, <2>3, <2>4
<1>3. ASSUME NEW d \in Daemon, RecordBase(d)
      PROVE  UpgradeInvariant'
  <2>1. version[d] \in {1, 2} /\ seen[d] = "nothing" /\ version'[d] = version[d] + 1
    BY <1>3, <1>p DEF RecordBase, ProcessOK
  <2>2. /\ versions' = versions \cup {version[d]} /\ schema' = schema
        /\ UNCHANGED <<stored, valued, lost, met, seen>>
        /\ \A e \in Daemon : pc[e] = "down" => pc'[e] = "down"
        /\ BaseTables \subseteq schema
        /\ pc'[d] = IF version[d] = 2 THEN "migrating" ELSE "base"
    BY <1>3 DEF RecordBase
  <2>3. Added(version[d]) = {} /\ ValuesAt(version[d]) = {}
    BY <2>1 DEF Added, ValuesAt
  <2>4. RecordedIsApplied'
    BY <1>p, <2>1, <2>2, <2>3 DEF RecordedIsApplied
  <2>5. ProcessOK(d)'
    <3>1. CASE version[d] = 1
      BY <2>1, <2>2, <3>1 DEF ProcessOK
    <3>2. CASE version[d] = 2
      <4>1. pc'[d] = "migrating" /\ version'[d] = 3 /\ seen'[d] = "nothing"
        BY <2>1, <2>2, <3>2
      <4>2. 3 .. version'[d] - 1 \subseteq versions'
        BY <4>1
      <4> QED BY <2>2, <4>1, <4>2 DEF ProcessOK
    <3> QED BY <2>1, <3>1, <3>2
  <2>6. \A e \in Daemon \ {d} : ProcessOK(e)'
    BY <1>3, <1>p, <2>2, OtherProcess DEF RecordBase
  <2>7. closed'
    BY <1>p, <2>1, <2>2
  <2>8. LossesOK'
    BY <1>p, <2>2, NoLoss
  <2> QED BY <1>q, <2>4, <2>5, <2>6, <2>7, <2>8
<1>4. ASSUME NEW d \in Daemon, Inspect(d)
      PROVE  UpgradeInvariant'
  <2>0. UNCHANGED file /\ \A e \in Daemon : pc[e] = "down" => pc'[e] = "down"
    BY <1>4 DEF Inspect
  <2>1. /\ RecordedIsApplied' /\ closed' /\ LossesOK'
        /\ UNCHANGED <<schema, versions, met>>
    BY <1>p, <2>0, FileStep, NoLoss DEF file
  <2>2. /\ pc' = pc /\ version' = version /\ pc[d] = "migrating" /\ version[d] <= 10
        /\ seen'[d] = IF LooksDone(version[d]) THEN "done" ELSE "todo"
    BY <1>4 DEF Inspect
  <2>3. (LooksDone(version[d]))' <=> LooksDone(version[d])
    BY <2>1, <2>2 DEF LooksDone
  <2>4. LooksDone(3) <=> ~old
    BY DEF LooksDone
  <2>5. ProcessOK(d)'
    BY <1>p, <2>1, <2>2, <2>3, <2>4 DEF ProcessOK
  <2>6. \A e \in Daemon \ {d} : ProcessOK(e)'
    BY <1>4, <1>p, <2>1, OtherProcess DEF Inspect
  <2> QED BY <1>q, <2>1, <2>5, <2>6
<1>5. ASSUME NEW d \in Daemon, Skip(d)
      PROVE  UpgradeInvariant'
  <2>0. UNCHANGED file /\ \A e \in Daemon : pc[e] = "down" => pc'[e] = "down"
    BY <1>5 DEF Skip
  <2>1. /\ RecordedIsApplied' /\ closed' /\ LossesOK'
        /\ UNCHANGED <<schema, versions, met>>
    BY <1>p, <2>0, FileStep, NoLoss DEF file
  <2>2. /\ pc' = pc /\ pc[d] = "migrating" /\ version[d] \in 3 .. 10 /\ version[d] # 3
        /\ seen[d] = "done" /\ seen'[d] = "nothing" /\ version'[d] = version[d] + 1
    BY <1>5, <1>p DEF Skip, ProcessOK
  <2>3. LooksDone(version[d])
    BY <1>p, <2>2 DEF ProcessOK
  <2>4. version[d] \in versions
    BY <2>2, <2>3 DEF LooksDone
  <2>5. 3 .. version'[d] - 1 \subseteq versions
    BY <1>p, <2>2, <2>4 DEF ProcessOK
  <2>6. ProcessOK(d)'
    BY <1>p, <2>1, <2>2, <2>5 DEF ProcessOK
  <2>7. \A e \in Daemon \ {d} : ProcessOK(e)'
    BY <1>5, <1>p, <2>1, OtherProcess DEF Skip
  <2> QED BY <1>q, <2>1, <2>6, <2>7
<1>6. ASSUME NEW d \in Daemon, Apply(d)
      PROVE  UpgradeInvariant'
  <2>1. RecordedIsApplied'
    BY <1>6, AppliedIsRecorded
  <2>2. /\ pc' = pc /\ pc[d] = "migrating" /\ version[d] \in 3 .. 10
        /\ versions' = versions \cup {version[d]}
        /\ seen'[d] = "nothing" /\ version'[d] = version[d] + 1
        /\ seen[d] = "todo" \/ (seen[d] = "done" /\ version[d] = 3)
    BY <1>6, <1>p DEF Apply, ProcessOK
  <2>3. ~old' /\ closed'
    <3>0. \A v \in versions' : v >= 3 => ~old'
      BY <2>1 DEF RecordedIsApplied
    <3>1. ~old'
      BY <2>2, <3>0
    <3>2. 3 .. version[d] - 1 \subseteq versions
      BY <1>p, <2>2 DEF ProcessOK
    <3> QED BY <1>p, <2>2, <3>1, <3>2
  <2>4. BaseTables \subseteq schema /\ BaseTables \subseteq schema'
    <3>1. BaseTables \subseteq schema
      BY <1>p, <2>2 DEF ProcessOK
    <3>2. schema \ EventColumns \subseteq schema'
      BY <1>6 DEF Apply, EventsRebuilt
    <3>3. BaseTables \cap EventColumns = {}
      BY DEF BaseTables, EventColumns
    <3> QED BY <3>1, <3>2, <3>3
  <2>5. 3 .. version'[d] - 1 \subseteq versions'
    BY <1>p, <2>2 DEF ProcessOK
  <2>6. ProcessOK(d)'
    BY <2>2, <2>4, <2>5 DEF ProcessOK
  <2>7. ASSUME NEW e \in Daemon, e # d
        PROVE  ProcessOK(e)'
    <3>1. /\ pc'[e] = pc[e] /\ version'[e] = version[e] /\ seen'[e] = seen[e]
          /\ met' = met
      BY <1>6, <2>7 DEF Apply
    \* A process that is down saw nothing; one that is up has met this one.
    <3>2. CASE old /\ ~met
      <4>1. pc[e] = "down"
        BY <1>p, <2>2, <2>7, <3>2 DEF LossesOK, Alone
      <4> QED BY <1>p, <3>1, <4>1 DEF ProcessOK
    <3>3. CASE ~old
      BY <1>p, <2>2, <2>3, <2>4, <3>1, <3>3, OtherProcess
    <3>4. CASE met
      <4>1. version[e] \in 1 .. 11 /\ ProcessOK(e)
        BY <1>p
      <4>2. (seen[e] = "done" /\ LooksDone(version[e])) => (LooksDone(version[e]))'
        <5>1. version'[e] = version[e] /\ versions \subseteq versions' /\ ~old'
          BY <2>2, <2>3, <3>1
        <5> QED BY <4>1, <5>1 DEF LooksDone
      <4>3. 3 .. version[e] - 1 \subseteq versions => (3 .. version[e] - 1 \subseteq versions)'
        BY <2>2, <3>1
      <4> QED BY <2>4, <3>1, <3>4, <4>1, <4>2, <4>3 DEF ProcessOK
    <3> QED BY <3>2, <3>3, <3>4
  \* Only a process that has met another one finds something recorded to take.
  <2>8. LossesOK'
    <3> DEFINE rebuilt == IF version[d] = 3 /\ seen[d] = "todo" THEN EventsRebuilt ELSE schema
               taken == schema \ rebuilt
    <3>1. lost' = Taken(version[d], taken) /\ met' = met
      BY <1>6 DEF Apply
    <3>2. ASSUME NEW c \in lost', NEW v \in Versions, c \in Added(v)
          PROVE  v \in versions'
      <4>1. CASE c \in lost
        BY <1>p, <2>2, <3>2, <4>1 DEF LossesOK
      <4>2. CASE c \notin lost
        <5>1. PICK w \in versions : c \in Added(w)
          BY <3>1, <4>2 DEF Taken
        <5>2. c \in {"events.event_type", "events.provider_tool"}
          <6>1. c \in EventColumns
            BY <3>1, <4>2 DEF Taken, EventsRebuilt
          <6> QED BY <5>1, <6>1 DEF EventColumns, Added
        <5>3. v = w
          BY <3>2, <5>1, <5>2 DEF Added
        <5> QED BY <2>2, <5>1, <5>3
      <4> QED BY <4>1, <4>2
    <3>3. ASSUME ~met PROVE lost' = {}
      <4>1. lost = {}
        BY <1>p, <3>3 DEF LossesOK
      <4>2. CASE version[d] = 3 /\ seen[d] = "todo"
        <5>1. old
          BY <1>p, <2>2, <3>3, <4>2 DEF ProcessOK
        <5>2. \A w \in versions : w \in {1, 2}
          BY <1>p, <5>1 DEF RecordedIsApplied, Versions
        <5>3. \A w \in versions : Added(w) = {}
          BY <5>2 DEF Added
        <5> QED BY <3>1, <4>1, <5>3 DEF Taken
      <4>3. CASE ~(version[d] = 3 /\ seen[d] = "todo")
        BY <3>1, <4>1, <4>3 DEF Taken
      <4> QED BY <4>2, <4>3
    <3> QED BY <2>3, <3>1, <3>2, <3>3 DEF LossesOK
  <2> QED BY <1>q, <2>1, <2>3, <2>6, <2>7, <2>8
<1>7. ASSUME NEW d \in Daemon, Opened(d)
      PROVE  UpgradeInvariant'
  <2>0. UNCHANGED file /\ \A e \in Daemon : pc[e] = "down" => pc'[e] = "down"
    BY <1>7 DEF Opened
  <2>1. /\ RecordedIsApplied' /\ closed' /\ LossesOK'
        /\ UNCHANGED <<schema, versions, met>>
    BY <1>p, <2>0, FileStep, NoLoss DEF file
  <2>2. ProcessOK(d)'
    BY <1>7, <1>p, <2>1 DEF Opened, ProcessOK
  <2>3. \A e \in Daemon \ {d} : ProcessOK(e)'
    BY <1>7, <1>p, <2>1, OtherProcess DEF Opened
  <2> QED BY <1>q, <2>1, <2>2, <2>3
<1>8. ASSUME NEW d \in Daemon, Stop(d)
      PROVE  UpgradeInvariant'
  <2>0. UNCHANGED file /\ \A e \in Daemon : pc[e] = "down" => pc'[e] = "down"
    BY <1>8 DEF Stop
  <2>1. /\ RecordedIsApplied' /\ closed' /\ LossesOK'
        /\ UNCHANGED <<schema, versions, met>>
    BY <1>p, <2>0, FileStep, NoLoss DEF file
  <2>2. ProcessOK(d)'
    BY <1>8 DEF Stop, ProcessOK
  <2>3. \A e \in Daemon \ {d} : ProcessOK(e)'
    BY <1>8, <1>p, <2>1, OtherProcess DEF Stop
  <2> QED BY <1>q, <2>1, <2>2, <2>3
<1>9. ASSUME NEW d \in Daemon, NEW s \in Session, Ingest(d, s)
      PROVE  UpgradeInvariant'
  <2>1. /\ UNCHANGED <<schema, versions, lost, met, pc, version, seen>>
        /\ stored' = stored \cup {s}
        /\ \A x \in Values : valued'[x] = valued[x] \cup {s}
    BY <1>9 DEF Ingest
  <2>2. \A v \in Nat : ValuesAt(v) \subseteq Values
    BY DEF ValuesAt, Values
  <2>3. RecordedIsApplied'
    <3> SUFFICES ASSUME NEW v \in versions
                 PROVE  /\ Added(v) \subseteq schema \cup lost
                        /\ v >= 3 => ~old
                        /\ \A x \in ValuesAt(v) \ lost : valued'[x] = stored'
      BY <2>1 DEF RecordedIsApplied
    <3>1. v \in Nat
      BY DEF Versions
    <3> QED BY <1>p, <2>1, <2>2, <3>1 DEF RecordedIsApplied
  <2>4. \A e \in Daemon : ProcessOK(e)'
    BY <1>p, <2>1, OtherProcess
  <2>5. closed' /\ LossesOK'
    BY <1>p, <2>1, NoLoss
  <2> QED BY <1>q, <2>3, <2>4, <2>5
<1>10. CASE UNCHANGED vars
  <2>1. UNCHANGED <<file, schema, versions, stored, valued, lost, met, pc, version, seen>>
    BY <1>10 DEF vars, file
  <2>2. RecordedIsApplied' /\ closed' /\ LossesOK'
    BY <1>p, <2>1, FileStep, NoLoss
  <2>3. \A e \in Daemon : ProcessOK(e)'
    BY <1>p, <2>1, OtherProcess
  <2> QED BY <1>q, <2>2, <2>3
<1> QED BY <1>1, <1>2, <1>3, <1>4, <1>5, <1>6, <1>7, <1>8, <1>9, <1>10 DEF Next, Migrate

\* Types, and the inductive invariant of the upgrade, for any number of
\* processes on any file.
THEOREM UpgradeCorrect == Spec => [](TypeOK /\ UpgradeInvariant)
<1>1. TypeOK /\ UpgradeInvariant /\ [Next]_vars => (TypeOK /\ UpgradeInvariant)'
  BY TypeStep, UpgradeStep
<1> QED BY InitUpgrade, <1>1, PTL DEF Spec

LEMMA UpgradeServesCurrent == TypeOK /\ UpgradeInvariant => ServesCurrentSchema
<1> SUFFICES ASSUME TypeOK, UpgradeInvariant, NEW d \in Daemon, pc[d] = "open"
             PROVE  /\ IngestNeeds \subseteq schema \cup lost
                    /\ \A x \in Values \ lost : valued[x] = stored
  BY DEF ServesCurrentSchema, UpgradeInvariant
<1>1. BaseTables \subseteq schema /\ 3 .. 10 \subseteq versions
  BY DEF UpgradeInvariant, ProcessOK
<1>2. \A v \in 3 .. 10 : Added(v) \subseteq schema \cup lost
  BY <1>1 DEF UpgradeInvariant, RecordedIsApplied
<1>3. Added(5) \cup Added(6) \cup Added(7) \cup Added(9) \subseteq schema \cup lost
  BY <1>2
<1>4. IngestNeeds \subseteq BaseTables \cup Added(5) \cup Added(6) \cup Added(7) \cup Added(9)
  BY DEF IngestNeeds, RebuildNeeds, BaseTables, Added
<1>5. ValuesAt(10) = Values
  BY DEF ValuesAt, Values
<1>6. \A x \in Values \ lost : valued[x] = stored
  BY <1>1, <1>5 DEF UpgradeInvariant, RecordedIsApplied
<1> QED BY <1>1, <1>3, <1>4, <1>6

\* Which lost columns stay lost: no step adds one that no process was about to.
LEMMA LossStays ==
    ASSUME TypeOK, UpgradeInvariant, [Next]_vars,
           NEW column \in lost, ~AboutToAdd(column)
    PROVE  column \in lost' /\ ~AboutToAdd(column)'
<1> USE DEF TypeOK
<1>1. ASSUME UNCHANGED lost,
             \A e \in Daemon : seen'[e] = "todo" => seen[e] = "todo" /\ version'[e] = version[e]
      PROVE  column \in lost' /\ ~AboutToAdd(column)'
  BY <1>1 DEF AboutToAdd
<1>2. ASSUME NEW d \in Daemon, Inspect(d)
      PROVE  column \in lost' /\ ~AboutToAdd(column)'
  <2>1. UNCHANGED <<lost, version>> /\ version[d] <= 10 /\ pc[d] = "migrating"
        /\ seen' = [seen EXCEPT ![d] = IF LooksDone(version[d]) THEN "done" ELSE "todo"]
    BY <1>2 DEF Inspect, file
  <2>2. version[d] \in 1 .. 10
    BY <2>1
  <2>3. ASSUME column \in Added(version[d]) PROVE LooksDone(version[d])
    <3>1. version[d] \in versions
      BY <2>2, <2>3 DEF UpgradeInvariant, Versions
    <3>2. column \in EventColumns
      OBVIOUS
    <3>3. version[d] \in {7, 9}
      BY <2>2, <2>3, <3>2 DEF EventColumns, Added
    <3> QED BY <3>1, <3>3 DEF LooksDone
  <2> QED BY <2>1, <2>3 DEF AboutToAdd
<1>3. ASSUME NEW d \in Daemon, Apply(d)
      PROVE  column \in lost' /\ ~AboutToAdd(column)'
  <2>1. /\ lost \subseteq lost' \cup Added(version[d])
        /\ seen' = [seen EXCEPT ![d] = "nothing"]
        /\ version' = [version EXCEPT ![d] = @ + 1]
        /\ seen[d] = "todo" \/ version[d] = 3
    BY <1>3 DEF Apply, Taken
  <2>2. Added(3) = {}
    BY DEF Added
  <2> QED BY <2>1, <2>2 DEF AboutToAdd
<1>4. ASSUME NEW d \in Daemon,
             Start(d) \/ CreateTable(d) \/ RecordBase(d) \/ Skip(d) \/ Opened(d) \/ Stop(d)
      PROVE  column \in lost' /\ ~AboutToAdd(column)'
  <2>1. CASE Start(d)
    BY <1>1, <2>1 DEF Start
  <2>2. CASE CreateTable(d)
    BY <1>1, <2>2 DEF CreateTable
  <2>3. CASE RecordBase(d)
    <3>1. seen[d] = "nothing"
      BY <2>3 DEF RecordBase, UpgradeInvariant, ProcessOK
    <3> QED BY <1>1, <2>3, <3>1 DEF RecordBase
  <2>4. CASE Skip(d)
    BY <1>1, <2>4 DEF Skip, file
  <2>5. CASE Opened(d)
    BY <1>1, <2>5 DEF Opened, file
  <2>6. CASE Stop(d)
    BY <1>1, <2>6 DEF Stop, file
  <2> QED BY <1>4, <2>1, <2>2, <2>3, <2>4, <2>5, <2>6
<1>5. ASSUME NEW d \in Daemon, NEW s \in Session, Ingest(d, s)
      PROVE  column \in lost' /\ ~AboutToAdd(column)'
  BY <1>1, <1>5 DEF Ingest
<1>6. CASE UNCHANGED vars
  BY <1>1, <1>6 DEF vars, file
<1> QED BY <1>2, <1>3, <1>4, <1>5, <1>6 DEF Next, Migrate

-----------------------------------------------------------------------------
(***************************************************************************)
(* The migrations within a start-up.                                       *)
(***************************************************************************)
\* What a step of a start-up is to the file and the migrations.
LEMMA StartUpStep ==
    ASSUME [StartUpNext]_allvars
    PROVE  \/ [Next]_vars
           \/ UNCHANGED <<file, pc, version, seen>> /\ stops' = stops + 1
           \/ \E d \in Daemon : /\ pc[d] = "open" /\ pc' = [pc EXCEPT ![d] = "down"]
                                /\ UNCHANGED <<file, version, seen, stops>>
<1>1. ASSUME NEW d \in Daemon, LoadToken(d) \/ OpenTokenFile(d) \/ WriteToken(d) \/ Listen(d)
      PROVE  UNCHANGED vars
  BY <1>1 DEF LoadToken, OpenTokenFile, WriteToken, Listen
<1>2. ASSUME NEW d \in Daemon, OpenDatabase(d) PROVE Next
  BY <1>2 DEF OpenDatabase, Next
<1>3. ASSUME NEW d \in Daemon, NEW s \in Session, Serve(d, s) PROVE Next
  BY <1>3 DEF Serve, Next
<1>4. ASSUME NEW d \in Daemon, Die(d)
      PROVE  Next \/ (UNCHANGED <<file, pc, version, seen>> /\ stops' = stops + 1)
  BY <1>4 DEF Die, Next
<1>5. CASE Unlock \/ UNCHANGED allvars
  BY <1>5 DEF Unlock, allvars
<1> QED BY <1>1, <1>2, <1>3, <1>4, <1>5 DEF StartUpNext, Proceed, FindPortTaken

LEMMA StartUpKeepsUpgrade ==
    ASSUME TypeOK, UpgradeInvariant, [StartUpNext]_allvars
    PROVE  TypeOK' /\ UpgradeInvariant'
<1>1. CASE [Next]_vars
  BY <1>1, TypeStep, UpgradeStep
<1>2. CASE UNCHANGED <<file, pc, version, seen>> /\ stops' = stops + 1
  <2>1. /\ UNCHANGED <<schema, versions, stored, valued, lost, met, pc, version, seen>>
        /\ stops' \in Nat
    BY <1>2 DEF file, TypeOK
  <2> QED BY <2>1 DEF TypeOK, UpgradeInvariant, RecordedIsApplied, ProcessOK, LooksDone
<1>3. ASSUME NEW d \in Daemon, pc[d] = "open", pc' = [pc EXCEPT ![d] = "down"],
             UNCHANGED <<file, version, seen, stops>>
      PROVE  TypeOK' /\ UpgradeInvariant'
  <2>1. /\ UNCHANGED <<schema, versions, stored, valued, lost, met, version, seen>>
        /\ pc' \in [Daemon -> {"down", "base", "migrating", "open"}]
    BY <1>3 DEF file, TypeOK
  <2>2. TypeOK'
    BY <1>3, <2>1 DEF TypeOK
  <2>3. pc'[d] = "down" /\ \A e \in Daemon \ {d} : pc'[e] = pc[e]
    BY <1>3 DEF TypeOK
  <2>4. RecordedIsApplied'
    BY <2>1 DEF UpgradeInvariant, RecordedIsApplied
  <2>5. \A e \in Daemon : ProcessOK(e)'
    <3> TAKE e \in Daemon
    <3>1. ProcessOK(e) /\ ProcessOK(d)
      BY DEF UpgradeInvariant
    <3>2. CASE e = d
      BY <1>3, <2>1, <2>3, <3>1, <3>2 DEF ProcessOK
    <3>3. CASE e # d
      BY <2>1, <2>3, <3>1, <3>3, OtherProcess
    <3> QED BY <3>2, <3>3
  <2>6. ("events.provenance_json" \in schema' /\ ~met') =>
            \A c, e \in Daemon : pc'[c] # "down" /\ pc'[e] # "down" => c = e
    BY <2>1, <2>3 DEF UpgradeInvariant
  <2>7. /\ \A v \in versions' : 3 .. v - 1 \subseteq versions'
        /\ \A column \in lost' : \A v \in Versions : column \in Added(v) => v \in versions'
        /\ lost' # {} => met'
    BY <2>1 DEF UpgradeInvariant
  <2> QED BY <2>2, <2>4, <2>5, <2>6, <2>7 DEF UpgradeInvariant
<1> QED BY <1>1, <1>2, <1>3, StartUpStep

\* The upgrade's inductive invariant, for processes that load a token before it,
\* listen after it and may find the port taken.
THEOREM UpgradeOfStartUpCorrect == StartUpSpec => [](TypeOK /\ UpgradeInvariant)
<1>1. StartUpInit => TypeOK /\ UpgradeInvariant
  BY InitUpgrade DEF StartUpInit
<1>2. TypeOK /\ UpgradeInvariant /\ [StartUpNext]_allvars => (TypeOK /\ UpgradeInvariant)'
  BY StartUpKeepsUpgrade
<1> QED BY <1>1, <1>2, PTL DEF StartUpSpec

\* A recorded version tells the truth in every state (migrate, sqlite.go:138),
\* but for what a second copy took, for the migrations by themselves and within
\* a start-up.
THEOREM RecordedIsAppliedCorrect ==
    /\ Spec => []RecordedIsApplied
    /\ StartUpSpec => []RecordedIsApplied
<1>1. UpgradeInvariant => RecordedIsApplied
  BY DEF UpgradeInvariant, ProcessOK
<1> QED BY <1>1, UpgradeCorrect, UpgradeOfStartUpCorrect, PTL

\* A daemon that serves finds the whole schema and every value, but for columns
\* of events if two processes met on a file with provenance.
THEOREM ServesCurrentSchemaCorrect ==
    /\ Spec => []ServesCurrentSchema
    /\ StartUpSpec => []ServesCurrentSchema
BY UpgradeServesCurrent, UpgradeCorrect, UpgradeOfStartUpCorrect, PTL

\* A column of events that a second copy took stays lost over any further
\* steps and restarts, but for a process that was about to add it by then.
THEOREM LossIsFinalCorrect ==
    /\ Spec => LossIsFinal
    /\ StartUpSpec => LossIsFinal
<1> DEFINE Stays == \A column \in lost : ~AboutToAdd(column) =>
                        column \in lost' /\ ~AboutToAdd(column)'
<1>1. TypeOK /\ UpgradeInvariant /\ [Next]_vars => [Stays]_vars
  BY LossStays
<1>2. ASSUME TypeOK, UpgradeInvariant, [StartUpNext]_allvars
      PROVE  [Stays]_vars
  <2>1. CASE [Next]_vars
    BY <1>2, <2>1, <1>1
  <2>2. CASE UNCHANGED <<file, version, seen>>
    BY <2>2 DEF file, AboutToAdd
  <2> QED BY <1>2, <2>1, <2>2, StartUpStep
<1>3. TypeOK /\ UpgradeInvariant /\ [StartUpNext]_allvars => [Stays]_vars
  BY <1>2
<1> QED BY <1>1, <1>3, UpgradeCorrect, UpgradeOfStartUpCorrect, PTL
        DEF Spec, StartUpSpec, LossIsFinal

-----------------------------------------------------------------------------
(***************************************************************************)
(* The token.                                                              *)
(***************************************************************************)
TokenTypes ==
    /\ tokenFile \in Nat /\ cookie \in Nat
    /\ token \in [Daemon -> Nat]
    /\ stage \in [Daemon -> {"start", "creating", "opened", "ready", "serving"}]
    /\ raced \in BOOLEAN /\ cut \in BOOLEAN

LEMMA OneMore ==
    ASSUME NEW S, IsFiniteSet(S), NEW n \in Nat, Cardinality(S) <= n, NEW x
    PROVE  IsFiniteSet(S \cup {x}) /\ Cardinality(S \cup {x}) <= n + 1
<1>1. Cardinality(S) \in Nat
  BY FS_CardinalityType
<1> QED BY <1>1, FS_AddElement

\* More values than could be taken: one is free, and the least is fresh.
LEMMA FreshIsToken ==
    ASSUME TokenTypes
    PROVE  Fresh \in Nat /\ IsToken(Fresh)
<1> DEFINE held == {token[d] : d \in Daemon}
           taken == {tokenFile, cookie} \cup held
           size == Cardinality(Daemon)
           range == 2 .. 4 + size
           free == {t \in range : t \notin taken}
<1>1. IsFiniteSet(Daemon) /\ size \in Nat
  BY DaemonAssumption, FS_CardinalityType
<1>2. IsFiniteSet(held) /\ Cardinality(held) <= size /\ Cardinality(held) \in Nat
  <2> DEFINE f == [d \in Daemon |-> token[d]]
  <2>1. f \in Surjection(Daemon, held)
    BY DEF Surjection
  <2> HIDE DEF f, held
  <2> QED BY <1>1, <2>1, FS_Surjection, FS_CardinalityType
<1> HIDE DEF held
<1>3. IsFiniteSet(taken) /\ Cardinality(taken) \in Nat /\ Cardinality(taken) <= size + 2
  <2> DEFINE one == held \cup {tokenFile}
  <2> HIDE DEF size
  <2>1. IsFiniteSet(one) /\ Cardinality(one) <= size + 1
    BY <1>1, <1>2, OneMore
  <2>2. taken = one \cup {cookie}
    OBVIOUS
  <2> HIDE DEF one, taken
  <2>3. IsFiniteSet(taken) /\ Cardinality(taken) <= (size + 1) + 1
    <3>1. size + 1 \in Nat
      BY <1>1
    <3> QED BY <2>1, <2>2, <3>1, OneMore
  <2>4. Cardinality(taken) \in Nat
    BY <2>3, FS_CardinalityType
  <2> QED BY <1>1, <2>3, <2>4
<1> HIDE DEF taken, size
<1>4. IsFiniteSet(range) /\ Cardinality(range) = size + 3
  BY <1>1, FS_Interval
<1>5. free # {}
  <2> SUFFICES ASSUME free = {} PROVE FALSE
    OBVIOUS
  <2>1. range \subseteq taken
    OBVIOUS
  <2> HIDE DEF range
  <2>2. Cardinality(range) <= Cardinality(taken)
    BY <1>3, <2>1, FS_Subset
  <2> QED BY <1>1, <1>3, <1>4, <2>2
<1>6. PICK t \in free : \A u \in free : t <= u
  <2>1. free \in SUBSET Nat
    BY <1>1
  <2> HIDE DEF free
  <2> QED BY <1>5, <2>1, Least
<1>7. t \in range /\ t \notin taken /\ 2 .. t - 1 \subseteq taken
  <2>1. \A u \in 2 .. t - 1 : u \in range /\ ~ (t <= u)
    BY <1>1, <1>6
  <2> QED BY <1>6, <2>1
<1>8. Fresh \in range
  <2>1. Fresh = CHOOSE u \in range : u \notin taken /\ 2 .. u - 1 \subseteq taken
    BY DEF Fresh, taken, held, size
  <2> HIDE DEF range
  <2> QED BY <1>7, <2>1
<1> QED BY <1>1, <1>8 DEF IsToken

\* As long as no two first starts met, one process at most is creating the file,
\* and everyone who has a token has that of the file.
OneWriter ==
    /\ \A c, d \in Daemon :
        (stage[c] \in {"creating", "opened"} /\ stage[d] \in {"creating", "opened"}) => c = d
    /\ \A d \in Daemon :
        /\ stage[d] = "creating" => tokenFile = Absent
        /\ stage[d] = "opened" => tokenFile = Empty
        /\ stage[d] \in {"ready", "serving"} => IsToken(tokenFile) /\ token[d] = tokenFile
    /\ cookie \in {Absent, tokenFile}

TokenInvariant ==
    /\ TokenTypes
    /\ cookie = Absent \/ IsToken(cookie)
    /\ \A d \in Daemon : stage[d] = "opened" => IsToken(token[d])
    /\ tokenFile = Empty => (cut \/ \E d \in Daemon : stage[d] = "opened")
    /\ raced \/ OneWriter

LEMMA TokenInitially == StartUpInit => TokenInvariant
<1> SUFFICES ASSUME StartUpInit PROVE TokenInvariant
  OBVIOUS
<1>1. /\ tokenFile \in {Absent, 2} /\ cookie = Absent
      /\ token = [d \in Daemon |-> Absent] /\ stage = [d \in Daemon |-> "start"]
      /\ raced = FALSE /\ cut = FALSE
  BY DEF StartUpInit
<1>2. TokenTypes
  <2>1. raced \in BOOLEAN /\ cut \in BOOLEAN
    BY <1>1, Zenon
  <2> QED BY <1>1, <2>1 DEF TokenTypes, Absent
<1>3. OneWriter
  BY <1>1 DEF OneWriter
<1> QED BY <1>1, <1>2, <1>3 DEF TokenInvariant, Absent, Empty

LEMMA TokenStep ==
    ASSUME TokenInvariant, [StartUpNext]_allvars
    PROVE  TokenInvariant'
<1> USE DEF TokenInvariant, TokenTypes, OneWriter
<1>1. ASSUME NEW d \in Daemon, LoadToken(d) PROVE TokenInvariant'
  <2>1. /\ stage[d] = "start" /\ UNCHANGED <<tokenFile, cookie, cut>>
        /\ raced' = (raced \/ (tokenFile = Absent /\ \E c \in Daemon : stage[c] = "creating"))
    BY <1>1 DEF LoadToken
  <2>2. CASE IsToken(tokenFile) /\ token' = [token EXCEPT ![d] = tokenFile]
                /\ stage' = [stage EXCEPT ![d] = "ready"]
    BY <2>1, <2>2 DEF Absent, Empty, IsToken
  <2>3. CASE tokenFile = Absent /\ stage' = [stage EXCEPT ![d] = "creating"] /\ token' = token
    <3>1. raced' \in BOOLEAN
      BY <2>1, Zenon
    <3>2. TokenTypes'
      BY <2>1, <2>3, <3>1
    <3>3. ASSUME raced' = FALSE PROVE OneWriter'
      <4>1. raced = FALSE /\ \A c \in Daemon : stage[c] # "creating"
        BY <2>1, <2>3, <3>3, Zenon
      <4> QED BY <2>1, <2>3, <4>1 DEF Absent, Empty, IsToken
    <3> QED BY <2>1, <2>3, <3>2, <3>3 DEF Absent, Empty, IsToken
  <2>4. CASE tokenFile = Empty /\ UNCHANGED <<token, stage>>
    BY <2>1, <2>4 DEF Absent, Empty, IsToken
  <2> QED BY <1>1, <2>2, <2>3, <2>4 DEF LoadToken
<1>2. ASSUME NEW d \in Daemon, OpenTokenFile(d) PROVE TokenInvariant'
  <2>1. /\ stage[d] = "creating" /\ tokenFile' = Empty
        /\ token' = [token EXCEPT ![d] = Fresh] /\ stage' = [stage EXCEPT ![d] = "opened"]
        /\ UNCHANGED <<cookie, raced, cut>>
    BY <1>2 DEF OpenTokenFile
  <2>2. Fresh \in Nat /\ IsToken(Fresh)
    BY FreshIsToken
  <2> QED BY <2>1, <2>2 DEF Absent, Empty, IsToken
<1>3. ASSUME NEW d \in Daemon, WriteToken(d) PROVE TokenInvariant'
  <2>1. /\ stage[d] = "opened" /\ tokenFile' = token[d]
        /\ stage' = [stage EXCEPT ![d] = "ready"] /\ UNCHANGED <<token, cookie, raced, cut>>
    BY <1>3 DEF WriteToken
  <2> QED BY <2>1 DEF Absent, Empty, IsToken
<1>4. ASSUME NEW d \in Daemon, Listen(d) PROVE TokenInvariant'
  <2>1. /\ stage[d] = "ready" /\ stage' = [stage EXCEPT ![d] = "serving"]
        /\ UNCHANGED <<tokenFile, token, cookie, raced, cut>>
    BY <1>4 DEF Listen
  <2> QED BY <2>1
<1>5. ASSUME NEW d \in Daemon, Leave(d) PROVE TokenInvariant'
  <2>1. /\ token' = [token EXCEPT ![d] = Absent] /\ stage' = [stage EXCEPT ![d] = "start"]
        /\ cut' = (cut \/ stage[d] = "opened") /\ UNCHANGED <<tokenFile, cookie, raced>>
    BY <1>5 DEF Leave
  <2> QED BY <2>1 DEF Absent, Empty, IsToken
<1>6. CASE Unlock
  <2>1. IsToken(tokenFile) /\ cookie' = tokenFile /\ UNCHANGED tokens
    BY <1>6 DEF Unlock
  <2> QED BY <2>1 DEF tokens
<1>7. ASSUME UNCHANGED <<tokens, cookie>> PROVE TokenInvariant'
  BY <1>7 DEF tokens
<1>8. ASSUME NEW d \in Daemon, OpenDatabase(d) \/ \E s \in Session : Serve(d, s)
      PROVE  UNCHANGED <<tokens, cookie>>
  BY <1>8 DEF OpenDatabase, Serve
<1>9. CASE UNCHANGED allvars
  BY <1>7, <1>9 DEF allvars
<1> HIDE DEF TokenInvariant
<1> QED BY <1>1, <1>2, <1>3, <1>4, <1>5, <1>6, <1>7, <1>8, <1>9
        DEF StartUpNext, Proceed, FindPortTaken, Die

\* The daemon that serves takes the token of the file, and a browser once
\* unlocked stays so, unless two first starts met; the file is empty only while
\* it is written or after a death in the middle of that.
THEOREM OneTokenForAllCorrect == StartUpSpec => []OneTokenForAll
<1>1. TokenInvariant => OneTokenForAll
  BY DEF TokenInvariant, OneWriter, OneTokenForAll
<1>2. TokenInvariant /\ [StartUpNext]_allvars => TokenInvariant'
  BY TokenStep
<1> QED BY <1>1, <1>2, TokenInitially, PTL DEF StartUpSpec
=============================================================================
