------------------------------ MODULE Migrations ------------------------------
(***************************************************************************)
(* Opening the SQLite file: the base tables, then migrations 3 to 10       *)
(* (sqlite.go, migrate; signals.go).  A migration is one transaction, but  *)
(* most of them ask beforehand, outside of it, whether there is anything   *)
(* to do.  Processes can die or fail at any point and start again, and any *)
(* number of them can open the same file at the same time: all but one     *)
(* fail on their port, but only after they have migrated.                  *)
(*                                                                         *)
(* Migration 3 copies events into a table of its first shape.  A process   *)
(* that asked for it before another one was through copies them again, and *)
(* takes the columns that later migrations have added and recorded.        *)
(*                                                                         *)
(* The schema is a set of names of tables and columns; columns that one    *)
(* migration adds together share a name.                                   *)
(***************************************************************************)
EXTENDS Naturals, FiniteSets

CONSTANTS
    Daemon,         \* processes that open the file
    Session,        \* sessions the file can hold
    FirstVersion,   \* versions of the files found: 0 is no file at all
    MaxStops        \* bound on failures and crashes

Versions == 1 .. 10

BaseTables == {"schema_migrations", "events", "sessions", "cost_records", "operations"}

\* The tables and columns each migration adds.
Added(version) ==
    CASE version = 4 -> {"operations"}
      [] version = 5 -> {"agent_relations"}
      [] version = 6 -> {"sessions.list", "cost_records.summary"}
      [] version = 7 -> {"sessions.last_event_at", "events.event_type", "insight_signals"}
      [] version = 9 -> {"events.provider_tool"}
      [] OTHER -> {}

\* What a file of the version holds.  Version 2 is the last one whose events
\* carry a provenance.
SchemaAt(version) ==
    CASE version = 0 -> {}
      [] version = 2 -> (BaseTables \ {"operations"}) \cup {"events.provenance_json"}
      [] OTHER -> (BaseTables \ {"operations"}) \cup UNION {Added(v) : v \in 4 .. version}

Schema == BaseTables \cup (UNION {Added(v) : v \in Versions})
            \cup {"events.provenance_json"}

\* The columns of events beyond those of its first CREATE TABLE.
EventColumns == {"events.provenance_json", "events.event_type", "events.provider_tool"}

\* What rebuildSession writes, and what an ingest needs.
RebuildNeeds == {"events", "sessions", "sessions.list", "sessions.last_event_at",
                 "insight_signals", "agent_relations"}
IngestNeeds == RebuildNeeds \cup {"events.event_type", "events.provider_tool",
                                  "cost_records", "cost_records.summary", "operations"}

\* Columns whose values a migration computes, and the signals of a session as
\* this program derives them ("signals"): earlier programs derived fewer.
Values == {"sessions.list", "cost_records.summary", "sessions.last_event_at",
           "events.event_type", "events.provider_tool", "signals"}

ASSUME DaemonAssumption == IsFiniteSet(Daemon)
ASSUME FirstVersionAssumption == FirstVersion \subseteq {0} \cup (2 .. 10)
ASSUME StopsAssumption == MaxStops \in Nat

VARIABLES
    schema,     \* the tables and columns of the file
    versions,   \* schema_migrations
    stored,     \* the sessions that have events
    valued,     \* for each value, the sessions whose rows have it
    lost,       \* history: columns a copy took although they were recorded
    met,        \* history: two processes were up on a file with provenance
    pc,         \* "down", "base", "migrating" or "open"
    version,    \* the migration a process is at
    seen,       \* what it found outside the transaction of that migration
    stops       \* failures and crashes so far

file == <<schema, versions, stored, valued, lost, met>>

vars == <<file, pc, version, seen, stops>>

TypeOK ==
    /\ schema \subseteq Schema
    /\ versions \subseteq Versions
    /\ stored \subseteq Session
    /\ valued \in [Values -> SUBSET Session]
    /\ lost \subseteq EventColumns /\ met \in BOOLEAN
    /\ pc \in [Daemon -> {"down", "base", "migrating", "open"}]
    /\ version \in [Daemon -> 1 .. 11]
    /\ seen \in [Daemon -> {"nothing", "todo", "done"}]
    /\ stops \in Nat

\* Values a file of the version has for every row.
ValuesAt(v) ==
    (IF v >= 6 THEN {"sessions.list", "cost_records.summary"} ELSE {})
    \cup (IF v >= 7 THEN {"sessions.last_event_at", "events.event_type"} ELSE {})
    \cup (IF v >= 9 THEN {"events.provider_tool"} ELSE {})
    \cup (IF v >= 10 THEN {"signals"} ELSE {})

Init ==
    \E v \in FirstVersion :
        /\ schema = SchemaAt(v)
        /\ versions = 1 .. v
        /\ stored \in IF v = 0 THEN {{}} ELSE SUBSET Session
        /\ valued = [x \in Values |-> IF x \in ValuesAt(v) THEN stored ELSE {}]
        /\ lost = {} /\ met = FALSE
        /\ pc = [d \in Daemon |-> "down"]
        /\ version = [d \in Daemon |-> 1]
        /\ seen = [d \in Daemon |-> "nothing"]
        /\ stops = 0

-----------------------------------------------------------------------------
\* Open: the connection and its pragmas.
Start(d) ==
    /\ pc[d] = "down"
    /\ pc' = [pc EXCEPT ![d] = "base"]
    /\ version' = [version EXCEPT ![d] = 1]
    /\ seen' = [seen EXCEPT ![d] = "nothing"]
    /\ met' = (met \/ /\ "events.provenance_json" \in schema
                      /\ \E c \in Daemon \ {d} : pc[c] # "down")
    /\ UNCHANGED <<schema, versions, stored, valued, lost, stops>>

\* CREATE TABLE IF NOT EXISTS, one statement after the other, each committed
\* by itself.  Their order is left open: no statement depends on another table.
CreateTable(d) ==
    /\ pc[d] = "base"
    /\ \E table \in BaseTables \ schema : schema' = schema \cup {table}
    /\ UNCHANGED <<versions, stored, valued, lost, met, pc, version, seen, stops>>

\* Versions 1 and 2 are recorded whatever the file is.
RecordBase(d) ==
    /\ pc[d] = "base"
    /\ BaseTables \subseteq schema
    /\ versions' = versions \cup {version[d]}
    /\ version' = [version EXCEPT ![d] = @ + 1]
    /\ pc' = [pc EXCEPT ![d] = IF version[d] = 2 THEN "migrating" ELSE @]
    /\ UNCHANGED <<schema, stored, valued, lost, met, seen, stops>>

\* Mutant: migration 3 takes every table of events for an old one.
LooksDoneWithoutColumn(v) == v \in {6, 7, 8, 9, 10} /\ v \in versions

\* Mutant: migration 9 is not looked up, as 4 and 5 are not.
LooksDoneButNine(v) ==
    CASE v = 3 -> "events.provenance_json" \notin schema
      [] v \in {6, 7, 8, 10} -> v \in versions
      [] OTHER -> FALSE

\* eventsHasProvenance for migration 3, migrationApplied from 6 on; 4 and 5
\* have nothing to ask.
LooksDone(v) ==
    CASE v = 3 -> "events.provenance_json" \notin schema
      [] v \in {4, 5} -> FALSE
      [] OTHER -> v \in versions

\* The question, outside the transaction.
Inspect(d) ==
    /\ pc[d] = "migrating"
    /\ version[d] <= 10
    /\ seen[d] = "nothing"
    /\ seen' = [seen EXCEPT ![d] = IF LooksDone(version[d]) THEN "done" ELSE "todo"]
    /\ UNCHANGED <<file, pc, version, stops>>

\* An applied migration is not run again, except that 3 always records itself.
Skip(d) ==
    /\ pc[d] = "migrating"
    /\ seen[d] = "done"
    /\ version[d] # 3
    /\ version' = [version EXCEPT ![d] = @ + 1]
    /\ seen' = [seen EXCEPT ![d] = "nothing"]
    /\ UNCHANGED <<file, pc, stops>>

-----------------------------------------------------------------------------
(***************************************************************************)
(* The transactions.  SQLite fails one whose reads are outdated when it    *)
(* begins to write, so each takes effect at one moment.                    *)
(***************************************************************************)
\* Migration 3: the events are copied into a table of the first shape.
EventsRebuilt == schema \ EventColumns

\* Mutant: the new columns are left empty for old rows.
FilledForgetful(v) == IF v \in {7, 8, 10} THEN {"signals"} ELSE {}

\* The values a migration computes for every row: backfills, and from 7 on
\* rebuildSession for every session with events.
Filled(v) ==
    CASE v = 6 -> {"sessions.list", "cost_records.summary"}
      [] v = 7 -> {"events.event_type", "sessions.list", "sessions.last_event_at", "signals"}
      [] v \in {8, 10} -> {"sessions.list", "sessions.last_event_at", "signals"}
      [] v = 9 -> {"events.provider_tool"}
      [] OTHER -> {}

\* The tables a migration writes to besides those it adds.
Needed(v) ==
    IF v \in {7, 8, 10} THEN RebuildNeeds \ Added(v) ELSE {"events"}

\* What the copy takes of what recorded migrations have added.
Taken(v, taken) ==
    (lost \cup {c \in taken : \E w \in versions : c \in Added(w)}) \ Added(v)

\* Mutant: a version that is recorded already is a conflict, and tried again.
ApplyUnlessRecorded(d) ==
    LET v == version[d]
        rebuilt == IF v = 3 /\ seen[d] = "todo" THEN EventsRebuilt ELSE schema
    IN  /\ pc[d] = "migrating"
        /\ seen[d] = "todo" \/ (seen[d] = "done" /\ v = 3)
        /\ Needed(v) \subseteq schema
        /\ IF v \in versions
           THEN UNCHANGED <<file, version>>
           ELSE /\ schema' = rebuilt \cup Added(v)
                /\ versions' = versions \cup {v}
                /\ valued' = [x \in Values |-> IF x \in Filled(v) THEN stored ELSE valued[x]]
                /\ UNCHANGED <<stored, lost, met>>
                /\ version' = [version EXCEPT ![d] = @ + 1]
        /\ seen' = [seen EXCEPT ![d] = "nothing"]
        /\ UNCHANGED <<pc, stops>>

\* One migration, committed.
Apply(d) ==
    LET v == version[d]
        rebuilt == IF v = 3 /\ seen[d] = "todo" THEN EventsRebuilt ELSE schema
    IN  /\ pc[d] = "migrating"
        /\ seen[d] = "todo" \/ (seen[d] = "done" /\ v = 3)
        /\ Needed(v) \subseteq schema
        /\ schema' = rebuilt \cup Added(v)
        /\ versions' = versions \cup {v}
        /\ lost' = Taken(v, schema \ rebuilt)
        /\ valued' = [x \in Values |->
                        IF x \in Filled(v) THEN stored
                        ELSE IF x \in schema \ rebuilt THEN {} ELSE valued[x]]
        /\ version' = [version EXCEPT ![d] = @ + 1]
        /\ seen' = [seen EXCEPT ![d] = "nothing"]
        /\ UNCHANGED <<stored, met, pc, stops>>

\* Every migration is through: Open returns.
Opened(d) ==
    /\ pc[d] = "migrating"
    /\ version[d] = 11
    /\ pc' = [pc EXCEPT ![d] = "open"]
    /\ UNCHANGED <<file, version, seen, stops>>

\* A statement fails, the port is taken, the process is stopped or dies:
\* what was not committed is gone.
Stop(d) ==
    /\ pc[d] # "down"
    /\ stops < MaxStops
    /\ pc' = [pc EXCEPT ![d] = "down"]
    /\ seen' = [seen EXCEPT ![d] = "nothing"]
    /\ stops' = stops + 1
    /\ UNCHANGED <<file, version>>

\* An open daemon stores events of a session and everything derived of them.
Ingest(d, s) ==
    /\ pc[d] = "open"
    /\ IngestNeeds \subseteq schema
    /\ stored' = stored \cup {s}
    /\ valued' = [x \in Values |-> valued[x] \cup {s}]
    /\ UNCHANGED <<schema, versions, lost, met, pc, version, seen, stops>>

Migrate(d) ==
    CreateTable(d) \/ RecordBase(d) \/ Inspect(d) \/ Skip(d) \/ Apply(d) \/ Opened(d)

Next ==
    \E d \in Daemon :
        Start(d) \/ Migrate(d) \/ Stop(d) \/ (\E s \in Session : Ingest(d, s))

Spec == Init /\ [][Next]_vars

\* A process that is not stopped goes on with its statements.  Nothing is
\* assumed of starting it again.
FairSpec == Spec /\ \A d \in Daemon : WF_vars(Migrate(d))

-----------------------------------------------------------------------------
(***************************************************************************)
(* Properties.                                                             *)
(***************************************************************************)
\* A recorded version tells the truth in every state, also between two
\* migrations and after a crash: what it adds is there, and every row has the
\* values it fills, but for the columns of events that a second copy took after
\* they were recorded.  Later starts rely on nothing else to skip it for good.
RecordedIsApplied ==
    \A v \in versions :
        /\ Added(v) \subseteq schema \cup lost
        /\ v >= 3 => "events.provenance_json" \notin schema
        /\ \A x \in ValuesAt(v) \ lost : valued[x] = stored

\* A daemon that serves finds every table and column its statements name, and
\* no row without the values its lists, filters and reports read, unless two
\* processes were up at the same time on a file whose events carried
\* provenance; then columns of events can be missing, and nothing else.
ServesCurrentSchema ==
    /\ \A d \in Daemon : pc[d] = "open" =>
        /\ IngestNeeds \subseteq schema \cup lost
        /\ \A x \in Values \ lost : valued[x] = stored
    /\ lost # {} => met

\* A process is about to add a column: it asked before that was recorded.
AboutToAdd(column) ==
    \E d \in Daemon : seen[d] = "todo" /\ column \in Added(version[d])

\* "Provider/tool labels are copied into narrow columns once during upgrade so
\* every later diagnostic preview or export can aggregate" (sqlite.go:179): once
\* such a column is lost, and no process was about to add it, neither that
\* process nor any later start adds it again, since its version is recorded.
LossIsFinal ==
    [][\A column \in lost : ~AboutToAdd(column) =>
            column \in lost' /\ ~AboutToAdd(column)']_vars

\* A process is past a migration only if it is recorded.  What it saw outside a
\* transaction still holds when the transaction begins, except that events may
\* have been copied meanwhile.
ProcessOK(d) ==
    /\ pc[d] = "base" => version[d] \in {1, 2} /\ seen[d] = "nothing"
    /\ pc[d] = "down" \/ version[d] = 11 => seen[d] = "nothing"
    /\ pc[d] = "open" => version[d] = 11
    /\ pc[d] \in {"migrating", "open"} =>
            /\ BaseTables \subseteq schema
            /\ version[d] >= 3
            /\ 3 .. version[d] - 1 \subseteq versions
    /\ (pc[d] = "migrating" /\ version[d] = 3 /\ seen[d] = "todo") =>
            met \/ "events.provenance_json" \in schema
    /\ (pc[d] = "migrating" /\ version[d] <= 10 /\ seen[d] = "done") =>
            LooksDone(version[d])

\* The inductive invariant: what is recorded, what is lost, and where each
\* process is.
UpgradeInvariant ==
    /\ RecordedIsApplied
    /\ \A v \in versions : 3 .. v - 1 \subseteq versions
    /\ \A column \in lost : \A v \in Versions : column \in Added(v) => v \in versions
    /\ lost # {} => met
    /\ ("events.provenance_json" \in schema /\ ~met) =>
            \A c, d \in Daemon : pc[c] # "down" /\ pc[d] # "down" => c = d
    /\ \A d \in Daemon : ProcessOK(d)

\* A start-up ends: every migration finds what it writes to, whatever version
\* the file had and wherever earlier starts were cut off.
StartUpEnds == \A d \in Daemon : pc[d] = "base" ~> pc[d] \in {"open", "down"}
=============================================================================
