----------------------------- MODULE Repository -----------------------------
(***************************************************************************)
(* The SQLite repository (internal/storage/sqlite) and the daemon that     *)
(* owns it (cmd/telemetryiq).  The pool has one connection, so at most one *)
(* transaction is open; its effects live in "work" until Commit copies     *)
(* them to "db".  Any statement can fail (Rollback) and the process can    *)
(* die at any point (Crash).                                               *)
(*                                                                         *)
(* Six tables are kept as sets of rows.  sessions, signals and relations   *)
(* are derived from events; costs and operations are written beside them.  *)
(***************************************************************************)
EXTENDS SessionView, CodexLineage, ClaudeLineage, OperationEvidence

CONSTANTS
    Observation,    \* the operations the adapters can extract
    Batch,          \* ingest requests: [events : Seq, operations : Seq]
    Calculator,     \* price catalogs a daemon can be started with
    Window,         \* values of storage.retention_days, in ticks
    MaxClock,       \* bound on the clock
    MaxFaults       \* bound on crashes and failed transactions

NoCalculator == ""

ASSUME BatchAssumption ==
    Batch \subseteq [events : Seq(Event), operations : Seq(Observation)]

\* An operation names the session whose events it was extracted with.
ASSUME ObservationAssumption ==
    \A o \in Observation : IsOperation(o) /\ o.session \in Session

ASSUME WindowAssumption == Window \subseteq Nat \ {0}

ASSUME BoundsAssumption == MaxClock \in Nat /\ MaxFaults \in Nat

-----------------------------------------------------------------------------
(***************************************************************************)
(* The derived tables as functions of the stored events.  Nothing in the   *)
(* code computes them whole: rebuildSession writes the rows of one session *)
(* and rebuildCodexAgentRelations the Codex trees, each when an operation  *)
(* has touched what they depend on.                                        *)
(***************************************************************************)
\* The rows of a table that belong to session s, and the others.
RowsOf(rows, s) == {r \in rows : r.session = s}

Without(rows, s) == {r \in rows : r.session # s}

SessionTable(events) ==
    {SessionRow(s, SessionEvents(events, s)) : s \in SessionIds(events)}

SignalTable(events) ==
    UNION {SignalRows(s, SessionEvents(events, s)) : s \in SessionIds(events)}

\* Only a Claude Code session, by the tool of its first event, has a tree of its own.
IsClaudeSession(events) == StoreFirst(events).tool = "claude-code"

ClaudeRows(s, events) ==
    IF events # {} /\ IsClaudeSession(events) THEN ClaudeRelations(s, events) ELSE {}

RelationTable(events) ==
    CodexRelations(RolloutEvents(events))
        \cup UNION {ClaudeRows(s, SessionEvents(events, s)) : s \in SessionIds(events)}

-----------------------------------------------------------------------------
VARIABLES
    db,          \* the committed tables
    work,        \* the tables as the open transaction sees them
    tx,          \* what the open transaction has still to do
    daemon,      \* "down", "starting" (before it serves) or "serving"
    calculator,  \* r.calculator of the running daemon
    window,      \* cfg.Storage.RetentionDays of the running daemon
    due,         \* the cutoff of a retention run that waits for the connection
    clock,       \* time.Now
    faults       \* crashes and rollbacks so far

vars == <<db, work, tx, daemon, calculator, window, due, clock, faults>>

NoRows == [events |-> {}, costs |-> {}, sessions |-> {}, signals |-> {},
           relations |-> {}, operations |-> {}]

Idle == [op |-> "none", events |-> <<>>, operations |-> <<>>, touched |-> {},
         codex |-> FALSE, victims |-> {}, cutoff |-> 0]

CostRecord == [event : Nat, session : Session, catalog : Calculator \ {NoCalculator}]

Request == [op : {"none", "save", "delete", "deleteAll", "retain"},
            events : Seq(Event), operations : Seq(Observation),
            touched : SUBSET Session, codex : BOOLEAN,
            victims : SUBSET Session, cutoff : Int]

\* The six tables; every row belongs to a session.
SixTables(t) ==
    t = [events |-> t.events, costs |-> t.costs, sessions |-> t.sessions,
         signals |-> t.signals, relations |-> t.relations,
         operations |-> t.operations]

IsTables(t) ==
    /\ SixTables(t)
    /\ t.events \subseteq Event
    /\ t.costs \subseteq CostRecord
    /\ \A r \in t.sessions \cup t.signals \cup t.relations : r.session \in Session

TypeOK ==
    /\ IsTables(db)
    /\ IsTables(work)
    /\ tx \in Request
    /\ daemon \in {"down", "starting", "serving"}
    /\ calculator \in Calculator
    /\ window \in Window
    /\ due \subseteq Int
    /\ clock \in Nat
    /\ faults \in Nat

Init ==
    /\ db = NoRows
    /\ work = NoRows
    /\ tx = Idle
    /\ daemon = "down"
    /\ calculator \in Calculator
    /\ window \in Window
    /\ due = {}
    /\ clock = 0
    /\ faults = 0

-----------------------------------------------------------------------------
(***************************************************************************)
(* Statements: what each leaves in the tables.                             *)
(***************************************************************************)
\* saveEventTx: INSERT OR IGNORE by event_id, and a cost for an inserted row.
IsNewEvent(tables, e) == \A f \in tables.events : f.id # e.id

\* Mutant: INSERT OR REPLACE, priced again from the catalog of the day.
SavedEventRepriced(tables, e) ==
    [tables EXCEPT
        !.events = {f \in @ : f.id # e.id} \cup {e},
        !.costs = IF calculator = NoCalculator
                  THEN @
                  ELSE {c \in @ : c.event # e.id}
                        \cup {[event |-> e.id, session |-> e.session,
                               catalog |-> calculator]}]

SavedEvent(tables, e) ==
    IF ~IsNewEvent(tables, e)
    THEN tables
    ELSE [tables EXCEPT
            !.events = @ \cup {e},
            !.costs = IF calculator = NoCalculator
                      THEN @
                      ELSE @ \cup {[event |-> e.id, session |-> e.session,
                                    catalog |-> calculator]}]

\* Mutant: what the comment says, clearing the rows of a session of any tool.
RebuiltRelationsCleared(tables, s, events) ==
    Without(tables.relations, s) \cup ClaudeRows(s, events)

\* rebuildAgentRelations: only a Claude Code session has relations of its own.
RebuiltRelations(tables, s, events) ==
    IF IsClaudeSession(events)
    THEN Without(tables.relations, s) \cup ClaudeRelations(s, events)
    ELSE tables.relations

\* rebuildSession: nothing to derive for a session without events.
RebuiltSession(tables, s) ==
    LET events == SessionEvents(tables.events, s)
    IN  IF events = {}
        THEN tables
        ELSE [tables EXCEPT
                !.sessions = Without(@, s) \cup {SessionRow(s, events)},
                !.signals = Without(@, s) \cup SignalRows(s, events),
                !.relations = RebuiltRelations(tables, s, events)]

\* Mutant: the old rows stay (INSERT OR IGNORE and no DELETE).
RebuiltCodexKept(tables) ==
    [tables EXCEPT !.relations = @ \cup CodexRelations(RolloutEvents(tables.events))]

\* rebuildCodexAgentRelations: every Codex tree, from every rollout event.
RebuiltCodex(tables) ==
    [tables EXCEPT
        !.relations = {r \in @ : r.tool # "codex"}
                        \cup CodexRelations(RolloutEvents(tables.events))]

\* Mutant: no DELETE FROM cost_records.
DeletedSessionKeepsCosts(tables, s) ==
    [tables EXCEPT !.signals = Without(@, s), !.operations = Without(@, s),
                   !.relations = Without(@, s), !.events = Without(@, s),
                   !.sessions = Without(@, s)]

\* deleteSessionRows: the six DELETE statements.
DeletedSession(tables, s) ==
    [signals |-> Without(tables.signals, s),
     costs |-> Without(tables.costs, s),
     operations |-> Without(tables.operations, s),
     relations |-> Without(tables.relations, s),
     events |-> Without(tables.events, s),
     sessions |-> Without(tables.sessions, s)]

\* listExpiredSessionIDs: started_at < cutoff, compared as text.
ExpiredSessions(tables, cutoff) ==
    {r.session : r \in {q \in tables.sessions :
        TextRank(q.startedAt) < TextRank(cutoff)}}
-----------------------------------------------------------------------------
(***************************************************************************)
(* Transactions.  Begin* takes the connection; every other step belongs to *)
(* the request that holds it.                                              *)
(***************************************************************************)
Begin(request) ==
    /\ tx.op = "none"
    /\ tx' = request
    /\ UNCHANGED <<db, daemon, calculator, window, clock, faults>>

\* SaveEventsAndOperations returns at once when both lists are empty.
BeginSave(batch) ==
    /\ daemon = "serving"
    /\ batch.events # <<>> \/ batch.operations # <<>>
    /\ Begin([Idle EXCEPT !.op = "save", !.events = batch.events,
                          !.operations = batch.operations])
    /\ work' = db
    /\ UNCHANGED due

\* Mutant: the Codex trees are not rebuilt after a deletion.
BeginDeleteOnly(s) ==
    /\ daemon = "serving"
    /\ Begin([Idle EXCEPT !.op = "delete", !.victims = {s}])
    /\ work' = db
    /\ UNCHANGED due

\* DeleteSession, for any identifier, stored or not.
BeginDelete(s) ==
    /\ daemon = "serving"
    /\ Begin([Idle EXCEPT !.op = "delete", !.victims = {s}, !.codex = TRUE])
    /\ work' = db
    /\ UNCHANGED due

\* DeleteAllSessions: six unconditional DELETE statements.
BeginDeleteAll ==
    /\ daemon = "serving"
    /\ Begin([Idle EXCEPT !.op = "deleteAll"])
    /\ work' = NoRows
    /\ UNCHANGED due

\* ApplyRetention reads the clock at start-up and on each tick of
\* runRetentionLoop, which waits for one run before it begins another ...
PlanRetention ==
    /\ daemon \in {"starting", "serving"}
    /\ due = {} /\ tx.op # "retain"
    /\ due' = {clock - window}
    /\ UNCHANGED <<db, work, tx, daemon, calculator, window, clock, faults>>

\* Mutant: retention runs at start-up only.
BeginRetentionOnce ==
    \E cutoff \in due :
        /\ daemon = "starting"
        /\ Begin([Idle EXCEPT !.op = "retain", !.codex = TRUE,
                              !.cutoff = cutoff,
                              !.victims = ExpiredSessions(db, cutoff)])
        /\ work' = db
        /\ due' = {}

\* ... and selects the sessions once it has the connection.
BeginRetention ==
    \E cutoff \in due :
        /\ daemon \in {"starting", "serving"}
        /\ Begin([Idle EXCEPT !.op = "retain", !.codex = TRUE,
                              !.cutoff = cutoff,
                              !.victims = ExpiredSessions(db, cutoff)])
        /\ work' = db
        /\ due' = {}

Working(tables, rest) ==
    /\ work' = tables
    /\ tx' = rest
    /\ UNCHANGED <<db, daemon, calculator, window, due, clock, faults>>

\* Mutant: the last event of the request decides whether the trees are rebuilt.
SaveEventForgetful ==
    /\ tx.events # <<>>
    /\ LET e == Head(tx.events)
       IN  Working(SavedEvent(work, e),
                   [tx EXCEPT !.events = Tail(@),
                              !.codex = IsRollout(e),
                              !.touched = @ \cup {e.session}])

\* One iteration of the first loop of saveEventsTx.
SaveEvent ==
    /\ tx.events # <<>>
    /\ LET e == Head(tx.events)
       IN  Working(SavedEvent(work, e),
                   [tx EXCEPT !.events = Tail(@),
                              !.codex = @ \/ IsRollout(e),
                              !.touched = @ \cup {e.session}])

\* One iteration of the second loop; the map gives the sessions in any order.
RebuildSession(s) ==
    /\ tx.events = <<>>
    /\ s \in tx.touched
    /\ Working(RebuiltSession(work, s), [tx EXCEPT !.touched = @ \ {s}])

\* Mutant: the statements go to the pool, which waits for the connection that
\* this very transaction holds.
DeleteSessionRowsOnPool(s) ==
    /\ tx.op = "none"
    /\ s \in tx.victims
    /\ Working(DeletedSession(work, s), [tx EXCEPT !.victims = @ \ {s}])

DeleteSessionRows(s) ==
    /\ s \in tx.victims
    /\ Working(DeletedSession(work, s), [tx EXCEPT !.victims = @ \ {s}])

RebuildCodexAgentRelations ==
    /\ tx.events = <<>> /\ tx.touched = {} /\ tx.victims = {}
    /\ tx.codex
    /\ Working(RebuiltCodex(work), [tx EXCEPT !.codex = FALSE])

\* saveOperationsTx runs after the events of the request.
SaveOperation ==
    /\ tx.events = <<>> /\ tx.touched = {} /\ ~tx.codex
    /\ tx.operations # <<>>
    /\ Working([work EXCEPT !.operations = StoreOperation(@, Head(tx.operations))],
               [tx EXCEPT !.operations = Tail(@)])

\* Mutant: the events are committed before the operations of the request.
DrainedOfEvents == /\ tx.events = <<>> /\ tx.touched = {}
                   /\ tx.victims = {} /\ ~tx.codex

Drained == /\ tx.events = <<>> /\ tx.operations = <<>>
           /\ tx.touched = {} /\ tx.victims = {} /\ ~tx.codex

\* tx.Commit; a daemon serves once its start-up retention has committed.
Commit ==
    /\ tx.op # "none"
    /\ Drained
    /\ db' = work
    /\ tx' = Idle
    /\ daemon' = "serving"
    /\ UNCHANGED <<work, calculator, window, due, clock, faults>>

\* A statement or the commit fails: the deferred Rollback discards the work.
\* During start-up the error makes main exit.
Rollback ==
    /\ tx.op # "none"
    /\ faults < MaxFaults
    /\ faults' = faults + 1
    /\ work' = db
    /\ tx' = Idle
    /\ daemon' = IF daemon = "starting" THEN "down" ELSE daemon
    /\ UNCHANGED <<db, calculator, window, due, clock>>

-----------------------------------------------------------------------------
\* The process dies; SQLite's log undoes an uncommitted transaction.
Crash ==
    /\ daemon # "down"
    /\ faults < MaxFaults
    /\ faults' = faults + 1
    /\ daemon' = "down"
    /\ work' = db
    /\ tx' = Idle
    /\ due' = {}
    /\ UNCHANGED <<db, calculator, window, clock>>

\* main: the price catalog and the configuration are read again.
Start ==
    /\ daemon = "down"
    /\ daemon' = "starting"
    /\ calculator' \in Calculator
    /\ window' \in Window
    /\ UNCHANGED <<db, work, tx, due, clock, faults>>

Tick ==
    /\ clock < MaxClock
    /\ clock' = clock + 1
    /\ UNCHANGED <<db, work, tx, daemon, calculator, window, due, faults>>

Ingest == \E batch \in Batch : BeginSave(batch)

Delete == \E s \in Session : BeginDelete(s)

\* A step of the request that holds the connection.
Work ==
    \/ SaveEvent
    \/ \E s \in Session : RebuildSession(s) \/ DeleteSessionRows(s)
    \/ RebuildCodexAgentRelations
    \/ SaveOperation
    \/ Commit

Next ==
    \/ Ingest
    \/ Delete
    \/ BeginDeleteAll
    \/ PlanRetention
    \/ BeginRetention
    \/ Work
    \/ Rollback
    \/ Crash
    \/ Start
    \/ Tick

Spec == Init /\ [][Next]_vars

(***************************************************************************)
(* A request that holds the connection keeps running; the hourly ticker    *)
(* comes again and the pool hands the connection to waiters in turn.       *)
(* Nothing restarts a daemon that died.                                    *)
(***************************************************************************)
Fairness == WF_vars(Work) /\ WF_vars(PlanRetention) /\ SF_vars(BeginRetention)

FairSpec == Spec /\ Fairness

-----------------------------------------------------------------------------
(***************************************************************************)
(* What the statements of a transaction maintain: the derived rows of      *)
(* every session but the stale ones are those of its events, and so are    *)
(* the Codex trees unless they are still to be rebuilt.  A session without *)
(* events is never stale: rebuildSession would not mend it.                *)
(***************************************************************************)
Fresh(t, s) ==
    LET events == SessionEvents(t.events, s)
    IN  /\ RowsOf(t.sessions, s) = IF events = {} THEN {} ELSE {SessionRow(s, events)}
        /\ RowsOf(t.signals, s) = IF events = {} THEN {} ELSE SignalRows(s, events)
        /\ {r \in RowsOf(t.relations, s) : r.tool # "codex"} = ClaudeRows(s, events)

CodexFresh(t) ==
    {r \in t.relations : r.tool = "codex"} = CodexRelations(RolloutEvents(t.events))

\* rebuildAgentRelations leaves the rows of a session that is not Claude Code's
\* alone, which is right only because such a session never has any.
ClaudeBacked(t) ==
    \A r \in t.relations : r.tool # "codex" =>
        \E e \in t.events : e.session = r.session /\ e.tool = "claude-code"

Consistent(t, stale, codex) ==
    /\ UniqueIds(t.events)
    /\ ClaudeBacked(t)
    /\ \A s \in Session :
        Fresh(t, s) \/ (s \in stale /\ SessionEvents(t.events, s) # {})
    /\ ~codex => CodexFresh(t)

\* The inductive invariant behind DerivedTablesAgree: the committed tables are
\* consistent, and the open transaction still has on its list whatever is not.
TablesInvariant ==
    /\ TypeOK
    /\ Consistent(db, {}, FALSE)
    /\ Consistent(work, tx.touched, tx.codex)
    /\ tx.victims # {} => tx.codex

(***************************************************************************)
(* What keeps costs final: a cost belongs to a stored event, is the only   *)
(* one of it, and agrees with the committed one.  A request that still has *)
(* events to save has deleted nothing, so an event it inserts as new has   *)
(* no committed cost either.                                               *)
(***************************************************************************)
CostsBacked(t) ==
    /\ \A c, d \in t.costs : c.event = d.event => c = d
    /\ \A c \in t.costs : \E e \in t.events :
            c.event = e.id /\ c.session = e.session

\* The inductive invariant behind CostsFollowEvents and CostsAreFinal.
CostsInvariant ==
    /\ CostsBacked(db)
    /\ CostsBacked(work)
    /\ \A c \in db.costs, d \in work.costs : c.event = d.event => c = d
    /\ tx.events # <<>> => db.events \subseteq work.events /\ tx.victims = {}

(***************************************************************************)
(* What the open transaction has done so far.  A request to save has       *)
(* stored the first n events and the first m operations of its batch; a    *)
(* deletion or retention has removed some of the sessions it has to        *)
(* remove, and all of what they had.                                       *)
(***************************************************************************)
\* What is left of a list after its first n elements.
Rest(rest, list, n) ==
    /\ Len(rest) = Len(list) - n
    /\ \A i \in 1 .. Len(rest) : rest[i] = list[n + i]

\* The first copy of each identifier among the first n events, unless it is stored.
FirstCopies(stored, events, n) ==
    {events[j] : j \in {i \in 1 .. n :
        /\ \A e \in stored : e.id # events[i].id
        /\ \A k \in 1 .. i - 1 : events[k].id # events[i].id}}

Costed(events, catalog) ==
    {[event |-> e.id, session |-> e.session, catalog |-> catalog] :
        e \in IF catalog = NoCalculator THEN {} ELSE events}

\* From the tables old, the first n events and m operations of batch give new.
Saved(old, new, catalog, batch, n, m) ==
    /\ new.events = old.events \cup FirstCopies(old.events, batch.events, n)
    /\ new.costs = old.costs \cup Costed(FirstCopies(old.events, batch.events, n), catalog)
    /\ new.operations = RowsAfter(old.operations, batch.operations)[m]

Saving(old, new, catalog, request, batch, n, m) ==
    /\ Saved(old, new, catalog, batch, n, m)
    /\ Rest(request.events, batch.events, n)
    /\ Rest(request.operations, batch.operations, m)
    /\ request.victims = {}

\* From the tables old, forgetting the sessions gone gives new.
Removed(old, new, gone) ==
    LET Kept(rows) == {r \in rows : r.session \notin gone}
    IN  /\ new.events = Kept(old.events)
        /\ new.costs = Kept(old.costs)
        /\ new.operations = Kept(old.operations)
        /\ new.sessions = Kept(old.sessions)

Removing(old, new, request, gone) ==
    /\ request.events = <<>> /\ request.operations = <<>> /\ request.touched = {}
    /\ request.victims \subseteq gone
    /\ Removed(old, new, gone \ request.victims)

\* The inductive invariant behind IngestOnlyAdds, ReplayIsSilent,
\* RetentionIsExact and ImplementsRetainedStore.
RequestInvariant ==
    /\ AreRows(db.operations)
    /\ \A o \in db.operations : o.session \in Session
    /\ tx.op # "none" => daemon # "down"
    /\ tx.op = "save" =>
        \E batch \in Batch :
            \E n \in 0 .. Len(batch.events), m \in 0 .. Len(batch.operations) :
                Saving(db, work, calculator, tx, batch, n, m)
    /\ tx.op = "delete" => \E s \in Session : Removing(db, work, tx, {s})
    /\ tx.op = "retain" => Removing(db, work, tx, ExpiredSessions(db, tx.cutoff))
    /\ tx.op = "deleteAll" => Removing(db, work, tx, Session)

-----------------------------------------------------------------------------
(***************************************************************************)
(* Properties.                                                             *)
(***************************************************************************)
\* Whatever was ingested, deleted, expired, rolled back or lost in a crash,
\* every committed derived table is a function of the committed events: no
\* row is stale, missing or left behind by another session's history.
DerivedTablesAgree ==
    /\ db.sessions = SessionTable(db.events)
    /\ db.signals = SignalTable(db.events)
    /\ db.relations = RelationTable(db.events)

\* event_id is a key of events and of cost_records, and a cost belongs to a
\* stored event: the plain INSERT of saveCostRecord can never hit an old row.
CostsFollowEvents ==
    /\ UniqueIds(db.events)
    /\ \A c, d \in db.costs : c.event = d.event => c = d
    /\ \A c \in db.costs : \E e \in db.events :
            c.event = e.id /\ c.session = e.session

\* The key of agent_relations, which rebuilds insert into without OR IGNORE:
\* a duplicate would make every later ingest, deletion and retention fail.
RelationKeyHolds ==
    \A p, q \in db.relations :
        (p.session = q.session /\ p.trace = q.trace /\ p.agent = q.agent) => p = q

\* A cost is priced once: a re-delivered event, or a daemon restarted with
\* another catalog, never reprices a retained event.
CostsAreFinal ==
    [][\A c \in db.costs, d \in db'.costs : c.event = d.event => c = d]_vars

\* Ingest never takes an event, a cost or a session away, and never weakens
\* what an operation already proves.
IngestOnlyAdds ==
    [][tx.op = "save" =>
        /\ db.events \subseteq db'.events
        /\ db.costs \subseteq db'.costs
        /\ SessionIds(db.sessions) \subseteq SessionIds(db'.sessions)
        /\ Grows(db.operations, db'.operations)]_vars

\* Re-ingesting events that are all stored changes none of the derived tables.
ReplayIsSilent ==
    [][(tx.op = "save" /\ db'.events = db.events) =>
        /\ db'.costs = db.costs
        /\ db'.sessions = db.sessions
        /\ db'.signals = db.signals
        /\ db'.relations = db.relations]_vars

\* Retention removes exactly the sessions that started before its cutoff, with
\* their events and operations, and nothing of any other session.  The cutoff
\* may be old by then, and which sessions there are may have changed, since the
\* clock is read before the run waits for the connection (retention.go:17).
RetentionIsExact ==
    [][(tx.op = "retain" /\ db' # db) =>
        LET gone == ExpiredSessions(db, tx.cutoff)
        IN  /\ db'.sessions = {r \in db.sessions : r.session \notin gone}
            /\ db'.events = {e \in db.events : e.session \notin gone}
            /\ db'.costs = {c \in db.costs : c.session \notin gone}
            /\ db'.operations = {o \in db.operations : o.session \notin gone}]_vars

\* "Rebuilds sessions in timestamp order": a session is in the state that the
\* latest of its lifecycle events put it in.
StateFollowsTime ==
    \A r \in db.sessions :
        LET life == LifecycleEvents(SessionEvents(db.events, r.session))
        IN  life # {} => \E e \in life : e.at = LatestInstant(life) /\ e.life = r.state

\* The derived tables, the rebuilt ones of the committed tables or of any events.
View(tables) == [sessions |-> tables.sessions, signals |-> tables.signals,
                 relations |-> tables.relations]

Derived(events) == [sessions |-> SessionTable(events), signals |-> SignalTable(events),
                    relations |-> RelationTable(events)]

\* The tables as the callers of the repository know them, and the promise that
\* every committed state keeps: requests take effect whole or not at all.
Promise == INSTANCE RetainedStore WITH
    events <- db.events,
    costs <- db.costs,
    operations <- db.operations,
    view <- View(db),
    Derived <- Derived,
    Stored <- StoredOperations

ImplementsRetainedStore == Promise!Spec

\* A request that began gets its answer: it commits, fails, or the process dies.
RequestsEnd == tx.op # "none" ~> tx.op = "none"

\* While a daemon runs, an expired session does not stay: the next tick of the
\* retention loop that finds the connection free removes it, even if earlier
\* ones failed.
ExpiredSessionsGo ==
    \A s \in Session :
        s \in ExpiredSessions(db, clock - window)
            ~> s \notin ExpiredSessions(db, clock - window) \/ daemon = "down"
=============================================================================
