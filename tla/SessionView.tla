---------------------------- MODULE SessionView ----------------------------
(***************************************************************************)
(* What rebuildSession derives from the complete set of a session's        *)
(* events: its row of the sessions table and its rows of insight_signals.  *)
(***************************************************************************)
EXTENDS Events

LOCAL INSTANCE FiniteSetsExt

\* attributes.model: the first non-empty model in store order.
FirstModel(events) ==
    LET named == {e \in events : e.model # None}
    IN  IF named = {} THEN None ELSE StoreFirst(named).model

\* The lifecycle fold: each lifecycle event overwrites the state, so the one
\* SQLite returns last decides it, and completed_at is its time if terminal.
LifecycleEvents(events) == {e \in events : e.life # None}

FoldedState(events) ==
    IF LifecycleEvents(events) = {}
    THEN "unknown"
    ELSE StoreLast(LifecycleEvents(events)).life

NotCompleted == -1

CompletedAt(events) ==
    IF terminal(FoldedState(events))
    THEN StoreLast(LifecycleEvents(events)).at
    ELSE NotCompleted

\* reconstructSession and upsertSession: one row per session.
SessionRow(s, events) ==
    LET first == StoreFirst(events)
    IN  [session |-> s,
         tool |-> first.tool,
         startedAt |-> first.at,
         state |-> FoldedState(events),
         completedAt |-> CompletedAt(events),
         lastEventAt |-> LatestInstant(events),
         model |-> FirstModel(events),
         eventCount |-> Cardinality(events)]

-----------------------------------------------------------------------------
\* The strongest skill_detection state seen on one tool's surface.
Coverage(events, tool) ==
    LET ranks == {e.detection : e \in {f \in events : f.tool = tool}}
    IN  CHOOSE r \in ranks : \A q \in ranks : q <= r

\* Access rows are numbered across the session, in store order.
AccessesBefore(events, e) ==
    MapThenSumSet(LAMBDA f : f.accesses, {f \in events : StoreBefore(f, e)})

\* SourceEventsFromSession: a thin copy of each event an insight reads, and one
\* skill-coverage row per tool, dated by the session's first event.
SourceRows(s, events) ==
    {[signal |-> <<"event", e.id>>, session |-> s, at |-> e.at, rank |-> 0]
        : e \in {f \in events : f.thin}}
    \cup
    {[signal |-> <<"skill-coverage", s, tool>>, session |-> s,
      at |-> StoreFirst(events).at, rank |-> Coverage(events, tool)]
        : tool \in {e.tool : e \in events}}

\* governance.ThinAccessEvents: one row per access observation.
AccessRows(s, events) ==
    UNION {{[signal |-> <<"access", e.id, AccessesBefore(events, e) + n>>,
             session |-> s, at |-> e.at, rank |-> 0]
                : n \in 0 .. e.accesses - 1} : e \in events}

SignalRows(s, events) == SourceRows(s, events) \cup AccessRows(s, events)
=============================================================================
