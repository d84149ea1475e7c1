--------------------------- MODULE RepositoryProofs ---------------------------
(***************************************************************************)
(* Proofs about Repository, for every set of sessions, events, batches,    *)
(* catalogs and windows, and every length of the clock.  TypeOK is an      *)
(* invariant, and the derived tables agree with the events in every        *)
(* committed state; costs belong to retained events, one each, and are     *)
(* never priced again; ingest only adds, a replay is silent, retention is  *)
(* exact, and the repository implements the atomic store of RetainedStore. *)
(***************************************************************************)
EXTENDS Repository, OperationEvidenceProofs

(***************************************************************************)
(* The operators the derived tables are built from: the order in which     *)
(* SQLite returns events has a first element, and the rows derived for a   *)
(* session or for the Codex trees belong where they are filed.             *)
(***************************************************************************)
\* The rank of a timestamp's text is a natural number.
LEMMA TextRankType == \A at \in Nat : TextRank(at) \in Nat
<1> SUFFICES ASSUME NEW at \in Nat PROVE TextRank(at) \in Nat
  OBVIOUS
<1>1. TicksPerSecond \in Nat /\ TicksPerSecond > 0
  BY ResolutionAssumption
<1>2. CASE at = 0
  BY <1>1, <1>2 DEF TextRank
<1>3. CASE at > 0
  BY <1>1, <1>3 DEF TextRank
<1> QED BY <1>2, <1>3

\* An event carries what EventRecord says.
LEMMA EventFields ==
    ASSUME NEW e \in Event
    PROVE  /\ e.id \in Nat /\ e.at \in Nat /\ e.session \in Session /\ e.tool \in Tools
           /\ e.body \in RolloutBody \cup SpanBody \cup OtherBody
BY EventsAreRecords DEF EventRecord

\* "ORDER BY occurred_at, event_id" has a first row, as identifiers are unique.
LEMMA StoreOrderHasFirst ==
    ASSUME NEW S \in SUBSET Event, S # {}, UniqueIds(S)
    PROVE  \E e \in S : \A f \in S \ {e} : StoreBefore(e, f)
<1> DEFINE Ranks == {TextRank(e.at) : e \in S}
<1>1. Ranks \in SUBSET Nat /\ Ranks # {}
  BY TextRankType, EventFields
<1>2. PICK r \in Ranks : \A q \in Ranks : r <= q
  BY <1>1, Least
<1> DEFINE Earliest == {e \in S : TextRank(e.at) = r}
           Ids == {e.id : e \in Earliest}
<1>3. Ids \in SUBSET Nat /\ Ids # {}
  BY EventFields
<1>4. PICK i \in Ids : \A j \in Ids : i <= j
  BY <1>3, Least
<1>5. PICK e \in Earliest : e.id = i
  OBVIOUS
<1>6. ASSUME NEW f \in S \ {e} PROVE StoreBefore(e, f)
  <2>1. e.id \in Nat /\ f.id \in Nat /\ e.id # f.id
    BY EventFields DEF UniqueIds
  <2>2. TextRank(f.at) \in Nat /\ TextRank(e.at) = r /\ r <= TextRank(f.at) /\ r \in Nat
    BY <1>1, <1>2, TextRankType, EventFields
  <2>3. CASE TextRank(f.at) = r
    BY <1>4, <1>5, <2>1, <2>2, <2>3 DEF StoreBefore
  <2>4. CASE TextRank(f.at) # r
    BY <2>2, <2>4 DEF StoreBefore
  <2> QED BY <2>3, <2>4
<1> QED BY <1>5, <1>6

\* StoreFirst is one of the rows.
LEMMA StoreFirstExists ==
    ASSUME NEW S \in SUBSET Event, S # {}, UniqueIds(S)
    PROVE  StoreFirst(S) \in S
BY StoreOrderHasFirst DEF StoreFirst

-----------------------------------------------------------------------------
\* A session has either no Claude Code event or nothing else.
LEMMA OneToolEach ==
    ASSUME NEW S \in SUBSET Event, NEW s, S # {}, UniqueIds(S),
           \A e \in S : e.session = s
    PROVE  /\ IsClaudeSession(S) => \A e \in Event : e.session = s => ~IsRollout(e)
           /\ (\E e \in S : e.tool = "claude-code") => IsClaudeSession(S)
<1>1. StoreFirst(S) \in S
  BY StoreFirstExists
<1> QED BY <1>1, SessionToolAssumption DEF IsClaudeSession, IsRollout

\* Every signal row of a session is filed under it.
LEMMA SignalRowsOfSession ==
    ASSUME NEW s, NEW S, NEW r \in SignalRows(s, S)
    PROVE  r.session = s
BY DEF SignalRows, SourceRows, AccessRows

\* Every relation of a Claude Code session is filed under it.
LEMMA ClaudeRowsOfSession ==
    ASSUME NEW s, NEW S, NEW r \in ClaudeRows(s, S)
    PROVE  /\ r.session = s /\ r.tool = "claude-code"
           /\ S # {} /\ IsClaudeSession(S)
<1>1. S # {} /\ IsClaudeSession(S) /\ r \in ClaudeRelations(s, S)
  BY DEF ClaudeRows
<1>2. PICK spans, group : r = SubAgentRelation(s, spans, group)
  BY <1>1 DEF ClaudeRelations
<1>3. r.session = s /\ r.tool = "claude-code"
  BY <1>2 DEF SubAgentRelation
<1> QED BY <1>1, <1>3

\* RootOf: the tree of a thread is filed under a thread that has events.
LEMMA RootIsRetained ==
    ASSUME NEW rollout, NEW t \in Retained(rollout)
    PROVE  RootOf(rollout, t).thread \in Retained(rollout)
<1>1. CASE Tops(rollout, t) = {}
  BY <1>1 DEF RootOf
<1>2. CASE Tops(rollout, t) # {}
  <2> DEFINE top == CHOOSE r \in Tops(rollout, t) : TRUE
  <2>1. top \in Tops(rollout, t)
    BY <1>2
  <2>2. top \in Retained(rollout)
    BY <2>1 DEF Tops
  <2>3. RootOf(rollout, t).thread = top
    BY <1>2 DEF RootOf
  <2> QED BY <2>2, <2>3
<1> QED BY <1>1, <1>2

\* Every Codex relation is filed under a session that has rollout events.
LEMMA CodexRelationsOfSession ==
    ASSUME NEW rollout, NEW r \in CodexRelations(rollout)
    PROVE  /\ r.tool = "codex"
           /\ \E e \in rollout : e.session = r.session
<1>1. PICK t \in Threads(rollout) : /\ ParentOf(rollout, t) # None
                                    /\ r = Relation(rollout, t)
  BY DEF CodexRelations
<1>2. \E e \in rollout : e.session = t
  BY <1>1 DEF ParentOf, OfKind
<1>3. t \in Retained(rollout)
  BY <1>2 DEF Retained, SessionIds
<1>4. RootOf(rollout, t).thread \in Retained(rollout)
  BY <1>3, RootIsRetained
<1>5. r.tool = "codex" /\ r.session = RootOf(rollout, t).thread
  BY <1>1 DEF Relation
<1> QED BY <1>4, <1>5 DEF Retained, SessionIds

\* No rollout events, no Codex trees.
LEMMA NoCodexRelations == CodexRelations({}) = {}
BY CodexRelationsOfSession

-----------------------------------------------------------------------------
(***************************************************************************)
(* The key of agent_relations.                                             *)
(***************************************************************************)
\* EarliestSpan: the stable sort of relationFromGroup has a first span.
LEMMA EarliestSpanExists ==
    ASSUME NEW S \in SUBSET Event, S # {}, UniqueIds(S),
           \A e \in S : e.body.order \in Nat
    PROVE  EarliestSpan(S) \in S
<1> DEFINE Orders == {e.body.order : e \in S}
<1>0. Orders \in SUBSET Nat /\ Orders # {}
  OBVIOUS
<1>1. PICK o \in Orders : \A p \in Orders : o <= p
  BY <1>0, Least
<1> DEFINE Lowest == {e \in S : e.body.order = o}
<1>2. Lowest \in SUBSET Event /\ Lowest # {} /\ UniqueIds(Lowest)
  BY DEF UniqueIds
<1>3. PICK e \in Lowest : \A f \in Lowest \ {e} : StoreBefore(e, f)
  BY <1>2, StoreOrderHasFirst
<1>4. ASSUME NEW f \in S \ {e} PROVE SpanBefore(e, f)
  <2>1. e.body.order = o /\ o \in Nat /\ f.body.order \in Nat /\ o <= f.body.order
    BY <1>1
  <2>2. CASE f.body.order = o
    BY <1>3, <2>1, <2>2 DEF SpanBefore
  <2>3. CASE f.body.order # o
    BY <2>1, <2>3 DEF SpanBefore
  <2> QED BY <2>2, <2>3
<1>5. \E e1 \in S : \A f \in S \ {e1} : SpanBefore(e1, f)
  BY <1>4
<1> QED BY <1>5 DEF EarliestSpan

\* One sub-agent relation for each trace and agent of a session's spans.
LEMMA ClaudeKeys ==
    ASSUME NEW s, NEW S \in SUBSET Event, UniqueIds(S),
           NEW p \in ClaudeRelations(s, S), NEW q \in ClaudeRelations(s, S),
           p.trace = q.trace, p.agent = q.agent
    PROVE  p = q
<1> DEFINE spans == SubAgentSpans(S)
           agents == {e \in spans : e.body.agent # None}
           Group(e) == {f \in agents : /\ f.body.trace = e.body.trace
                                       /\ f.body.agent = e.body.agent}
<1>1. /\ agents \in SUBSET Event /\ UniqueIds(agents)
      /\ \A e \in agents : e.body.order \in Nat
  <2>1. \A e \in agents : e \in S /\ IsSpan(e)
    BY DEF SubAgentSpans
  <2>2. ASSUME NEW e \in S, IsSpan(e) PROVE e.body.order \in Nat
    <3>1. e.body \in RolloutBody \cup SpanBody \cup OtherBody
      BY EventFields
    <3>2. e.body \in SpanBody
      BY <2>2, <3>1 DEF IsSpan, RolloutBody, RolloutKinds, OtherBody
    <3> QED BY <3>2 DEF SpanBody
  <2> QED BY <2>1, <2>2 DEF UniqueIds
<1>2. /\ \E e \in agents : p = SubAgentRelation(s, spans, Group(e))
      /\ \E e \in agents : q = SubAgentRelation(s, spans, Group(e))
  BY DEF ClaudeRelations
<1> HIDE DEF agents, spans
<1>3. ASSUME NEW e \in agents
      PROVE  LET r == SubAgentRelation(s, spans, Group(e))
             IN  r.trace = e.body.trace /\ r.agent = e.body.agent
  <2>1. EarliestSpan(Group(e)) \in Group(e)
    <3>1. Group(e) \in SUBSET Event /\ Group(e) # {} /\ UniqueIds(Group(e))
      BY <1>1 DEF UniqueIds
    <3>2. \A f \in Group(e) : f.body.order \in Nat
      BY <1>1
    <3> HIDE DEF Group
    <3> QED BY <3>1, <3>2, EarliestSpanExists
  <2>2. LET first == EarliestSpan(Group(e))
        IN  first.body.trace = e.body.trace /\ first.body.agent = e.body.agent
    BY <2>1
  <2> HIDE DEF Group
  <2> QED BY <2>2 DEF SubAgentRelation
<1>4. PICK d \in agents, e \in agents : /\ p = SubAgentRelation(s, spans, Group(d))
                                      /\ q = SubAgentRelation(s, spans, Group(e))
  BY <1>2
<1>5. d.body.trace = e.body.trace /\ d.body.agent = e.body.agent
  BY <1>3, <1>4
<1>6. Group(d) = Group(e)
  BY <1>5
<1> HIDE DEF Group
<1> QED BY <1>4, <1>6

-----------------------------------------------------------------------------
(***************************************************************************)
(* The first part: what one statement of a transaction does to tables that *)
(* are consistent up to a set of stale sessions.                           *)
(***************************************************************************)
\* The tables of one record, field by field.
LEMMA TablesFields ==
    ASSUME NEW t, IsTables(t)
    PROVE  /\ t.events \subseteq Event
           /\ t.costs \subseteq CostRecord
           /\ \A r \in t.sessions : r.session \in Session
           /\ \A r \in t.signals : r.session \in Session
           /\ \A r \in t.relations : r.session \in Session
BY DEF IsTables

\* INSERT OR IGNORE of an event: the tables beside costs.
LEMMA SavedEventFields ==
    ASSUME NEW t, IsTables(t), NEW e \in Event, IsNewEvent(t, e)
    PROVE  LET u == SavedEvent(t, e)
           IN  /\ u.events = t.events \cup {e}
               /\ u.sessions = t.sessions /\ u.signals = t.signals
               /\ u.relations = t.relations /\ u.operations = t.operations
BY DEF IsTables, SixTables, SavedEvent

LEMMA SavedEventShape ==
    ASSUME NEW t, IsTables(t), NEW e \in Event
    PROVE  SixTables(SavedEvent(t, e))
BY DEF IsTables, SixTables, SavedEvent

\* saveCostForInsertedEvent: at most one cost, of the inserted event.
LEMMA SavedEventCosts ==
    ASSUME NEW t, IsTables(t), NEW e \in Event, IsNewEvent(t, e),
           calculator \in Calculator
    PROVE  \A c \in SavedEvent(t, e).costs :
            \/ c \in t.costs
            \/ c \in CostRecord /\ c.event = e.id /\ c.session = e.session
<1>1. SavedEvent(t, e).costs =
        IF calculator = NoCalculator
        THEN t.costs
        ELSE t.costs \cup {[event |-> e.id, session |-> e.session,
                             catalog |-> calculator]}
  BY DEF IsTables, SixTables, SavedEvent
<1>2. CASE calculator = NoCalculator
  BY <1>1, <1>2
<1>3. CASE calculator # NoCalculator
  <2>1. [event |-> e.id, session |-> e.session, catalog |-> calculator] \in CostRecord
    BY <1>3, EventFields DEF CostRecord
  <2> QED BY <1>1, <1>3, <2>1
<1> QED BY <1>2, <1>3

LEMMA SavedEventTables ==
    ASSUME NEW t, IsTables(t), NEW e \in Event, calculator \in Calculator
    PROVE  IsTables(SavedEvent(t, e))
<1>1. CASE ~IsNewEvent(t, e)
  BY <1>1 DEF SavedEvent
<1>2. CASE IsNewEvent(t, e)
  <2>1. SavedEvent(t, e).costs \subseteq CostRecord
    BY <1>2, SavedEventCosts, TablesFields
  <2>2. SavedEvent(t, e).events \subseteq Event
    BY <1>2, SavedEventFields, TablesFields
  <2> QED BY <1>2, <2>1, <2>2, SavedEventFields, SavedEventShape, TablesFields DEF IsTables
<1> QED BY <1>1, <1>2

\* rebuildSession of a session with events.
LEMMA RebuiltSessionFields ==
    ASSUME NEW t, IsTables(t), NEW s, SessionEvents(t.events, s) # {}
    PROVE  LET u == RebuiltSession(t, s)
               events == SessionEvents(t.events, s)
           IN  /\ u.events = t.events /\ u.costs = t.costs /\ u.operations = t.operations
               /\ u.sessions = Without(t.sessions, s) \cup {SessionRow(s, events)}
               /\ u.signals = Without(t.signals, s) \cup SignalRows(s, events)
               /\ u.relations = RebuiltRelations(t, s, events)
               /\ SixTables(u)
<1>1. RebuiltSession(t, s) =
        [t EXCEPT
            !.sessions = Without(t.sessions, s) \cup {SessionRow(s, SessionEvents(t.events, s))},
            !.signals = Without(t.signals, s) \cup SignalRows(s, SessionEvents(t.events, s)),
            !.relations = RebuiltRelations(t, s, SessionEvents(t.events, s))]
  BY DEF RebuiltSession
<1> QED BY <1>1 DEF IsTables, SixTables

LEMMA RebuiltSessionTables ==
    ASSUME NEW t, IsTables(t), NEW s \in Session
    PROVE  IsTables(RebuiltSession(t, s))
<1> DEFINE events == SessionEvents(t.events, s)
           u == RebuiltSession(t, s)
<1>1. CASE events = {}
  BY <1>1 DEF RebuiltSession
<1>2. CASE events # {}
  <2>1. SessionRow(s, events).session = s
    BY DEF SessionRow
  <2>2. \A r \in SignalRows(s, events) : r.session = s
    BY SignalRowsOfSession
  <2>3. \A r \in RebuiltRelations(t, s, events) : r \in t.relations \/ r.session = s
    <3>1. IsClaudeSession(events) => ClaudeRelations(s, events) = ClaudeRows(s, events)
      BY <1>2 DEF ClaudeRows
    <3> QED BY <3>1, ClaudeRowsOfSession DEF RebuiltRelations, Without
  <2> HIDE DEF events
  <2> QED BY <1>2, <2>1, <2>2, <2>3, RebuiltSessionFields, TablesFields
          DEF IsTables, Without, events
<1> QED BY <1>1, <1>2

\* rebuildCodexAgentRelations.
LEMMA ReplacedRelations ==
    ASSUME NEW t, SixTables(t), NEW rows
    PROVE  LET u == [t EXCEPT !.relations = rows]
           IN  /\ u.events = t.events /\ u.costs = t.costs /\ u.operations = t.operations
               /\ u.sessions = t.sessions /\ u.signals = t.signals
               /\ u.relations = rows
               /\ SixTables(u)
BY DEF SixTables

LEMMA RebuiltCodexFields ==
    ASSUME NEW t, IsTables(t)
    PROVE  LET u == RebuiltCodex(t)
           IN  /\ u.events = t.events /\ u.costs = t.costs /\ u.operations = t.operations
               /\ u.sessions = t.sessions /\ u.signals = t.signals
               /\ u.relations = {r \in t.relations : r.tool # "codex"}
                                    \cup CodexRelations(RolloutEvents(t.events))
               /\ SixTables(u)
BY ReplacedRelations DEF IsTables, RebuiltCodex

LEMMA RebuiltCodexTables ==
    ASSUME NEW t, IsTables(t)
    PROVE  IsTables(RebuiltCodex(t))
<1>1. \A r \in CodexRelations(RolloutEvents(t.events)) : r.session \in Session
  BY CodexRelationsOfSession, TablesFields, EventFields DEF RolloutEvents
<1> QED BY <1>1, RebuiltCodexFields, TablesFields DEF IsTables

\* The six DELETE statements for one session, and for all.
LEMMA DeletedSessionTables ==
    ASSUME NEW t, IsTables(t), NEW s
    PROVE  IsTables(DeletedSession(t, s))
BY TablesFields DEF DeletedSession, Without, IsTables, SixTables

LEMMA NoRowsTables == IsTables(NoRows)
BY DEF IsTables, SixTables, NoRows

\* A transaction that saves an operation touches no other table.
LEMMA SavedOperationFields ==
    ASSUME NEW t, IsTables(t), NEW rows
    PROVE  LET u == [t EXCEPT !.operations = rows]
           IN  /\ IsTables(u)
               /\ u.events = t.events /\ u.costs = t.costs
               /\ u.sessions = t.sessions /\ u.signals = t.signals
               /\ u.relations = t.relations /\ u.operations = rows
BY DEF IsTables, SixTables

-----------------------------------------------------------------------------
(***************************************************************************)
(* The second part: what each statement does to Consistent.                *)
(***************************************************************************)
\* Fresh and CodexFresh read the derived tables and the events only.
LEMMA FreshCongruence ==
    ASSUME NEW t, NEW u, NEW s,
           u.sessions = t.sessions, u.signals = t.signals, u.relations = t.relations,
           SessionEvents(u.events, s) = SessionEvents(t.events, s),
           Fresh(t, s)
    PROVE  Fresh(u, s)
BY DEF Fresh

LEMMA CodexFreshCongruence ==
    ASSUME NEW t, NEW u,
           u.relations = t.relations,
           RolloutEvents(u.events) = RolloutEvents(t.events),
           CodexFresh(t)
    PROVE  CodexFresh(u)
BY DEF CodexFresh

\* A stored event makes its session stale, and a rollout event the Codex trees.
LEMMA SavedEventConsistent ==
    ASSUME NEW t, IsTables(t), NEW stale, NEW codex \in BOOLEAN,
           Consistent(t, stale, codex), NEW e \in Event
    PROVE  Consistent(SavedEvent(t, e), stale \cup {e.session}, codex \/ IsRollout(e))
<1> DEFINE u == SavedEvent(t, e)
<1>1. CASE ~IsNewEvent(t, e)
  <2>1. u = t
    BY <1>1 DEF SavedEvent
  <2> QED BY <2>1 DEF Consistent
<1>2. CASE IsNewEvent(t, e)
  <2>1. /\ u.events = t.events \cup {e}
        /\ u.sessions = t.sessions /\ u.signals = t.signals
        /\ u.relations = t.relations
    BY <1>2, SavedEventFields
  <2> HIDE DEF u
  <2>2. UniqueIds(u.events)
    BY <1>2, <2>1 DEF Consistent, UniqueIds, IsNewEvent
  <2>3. ClaudeBacked(u)
    BY <2>1 DEF Consistent, ClaudeBacked
  <2>4. ASSUME NEW s \in Session
        PROVE  \/ Fresh(u, s)
               \/ s \in stale \cup {e.session} /\ SessionEvents(u.events, s) # {}
    <3>1. CASE s = e.session
      BY <2>1, <3>1 DEF SessionEvents
    <3>2. CASE s # e.session
      <4>1. SessionEvents(u.events, s) = SessionEvents(t.events, s)
        BY <2>1, <3>2 DEF SessionEvents
      <4> QED BY <2>1, <4>1, FreshCongruence DEF Consistent
    <3> QED BY <3>1, <3>2
  <2>5. ASSUME ~(codex \/ IsRollout(e))
        PROVE  CodexFresh(u)
    <3>1. RolloutEvents(u.events) = RolloutEvents(t.events)
      BY <2>1, <2>5 DEF RolloutEvents
    <3>2. CodexFresh(t)
      BY <2>5 DEF Consistent
    <3> QED BY <2>1, <3>1, <3>2, CodexFreshCongruence
  <2>6. Consistent(u, stale \cup {e.session}, codex \/ IsRollout(e))
    BY <2>2, <2>3, <2>4, <2>5 DEF Consistent
  <2> QED BY <2>6 DEF u
<1> QED BY <1>1, <1>2

\* rebuildCodexAgentRelations leaves the other rows alone.
LEMMA RebuiltCodexConsistent ==
    ASSUME NEW t, IsTables(t), NEW stale, NEW codex \in BOOLEAN,
           Consistent(t, stale, codex)
    PROVE  Consistent(RebuiltCodex(t), stale, FALSE)
<1> DEFINE u == RebuiltCodex(t)
           trees == CodexRelations(RolloutEvents(t.events))
<1>1. /\ u.events = t.events
      /\ u.sessions = t.sessions /\ u.signals = t.signals
      /\ u.relations = {r \in t.relations : r.tool # "codex"} \cup trees
  BY RebuiltCodexFields
<1>2. \A r \in trees : r.tool = "codex"
  BY CodexRelationsOfSession
<1> HIDE DEF u, trees
<1>3. ClaudeBacked(u)
  BY <1>1, <1>2 DEF Consistent, ClaudeBacked
<1>4. ASSUME NEW s \in Session, Fresh(t, s)
      PROVE  Fresh(u, s)
  <2>2. {r \in RowsOf(u.relations, s) : r.tool # "codex"}
          = {r \in RowsOf(t.relations, s) : r.tool # "codex"}
    BY <1>1, <1>2 DEF RowsOf
  <2> QED BY <1>1, <1>4, <2>2 DEF Fresh
<1>5. {r \in u.relations : r.tool = "codex"} = trees
  BY <1>1, <1>2
<1>6. CodexFresh(u)
  BY <1>1, <1>5 DEF CodexFresh, trees
<1>7. UniqueIds(u.events)
  BY <1>1 DEF Consistent
<1>8. Consistent(u, stale, FALSE)
  BY <1>1, <1>3, <1>4, <1>6, <1>7 DEF Consistent
<1> QED BY <1>8 DEF u

\* deleteSessionRows empties one session; the Codex trees wait for their rebuild.
LEMMA DeletedSessionConsistent ==
    ASSUME NEW t, IsTables(t), NEW stale, Consistent(t, stale, TRUE), NEW s \in Session
    PROVE  Consistent(DeletedSession(t, s), stale, TRUE)
<1> DEFINE u == DeletedSession(t, s)
<1>1. /\ u.events = Without(t.events, s)
      /\ u.sessions = Without(t.sessions, s) /\ u.signals = Without(t.signals, s)
      /\ u.relations = Without(t.relations, s)
  BY DEF DeletedSession
<1> HIDE DEF u
<1>2. UniqueIds(u.events)
  BY <1>1 DEF Consistent, UniqueIds, Without
<1>3. ClaudeBacked(u)
  BY <1>1 DEF Consistent, ClaudeBacked, Without
<1>4. ASSUME NEW q \in Session
      PROVE  Fresh(u, q) \/ (q \in stale /\ SessionEvents(u.events, q) # {})
  <2>1. CASE q = s
    <3>1. SessionEvents(u.events, q) = {}
      BY <1>1, <2>1 DEF SessionEvents, Without
    <3>2. /\ RowsOf(u.sessions, q) = {} /\ RowsOf(u.signals, q) = {}
          /\ RowsOf(u.relations, q) = {}
      BY <1>1, <2>1 DEF RowsOf, Without
    <3> QED BY <3>1, <3>2 DEF Fresh, ClaudeRows
  <2>2. CASE q # s
    <3>1. SessionEvents(u.events, q) = SessionEvents(t.events, q)
      BY <1>1, <2>2 DEF SessionEvents, Without
    <3>2. /\ RowsOf(u.sessions, q) = RowsOf(t.sessions, q)
          /\ RowsOf(u.signals, q) = RowsOf(t.signals, q)
          /\ RowsOf(u.relations, q) = RowsOf(t.relations, q)
      BY <1>1, <2>2 DEF RowsOf, Without
    <3>3. Fresh(t, q) => Fresh(u, q)
      BY <3>1, <3>2 DEF Fresh
    <3> QED BY <3>1, <3>3 DEF Consistent
  <2> QED BY <2>1, <2>2
<1>5. Consistent(u, stale, TRUE)
  BY <1>2, <1>3, <1>4 DEF Consistent
<1> QED BY <1>5 DEF u

\* rebuildSession makes its session fresh, and neither another session nor the
\* Codex trees stale: it deletes relations only of a Claude Code session, which
\* can be the root of no Codex tree.
LEMMA RebuiltSessionConsistent ==
    ASSUME NEW t, IsTables(t), NEW stale, NEW codex \in BOOLEAN,
           Consistent(t, stale, codex), NEW s \in Session
    PROVE  Consistent(RebuiltSession(t, s), stale \ {s}, codex)
<1> DEFINE u == RebuiltSession(t, s)
           events == SessionEvents(t.events, s)
<1>0. /\ events \subseteq Event /\ UniqueIds(events)
      /\ \A e \in events : e.session = s
  BY TablesFields DEF SessionEvents, Consistent, UniqueIds
<1>1. CASE events = {}
  <2>1. u = t
    BY <1>1 DEF RebuiltSession
  <2> QED BY <1>1, <2>1 DEF Consistent
<1>2. CASE events # {}
  <2>1. /\ u.events = t.events
        /\ u.sessions = Without(t.sessions, s) \cup {SessionRow(s, events)}
        /\ u.signals = Without(t.signals, s) \cup SignalRows(s, events)
        /\ u.relations = RebuiltRelations(t, s, events)
    BY <1>2, RebuiltSessionFields
  <2>2. /\ IsClaudeSession(events) => \A e \in Event : e.session = s => ~IsRollout(e)
        /\ (\E e \in events : e.tool = "claude-code") => IsClaudeSession(events)
    BY <1>0, <1>2, OneToolEach
  <2>3. SessionRow(s, events).session = s
    BY DEF SessionRow
  <2>4. \A r \in SignalRows(s, events) : r.session = s
    BY SignalRowsOfSession
  <2>5. ClaudeRows(s, events) = IF IsClaudeSession(events)
                                THEN ClaudeRelations(s, events) ELSE {}
    BY <1>2 DEF ClaudeRows
  <2>6. \A r \in ClaudeRows(s, events) : r.session = s /\ r.tool = "claude-code"
    BY ClaudeRowsOfSession
  <2>7. u.relations = IF IsClaudeSession(events)
                      THEN Without(t.relations, s) \cup ClaudeRows(s, events)
                      ELSE t.relations
    BY <2>1, <2>5 DEF RebuiltRelations
  <2>8. ~IsClaudeSession(events) => \A r \in RowsOf(t.relations, s) : r.tool = "codex"
    BY <2>2 DEF Consistent, ClaudeBacked, RowsOf, SessionEvents
  <2>9. /\ events = SessionEvents(u.events, s)
        /\ \A q : SessionEvents(u.events, q) = SessionEvents(t.events, q)
    BY <2>1
  <2> HIDE DEF u, events
  <2>10. UniqueIds(u.events)
    BY <2>1 DEF Consistent
  <2>11. ClaudeBacked(u)
    <3> SUFFICES ASSUME NEW r \in u.relations, r.tool # "codex"
                 PROVE  \E e \in t.events : e.session = r.session /\ e.tool = "claude-code"
      BY <2>1 DEF ClaudeBacked
    <3>1. CASE r \in t.relations
      BY <3>1 DEF Consistent, ClaudeBacked
    <3>2. CASE r \in ClaudeRows(s, events)
      <4>1. StoreFirst(events) \in events /\ StoreFirst(events).tool = "claude-code"
        BY <1>0, <3>2, ClaudeRowsOfSession, StoreFirstExists DEF IsClaudeSession
      <4> QED BY <1>0, <2>6, <3>2, <4>1 DEF events, SessionEvents
    <3> QED BY <2>7, <3>1, <3>2 DEF Without
  <2>12. Fresh(u, s)
    <3>1. RowsOf(u.sessions, s) = {SessionRow(s, events)}
      BY <2>1, <2>3 DEF RowsOf, Without
    <3>2. RowsOf(u.signals, s) = SignalRows(s, events)
      BY <2>1, <2>4 DEF RowsOf, Without
    <3>3. {r \in RowsOf(u.relations, s) : r.tool # "codex"} = ClaudeRows(s, events)
      <4>1. CASE IsClaudeSession(events)
        BY <2>6, <2>7, <4>1 DEF RowsOf, Without
      <4>2. CASE ~IsClaudeSession(events)
        BY <2>5, <2>7, <2>8, <4>2 DEF RowsOf
      <4> QED BY <4>1, <4>2
    <3> QED BY <1>2, <2>9, <3>1, <3>2, <3>3 DEF Fresh
  <2>13. ASSUME NEW q \in Session, q # s, Fresh(t, q)
         PROVE  Fresh(u, q)
    <3>1. RowsOf(u.sessions, q) = RowsOf(t.sessions, q)
      BY <2>1, <2>3, <2>13 DEF RowsOf, Without
    <3>2. RowsOf(u.signals, q) = RowsOf(t.signals, q)
      BY <2>1, <2>4, <2>13 DEF RowsOf, Without
    <3>3. RowsOf(u.relations, q) = RowsOf(t.relations, q)
      BY <2>6, <2>7, <2>13 DEF RowsOf, Without
    <3> QED BY <2>9, <2>13, <3>1, <3>2, <3>3 DEF Fresh
  <2>14. ASSUME ~codex
         PROVE  CodexFresh(u)
    <3>1. CodexFresh(t)
      BY <2>14 DEF Consistent
    <3>2. {r \in t.relations : r.tool = "codex"} = CodexRelations(RolloutEvents(t.events))
      BY <3>1 DEF CodexFresh
    <3>3. \A r \in t.relations : r.tool = "codex" =>
            \E e \in t.events : IsRollout(e) /\ e.session = r.session
      <4> SUFFICES ASSUME NEW r \in t.relations, r.tool = "codex"
                   PROVE  \E e \in t.events : IsRollout(e) /\ e.session = r.session
        OBVIOUS
      <4>1. r \in CodexRelations(RolloutEvents(t.events))
        BY <3>2
      <4>2. \E e \in RolloutEvents(t.events) : e.session = r.session
        BY <4>1, CodexRelationsOfSession
      <4> QED BY <4>2 DEF RolloutEvents
    <3>4. {r \in u.relations : r.tool = "codex"} = {r \in t.relations : r.tool = "codex"}
      <4>1. CASE IsClaudeSession(events)
        <5>1. \A r \in t.relations : r.tool = "codex" => r.session # s
          BY <2>2, <3>3, <4>1, TablesFields
        <5> QED BY <2>6, <2>7, <4>1, <5>1 DEF Without
      <4>2. CASE ~IsClaudeSession(events)
        BY <2>7, <4>2
      <4> QED BY <4>1, <4>2
    <3> QED BY <2>1, <3>2, <3>4 DEF CodexFresh
  <2>15. Consistent(u, stale \ {s}, codex)
    BY <2>9, <2>10, <2>11, <2>12, <2>13, <2>14 DEF Consistent
  <2> QED BY <2>15 DEF u
<1> QED BY <1>1, <1>2

-----------------------------------------------------------------------------
(***************************************************************************)
(* The third part: the steps of the repository.                            *)
(***************************************************************************)
LEMMA IdleType ==
    /\ Idle \in Request
    /\ Idle.op = "none" /\ Idle.events = <<>> /\ Idle.operations = <<>>
    /\ Idle.touched = {}
    /\ Idle.victims = {} /\ Idle.codex = FALSE
BY DEF Idle, Request

\* The requests a transaction begins with.
LEMMA BegunSave ==
    ASSUME NEW events \in Seq(Event), NEW operations \in Seq(Observation)
    PROVE  LET u == [Idle EXCEPT !.op = "save", !.events = events, !.operations = operations]
           IN  /\ u \in Request
               /\ u.op = "save" /\ u.events = events /\ u.operations = operations
               /\ u.touched = {} /\ u.victims = {} /\ u.codex = FALSE
<1>1. ASSUME NEW r \in Request, r.touched = {}, r.victims = {}, r.codex = FALSE
      PROVE  LET u == [r EXCEPT !.op = "save", !.events = events, !.operations = operations]
             IN  /\ u \in Request
                 /\ u.op = "save" /\ u.events = events /\ u.operations = operations
                 /\ u.touched = {} /\ u.victims = {} /\ u.codex = FALSE
  BY <1>1 DEF Request
<1> QED BY <1>1, IdleType

LEMMA BegunDelete ==
    ASSUME NEW victims \in SUBSET Session
    PROVE  LET u == [Idle EXCEPT !.op = "delete", !.victims = victims, !.codex = TRUE]
           IN  /\ u \in Request
               /\ u.op = "delete" /\ u.events = <<>> /\ u.operations = <<>>
               /\ u.touched = {} /\ u.victims = victims /\ u.codex = TRUE
<1>1. ASSUME NEW r \in Request, r.events = <<>>, r.operations = <<>>, r.touched = {}
      PROVE  LET u == [r EXCEPT !.op = "delete", !.victims = victims, !.codex = TRUE]
             IN  /\ u \in Request
                 /\ u.op = "delete" /\ u.events = <<>> /\ u.operations = <<>>
                 /\ u.touched = {} /\ u.victims = victims /\ u.codex = TRUE
  BY <1>1 DEF Request
<1> QED BY <1>1, IdleType

LEMMA BegunDeleteAll ==
    LET u == [Idle EXCEPT !.op = "deleteAll"]
    IN  /\ u \in Request
        /\ u.op = "deleteAll" /\ u.events = <<>> /\ u.operations = <<>>
        /\ u.touched = {} /\ u.victims = {} /\ u.codex = FALSE
<1>1. ASSUME NEW r \in Request, r.events = <<>>, r.operations = <<>>, r.touched = {},
             r.victims = {}, r.codex = FALSE
      PROVE  LET u == [r EXCEPT !.op = "deleteAll"]
             IN  /\ u \in Request
                 /\ u.op = "deleteAll" /\ u.events = <<>> /\ u.operations = <<>>
                 /\ u.touched = {} /\ u.victims = {} /\ u.codex = FALSE
  BY <1>1 DEF Request
<1> QED BY <1>1, IdleType

LEMMA BegunRetention ==
    ASSUME NEW victims \in SUBSET Session, NEW cutoff \in Int
    PROVE  LET u == [Idle EXCEPT !.op = "retain", !.codex = TRUE, !.cutoff = cutoff,
                                !.victims = victims]
           IN  /\ u \in Request
               /\ u.op = "retain" /\ u.events = <<>> /\ u.operations = <<>>
               /\ u.touched = {} /\ u.victims = victims /\ u.codex = TRUE
               /\ u.cutoff = cutoff
<1>1. ASSUME NEW r \in Request, r.events = <<>>, r.operations = <<>>, r.touched = {}
      PROVE  LET u == [r EXCEPT !.op = "retain", !.codex = TRUE, !.cutoff = cutoff,
                                !.victims = victims]
             IN  /\ u \in Request
                 /\ u.op = "retain" /\ u.events = <<>> /\ u.operations = <<>>
                 /\ u.touched = {} /\ u.victims = victims /\ u.codex = TRUE
                 /\ u.cutoff = cutoff
  BY <1>1 DEF Request
<1> QED BY <1>1, IdleType

\* The updates of tx, one for each form the actions use.
LEMMA RequestSaveEvent ==
    ASSUME NEW r \in Request, r.events # <<>>
    PROVE  LET e == Head(r.events)
               u == [r EXCEPT !.events = Tail(@), !.codex = @ \/ IsRollout(e),
                              !.touched = @ \cup {e.session}]
           IN  /\ e \in Event
               /\ u \in Request
               /\ u.op = r.op /\ u.events = Tail(r.events)
               /\ u.operations = r.operations /\ u.cutoff = r.cutoff
               /\ u.touched = r.touched \cup {e.session}
               /\ u.victims = r.victims
               /\ u.codex = (r.codex \/ IsRollout(e))
<1>1. r.events \in Seq(Event)
  BY DEF Request
<1>2. /\ Head(r.events) \in Event /\ Tail(r.events) \in Seq(Event)
      /\ Head(r.events).session \in Session
  BY <1>1, EventFields
<1> DEFINE rest == Tail(r.events)
           codex == r.codex \/ IsRollout(Head(r.events))
           touched == r.touched \cup {Head(r.events).session}
           u == [r EXCEPT !.events = rest, !.codex = codex, !.touched = touched]
<1>3. rest \in Seq(Event) /\ codex \in BOOLEAN /\ touched \in SUBSET Session
  BY <1>2 DEF Request
<1> HIDE DEF rest, codex, touched
<1>4. u \in Request
  BY <1>3 DEF Request
<1>5. /\ u.op = r.op /\ u.events = rest /\ u.touched = touched
      /\ u.operations = r.operations /\ u.cutoff = r.cutoff
      /\ u.victims = r.victims /\ u.codex = codex
  BY <1>3 DEF Request
<1> QED BY <1>2, <1>4, <1>5 DEF rest, codex, touched

LEMMA RequestRebuild ==
    ASSUME NEW r \in Request, NEW s
    PROVE  LET u == [r EXCEPT !.touched = @ \ {s}]
           IN  /\ u \in Request
               /\ u.op = r.op /\ u.events = r.events
               /\ u.operations = r.operations /\ u.cutoff = r.cutoff
               /\ u.touched = r.touched \ {s} /\ u.victims = r.victims
               /\ u.codex = r.codex
BY DEF Request

LEMMA RequestDeleteRows ==
    ASSUME NEW r \in Request, NEW s
    PROVE  LET u == [r EXCEPT !.victims = @ \ {s}]
           IN  /\ u \in Request
               /\ u.op = r.op /\ u.events = r.events
               /\ u.operations = r.operations /\ u.cutoff = r.cutoff
               /\ u.touched = r.touched /\ u.victims = r.victims \ {s}
               /\ u.codex = r.codex
BY DEF Request

LEMMA RequestRebuildCodex ==
    ASSUME NEW r \in Request
    PROVE  LET u == [r EXCEPT !.codex = FALSE]
           IN  /\ u \in Request
               /\ u.op = r.op /\ u.events = r.events
               /\ u.operations = r.operations /\ u.cutoff = r.cutoff
               /\ u.touched = r.touched /\ u.victims = r.victims /\ ~u.codex
BY DEF Request

LEMMA RequestSaveOperation ==
    ASSUME NEW r \in Request, r.operations # <<>>
    PROVE  LET u == [r EXCEPT !.operations = Tail(@)]
           IN  /\ u \in Request
               /\ u.op = r.op /\ u.events = r.events
               /\ u.operations = Tail(r.operations) /\ u.cutoff = r.cutoff
               /\ u.touched = r.touched /\ u.victims = r.victims
               /\ u.codex = r.codex
<1>1. r.operations \in Seq(Observation)
  BY DEF Request
<1>2. Tail(r.operations) \in Seq(Observation)
  BY <1>1
<1>3. ASSUME NEW operations \in Seq(Observation)
      PROVE  LET u == [r EXCEPT !.operations = operations]
             IN  /\ u \in Request
                 /\ u.op = r.op /\ u.events = r.events
                 /\ u.operations = operations /\ u.cutoff = r.cutoff
                 /\ u.touched = r.touched /\ u.victims = r.victims
                 /\ u.codex = r.codex
  BY DEF Request
<1> QED BY <1>2, <1>3

-----------------------------------------------------------------------------
\* TypeOK holds initially and every step preserves it.
\* BeginRetention for one cutoff.
RetentionBegins(cutoff) ==
    /\ daemon \in {"starting", "serving"}
    /\ Begin([Idle EXCEPT !.op = "retain", !.codex = TRUE, !.cutoff = cutoff,
                          !.victims = ExpiredSessions(db, cutoff)])
    /\ work' = db
    /\ due' = {}

LEMMA TypeInit == Init => TypeOK
BY IdleType, NoRowsTables DEF Init, TypeOK

LEMMA TypeNext == TypeOK /\ [Next]_vars => TypeOK'
<1> SUFFICES ASSUME TypeOK, [Next]_vars PROVE TypeOK'
  OBVIOUS
<1>0. /\ IsTables(db) /\ IsTables(work) /\ tx \in Request
      /\ calculator \in Calculator /\ window \in Nat /\ clock \in Nat
  BY WindowAssumption DEF TypeOK
<1>1. CASE Ingest
  <2>1. PICK batch \in Batch : BeginSave(batch)
    BY <1>1 DEF Ingest
  <2>2. batch.events \in Seq(Event) /\ batch.operations \in Seq(Observation)
    BY BatchAssumption
  <2>3. PICK events \in Seq(Event), operations \in Seq(Observation) :
        tx' = [Idle EXCEPT !.op = "save", !.events = events, !.operations = operations]
    BY <2>1, <2>2 DEF BeginSave, Begin
  <2>4. tx' \in Request
    BY <2>3, BegunSave
  <2> QED BY <1>0, <2>1, <2>4 DEF BeginSave, Begin, TypeOK
<1>2. CASE Delete
  <2>1. PICK s \in Session : BeginDelete(s)
    BY <1>2 DEF Delete
  <2>2. PICK victims \in SUBSET Session :
        tx' = [Idle EXCEPT !.op = "delete", !.victims = victims, !.codex = TRUE]
    BY <2>1 DEF BeginDelete, Begin
  <2>3. tx' \in Request
    BY <2>2, BegunDelete
  <2> QED BY <1>0, <2>1, <2>3 DEF BeginDelete, Begin, TypeOK
<1>3. CASE BeginDeleteAll
  BY <1>0, <1>3, BegunDeleteAll, NoRowsTables DEF BeginDeleteAll, Begin, TypeOK
<1>4. CASE BeginRetention
  <2>1. PICK cutoff \in due : RetentionBegins(cutoff)
    BY <1>4 DEF BeginRetention, RetentionBegins
  <2>2. cutoff \in Int /\ ExpiredSessions(db, cutoff) \subseteq Session
    BY <1>0, TablesFields DEF ExpiredSessions, TypeOK
  <2> QED BY <1>0, <2>1, <2>2, BegunRetention DEF RetentionBegins, Begin, TypeOK
<1>5. CASE Work
  <2>1. CASE SaveEvent
    BY <1>0, <2>1, RequestSaveEvent, SavedEventTables DEF SaveEvent, Working, TypeOK
  <2>2. ASSUME NEW s \in Session, RebuildSession(s)
        PROVE  TypeOK'
    BY <1>0, <2>2, RequestRebuild, RebuiltSessionTables DEF RebuildSession, Working, TypeOK
  <2>3. ASSUME NEW s \in Session, DeleteSessionRows(s)
        PROVE  TypeOK'
    BY <1>0, <2>3, RequestDeleteRows, DeletedSessionTables
       DEF DeleteSessionRows, Working, TypeOK
  <2>4. CASE RebuildCodexAgentRelations
    BY <1>0, <2>4, RequestRebuildCodex, RebuiltCodexTables
       DEF RebuildCodexAgentRelations, Working, TypeOK
  <2>5. CASE SaveOperation
    BY <1>0, <2>5, RequestSaveOperation, SavedOperationFields
       DEF SaveOperation, Working, TypeOK
  <2>6. CASE Commit
    BY <2>6, IdleType DEF Commit, TypeOK
  <2> QED BY <1>5, <2>1, <2>2, <2>3, <2>4, <2>5, <2>6 DEF Work
<1>6. CASE Rollback
  BY <1>6, IdleType DEF Rollback, TypeOK
<1>7. CASE Crash
  BY <1>7, IdleType DEF Crash, TypeOK
<1>8. CASE Start
  BY <1>8 DEF Start, TypeOK
<1>9. CASE Tick
  BY <1>9 DEF Tick, TypeOK
<1>10. CASE PlanRetention
  <2>1. clock - window \in Int
    BY <1>0
  <2> QED BY <1>10, <2>1 DEF PlanRetention, TypeOK
<1>11. CASE UNCHANGED vars
  BY <1>11 DEF vars, TypeOK
<1> QED BY <1>1, <1>2, <1>3, <1>4, <1>5, <1>6, <1>7, <1>8, <1>9, <1>10, <1>11 DEF Next

\* The tables, the transaction and the daemon have their types, and every row
\* of a derived table is filed under a session.
THEOREM TypeCorrect == Spec => []TypeOK
BY TypeInit, TypeNext, PTL DEF Spec

-----------------------------------------------------------------------------
\* Empty tables are consistent.
LEMMA NoRowsConsistent == Consistent(NoRows, {}, FALSE)
<1>1. SessionEvents(NoRows.events, 0) = {} /\ RolloutEvents(NoRows.events) = {}
  BY DEF NoRows, SessionEvents, RolloutEvents
<1>2. \A s \in Session : Fresh(NoRows, s)
  BY DEF NoRows, Fresh, SessionEvents, RowsOf, ClaudeRows
<1>3. CodexFresh(NoRows)
  BY <1>1, NoCodexRelations DEF NoRows, CodexFresh
<1>4. UniqueIds(NoRows.events) /\ ClaudeBacked(NoRows)
  BY DEF NoRows, UniqueIds, ClaudeBacked
<1> QED BY <1>2, <1>3, <1>4 DEF Consistent

\* Consistent does not read the operations.
LEMMA SavedOperationConsistent ==
    ASSUME NEW t, IsTables(t), NEW rows, NEW stale, NEW codex \in BOOLEAN,
           Consistent(t, stale, codex)
    PROVE  Consistent([t EXCEPT !.operations = rows], stale, codex)
<1> DEFINE u == [t EXCEPT !.operations = rows]
<1>1. /\ u.events = t.events /\ u.sessions = t.sessions
      /\ u.signals = t.signals /\ u.relations = t.relations
  BY SavedOperationFields
<1> HIDE DEF u
<1>2. \A s : Fresh(t, s) => Fresh(u, s)
  BY <1>1, FreshCongruence
<1>3. CodexFresh(t) => CodexFresh(u)
  BY <1>1, CodexFreshCongruence
<1>4. ClaudeBacked(u)
  BY <1>1 DEF Consistent, ClaudeBacked
<1>5. Consistent(u, stale, codex)
  BY <1>1, <1>2, <1>3, <1>4 DEF Consistent
<1> QED BY <1>5 DEF u

LEMMA TablesInit == Init => TablesInvariant
<1> SUFFICES ASSUME Init PROVE TablesInvariant
  OBVIOUS
<1>1. TypeOK /\ db = NoRows /\ work = NoRows /\ tx = Idle
  BY TypeInit DEF Init
<1>2. Consistent(work, tx.touched, tx.codex)
  BY <1>1, IdleType, NoRowsConsistent DEF Consistent
<1> QED BY <1>1, <1>2, IdleType, NoRowsConsistent DEF TablesInvariant

LEMMA TablesNext == TablesInvariant /\ [Next]_vars => TablesInvariant'
<1> SUFFICES ASSUME TablesInvariant, [Next]_vars PROVE TablesInvariant'
  OBVIOUS
<1>0. /\ TypeOK'
      /\ IsTables(db) /\ IsTables(work) /\ tx \in Request
      /\ tx.codex \in BOOLEAN /\ tx.touched \subseteq Session
      /\ Consistent(db, {}, FALSE)
      /\ Consistent(work, tx.touched, tx.codex)
      /\ tx.victims # {} => tx.codex
  BY TypeNext DEF TablesInvariant, TypeOK, Request
<1>1. CASE Ingest
  <2>1. PICK batch \in Batch : BeginSave(batch)
    BY <1>1 DEF Ingest
  <2>2. batch.events \in Seq(Event) /\ batch.operations \in Seq(Observation)
    BY BatchAssumption
  <2>3. db' = db /\ work' = db
    BY <2>1 DEF BeginSave, Begin
  <2>4. tx'.touched = {} /\ tx'.victims = {} /\ ~tx'.codex
    <3>1. PICK events \in Seq(Event), operations \in Seq(Observation) :
            tx' = [Idle EXCEPT !.op = "save", !.events = events, !.operations = operations]
      BY <2>1, <2>2 DEF BeginSave, Begin
    <3> QED BY <3>1, BegunSave
  <2>5. Consistent(db, {}, tx'.codex)
    BY <1>0, <2>4 DEF Consistent
  <2> QED BY <1>0, <2>3, <2>4, <2>5 DEF TablesInvariant
<1>2. CASE Delete
  <2>1. PICK s \in Session : BeginDelete(s)
    BY <1>2 DEF Delete
  <2>2. db' = db /\ work' = db
    BY <2>1 DEF BeginDelete, Begin
  <2>3. tx'.touched = {} /\ tx'.codex
    <3>1. PICK victims \in SUBSET Session :
            tx' = [Idle EXCEPT !.op = "delete", !.victims = victims, !.codex = TRUE]
      BY <2>1 DEF BeginDelete, Begin
    <3> QED BY <3>1, BegunDelete
  <2>4. Consistent(db, {}, tx'.codex)
    BY <1>0, <2>3 DEF Consistent
  <2> QED BY <1>0, <2>2, <2>3, <2>4 DEF TablesInvariant
<1>3. CASE BeginDeleteAll
  <2>1. db' = db /\ work' = NoRows
    BY <1>3 DEF BeginDeleteAll, Begin
  <2>2. tx'.touched = {} /\ tx'.victims = {} /\ ~tx'.codex
    BY <1>3, BegunDeleteAll DEF BeginDeleteAll, Begin
  <2>3. Consistent(NoRows, {}, tx'.codex)
    BY <2>2, NoRowsConsistent DEF Consistent
  <2> QED BY <1>0, <2>1, <2>2, <2>3 DEF TablesInvariant
<1>4. CASE BeginRetention
  <2>0. PICK cutoff \in due : RetentionBegins(cutoff)
    BY <1>4 DEF BeginRetention, RetentionBegins
  <2>1. db' = db /\ work' = db
    BY <2>0 DEF RetentionBegins, Begin
  <2>2. cutoff \in Int /\ ExpiredSessions(db, cutoff) \subseteq Session
    BY <1>0, TablesFields DEF ExpiredSessions, TablesInvariant, TypeOK
  <2>3. tx'.touched = {} /\ tx'.codex
    BY <2>0, <2>2, BegunRetention DEF RetentionBegins, Begin
  <2>4. Consistent(db, {}, tx'.codex)
    BY <1>0, <2>3 DEF Consistent
  <2> QED BY <1>0, <2>1, <2>3, <2>4 DEF TablesInvariant
<1>5. CASE Work
  <2>1. CASE SaveEvent
    <3>1. Consistent(SavedEvent(work, Head(tx.events)),
                     tx.touched \cup {Head(tx.events).session},
                     tx.codex \/ IsRollout(Head(tx.events)))
      BY <1>0, <2>1, RequestSaveEvent, SavedEventConsistent DEF SaveEvent
    <3>2. /\ db' = db /\ work' = SavedEvent(work, Head(tx.events))
          /\ tx'.touched = tx.touched \cup {Head(tx.events).session}
          /\ tx'.victims = tx.victims
          /\ tx'.codex = (tx.codex \/ IsRollout(Head(tx.events)))
      BY <1>0, <2>1, RequestSaveEvent DEF SaveEvent, Working
    <3>3. Consistent(work', tx'.touched, tx'.codex)
      BY <3>1, <3>2
    <3> QED BY <1>0, <3>2, <3>3 DEF TablesInvariant
  <2>2. ASSUME NEW s \in Session, RebuildSession(s)
        PROVE  TablesInvariant'
    <3>1. Consistent(RebuiltSession(work, s), tx.touched \ {s}, tx.codex)
      BY <1>0, RebuiltSessionConsistent
    <3>2. /\ db' = db /\ work' = RebuiltSession(work, s)
          /\ tx'.touched = tx.touched \ {s}
          /\ tx'.victims = tx.victims /\ tx'.codex = tx.codex
      BY <1>0, <2>2, RequestRebuild DEF RebuildSession, Working
    <3> QED BY <1>0, <3>1, <3>2 DEF TablesInvariant
  <2>3. ASSUME NEW s \in Session, DeleteSessionRows(s)
        PROVE  TablesInvariant'
    <3>1. tx.codex = TRUE
      BY <1>0, <2>3 DEF DeleteSessionRows
    <3>2. Consistent(work, tx.touched, TRUE)
      BY <1>0 DEF Consistent
    <3>3. Consistent(DeletedSession(work, s), tx.touched, TRUE)
      BY <1>0, <3>2, DeletedSessionConsistent
    <3>4. /\ db' = db /\ work' = DeletedSession(work, s)
          /\ tx'.touched = tx.touched /\ tx'.codex = tx.codex
      BY <1>0, <2>3, RequestDeleteRows DEF DeleteSessionRows, Working
    <3>5. tx'.codex = TRUE
      BY <3>1, <3>4
    <3> QED BY <1>0, <3>3, <3>4, <3>5 DEF TablesInvariant
  <2>4. CASE RebuildCodexAgentRelations
    <3>1. Consistent(RebuiltCodex(work), tx.touched, FALSE)
      BY <1>0, RebuiltCodexConsistent
    <3>2. /\ db' = db /\ work' = RebuiltCodex(work)
          /\ tx'.touched = tx.touched /\ tx'.victims = {} /\ ~tx'.codex
      BY <1>0, <2>4, RequestRebuildCodex DEF RebuildCodexAgentRelations, Working
    <3>3. Consistent(RebuiltCodex(work), tx.touched, tx'.codex)
      BY <3>1, <3>2 DEF Consistent
    <3> QED BY <1>0, <3>2, <3>3 DEF TablesInvariant
  <2>5. CASE SaveOperation
    <3>1. PICK rows : work' = [work EXCEPT !.operations = rows]
      BY <2>5 DEF SaveOperation, Working
    <3>2. Consistent(work', tx.touched, tx.codex)
      BY <1>0, <3>1, SavedOperationConsistent
    <3>3. /\ db' = db /\ tx'.touched = tx.touched
          /\ tx'.victims = tx.victims /\ tx'.codex = tx.codex
      BY <1>0, <2>5, RequestSaveOperation DEF SaveOperation, Working
    <3> QED BY <1>0, <3>2, <3>3 DEF TablesInvariant
  <2>6. CASE Commit
    <3>1. tx.touched = {} /\ ~tx.codex /\ db' = work /\ work' = work /\ tx' = Idle
      BY <2>6 DEF Commit, Drained
    <3>2. Consistent(work, {}, FALSE)
      BY <1>0, <3>1 DEF Consistent
    <3>3. Consistent(work, {}, tx'.codex)
      BY <3>1, <3>2, IdleType DEF Consistent
    <3> QED BY <1>0, <3>1, <3>2, <3>3, IdleType DEF TablesInvariant
  <2> QED BY <1>5, <2>1, <2>2, <2>3, <2>4, <2>5, <2>6 DEF Work
<1>6. CASE Rollback \/ Crash
  <2>1. db' = db /\ work' = db /\ tx' = Idle
    BY <1>6 DEF Rollback, Crash
  <2>2. Consistent(db, {}, tx'.codex)
    BY <1>0, <2>1, IdleType DEF Consistent
  <2> QED BY <1>0, <2>1, <2>2, IdleType DEF TablesInvariant
<1>7. CASE Start \/ Tick \/ PlanRetention \/ UNCHANGED vars
  BY <1>0, <1>7 DEF Start, Tick, PlanRetention, vars, TablesInvariant
<1> QED BY <1>1, <1>2, <1>3, <1>4, <1>5, <1>6, <1>7 DEF Next

\* The statements of every transaction maintain the derived tables up to what
\* the transaction still has on its list: the invariant behind the next theorem.
THEOREM TablesCorrect == Spec => []TablesInvariant
BY TablesInit, TablesNext, PTL DEF Spec

-----------------------------------------------------------------------------
\* Fresh rows of every session and fresh Codex trees are the derived tables.
LEMMA ConsistentSessions ==
    ASSUME NEW t, IsTables(t), Consistent(t, {}, FALSE)
    PROVE  t.sessions = SessionTable(t.events)
<1> DEFINE of(s) == SessionEvents(t.events, s)
<1>1. \A s \in Session :
        RowsOf(t.sessions, s) = IF of(s) = {} THEN {} ELSE {SessionRow(s, of(s))}
  BY DEF Consistent, Fresh
<1>2. \A s : s \in SessionIds(t.events) <=> of(s) # {}
  BY DEF SessionIds, SessionEvents
<1>3. SessionIds(t.events) \subseteq Session
  BY TablesFields, EventFields DEF SessionIds
<1> HIDE DEF of
<1>4. ASSUME NEW r \in t.sessions PROVE r \in {SessionRow(s, of(s)) : s \in SessionIds(t.events)}
  <2>1. r.session \in Session /\ r \in RowsOf(t.sessions, r.session)
    BY TablesFields DEF RowsOf
  <2> QED BY <1>1, <1>2, <2>1
<1>5. ASSUME NEW s \in SessionIds(t.events) PROVE SessionRow(s, of(s)) \in t.sessions
  <2>1. RowsOf(t.sessions, s) = {SessionRow(s, of(s))}
    BY <1>1, <1>2, <1>3
  <2> QED BY <2>1 DEF RowsOf
<1> QED BY <1>4, <1>5 DEF SessionTable, of

LEMMA ConsistentSignals ==
    ASSUME NEW t, IsTables(t), Consistent(t, {}, FALSE)
    PROVE  t.signals = SignalTable(t.events)
<1> DEFINE of(s) == SessionEvents(t.events, s)
<1>1. \A s \in Session :
        RowsOf(t.signals, s) = IF of(s) = {} THEN {} ELSE SignalRows(s, of(s))
  BY DEF Consistent, Fresh
<1>2. \A s : s \in SessionIds(t.events) <=> of(s) # {}
  BY DEF SessionIds, SessionEvents
<1>3. SessionIds(t.events) \subseteq Session
  BY TablesFields, EventFields DEF SessionIds
<1> HIDE DEF of
<1>4. ASSUME NEW r \in t.signals
      PROVE  \E s \in SessionIds(t.events) : r \in SignalRows(s, of(s))
  <2>1. r.session \in Session /\ r \in RowsOf(t.signals, r.session)
    BY TablesFields DEF RowsOf
  <2> QED BY <1>1, <1>2, <2>1
<1>5. ASSUME NEW s \in SessionIds(t.events) PROVE SignalRows(s, of(s)) \subseteq t.signals
  <2>1. RowsOf(t.signals, s) = SignalRows(s, of(s))
    BY <1>1, <1>2, <1>3
  <2> QED BY <2>1 DEF RowsOf
<1> QED BY <1>4, <1>5 DEF SignalTable, of

LEMMA ConsistentRelations ==
    ASSUME NEW t, IsTables(t), Consistent(t, {}, FALSE)
    PROVE  t.relations = RelationTable(t.events)
<1> DEFINE of(s) == SessionEvents(t.events, s)
           trees == CodexRelations(RolloutEvents(t.events))
<1>1. \A s \in Session :
        {r \in RowsOf(t.relations, s) : r.tool # "codex"} = ClaudeRows(s, of(s))
  BY DEF Consistent, Fresh
<1>2. {r \in t.relations : r.tool = "codex"} = trees
  BY DEF Consistent, CodexFresh
<1>3. SessionIds(t.events) \subseteq Session
  BY TablesFields, EventFields DEF SessionIds
<1>4. \A s : s \in SessionIds(t.events) <=> of(s) # {}
  BY DEF SessionIds, SessionEvents
<1>5. \A s : \A r \in ClaudeRows(s, of(s)) : of(s) # {}
  BY ClaudeRowsOfSession
<1> HIDE DEF of, trees
<1>6. ASSUME NEW r \in t.relations, r.tool # "codex"
      PROVE  \E s \in SessionIds(t.events) : r \in ClaudeRows(s, of(s))
  <2>1. r.session \in Session /\ r \in RowsOf(t.relations, r.session)
    BY TablesFields DEF RowsOf
  <2>2. r \in ClaudeRows(r.session, of(r.session))
    BY <1>1, <1>6, <2>1
  <2> QED BY <1>4, <1>5, <2>2
<1>7. ASSUME NEW s \in SessionIds(t.events) PROVE ClaudeRows(s, of(s)) \subseteq t.relations
  BY <1>1, <1>3, <1>7 DEF RowsOf
<1>8. t.relations = trees \cup UNION {ClaudeRows(s, of(s)) : s \in SessionIds(t.events)}
  BY <1>2, <1>6, <1>7
<1> QED BY <1>8 DEF RelationTable, of, trees

LEMMA AgreeingTables == TablesInvariant => DerivedTablesAgree
<1> SUFFICES ASSUME TablesInvariant PROVE DerivedTablesAgree
  OBVIOUS
<1>1. IsTables(db) /\ Consistent(db, {}, FALSE)
  BY DEF TablesInvariant, TypeOK
<1> QED BY <1>1, ConsistentSessions, ConsistentSignals, ConsistentRelations
        DEF DerivedTablesAgree

\* In every committed state, whatever was ingested, deleted, expired, rolled
\* back or lost in a crash, the sessions, the insight signals and the agent
\* relations are the functions of the stored events that Repository defines.
THEOREM DerivedTablesCorrect == Spec => []DerivedTablesAgree
BY AgreeingTables, TablesCorrect, PTL

-----------------------------------------------------------------------------
\* No two relations of the derived table share session, trace and agent.
LEMMA RelationTableKeys ==
    ASSUME NEW E \in SUBSET Event, UniqueIds(E),
           NEW p \in RelationTable(E), NEW q \in RelationTable(E),
           p.session = q.session, p.trace = q.trace, p.agent = q.agent
    PROVE  p = q
<1> DEFINE trees == CodexRelations(RolloutEvents(E))
           of(s) == SessionEvents(E, s)
<1>1. ASSUME NEW r \in trees
      PROVE  \E e \in E : IsRollout(e) /\ e.session = r.session
  BY CodexRelationsOfSession DEF RolloutEvents
<1>2. ASSUME NEW s, NEW r \in ClaudeRows(s, of(s))
      PROVE  /\ r.session = s
             /\ of(s) # {} /\ IsClaudeSession(of(s))
             /\ r \in ClaudeRelations(s, of(s))
  BY ClaudeRowsOfSession DEF ClaudeRows
<1>3. ASSUME NEW s PROVE of(s) \in SUBSET Event /\ UniqueIds(of(s))
  BY DEF SessionEvents, UniqueIds
<1>4. ASSUME NEW s, of(s) # {}, IsClaudeSession(of(s)), NEW e \in E, IsRollout(e)
      PROVE  e.session # s
  <2>1. \A f \in of(s) : f.session = s
    BY DEF SessionEvents
  <2> QED BY <1>3, <1>4, <2>1, OneToolEach
<1>5. ASSUME NEW t, NEW u
      PROVE  Relation(RolloutEvents(E), t).agent = Relation(RolloutEvents(E), u).agent => t = u
  BY DEF Relation
<1>6. /\ p \in trees \/ \E s \in SessionIds(E) : p \in ClaudeRows(s, of(s))
      /\ q \in trees \/ \E s \in SessionIds(E) : q \in ClaudeRows(s, of(s))
  BY DEF RelationTable
<1>7. CASE p \in trees /\ q \in trees
  <2>1. PICK t, u : p = Relation(RolloutEvents(E), t) /\ q = Relation(RolloutEvents(E), u)
    BY <1>7 DEF CodexRelations
  <2> QED BY <1>5, <2>1
<1>8. CASE \E s, u : p \in ClaudeRows(s, of(s)) /\ q \in ClaudeRows(u, of(u))
  <2>1. PICK s, u : p \in ClaudeRows(s, of(s)) /\ q \in ClaudeRows(u, of(u))
    BY <1>8
  <2>2. s = u /\ p \in ClaudeRelations(s, of(s)) /\ q \in ClaudeRelations(s, of(s))
    BY <1>2, <2>1
  <2> QED BY <1>3, <2>2, ClaudeKeys
<1>9. ASSUME NEW x \in trees, NEW s, NEW y \in ClaudeRows(s, of(s))
      PROVE  x.session # y.session
  BY <1>1, <1>2, <1>4
<1> QED BY <1>6, <1>7, <1>8, <1>9

\* The key of agent_relations holds in every committed state: no rebuild can
\* ever fail on a duplicate, whatever lineage the rollouts and spans claim.
THEOREM RelationKeysCorrect == Spec => []RelationKeyHolds
<1>1. TablesInvariant => RelationKeyHolds
  <2> SUFFICES ASSUME TablesInvariant PROVE RelationKeyHolds
    OBVIOUS
  <2>1. IsTables(db) /\ Consistent(db, {}, FALSE)
    BY DEF TablesInvariant, TypeOK
  <2>2. db.relations = RelationTable(db.events)
    BY <2>1, ConsistentRelations
  <2>3. db.events \in SUBSET Event /\ UniqueIds(db.events)
    BY <2>1, TablesFields DEF Consistent
  <2> QED BY <2>2, <2>3, RelationTableKeys DEF RelationKeyHolds
<1> QED BY <1>1, TablesCorrect, PTL

(***************************************************************************)
(* The costs.                                                              *)
(***************************************************************************)
\* INSERT OR IGNORE, then at most one cost of the inserted event.
LEMMA SavedCosts ==
    ASSUME NEW t, IsTables(t), NEW e \in Event, IsNewEvent(t, e)
    PROVE  LET u == SavedEvent(t, e)
           IN  \/ u.costs = t.costs
               \/ \E x : u.costs = t.costs \cup {x} /\ x.event = e.id /\ x.session = e.session
<1>1. SavedEvent(t, e).costs =
        IF calculator = NoCalculator
        THEN t.costs
        ELSE t.costs \cup {[event |-> e.id, session |-> e.session,
                             catalog |-> calculator]}
  BY DEF IsTables, SixTables, SavedEvent
<1>2. CASE calculator = NoCalculator
  BY <1>1, <1>2
<1>3. CASE calculator # NoCalculator
  <2> DEFINE x == [event |-> e.id, session |-> e.session, catalog |-> calculator]
  <2>1. x.event = e.id /\ x.session = e.session
    OBVIOUS
  <2>2. SavedEvent(t, e).costs = t.costs \cup {x}
    BY <1>1, <1>3
  <2> HIDE DEF x
  <2> QED BY <2>1, <2>2
<1> QED BY <1>2, <1>3

\* An event that is new to the tables and to the committed ones adds a cost
\* that no committed cost contradicts.
LEMMA SavedEventBacked ==
    ASSUME NEW t, IsTables(t), CostsBacked(t), NEW e \in Event
    PROVE  CostsBacked(SavedEvent(t, e))
<1> DEFINE u == SavedEvent(t, e)
<1>1. CASE ~IsNewEvent(t, e)
  BY <1>1 DEF SavedEvent
<1>2. CASE IsNewEvent(t, e)
  <2>1. u.events = t.events \cup {e}
    BY <1>2, SavedEventFields
  <2>2. \/ u.costs = t.costs
        \/ \E x : u.costs = t.costs \cup {x} /\ x.event = e.id /\ x.session = e.session
    BY <1>2, SavedCosts
  <2>3. \A c \in t.costs : c.event # e.id
    BY <1>2 DEF CostsBacked, IsNewEvent
  <2> HIDE DEF u
  <2>4. CASE u.costs = t.costs
    BY <2>1, <2>4 DEF CostsBacked, u
  <2>5. CASE \E x : u.costs = t.costs \cup {x} /\ x.event = e.id /\ x.session = e.session
    <3>1. PICK x : u.costs = t.costs \cup {x} /\ x.event = e.id /\ x.session = e.session
      BY <2>5
    <3>2. \A c, d \in u.costs : c.event = d.event => c = d
      BY <2>3, <3>1 DEF CostsBacked
    <3>3. \A c \in u.costs : \E f \in u.events : c.event = f.id /\ c.session = f.session
      BY <2>1, <3>1 DEF CostsBacked
    <3> QED BY <3>2, <3>3 DEF CostsBacked, u
  <2> QED BY <2>2, <2>4, <2>5
<1> QED BY <1>1, <1>2

LEMMA SavedEventAgrees ==
    ASSUME NEW old, CostsBacked(old), NEW t, IsTables(t), NEW e \in Event,
           old.events \subseteq t.events,
           \A c \in old.costs, d \in t.costs : c.event = d.event => c = d
    PROVE  /\ \A c \in old.costs, d \in SavedEvent(t, e).costs : c.event = d.event => c = d
           /\ old.events \subseteq SavedEvent(t, e).events
<1> DEFINE u == SavedEvent(t, e)
<1>1. CASE ~IsNewEvent(t, e)
  BY <1>1 DEF SavedEvent
<1>2. CASE IsNewEvent(t, e)
  <2>1. u.events = t.events \cup {e}
    BY <1>2, SavedEventFields
  <2>2. \/ u.costs = t.costs
        \/ \E x : u.costs = t.costs \cup {x} /\ x.event = e.id /\ x.session = e.session
    BY <1>2, SavedCosts
  <2>3. \A c \in old.costs : c.event # e.id
    BY <1>2 DEF CostsBacked, IsNewEvent
  <2> HIDE DEF u
  <2>4. \A c \in old.costs, d \in u.costs : c.event = d.event => c = d
    BY <2>2, <2>3
  <2> QED BY <2>1, <2>4 DEF u
<1> QED BY <1>1, <1>2

\* Deletion takes the costs with the events of its session.
LEMMA DeletedSessionBacked ==
    ASSUME NEW t, CostsBacked(t), NEW s
    PROVE  /\ CostsBacked(DeletedSession(t, s))
           /\ DeletedSession(t, s).costs \subseteq t.costs
BY DEF CostsBacked, DeletedSession, Without

\* Equal events and costs, equal verdict.
LEMMA BackedCongruence ==
    ASSUME NEW t, NEW u, CostsBacked(t), u.events = t.events, u.costs = t.costs
    PROVE  CostsBacked(u)
BY DEF CostsBacked

LEMMA NoRowsBacked == CostsBacked(NoRows) /\ NoRows.costs = {}
BY DEF CostsBacked, NoRows

-----------------------------------------------------------------------------
LEMMA CostsInit == Init => CostsInvariant
BY NoRowsBacked, IdleType DEF Init, CostsInvariant

LEMMA CostsNext == TypeOK /\ CostsInvariant /\ [Next]_vars => CostsInvariant'
<1> SUFFICES ASSUME TypeOK, CostsInvariant, [Next]_vars PROVE CostsInvariant'
  OBVIOUS
<1>0. /\ IsTables(db) /\ IsTables(work) /\ tx \in Request
      /\ CostsBacked(db) /\ CostsBacked(work)
      /\ \A c \in db.costs, d \in work.costs : c.event = d.event => c = d
      /\ tx.events # <<>> => db.events \subseteq work.events /\ tx.victims = {}
  BY DEF TypeOK, CostsInvariant
<1>1. CASE db' = db /\ work' = db /\ (tx'.events # <<>> => tx'.victims = {})
  <2>1. \A c, d \in db.costs : c.event = d.event => c = d
    BY <1>0 DEF CostsBacked
  <2> QED BY <1>0, <1>1, <2>1 DEF CostsInvariant
<1>2. CASE Ingest
  <2>1. PICK batch \in Batch : BeginSave(batch)
    BY <1>2 DEF Ingest
  <2>2. batch.events \in Seq(Event) /\ batch.operations \in Seq(Observation)
    BY BatchAssumption
  <2>3. PICK events \in Seq(Event), operations \in Seq(Observation) :
        tx' = [Idle EXCEPT !.op = "save", !.events = events, !.operations = operations]
    BY <2>1, <2>2 DEF BeginSave, Begin
  <2>4. tx'.victims = {}
    BY <2>3, BegunSave
  <2>5. db' = db /\ work' = db
    BY <2>1 DEF BeginSave, Begin
  <2> QED BY <1>1, <2>4, <2>5
<1>3. CASE Delete
  <2>1. PICK s \in Session : BeginDelete(s)
    BY <1>3 DEF Delete
  <2>2. PICK victims \in SUBSET Session :
        tx' = [Idle EXCEPT !.op = "delete", !.victims = victims, !.codex = TRUE]
    BY <2>1 DEF BeginDelete, Begin
  <2>3. tx'.events = <<>>
    BY <2>2, BegunDelete
  <2>4. db' = db /\ work' = db
    BY <2>1 DEF BeginDelete, Begin
  <2> QED BY <1>1, <2>3, <2>4
<1>4. CASE BeginDeleteAll
  <2>1. tx'.events = <<>>
    BY <1>4, BegunDeleteAll DEF BeginDeleteAll, Begin
  <2>2. db' = db /\ work' = NoRows
    BY <1>4 DEF BeginDeleteAll, Begin
  <2> QED BY <1>0, <2>1, <2>2, NoRowsBacked DEF CostsInvariant
<1>5. CASE BeginRetention
  <2>0. PICK cutoff \in due : RetentionBegins(cutoff)
    BY <1>5 DEF BeginRetention, RetentionBegins
  <2>1. cutoff \in Int /\ ExpiredSessions(db, cutoff) \subseteq Session
    BY <1>0, TablesFields DEF ExpiredSessions, TypeOK
  <2>2. tx'.events = <<>>
    BY <2>0, <2>1, BegunRetention DEF RetentionBegins, Begin
  <2>3. db' = db /\ work' = db
    BY <2>0 DEF RetentionBegins, Begin
  <2> QED BY <1>1, <2>2, <2>3
<1>6. CASE Work
  <2>1. ASSUME db' = db, work'.events = work.events, work'.costs = work.costs,
               tx'.events = tx.events, tx'.victims \subseteq tx.victims
        PROVE  CostsInvariant'
    <3>1. CostsBacked(work')
      BY <1>0, <2>1, BackedCongruence
    <3> QED BY <1>0, <2>1, <3>1 DEF CostsInvariant
  <2>2. CASE SaveEvent
    <3>1. /\ db' = db /\ work' = SavedEvent(work, Head(tx.events))
          /\ Head(tx.events) \in Event
          /\ tx.events # <<>> /\ tx'.victims = tx.victims
      BY <1>0, <2>2, RequestSaveEvent DEF SaveEvent, Working
    <3>2. CostsBacked(work')
      BY <1>0, <3>1, SavedEventBacked
    <3>3. /\ \A c \in db.costs, d \in work'.costs : c.event = d.event => c = d
          /\ db.events \subseteq work'.events
      BY <1>0, <3>1, SavedEventAgrees
    <3> QED BY <1>0, <3>1, <3>2, <3>3 DEF CostsInvariant
  <2>3. ASSUME NEW s \in Session, RebuildSession(s)
        PROVE  CostsInvariant'
    <3>1. /\ db' = db /\ work' = RebuiltSession(work, s)
          /\ tx'.events = tx.events /\ tx'.victims = tx.victims
      BY <1>0, <2>3, RequestRebuild DEF RebuildSession, Working
    <3>2. CASE SessionEvents(work.events, s) = {}
      <4>1. work' = work
        BY <3>1, <3>2 DEF RebuiltSession
      <4> QED BY <2>1, <3>1, <4>1
    <3>3. CASE SessionEvents(work.events, s) # {}
      BY <1>0, <2>1, <3>1, <3>3, RebuiltSessionFields
    <3> QED BY <3>2, <3>3
  <2>4. ASSUME NEW s \in Session, DeleteSessionRows(s)
        PROVE  CostsInvariant'
    <3>1. /\ db' = db /\ work' = DeletedSession(work, s)
          /\ tx'.events = tx.events
          /\ tx.victims # {}
      BY <1>0, <2>4, RequestDeleteRows DEF DeleteSessionRows, Working
    <3>2. CostsBacked(work') /\ work'.costs \subseteq work.costs
      BY <1>0, <3>1, DeletedSessionBacked
    <3> QED BY <1>0, <3>1, <3>2 DEF CostsInvariant
  <2>5. CASE RebuildCodexAgentRelations
    <3>1. /\ db' = db /\ work' = RebuiltCodex(work)
          /\ tx'.events = tx.events /\ tx'.victims = tx.victims
      BY <1>0, <2>5, RequestRebuildCodex DEF RebuildCodexAgentRelations, Working
    <3> QED BY <1>0, <2>1, <3>1, RebuiltCodexFields
  <2>6. CASE SaveOperation
    <3>1. PICK rows : work' = [work EXCEPT !.operations = rows]
      BY <2>6 DEF SaveOperation, Working
    <3>2. /\ db' = db /\ tx'.events = tx.events /\ tx'.victims = tx.victims
      BY <1>0, <2>6, RequestSaveOperation DEF SaveOperation, Working
    <3> QED BY <1>0, <2>1, <3>1, <3>2, SavedOperationFields
  <2>7. CASE Commit
    <3>1. db' = work /\ work' = work /\ tx' = Idle
      BY <2>7 DEF Commit
    <3>2. \A c, d \in work.costs : c.event = d.event => c = d
      BY <1>0 DEF CostsBacked
    <3> QED BY <1>0, <3>1, <3>2, IdleType DEF CostsInvariant
  <2> QED BY <1>6, <2>2, <2>3, <2>4, <2>5, <2>6, <2>7 DEF Work
<1>7. CASE Rollback \/ Crash
  <2>1. db' = db /\ work' = db /\ tx' = Idle
    BY <1>7 DEF Rollback, Crash
  <2> QED BY <1>1, <2>1, IdleType
<1>8. CASE Start \/ Tick \/ PlanRetention \/ UNCHANGED vars
  BY <1>0, <1>8 DEF Start, Tick, PlanRetention, vars, CostsInvariant
<1> QED BY <1>2, <1>3, <1>4, <1>5, <1>6, <1>7, <1>8 DEF Next

\* Committed and working costs belong to events, one each, and agree.
THEOREM CostsCorrect == Spec => []CostsInvariant
<1>1. Init => TypeOK /\ CostsInvariant
  BY TypeInit, CostsInit
<1>2. (TypeOK /\ CostsInvariant) /\ [Next]_vars => (TypeOK /\ CostsInvariant)'
  BY TypeNext, CostsNext
<1> QED BY <1>1, <1>2, PTL DEF Spec

\* Every committed cost is the only one of a retained event of its session, so
\* the plain INSERT of saveCostRecord never meets an old row.
THEOREM CostsFollowEventsCorrect == Spec => []CostsFollowEvents
<1>1. TablesInvariant /\ CostsInvariant => CostsFollowEvents
  BY DEF TablesInvariant, Consistent, CostsInvariant, CostsBacked, CostsFollowEvents
<1> QED BY <1>1, TablesCorrect, CostsCorrect, PTL

\* No step of any request, deletion, restart or crash reprices a retained event.
THEOREM CostsAreFinalCorrect == Spec => CostsAreFinal
<1> DEFINE Final == \A c \in db.costs, d \in db'.costs : c.event = d.event => c = d
<1>1. CostsInvariant /\ [Next]_vars => [Final]_vars
  <2> SUFFICES ASSUME CostsInvariant, Next PROVE Final
    OBVIOUS
  <2>1. /\ \A c, d \in db.costs : c.event = d.event => c = d
        /\ \A c \in db.costs, d \in work.costs : c.event = d.event => c = d
    BY DEF CostsInvariant, CostsBacked
  <2>2. db' = db \/ db' = work
    BY DEF Next, Ingest, Delete, BeginSave, BeginDelete, BeginDeleteAll, PlanRetention,
           BeginRetention, Begin, Work, SaveEvent, RebuildSession, DeleteSessionRows,
           RebuildCodexAgentRelations, SaveOperation, Working, Commit, Rollback,
           Crash, Start, Tick
  <2> QED BY <2>1, <2>2
<1> QED BY <1>1, CostsCorrect, PTL DEF Spec, CostsAreFinal

-----------------------------------------------------------------------------
(***************************************************************************)
(* Requests: a list and what is left of it.                                *)
(***************************************************************************)
LEMMA RestOfAll ==
    ASSUME NEW S, NEW list \in Seq(S)
    PROVE  0 \in 0 .. Len(list) /\ Rest(list, list, 0)
<1>1. Len(list) \in Nat
  OBVIOUS
<1> QED BY <1>1 DEF Rest

LEMMA RestOfTail ==
    ASSUME NEW S, NEW list \in Seq(S), NEW rest \in Seq(S), rest # <<>>,
           NEW n \in 0 .. Len(list), Rest(rest, list, n)
    PROVE  /\ n + 1 \in 1 .. Len(list)
           /\ Head(rest) = list[n + 1]
           /\ Rest(Tail(rest), list, n + 1)
<1>1. Len(rest) \in Nat /\ Len(list) \in Nat /\ Len(rest) # 0
  OBVIOUS
<1>2. Len(rest) = Len(list) - n /\ \A i \in 1 .. Len(rest) : rest[i] = list[n + i]
  BY DEF Rest
<1>3. Head(rest) = rest[1] /\ 1 \in 1 .. Len(rest)
  BY <1>1
<1>4. Len(Tail(rest)) = Len(rest) - 1
  OBVIOUS
<1>5. \A i \in 1 .. Len(rest) - 1 : Tail(rest)[i] = rest[i + 1]
  OBVIOUS
<1>6. \A i \in 1 .. Len(rest) - 1 : Tail(rest)[i] = list[(n + 1) + i]
  <2> TAKE i \in 1 .. Len(rest) - 1
  <2>1. i + 1 \in 1 .. Len(rest) /\ n + (i + 1) = (n + 1) + i
    BY <1>1
  <2>2. rest[i + 1] = list[n + (i + 1)]
    BY <1>2, <2>1
  <2> QED BY <1>5, <2>1, <2>2
<1>7. n + 1 \in 1 .. Len(list) /\ Len(Tail(rest)) = Len(list) - (n + 1)
  BY <1>1, <1>2, <1>4
<1>8. Head(rest) = list[n + 1]
  BY <1>2, <1>3
<1> QED BY <1>4, <1>6, <1>7, <1>8 DEF Rest

LEMMA RestIsOver ==
    ASSUME NEW S, NEW list \in Seq(S), NEW n \in 0 .. Len(list), Rest(<<>>, list, n)
    PROVE  n = Len(list)
<1>1. Len(list) \in Nat /\ Len(<<>>) = 0
  OBVIOUS
<1> QED BY <1>1 DEF Rest

-----------------------------------------------------------------------------
(***************************************************************************)
(* The events an ingest request adds.                                      *)
(***************************************************************************)
LEMMA NoCopies == \A stored, events : FirstCopies(stored, events, 0) = {}
<1>1. 1 .. 0 = {}
  OBVIOUS
<1> QED BY <1>1 DEF FirstCopies

\* The next event of the list is a first copy unless the events stored or
\* inserted before it have its identifier.
LEMMA NextCopy ==
    ASSUME NEW stored, NEW events, NEW n \in Nat
    PROVE  LET e == events[n + 1]
               before == stored \cup FirstCopies(stored, events, n)
           IN  FirstCopies(stored, events, n + 1) =
                 FirstCopies(stored, events, n)
                   \cup IF \A f \in before : f.id # e.id THEN {e} ELSE {}
<1> DEFINE e == events[n + 1]
           copies == FirstCopies(stored, events, n)
           IsFirst(i) == /\ \A f \in stored : f.id # events[i].id
                         /\ \A k \in 1 .. i - 1 : events[k].id # events[i].id
           after == FirstCopies(stored, events, n + 1)
<1>1. /\ copies = {events[j] : j \in {i \in 1 .. n : IsFirst(i)}}
      /\ after = {events[j] : j \in {i \in 1 .. n + 1 : IsFirst(i)}}
  BY DEF FirstCopies
<1>2. 1 .. n + 1 = (1 .. n) \cup {n + 1} /\ (n + 1) - 1 = n
  OBVIOUS
<1>3. after = copies \cup IF IsFirst(n + 1) THEN {e} ELSE {}
  <2> HIDE DEF IsFirst, copies, after
  <2> QED BY <1>1, <1>2
<1>4. IsFirst(n + 1) => \A f \in stored \cup copies : f.id # e.id
  <2> SUFFICES ASSUME IsFirst(n + 1), NEW f \in copies PROVE f.id # e.id
    OBVIOUS
  <2>1. PICK j \in 1 .. n : f = events[j]
    BY <1>1
  <2> QED BY <1>2, <2>1
<1>5. ASSUME \A f \in stored \cup copies : f.id # e.id
      PROVE  IsFirst(n + 1)
  <2> SUFFICES ASSUME NEW k \in 1 .. n, events[k].id = e.id PROVE FALSE
    BY <1>2, <1>5
  <2> DEFINE Same == {i \in Nat : i \in 1 .. n /\ events[i].id = e.id}
  <2>1. Same \in SUBSET Nat /\ Same # {}
    OBVIOUS
  <2>2. PICK i \in Same : \A j \in Same : i <= j
    <3> HIDE DEF Same
    <3> QED BY <2>1, Least
  <2>3. i \in 1 .. n /\ events[i].id = e.id
    OBVIOUS
  <2>4. \A j \in 1 .. i - 1 : events[j].id # events[i].id
    <3> SUFFICES ASSUME NEW j \in 1 .. i - 1, events[j].id = events[i].id PROVE FALSE
      OBVIOUS
    <3>1. j \in Same /\ ~ (i <= j)
      BY <2>3
    <3> QED BY <2>2, <3>1
  <2>5. \A f \in stored : f.id # events[i].id
    BY <1>5, <2>3
  <2>6. IsFirst(i)
    BY <2>4, <2>5
  <2>7. events[i] \in copies
    <3> HIDE DEF IsFirst, copies
    <3> QED BY <1>1, <2>3, <2>6
  <2> QED BY <1>5, <2>3, <2>7
<1>6. IsFirst(n + 1) <=> \A f \in stored \cup copies : f.id # e.id
  <2> HIDE DEF IsFirst, copies
  <2> QED BY <1>4, <1>5
<1> HIDE DEF IsFirst, copies, after
<1>7. after = copies \cup IF \A f \in stored \cup copies : f.id # e.id THEN {e} ELSE {}
  BY <1>3, <1>6
<1> QED BY <1>7 DEF after, copies

LEMMA CostedNone == \A catalog : Costed({}, catalog) = {}
BY DEF Costed

LEMMA CostedNext ==
    ASSUME NEW events, NEW e, NEW catalog
    PROVE  Costed(events \cup {e}, catalog) =
             Costed(events, catalog)
               \cup IF catalog = NoCalculator THEN {}
                    ELSE {[event |-> e.id, session |-> e.session, catalog |-> catalog]}
BY DEF Costed

-----------------------------------------------------------------------------
(***************************************************************************)
(* What a statement of an ingest request, of a deletion or                 *)
(* of retention does to Saving and Removing.                               *)
(***************************************************************************)
LEMMA SavingBegins ==
    ASSUME NEW old, NEW catalog, NEW batch \in Batch, NEW request,
           request.events = batch.events, request.operations = batch.operations,
           request.victims = {}
    PROVE  /\ 0 \in 0 .. Len(batch.events) /\ 0 \in 0 .. Len(batch.operations)
           /\ Saving(old, old, catalog, request, batch, 0, 0)
<1>1. batch.events \in Seq(Event) /\ batch.operations \in Seq(Observation)
  BY BatchAssumption
<1>2. /\ 0 \in 0 .. Len(batch.events) /\ 0 \in 0 .. Len(batch.operations)
      /\ Rest(request.events, batch.events, 0)
      /\ Rest(request.operations, batch.operations, 0)
  BY <1>1, RestOfAll
<1>3. RowsAfter(old.operations, batch.operations)[0] = old.operations
  <2>1. Len(batch.operations) \in Nat
    BY <1>1
  <2> QED BY <2>1, RowsAfterSteps
<1> QED BY <1>2, <1>3, NoCopies, CostedNone DEF Saving, Saved

\* saveEventTx of the next event.
LEMMA SavingAnEvent ==
    ASSUME NEW old, NEW t, IsTables(t), NEW batch \in Batch, NEW r \in Request,
           r.events # <<>>, NEW u, u.events = Tail(r.events),
           u.operations = r.operations, u.victims = r.victims,
           NEW n \in 0 .. Len(batch.events), NEW m \in 0 .. Len(batch.operations),
           Saving(old, t, calculator, r, batch, n, m)
    PROVE  /\ n + 1 \in 0 .. Len(batch.events)
           /\ Saving(old, SavedEvent(t, Head(r.events)), calculator, u, batch, n + 1, m)
<1> DEFINE e == Head(r.events)
           copies == FirstCopies(old.events, batch.events, n)
           after == FirstCopies(old.events, batch.events, n + 1)
           cost == [event |-> e.id, session |-> e.session, catalog |-> calculator]
<1>1. batch.events \in Seq(Event) /\ r.events \in Seq(Event) /\ n \in Nat
  BY BatchAssumption DEF Request
<1>2. /\ n + 1 \in 1 .. Len(batch.events)
      /\ e = batch.events[n + 1]
      /\ Rest(u.events, batch.events, n + 1)
  BY <1>1, RestOfTail DEF Saving
<1>3. e \in Event
  BY <1>1
<1>4. t.events = old.events \cup copies /\ t.costs = old.costs \cup Costed(copies, calculator)
  BY DEF Saving, Saved
<1>5. after = copies \cup IF \A f \in t.events : f.id # e.id THEN {e} ELSE {}
  BY <1>1, <1>2, <1>4, NextCopy
<1>6. /\ SavedEvent(t, e).events = old.events \cup after
      /\ SavedEvent(t, e).costs = old.costs \cup Costed(after, calculator)
      /\ SavedEvent(t, e).operations = t.operations
  <2>1. CASE IsNewEvent(t, e)
    <3>1. after = copies \cup {e}
      BY <1>5, <2>1 DEF IsNewEvent
    <3>2. SavedEvent(t, e).events = t.events \cup {e} /\ SavedEvent(t, e).operations = t.operations
      BY <1>3, <2>1, SavedEventFields
    <3>3. SavedEvent(t, e).costs = IF calculator = NoCalculator THEN t.costs
                                   ELSE t.costs \cup {cost}
      BY <2>1 DEF SavedEvent, IsTables, SixTables
    <3>4. Costed(after, calculator)
            = Costed(copies, calculator) \cup IF calculator = NoCalculator THEN {} ELSE {cost}
      <4> HIDE DEF copies, after, e
      <4> QED BY <3>1, CostedNext DEF cost
    <3> HIDE DEF copies, after, cost, e
    <3> QED BY <1>4, <3>1, <3>2, <3>3, <3>4
  <2>2. CASE ~IsNewEvent(t, e)
    <3>1. after = copies
      BY <1>5, <2>2 DEF IsNewEvent
    <3>2. SavedEvent(t, e) = t
      BY <2>2 DEF SavedEvent
    <3> QED BY <1>4, <3>1, <3>2
  <2> QED BY <2>1, <2>2
<1>7. n + 1 \in 0 .. Len(batch.events)
  BY <1>2
<1> QED BY <1>2, <1>6, <1>7 DEF Saving, Saved

\* saveOperationTx of the next operation.
LEMMA SavingAnOperation ==
    ASSUME NEW old, NEW t, IsTables(t), NEW batch \in Batch, NEW r \in Request,
           r.operations # <<>>, NEW u, u.events = r.events,
           u.operations = Tail(r.operations), u.victims = r.victims, NEW catalog,
           NEW n \in 0 .. Len(batch.events), NEW m \in 0 .. Len(batch.operations),
           Saving(old, t, catalog, r, batch, n, m)
    PROVE  /\ m + 1 \in 0 .. Len(batch.operations)
           /\ Saving(old,
                     [t EXCEPT !.operations = StoreOperation(@, Head(r.operations))],
                     catalog, u, batch, n, m + 1)
<1> DEFINE after == RowsAfter(old.operations, batch.operations)
           rows == StoreOperation(t.operations, Head(r.operations))
           later == [t EXCEPT !.operations = rows]
<1>1. batch.operations \in Seq(Observation) /\ r.operations \in Seq(Observation)
  BY BatchAssumption DEF Request
<1>2. /\ m + 1 \in 1 .. Len(batch.operations)
      /\ Head(r.operations) = batch.operations[m + 1]
      /\ Rest(u.operations, batch.operations, m + 1)
  BY <1>1, RestOfTail DEF Saving
<1>3. later.events = t.events /\ later.costs = t.costs /\ later.operations = rows
  <2> HIDE DEF rows
  <2> QED BY SavedOperationFields
<1>4. t.operations = after[m]
  BY DEF Saving, Saved
<1>5. Len(batch.operations) \in Nat /\ (m + 1) - 1 = m
  BY <1>1
<1>6. after[m + 1] = rows
  BY <1>2, <1>4, <1>5, RowsAfterSteps
<1>7. m + 1 \in 0 .. Len(batch.operations)
  BY <1>2
<1> HIDE DEF after, rows, later
<1>8. Saving(old, later, catalog, u, batch, n, m + 1)
  BY <1>2, <1>3, <1>6 DEF Saving, Saved, after
<1> QED BY <1>7, <1>8 DEF later, rows

\* A statement that touches derived tables only.
LEMMA SavingGoesOn ==
    ASSUME NEW old, NEW t, NEW v, NEW r, NEW u, NEW catalog, NEW batch, NEW n, NEW m,
           v.events = t.events, v.costs = t.costs, v.operations = t.operations,
           u.events = r.events, u.operations = r.operations, u.victims = r.victims,
           Saving(old, t, catalog, r, batch, n, m)
    PROVE  Saving(old, v, catalog, u, batch, n, m)
BY DEF Saving, Saved

LEMMA RemovingBegins ==
    ASSUME NEW old, NEW u, u.events = <<>>, u.operations = <<>>, u.touched = {}
    PROVE  Removing(old, old, u, u.victims)
BY DEF Removing, Removed

LEMMA RemovingGoesOn ==
    ASSUME NEW old, NEW t, NEW v, NEW r, NEW u, NEW gone,
           v.events = t.events, v.costs = t.costs, v.operations = t.operations,
           v.sessions = t.sessions,
           u.events = r.events, u.operations = r.operations, u.victims = r.victims,
           u.touched = r.touched, Removing(old, t, r, gone)
    PROVE  Removing(old, v, u, gone)
BY DEF Removing, Removed

\* deleteSessionRows of the next session.
LEMMA RemovingASession ==
    ASSUME NEW old, NEW t, NEW r, NEW u, NEW gone, NEW s \in r.victims,
           u.events = r.events, u.operations = r.operations, u.victims = r.victims \ {s},
           u.touched = r.touched, Removing(old, t, r, gone)
    PROVE  Removing(old, DeletedSession(t, s), u, gone)
BY DEF Removing, Removed, DeletedSession, Without

\* The rows of operations that an open transaction has, wherever it stands.
LEMMA RowsOfRequest ==
    ASSUME TypeOK, RequestInvariant, tx.op # "none"
    PROVE  /\ AreRows(work.operations)
           /\ \A o \in work.operations : o.session \in Session
<1>1. AreRows(db.operations) /\ \A o \in db.operations : o.session \in Session
  BY DEF RequestInvariant
<1>2. CASE tx.op = "save"
  <2>0. PICK batch \in Batch :
            \E n \in 0 .. Len(batch.events), m \in 0 .. Len(batch.operations) :
                Saving(db, work, calculator, tx, batch, n, m)
    BY <1>2 DEF RequestInvariant
  <2>1. PICK n \in 0 .. Len(batch.events), m \in 0 .. Len(batch.operations) :
            Saving(db, work, calculator, tx, batch, n, m)
    BY <2>0
  <2>2. batch.operations \in Seq(Observation) /\ Len(batch.operations) \in Nat
    BY BatchAssumption
  <2>3. \A k \in 1 .. Len(batch.operations) :
            IsOperation(batch.operations[k]) /\ batch.operations[k].session \in Session
    BY <2>2, ObservationAssumption
  <2>4. work.operations = RowsAfter(db.operations, batch.operations)[m]
    BY <2>1 DEF Saving, Saved
  <2>5. /\ AreRows(work.operations)
        /\ \A q \in work.operations :
            \/ \E p \in db.operations : SameOperation(p, q)
            \/ \E k \in 1 .. m : SameOperation(batch.operations[k], q)
    BY <1>1, <2>2, <2>3, <2>4, RowsAfterKeep
  <2>6. 1 .. m \subseteq 1 .. Len(batch.operations)
    BY <2>2
  <2> QED BY <1>1, <2>3, <2>5, <2>6 DEF SameOperation
<1>3. ASSUME NEW gone, Removing(db, work, tx, gone)
      PROVE  /\ AreRows(work.operations)
             /\ \A o \in work.operations : o.session \in Session
  <2>1. work.operations \subseteq db.operations
    BY <1>3 DEF Removing, Removed
  <2> QED BY <1>1, <2>1 DEF AreRows
<1>4. tx.op \in {"save", "delete", "deleteAll", "retain"}
  BY DEF TypeOK, Request
<1> QED BY <1>2, <1>3, <1>4 DEF RequestInvariant

-----------------------------------------------------------------------------
SaveRequest(events, operations) ==
    [Idle EXCEPT !.op = "save", !.events = events, !.operations = operations]

LEMMA SaveRequestFields ==
    ASSUME NEW events \in Seq(Event), NEW operations \in Seq(Observation)
    PROVE  LET u == SaveRequest(events, operations)
           IN  /\ u.op = "save" /\ u.events = events
               /\ u.operations = operations /\ u.victims = {}
<1> DEFINE u == SaveRequest(events, operations)
<1>1. ASSUME NEW r \in Request, r.victims = {},
             u = [r EXCEPT !.op = "save", !.events = events, !.operations = operations]
      PROVE  /\ u.op = "save" /\ u.events = events
             /\ u.operations = operations /\ u.victims = {}
  <2> HIDE DEF u
  <2> QED BY <1>1 DEF Request
<1> QED BY <1>1, IdleType DEF SaveRequest

LEMMA RequestInit == Init => RequestInvariant
BY IdleType DEF Init, RequestInvariant, NoRows, AreRows

LEMMA RequestIdle ==
    ASSUME RequestInvariant, db' = db, tx'.op = "none"
    PROVE  RequestInvariant'
BY DEF RequestInvariant

\* A step of a request that goes on: what it must do for the request it is.
LEMMA RequestGoesOn ==
    ASSUME RequestInvariant, db' = db, tx'.op = tx.op, tx'.cutoff = tx.cutoff,
           daemon' = daemon,
           ASSUME NEW batch \in Batch, NEW n \in 0 .. Len(batch.events),
                  NEW m \in 0 .. Len(batch.operations),
                  Saving(db, work, calculator, tx, batch, n, m)
           PROVE  \E k \in 0 .. Len(batch.events), l \in 0 .. Len(batch.operations) :
                    Saving(db, work', calculator', tx', batch, k, l),
           ASSUME NEW gone, Removing(db, work, tx, gone)
           PROVE  Removing(db, work', tx', gone)
    PROVE  RequestInvariant'
<1>1. tx'.op = "save" =>
        \E batch \in Batch :
            \E n \in 0 .. Len(batch.events), m \in 0 .. Len(batch.operations) :
                Saving(db', work', calculator', tx', batch, n, m)
  <2> SUFFICES ASSUME tx'.op = "save"
               PROVE  \E batch \in Batch :
                        \E n \in 0 .. Len(batch.events), m \in 0 .. Len(batch.operations) :
                            Saving(db', work', calculator', tx', batch, n, m)
    OBVIOUS
  <2>0. PICK batch \in Batch :
            \E n \in 0 .. Len(batch.events), m \in 0 .. Len(batch.operations) :
                Saving(db, work, calculator, tx, batch, n, m)
    BY DEF RequestInvariant
  <2>1. PICK n \in 0 .. Len(batch.events), m \in 0 .. Len(batch.operations) :
            Saving(db, work, calculator, tx, batch, n, m)
    BY <2>0
  <2>2. \E k \in 0 .. Len(batch.events), l \in 0 .. Len(batch.operations) :
            Saving(db, work', calculator', tx', batch, k, l)
    BY <2>1
  <2> QED BY <2>2
<1>2. tx'.op = "delete" => \E s \in Session : Removing(db', work', tx', {s})
  BY DEF RequestInvariant
<1>3. tx'.op = "retain" => Removing(db', work', tx', ExpiredSessions(db', tx'.cutoff))
  BY DEF RequestInvariant
<1>4. tx'.op = "deleteAll" => Removing(db', work', tx', Session)
  BY DEF RequestInvariant
<1> QED BY <1>1, <1>2, <1>3, <1>4 DEF RequestInvariant

LEMMA RequestNext == TypeOK /\ RequestInvariant /\ [Next]_vars => RequestInvariant'
<1> SUFFICES ASSUME TypeOK, RequestInvariant, [Next]_vars PROVE RequestInvariant'
  OBVIOUS
<1>0. /\ IsTables(db) /\ IsTables(work) /\ tx \in Request
      /\ AreRows(db.operations) /\ \A o \in db.operations : o.session \in Session
      /\ tx.op # "none" => daemon # "down"
  BY DEF TypeOK, RequestInvariant
<1>1. CASE Ingest
  <2>1. PICK batch \in Batch : BeginSave(batch)
    BY <1>1 DEF Ingest
  <2>2. batch.events \in Seq(Event) /\ batch.operations \in Seq(Observation)
    BY BatchAssumption
  <2>3. /\ db' = db /\ work' = db /\ daemon' = daemon /\ daemon # "down"
        /\ calculator' = calculator
        /\ tx' = [Idle EXCEPT !.op = "save", !.events = batch.events,
                              !.operations = batch.operations]
    BY <2>1 DEF BeginSave, Begin
  <2>4. /\ tx'.op = "save" /\ tx'.events = batch.events
        /\ tx'.operations = batch.operations /\ tx'.victims = {}
    <3>1. tx' = SaveRequest(batch.events, batch.operations)
      BY <2>3 DEF SaveRequest
    <3> QED BY <2>2, <3>1, SaveRequestFields
  <2>5. /\ 0 \in 0 .. Len(batch.events) /\ 0 \in 0 .. Len(batch.operations)
        /\ Saving(db, db, calculator, tx', batch, 0, 0)
    BY <2>4, SavingBegins
  <2> QED BY <1>0, <2>3, <2>4, <2>5 DEF RequestInvariant
<1>2. CASE Delete
  <2>1. PICK s \in Session : BeginDelete(s)
    BY <1>2 DEF Delete
  <2>2. db' = db /\ work' = db /\ daemon' = daemon /\ daemon # "down"
    BY <2>1 DEF BeginDelete, Begin
  <2>3. /\ tx'.op = "delete" /\ tx'.events = <<>> /\ tx'.operations = <<>>
        /\ tx'.touched = {} /\ tx'.victims = {s}
    <3>1. PICK victims \in SUBSET Session :
            /\ tx' = [Idle EXCEPT !.op = "delete", !.victims = victims, !.codex = TRUE]
            /\ victims = {s}
      BY <2>1 DEF BeginDelete, Begin
    <3> QED BY <3>1, BegunDelete
  <2>4. Removing(db, db, tx', {s})
    BY <2>3, RemovingBegins
  <2> QED BY <1>0, <2>2, <2>3, <2>4 DEF RequestInvariant
<1>3. CASE BeginDeleteAll
  <2>1. db' = db /\ work' = NoRows /\ daemon' = daemon /\ daemon # "down"
    BY <1>3 DEF BeginDeleteAll, Begin
  <2>2. /\ tx'.op = "deleteAll" /\ tx'.events = <<>> /\ tx'.operations = <<>>
        /\ tx'.touched = {} /\ tx'.victims = {}
    BY <1>3, BegunDeleteAll DEF BeginDeleteAll, Begin
  <2>3. Removed(db, NoRows, Session)
    <3>1. /\ \A e \in db.events : e.session \in Session
          /\ \A c \in db.costs : c.session \in Session
          /\ \A r \in db.sessions : r.session \in Session
      BY <1>0, TablesFields, EventFields DEF CostRecord
    <3> QED BY <1>0, <3>1 DEF Removed, NoRows
  <2>4. Removing(db, NoRows, tx', Session)
    BY <2>2, <2>3 DEF Removing
  <2> QED BY <1>0, <2>1, <2>2, <2>4 DEF RequestInvariant
<1>4. CASE BeginRetention
  <2>0. PICK read \in due : RetentionBegins(read)
    BY <1>4 DEF BeginRetention, RetentionBegins
  <2>1. read \in Int /\ ExpiredSessions(db, read) \subseteq Session
    BY <1>0, TablesFields DEF ExpiredSessions, TypeOK
  <2>2. db' = db /\ work' = db /\ daemon' = daemon /\ daemon # "down"
    BY <2>0 DEF RetentionBegins, Begin
  <2>3. /\ tx'.op = "retain" /\ tx'.events = <<>> /\ tx'.operations = <<>>
        /\ tx'.touched = {} /\ tx'.cutoff = read
        /\ tx'.victims = ExpiredSessions(db, read)
    <3>1. PICK victims \in SUBSET Session, cutoff \in Int :
            /\ tx' = [Idle EXCEPT !.op = "retain", !.codex = TRUE, !.cutoff = cutoff,
                                  !.victims = victims]
            /\ cutoff = read /\ victims = ExpiredSessions(db, read)
      BY <2>0, <2>1 DEF RetentionBegins, Begin
    <3>2. tx' = [Idle EXCEPT !.op = "retain", !.codex = TRUE, !.cutoff = cutoff,
                             !.victims = victims]
      BY <3>1
    <3>3. /\ tx'.op = "retain" /\ tx'.events = <<>> /\ tx'.operations = <<>>
          /\ tx'.touched = {} /\ tx'.cutoff = cutoff /\ tx'.victims = victims
      BY <3>2, BegunRetention
    <3> QED BY <3>1, <3>3
  <2>4. Removing(db, db, tx', ExpiredSessions(db, tx'.cutoff))
    BY <2>3, RemovingBegins
  <2> QED BY <1>0, <2>2, <2>3, <2>4 DEF RequestInvariant
<1>5. CASE Work
  <2>1. CASE SaveEvent
    <3>1. /\ db' = db /\ work' = SavedEvent(work, Head(tx.events))
          /\ daemon' = daemon /\ calculator' = calculator
          /\ tx.events # <<>>
          /\ tx'.op = tx.op /\ tx'.cutoff = tx.cutoff /\ tx'.events = Tail(tx.events)
          /\ tx'.operations = tx.operations /\ tx'.victims = tx.victims
      BY <1>0, <2>1, RequestSaveEvent DEF SaveEvent, Working
    <3>2. ASSUME NEW batch \in Batch, NEW n \in 0 .. Len(batch.events),
                 NEW m \in 0 .. Len(batch.operations),
                 Saving(db, work, calculator, tx, batch, n, m)
          PROVE  \E k \in 0 .. Len(batch.events), l \in 0 .. Len(batch.operations) :
                    Saving(db, work', calculator', tx', batch, k, l)
      <4>1. /\ n + 1 \in 0 .. Len(batch.events)
            /\ Saving(db, SavedEvent(work, Head(tx.events)), calculator, tx', batch, n + 1, m)
        BY <1>0, <3>1, <3>2, SavingAnEvent
      <4> QED BY <3>1, <4>1
    <3>3. ASSUME NEW gone PROVE ~Removing(db, work, tx, gone)
      BY <3>1 DEF Removing
    <3> QED BY <3>1, <3>2, <3>3, RequestGoesOn
  <2>2. ASSUME NEW s \in Session, RebuildSession(s)
        PROVE  RequestInvariant'
    <3>1. /\ db' = db /\ work' = RebuiltSession(work, s)
          /\ daemon' = daemon /\ calculator' = calculator
          /\ tx.touched # {}
          /\ tx'.op = tx.op /\ tx'.cutoff = tx.cutoff /\ tx'.events = tx.events
          /\ tx'.operations = tx.operations /\ tx'.victims = tx.victims
      BY <1>0, <2>2, RequestRebuild DEF RebuildSession, Working
    <3>2. /\ work'.events = work.events /\ work'.costs = work.costs
          /\ work'.operations = work.operations
      <4>1. CASE SessionEvents(work.events, s) = {}
        BY <3>1, <4>1 DEF RebuiltSession
      <4>2. CASE SessionEvents(work.events, s) # {}
        BY <1>0, <3>1, <4>2, RebuiltSessionFields
      <4> QED BY <4>1, <4>2
    <3>3. ASSUME NEW batch \in Batch, NEW n \in 0 .. Len(batch.events),
                 NEW m \in 0 .. Len(batch.operations),
                 Saving(db, work, calculator, tx, batch, n, m)
          PROVE  Saving(db, work', calculator', tx', batch, n, m)
      BY <3>1, <3>2, <3>3, SavingGoesOn
    <3>4. ASSUME NEW gone PROVE ~Removing(db, work, tx, gone)
      BY <3>1 DEF Removing
    <3> QED BY <3>1, <3>3, <3>4, RequestGoesOn
  <2>3. ASSUME NEW s \in Session, DeleteSessionRows(s)
        PROVE  RequestInvariant'
    <3>1. /\ db' = db /\ work' = DeletedSession(work, s)
          /\ daemon' = daemon /\ calculator' = calculator
          /\ s \in tx.victims
          /\ tx'.op = tx.op /\ tx'.cutoff = tx.cutoff /\ tx'.events = tx.events
          /\ tx'.operations = tx.operations /\ tx'.victims = tx.victims \ {s}
          /\ tx'.touched = tx.touched
      BY <1>0, <2>3, RequestDeleteRows DEF DeleteSessionRows, Working
    <3>2. ASSUME NEW batch, NEW n, NEW m
          PROVE  ~Saving(db, work, calculator, tx, batch, n, m)
      BY <3>1 DEF Saving
    <3>3. ASSUME NEW gone, Removing(db, work, tx, gone)
          PROVE  Removing(db, work', tx', gone)
      BY <3>1, <3>3, RemovingASession
    <3> QED BY <3>1, <3>2, <3>3, RequestGoesOn
  <2>4. CASE RebuildCodexAgentRelations
    <3>1. /\ db' = db /\ work' = RebuiltCodex(work)
          /\ daemon' = daemon /\ calculator' = calculator
          /\ tx'.op = tx.op /\ tx'.cutoff = tx.cutoff /\ tx'.events = tx.events
          /\ tx'.operations = tx.operations /\ tx'.victims = tx.victims
          /\ tx'.touched = tx.touched
      BY <1>0, <2>4, RequestRebuildCodex DEF RebuildCodexAgentRelations, Working
    <3>2. /\ work'.events = work.events /\ work'.costs = work.costs
          /\ work'.operations = work.operations /\ work'.sessions = work.sessions
      BY <1>0, <3>1, RebuiltCodexFields
    <3>3. ASSUME NEW batch \in Batch, NEW n \in 0 .. Len(batch.events),
                 NEW m \in 0 .. Len(batch.operations),
                 Saving(db, work, calculator, tx, batch, n, m)
          PROVE  Saving(db, work', calculator', tx', batch, n, m)
      BY <3>1, <3>2, <3>3, SavingGoesOn
    <3>4. ASSUME NEW gone, Removing(db, work, tx, gone)
          PROVE  Removing(db, work', tx', gone)
      BY <3>1, <3>2, <3>4, RemovingGoesOn
    <3> QED BY <3>1, <3>3, <3>4, RequestGoesOn
  <2>5. CASE SaveOperation
    <3>1. /\ db' = db
          /\ work' = [work EXCEPT !.operations = StoreOperation(@, Head(tx.operations))]
          /\ daemon' = daemon /\ calculator' = calculator
          /\ tx.operations # <<>>
          /\ tx'.op = tx.op /\ tx'.cutoff = tx.cutoff /\ tx'.events = tx.events
          /\ tx'.operations = Tail(tx.operations) /\ tx'.victims = tx.victims
      BY <1>0, <2>5, RequestSaveOperation DEF SaveOperation, Working
    <3>2. ASSUME NEW batch \in Batch, NEW n \in 0 .. Len(batch.events),
                 NEW m \in 0 .. Len(batch.operations),
                 Saving(db, work, calculator, tx, batch, n, m)
          PROVE  \E k \in 0 .. Len(batch.events), l \in 0 .. Len(batch.operations) :
                    Saving(db, work', calculator', tx', batch, k, l)
      <4>1. /\ m + 1 \in 0 .. Len(batch.operations)
            /\ Saving(db,
                      [work EXCEPT !.operations = StoreOperation(@, Head(tx.operations))],
                      calculator, tx', batch, n, m + 1)
        BY <1>0, <3>1, <3>2, SavingAnOperation
      <4> QED BY <3>1, <4>1
    <3>3. ASSUME NEW gone PROVE ~Removing(db, work, tx, gone)
      BY <3>1 DEF Removing
    <3> QED BY <3>1, <3>2, <3>3, RequestGoesOn
  <2>6. CASE Commit
    <3>1. db' = work /\ tx'.op = "none" /\ tx.op # "none"
      BY <2>6, IdleType DEF Commit
    <3> QED BY <3>1, RowsOfRequest DEF RequestInvariant
  <2> QED BY <1>5, <2>1, <2>2, <2>3, <2>4, <2>5, <2>6 DEF Work
<1>6. CASE Rollback \/ Crash
  BY <1>6, IdleType, RequestIdle DEF Rollback, Crash
<1>7. CASE Start
  <2>1. db' = db /\ tx' = tx /\ tx.op = "none"
    BY <1>0, <1>7 DEF Start
  <2> QED BY <2>1, RequestIdle
<1>8. CASE Tick \/ PlanRetention \/ UNCHANGED vars
  BY <1>8 DEF Tick, PlanRetention, vars, RequestInvariant
<1> QED BY <1>1, <1>2, <1>3, <1>4, <1>5, <1>6, <1>7, <1>8 DEF Next

\* What each open transaction has done so far, in every state: the invariant
\* behind the theorems below.
THEOREM RequestCorrect == Spec => []RequestInvariant
<1>1. Init => TypeOK /\ RequestInvariant
  BY TypeInit, RequestInit
<1>2. (TypeOK /\ RequestInvariant) /\ [Next]_vars => (TypeOK /\ RequestInvariant)'
  BY TypeNext, RequestNext
<1> QED BY <1>1, <1>2, PTL DEF Spec

-----------------------------------------------------------------------------
(***************************************************************************)
(* What a commit does to the stored tables.                                *)
(***************************************************************************)
LEMMA OnlyCommitWrites == [Next]_vars => db' = db \/ Commit
BY DEF vars, Next, Ingest, Delete, BeginSave, BeginDelete, BeginDeleteAll, PlanRetention,
       BeginRetention, Begin, Work, SaveEvent, RebuildSession, DeleteSessionRows,
       RebuildCodexAgentRelations, SaveOperation, Working, Rollback, Crash, Start, Tick

LEMMA CommittedSave ==
    ASSUME RequestInvariant, Commit, tx.op = "save"
    PROVE  \E batch \in Batch :
            Saved(db, db', calculator, batch, Len(batch.events), Len(batch.operations))
<1>1. db' = work /\ tx.events = <<>> /\ tx.operations = <<>>
  BY DEF Commit, Drained
<1>2. PICK batch \in Batch :
        \E n \in 0 .. Len(batch.events), m \in 0 .. Len(batch.operations) :
            Saving(db, work, calculator, tx, batch, n, m)
  BY DEF RequestInvariant
<1>3. PICK n \in 0 .. Len(batch.events), m \in 0 .. Len(batch.operations) :
        Saving(db, work, calculator, tx, batch, n, m)
  BY <1>2
<1>4. batch.events \in Seq(Event) /\ batch.operations \in Seq(Observation)
  BY BatchAssumption
<1>5. Rest(<<>>, batch.events, n) /\ Rest(<<>>, batch.operations, m)
  BY <1>1, <1>3 DEF Saving
<1>6. n = Len(batch.events) /\ m = Len(batch.operations)
  BY <1>4, <1>5, RestIsOver
<1> QED BY <1>1, <1>3, <1>6 DEF Saving

LEMMA CommittedRemoval ==
    ASSUME NEW gone, Removing(db, work, tx, gone), Commit
    PROVE  Removed(db, db', gone)
<1>1. db' = work /\ tx.victims = {} /\ gone \ {} = gone
  BY DEF Commit, Drained
<1> QED BY <1>1 DEF Removing

LEMMA CommittedForget ==
    ASSUME TypeOK, RequestInvariant, Commit, tx.op # "save"
    PROVE  \E gone \in SUBSET Session : Removed(db, db', gone)
<1>1. CASE tx.op = "delete"
  <2>1. PICK s \in Session : Removing(db, work, tx, {s})
    BY <1>1 DEF RequestInvariant
  <2> QED BY <2>1, CommittedRemoval
<1>2. CASE tx.op = "retain"
  <2>1. Removing(db, work, tx, ExpiredSessions(db, tx.cutoff))
    BY <1>2 DEF RequestInvariant
  <2>2. ExpiredSessions(db, tx.cutoff) \in SUBSET Session
    BY TablesFields DEF ExpiredSessions, TypeOK
  <2> QED BY <2>1, <2>2, CommittedRemoval
<1>3. CASE tx.op = "deleteAll"
  BY <1>3, CommittedRemoval DEF RequestInvariant
<1>4. tx.op \in {"delete", "retain", "deleteAll"}
  BY DEF TypeOK, Request, Commit
<1> QED BY <1>1, <1>2, <1>3, <1>4

LEMMA SessionsOfTable == \A events : SessionIds(SessionTable(events)) = SessionIds(events)
<1> TAKE events
<1>1. \A s : SessionRow(s, SessionEvents(events, s)).session = s
  BY DEF SessionRow
<1> DEFINE row(s) == SessionRow(s, SessionEvents(events, s))
<1>2. SessionTable(events) = {row(s) : s \in SessionIds(events)}
  BY DEF SessionTable
<1> HIDE DEF row
<1>3. {r.session : r \in {row(s) : s \in SessionIds(events)}} = SessionIds(events)
  BY <1>1 DEF row
<1> QED BY <1>2, <1>3 DEF SessionIds

-----------------------------------------------------------------------------
\* Whatever an ingest request carries, whatever it repeats and whenever it
\* commits, no stored event, cost or session goes away and no operation loses
\* what an earlier observation proved.
THEOREM IngestOnlyAddsCorrect == Spec => IngestOnlyAdds
<1> DEFINE Adds == tx.op = "save" =>
                    /\ db.events \subseteq db'.events
                    /\ db.costs \subseteq db'.costs
                    /\ SessionIds(db.sessions) \subseteq SessionIds(db'.sessions)
                    /\ Grows(db.operations, db'.operations)
<1>1. RequestInvariant /\ DerivedTablesAgree /\ DerivedTablesAgree' /\ [Next]_vars
        => [Adds]_vars
  <2> SUFFICES ASSUME RequestInvariant, DerivedTablesAgree, DerivedTablesAgree',
                      [Next]_vars, tx.op = "save"
               PROVE  /\ db.events \subseteq db'.events
                      /\ db.costs \subseteq db'.costs
                      /\ SessionIds(db.sessions) \subseteq SessionIds(db'.sessions)
                      /\ Grows(db.operations, db'.operations)
    OBVIOUS
  <2>1. CASE db' = db
    BY <2>1, GrowsItself
  <2>2. CASE Commit
    <3>1. PICK batch \in Batch :
            Saved(db, db', calculator, batch, Len(batch.events), Len(batch.operations))
      BY <2>2, CommittedSave
    <3>2. db.events \subseteq db'.events /\ db.costs \subseteq db'.costs
      BY <3>1 DEF Saved
    <3>3. SessionIds(db.sessions) \subseteq SessionIds(db'.sessions)
      <4>1. /\ SessionIds(db.sessions) = SessionIds(db.events)
            /\ SessionIds(db'.sessions) = SessionIds(db'.events)
        BY SessionsOfTable DEF DerivedTablesAgree
      <4> QED BY <3>2, <4>1 DEF SessionIds
    <3>4. Grows(db.operations, db'.operations)
      <4>1. batch.operations \in Seq(Observation) /\ Len(batch.operations) \in Nat
        BY BatchAssumption
      <4>2. \A k \in 1 .. Len(batch.operations) : IsOperation(batch.operations[k])
        BY <4>1, ObservationAssumption
      <4>3. db'.operations = StoredOperations(db.operations, batch.operations)
        BY <3>1 DEF Saved, StoredOperations
      <4>4. AreRows(db.operations)
        BY DEF RequestInvariant
      <4> QED BY <4>1, <4>2, <4>3, <4>4, StoredOperationsKept
    <3> QED BY <3>2, <3>3, <3>4
  <2> QED BY <2>1, <2>2, OnlyCommitWrites
<1> QED BY <1>1, RequestCorrect, DerivedTablesCorrect, PTL DEF Spec, IngestOnlyAdds

\* An ingest request whose events are all stored changes no cost, no session,
\* no signal and no relation, in whichever order and from whichever catalog.
THEOREM ReplayIsSilentCorrect == Spec => ReplayIsSilent
<1> DEFINE Silent == (tx.op = "save" /\ db'.events = db.events) =>
                        /\ db'.costs = db.costs
                        /\ db'.sessions = db.sessions
                        /\ db'.signals = db.signals
                        /\ db'.relations = db.relations
<1>1. RequestInvariant /\ DerivedTablesAgree /\ DerivedTablesAgree' /\ [Next]_vars
        => [Silent]_vars
  <2> SUFFICES ASSUME RequestInvariant, DerivedTablesAgree, DerivedTablesAgree',
                      [Next]_vars, tx.op = "save", db'.events = db.events
               PROVE  db'.costs = db.costs
    BY DEF DerivedTablesAgree
  <2>1. CASE Commit
    <3>1. PICK batch \in Batch :
            Saved(db, db', calculator, batch, Len(batch.events), Len(batch.operations))
      BY <2>1, CommittedSave
    <3> DEFINE copies == FirstCopies(db.events, batch.events, Len(batch.events))
    <3>2. \A f \in copies : \A e \in db.events : e.id # f.id
      BY DEF FirstCopies
    <3>3. copies \subseteq db.events
      BY <3>1 DEF Saved
    <3>4. copies = {}
      <4> HIDE DEF copies
      <4> QED BY <3>2, <3>3
    <3>5. db'.costs = db.costs \cup Costed(copies, calculator)
      BY <3>1 DEF Saved
    <3> HIDE DEF copies
    <3> QED BY <3>4, <3>5, CostedNone
  <2> QED BY <2>1, OnlyCommitWrites
<1> QED BY <1>1, RequestCorrect, DerivedTablesCorrect, PTL DEF Spec, ReplayIsSilent

\* Retention removes the sessions that had started before the cutoff it read
\* when it began, with their events, costs and operations, and nothing else.
THEOREM RetentionIsExactCorrect == Spec => RetentionIsExact
<1> DEFINE Exact == (tx.op = "retain" /\ db' # db) =>
                     LET gone == ExpiredSessions(db, tx.cutoff)
                     IN  /\ db'.sessions = {r \in db.sessions : r.session \notin gone}
                         /\ db'.events = {e \in db.events : e.session \notin gone}
                         /\ db'.costs = {c \in db.costs : c.session \notin gone}
                         /\ db'.operations = {o \in db.operations : o.session \notin gone}
<1>1. RequestInvariant /\ [Next]_vars => [Exact]_vars
  <2> SUFFICES ASSUME RequestInvariant, [Next]_vars, tx.op = "retain", db' # db
               PROVE  Removed(db, db', ExpiredSessions(db, tx.cutoff))
    BY DEF Removed
  <2>1. Commit
    BY OnlyCommitWrites
  <2> QED BY <2>1, CommittedRemoval DEF RequestInvariant
<1> QED BY <1>1, RequestCorrect, PTL DEF Spec, RetentionIsExact

-----------------------------------------------------------------------------
(***************************************************************************)
(* The refinement.                                                         *)
(***************************************************************************)
LEMMA PromisedInit == Init => Promise!Init
<1> SUFFICES ASSUME Init PROVE Promise!Init
  OBVIOUS
<1>1. TablesInvariant
  BY TablesInit
<1>2. View(db) = Derived(db.events)
  BY <1>1, AgreeingTables DEF DerivedTablesAgree, View, Derived
<1> QED BY <1>2 DEF Init, NoRows, Promise!Init

LEMMA PromisedNewEvents ==
    ASSUME NEW batch \in Batch
    PROVE  Promise!NewEvents(batch.events)
             = FirstCopies(db.events, batch.events, Len(batch.events))
<1>1. batch.events \in Seq(Event)
  BY BatchAssumption
<1>2. DOMAIN batch.events = 1 .. Len(batch.events)
  BY <1>1
<1> QED BY <1>2 DEF Promise!NewEvents, FirstCopies

LEMMA PromisedNext ==
    TypeOK /\ RequestInvariant /\ DerivedTablesAgree' /\ [Next]_vars
        => [Promise!Next]_(Promise!vars)
<1> SUFFICES ASSUME TypeOK, RequestInvariant, DerivedTablesAgree', [Next]_vars
             PROVE  [Promise!Next]_(Promise!vars)
  OBVIOUS
<1>1. CASE db' = db
  BY <1>1 DEF Promise!vars, View
<1>2. CASE Commit
  <2>1. View(db)' = Derived(db'.events)
    BY DEF DerivedTablesAgree, View, Derived
  <2>2. CASE tx.op = "save"
    <3>1. PICK batch \in Batch :
            Saved(db, db', calculator, batch, Len(batch.events), Len(batch.operations))
      BY <1>2, <2>2, CommittedSave
    <3> DEFINE copies == FirstCopies(db.events, batch.events, Len(batch.events))
    <3>2. /\ db'.events = db.events \cup copies
          /\ db'.costs = db.costs \cup Costed(copies, calculator)
          /\ db'.operations = StoredOperations(db.operations, batch.operations)
      BY <3>1 DEF Saved, StoredOperations
    <3>3. Promise!NewEvents(batch.events) = copies
      BY PromisedNewEvents
    <3>4. Costed(copies, calculator)
            = {Promise!Cost(e, calculator) :
                e \in IF calculator = Promise!NoCalculator THEN {} ELSE copies}
      BY DEF Costed, Promise!Cost, Promise!NoCalculator, NoCalculator
    <3> HIDE DEF copies
    <3>5. calculator \in Calculator
      BY DEF TypeOK
    <3>6. Promise!Accept(batch)
      BY <2>1, <3>2, <3>3, <3>4, <3>5 DEF Promise!Accept
    <3> QED BY <3>6 DEF Promise!Next
  <2>3. CASE tx.op # "save"
    <3>1. PICK gone \in SUBSET Session : Removed(db, db', gone)
      BY <1>2, <2>3, CommittedForget
    <3>2. Promise!Forget(gone)
      BY <2>1, <3>1 DEF Removed, Promise!Forget
    <3> QED BY <3>2 DEF Promise!Next
  <2> QED BY <2>2, <2>3
<1> QED BY <1>1, <1>2, OnlyCommitWrites

\* The repository, with its transactions, failures and restarts, behaves for
\* its callers like a store that takes whole requests and forgets whole
\* sessions, and whose derived tables always are those of its events.
THEOREM RetainedStoreImplemented == Spec => ImplementsRetainedStore
<1>1. Init => Promise!Init
  BY PromisedInit
<1>2. TypeOK /\ RequestInvariant /\ DerivedTablesAgree' /\ [Next]_vars
        => [Promise!Next]_(Promise!vars)
  BY PromisedNext
<1> QED BY <1>1, <1>2, TypeCorrect, RequestCorrect, DerivedTablesCorrect, PTL
        DEF Spec, ImplementsRetainedStore, Promise!Spec
=============================================================================
