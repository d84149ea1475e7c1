------------------------------ MODULE Events ------------------------------
(***************************************************************************)
(* The canonical event (internal/normalize/canonical) reduced to what the  *)
(* storage layer reads of it, and the order in which SQLite returns a      *)
(* session's events.                                                       *)
(*                                                                         *)
(* An event identifier is a natural number: the rank of its text among the *)
(* identifiers, so "<" is the order of "ORDER BY ..., event_id".  An       *)
(* instant is a natural number of ticks, TicksPerSecond of them to the     *)
(* second.  The empty string stands for an absent string, as in the code.  *)
(***************************************************************************)
EXTENDS Integers, FiniteSets

CONSTANTS
    Event,           \* the events the provider adapters can produce
    Session,         \* session identifiers
    TicksPerSecond   \* resolution of an instant: at most one decimal digit

None == ""

Tools == {"codex", "claude-code", "cursor", "cursor-agent"}

\* Session states that lifecycle() reads off the suffix of an event type.
LifecycleStates == {"created", "active", "completed", "failed", "cancelled",
                    "abandoned"}

terminal(state) == state \in {"completed", "failed", "cancelled", "abandoned"}

(***************************************************************************)
(* The record a Codex rollout line carries.  Thread identifiers are the    *)
(* session identifiers (the code strips and restores the prefix).          *)
(***************************************************************************)
RolloutKinds == {"session_meta", "task_started", "task_complete",
                 "turn_aborted", "activity", "operation"}

RolloutBody == [kind : RolloutKinds,
                thread : Session \cup {None},  \* parent_thread_id or agent_thread_id
                word : STRING]                 \* trace, reason, activity or item id

SpanBody == [kind : {"span"}, trace : STRING, span : STRING,
             parentSpan : STRING, agent : STRING, parentAgent : STRING,
             type : STRING,
             order : Nat]                      \* rank of (ordering_key, span_id)

OtherBody == [kind : {"other"}]

EventRecord == [id : Nat,
                session : Session,
                tool : Tools,
                at : Nat,                              \* occurred_at
                life : LifecycleStates \cup {None},    \* lifecycle(event_type)
                model : STRING,                        \* attributes.model
                thin : BOOLEAN,                        \* thinInsightEvent keeps it
                detection : 1 .. 4,                    \* detectionRank of its state
                accesses : Nat,                        \* AccessObservations it carries
                body : RolloutBody \cup SpanBody \cup OtherBody]

ASSUME EventsAreRecords == Event \subseteq EventRecord

\* A session identifier starts with the name of the tool that reported it.
ASSUME SessionToolAssumption ==
    \A e, f \in Event :
        (e.session = f.session /\ e.tool = "claude-code") => f.tool = "claude-code"

ASSUME ResolutionAssumption == TicksPerSecond \in 1 .. 10

\* event.Tool == "codex" && event.SourceSchema == "codex_rollout_jsonl"
IsRollout(e) == e.tool = "codex" /\ e.body.kind \in RolloutKinds

\* event_id is the primary key of the events table.
UniqueIds(events) == \A e, f \in events : e.id = f.id => e = f

SessionEvents(events, s) == {e \in events : e.session = s}

SessionIds(events) == {e.session : e \in events}

RolloutEvents(events) == {e \in events : IsRollout(e)}

-----------------------------------------------------------------------------
(***************************************************************************)
(* Timestamps are stored as text in the layout                             *)
(* 2006-01-02T15:04:05.999999999Z07:00, which drops trailing zeros and the *)
(* point of a whole second, and SQLite compares the text byte by byte.     *)
(* With one decimal digit, "05Z" sorts after "05.1Z" ... "05.9Z", because  *)
(* "." precedes "Z": a whole second takes the last place of its second.    *)
(***************************************************************************)
TextRank(at) == IF at % TicksPerSecond = 0
                THEN at + TicksPerSecond - 1
                ELSE at - 1

\* ORDER BY occurred_at, event_id
StoreBefore(e, f) ==
    \/ TextRank(e.at) < TextRank(f.at)
    \/ TextRank(e.at) = TextRank(f.at) /\ e.id < f.id

\* The first and the last row of a non-empty set of events read in that order.
StoreFirst(events) ==
    CHOOSE e \in events : \A f \in events \ {e} : StoreBefore(e, f)

StoreLast(events) ==
    CHOOSE e \in events : \A f \in events \ {e} : StoreBefore(f, e)

\* time.Time.After, the order of the instants themselves.
LatestInstant(events) ==
    CHOOSE t \in {e.at : e \in events} : \A e \in events : e.at <= t
=============================================================================
