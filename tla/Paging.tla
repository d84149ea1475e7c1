------------------------------- MODULE Paging -------------------------------
(***************************************************************************)
(* A client walks one of the lists the daemon serves in pages, while       *)
(* events are ingested and sessions deleted between its requests and       *)
(* between the statements of one request.                                  *)
(*                                                                         *)
(* Sessions and events are paged by key: the next page is the rows after   *)
(* the last one shown, and every page is one SELECT.  The conversation,    *)
(* the files, the spans and the dashboard's conversation are computed from *)
(* all events of the session, read in parts, and paged by position: the    *)
(* next page starts behind the last row shown, wherever that row is now.   *)
(***************************************************************************)
EXTENDS Events, Sequences

CONSTANTS
    List,          \* the lists clients walk
    Content,       \* events IsConversationEvent accepts
    Transcript,    \* those of session transcripts: user_message, assistant_message
    SessionRank,   \* the order of session identifiers
    PageLimit,     \* rows of a page
    ReadLimit,     \* events of one part, 1000 in the code
    MaxDeletes     \* bound on deletions

Lists == {"sessions", "events", "conversation", "spans", "dashboard"}

ASSUME ListAssumption == List \subseteq Lists
ASSUME ContentAssumption == Transcript \subseteq Content
ASSUME LimitAssumption == {PageLimit, ReadLimit} \subseteq Nat \ {0} /\ MaxDeletes \in Nat
ASSUME IdAssumption == UniqueIds(Event) /\ \A e \in Event : e.id > 0
\* Events that report one span carry its start: a replay is the same span.
ASSUME SpanAssumption ==
    \A e, f \in Event :
        (e.body.kind = "span" /\ f.body.kind = "span") =>
            /\ e.body.order > 0
            /\ (e.session = f.session /\ e.body.order = f.body.order) => e.at = f.at
ASSUME RankAssumption ==
    /\ SessionRank \in [Session -> Nat \ {0}]
    /\ \A s, t \in Session : SessionRank[s] = SessionRank[t] => s = t

\* A row is its instant and the rank of its identifier among those of its list.
Row == [at : Nat, rank : Nat]

NoRow == [at |-> 0, rank |-> 0]

EventRow(e) == [at |-> e.at, rank |-> e.id]

SessionRow(events, s) ==
    [at |-> StoreFirst(SessionEvents(events, s)).at, rank |-> SessionRank[s]]

\* spans.Project: one row for each span, however many events report it.
SpanRows(events) ==
    {[at |-> e.at, rank |-> e.body.order] : e \in {f \in events : f.body.kind = "span"}}

Rows(list, events, s) ==
    CASE list = "sessions" -> {SessionRow(events, t) : t \in SessionIds(events)}
      [] list = "events" -> {EventRow(e) : e \in SessionEvents(events, s)}
      [] list = "spans" -> SpanRows(SessionEvents(events, s))
      [] OTHER -> {EventRow(e) : e \in SessionEvents(events, s) \cap Content}

\* Texts of timestamps, then identifiers; sessions come latest first.
KeyBefore(r, q) ==
    \/ TextRank(r.at) < TextRank(q.at)
    \/ TextRank(r.at) = TextRank(q.at) /\ r.rank < q.rank

Precedes(list, r, q) == IF list = "sessions" THEN KeyBefore(q, r) ELSE KeyBefore(r, q)

\* How many rows of a list come before one of them.
Position(list, rows, r) == Cardinality({q \in rows : Precedes(list, q, r)})

InOrder(list, rows) ==
    [i \in 1 .. Cardinality(rows) |-> CHOOSE r \in rows : Position(list, rows, r) = i - 1]

\* LIMIT: the first rows of those that are left.
Page(list, rest) ==
    SubSeq(InOrder(list, rest), 1,
           IF Cardinality(rest) > PageLimit THEN PageLimit ELSE Cardinality(rest))

\* Mutant: the condition on the cursor is not strict.
AfterKeyInclusive(list, rows, cursor) ==
    IF cursor = NoRow THEN rows ELSE {r \in rows : r = cursor \/ Precedes(list, cursor, r)}

\* Mutant: the condition on the cursor forgets rows of the same instant.
AfterKeyInstant(list, rows, cursor) ==
    IF cursor = NoRow THEN rows
    ELSE {r \in rows : Precedes(list, cursor, r) /\ r.at # cursor.at}

\* The condition the queries add for a cursor.
AfterKey(list, rows, cursor) ==
    IF cursor = NoRow THEN rows ELSE {r \in rows : Precedes(list, cursor, r)}

\* Page: behind the cursor, or from the first row if it is not there.
BehindCursor(list, rows, cursor) ==
    IF cursor \in rows THEN {r \in rows : Precedes(list, cursor, r)} ELSE rows

VARIABLES
    events,    \* the events stored
    deletes,   \* deletions so far
    walk,      \* the client
    steady     \* the events that have been stored since its walk began

vars == <<events, deletes, walk, steady>>

Walk == [list : Lists, session : Session,
         phase : {"idle", "asking", "reading", "ended", "refused"},
         cursor : Row, shown : Seq(Row),
         read : SUBSET Event,   \* the parts read so far
         part : Row]            \* the last event of the last part

TypeOK ==
    /\ events \subseteq Event
    /\ deletes \in 0 .. MaxDeletes
    /\ walk \in Walk
    /\ walk.phase # "reading" => walk.read = {} /\ walk.part = NoRow
    /\ steady \subseteq events

Begun(list, s) ==
    [list |-> list, session |-> s, phase |-> "asking", cursor |-> NoRow, shown |-> <<>>,
     read |-> {}, part |-> NoRow]

Init ==
    /\ events = {}
    /\ deletes = 0
    /\ \E list \in List, s \in Session : walk = [Begun(list, s) EXCEPT !.phase = "idle"]
    /\ steady = {}

-----------------------------------------------------------------------------
\* A client asks for the first page of a list.
Open(list, s) ==
    /\ walk.phase \in {"idle", "ended", "refused"}
    /\ walk' = Begun(list, s)
    /\ steady' = events
    /\ UNCHANGED <<events, deletes>>

\* A request begins: a list of one session looks that session up.
RequireSession ==
    /\ walk.phase = "asking"
    /\ walk' = [walk EXCEPT !.phase =
            IF walk.list = "sessions" \/ walk.session \in SessionIds(events)
            THEN "reading" ELSE "refused"]
    /\ UNCHANGED <<events, deletes, steady>>

\* The next page of the rows that are left, and a cursor if it is not the last.
Show(rest) ==
    LET page == Page(walk.list, rest)
        more == Cardinality(rest) > PageLimit
    IN  walk' = [walk EXCEPT
            !.shown = @ \o page,
            !.phase = IF more THEN "asking" ELSE "ended",
            !.cursor = IF more THEN page[Len(page)] ELSE NoRow,
            !.read = {},
            !.part = NoRow]

\* ListSessions and ListEvents: one statement.
ShowByKey ==
    /\ walk.phase = "reading"
    /\ walk.list \in {"sessions", "events"}
    /\ Show(AfterKey(walk.list, Rows(walk.list, events, walk.session), walk.cursor))
    /\ UNCHANGED <<events, deletes, steady>>

\* The first conversation page of the dashboard is computed from all events,
\* the further ones from four event types.
Wanted ==
    IF walk.list = "dashboard" /\ walk.cursor # NoRow THEN Content \ Transcript ELSE Event

\* The events of the session that are not read yet, by key.
Unread ==
    {e \in SessionEvents(events, walk.session) \cap Wanted :
        EventRow(e) \in AfterKey("events", {EventRow(e)}, walk.part)}

\* Mutant: every part is asked for with the cursor of the first one.
ReadPartAgain ==
    /\ walk.phase = "reading"
    /\ walk.list \notin {"sessions", "events"}
    /\ Cardinality(Unread) > ReadLimit
    /\ LET part == {e \in Unread : Cardinality({f \in Unread : StoreBefore(f, e)}) < ReadLimit}
       IN  walk' = [walk EXCEPT !.read = @ \cup part, !.part = NoRow]
    /\ UNCHANGED <<events, deletes, steady>>

\* The loop of insightSessionEvents: one statement for each part.
ReadPart ==
    /\ walk.phase = "reading"
    /\ walk.list \notin {"sessions", "events"}
    /\ Cardinality(Unread) > ReadLimit
    /\ LET part == {e \in Unread : Cardinality({f \in Unread : StoreBefore(f, e)}) < ReadLimit}
       IN  walk' = [walk EXCEPT !.read = @ \cup part, !.part = EventRow(StoreLast(part))]
    /\ UNCHANGED <<events, deletes, steady>>

\* The last part, and the page computed from all of them.  A span cursor that
\* names no span is refused.
ShowByPosition ==
    LET rows == Rows(walk.list, walk.read \cup Unread, walk.session)
    IN  /\ walk.phase = "reading"
        /\ walk.list \notin {"sessions", "events"}
        /\ Cardinality(Unread) <= ReadLimit
        /\ IF walk.list = "spans" /\ walk.cursor \notin rows \cup {NoRow}
           THEN walk' = [walk EXCEPT !.phase = "refused", !.read = {}, !.part = NoRow]
           ELSE Show(BehindCursor(walk.list, rows, walk.cursor))
        /\ UNCHANGED <<events, deletes, steady>>

-----------------------------------------------------------------------------
\* What ingest and deletion commit (module Repository).
Ingest(e) ==
    /\ e \notin events
    /\ events' = events \cup {e}
    /\ UNCHANGED <<deletes, walk, steady>>

Delete(s) ==
    /\ deletes < MaxDeletes
    /\ s \in SessionIds(events)
    /\ events' = events \ SessionEvents(events, s)
    /\ steady' = steady \cap events'
    /\ deletes' = deletes + 1
    /\ UNCHANGED walk

Serve == RequireSession \/ ShowByKey \/ ReadPart \/ ShowByPosition

Next ==
    \/ Serve
    \/ \E list \in List, s \in Session : Open(list, s)
    \/ \E e \in Event : Ingest(e)
    \/ \E s \in Session : Delete(s)

Spec == Init /\ [][Next]_vars

\* A client that has begun asks for the next page, and a request executes.
FairSpec == Spec /\ WF_vars(Serve)

-----------------------------------------------------------------------------
(***************************************************************************)
(* Properties.                                                             *)
(***************************************************************************)
\* A walk that came to its end has shown every row that was there all the
\* time: ingest and deletion around the cursor hide nothing, nor does the
\* reading in parts.
WalkMissesNothing ==
    walk.phase = "ended" =>
        \A r \in Rows(walk.list, steady, walk.session) :
            \E i \in DOMAIN walk.shown : walk.shown[i].rank = r.rank

\* Rows come in the order of the list, across all pages, so none comes twice;
\* a session can be seen again only further down, with an older start.  Lists
\* paged by position may start over when their session was deleted.
WalkInOrder ==
    \A j \in DOMAIN walk.shown : \A i \in 1 .. j - 1 :
        \/ Precedes(walk.list, walk.shown[i], walk.shown[j])
        \/ walk.list \notin {"sessions", "events"} /\ SessionEvents(steady, walk.session) = {}

\* Every walk comes to an end: no list makes a client ask for ever.
WalkEnds == walk.phase = "asking" ~> walk.phase \in {"ended", "refused"}

\* "Filtering out non-content events cannot make a caller skip retained
\* conversation evidence" (conversation/projection.go), on the dashboard.
DashboardMissesNothing == walk.list = "dashboard" => WalkMissesNothing
=============================================================================
