---------------------------- MODULE SessionTrace ----------------------------
(***************************************************************************)
(* ui/session_trace.go: the lanes on which the page of a session shows     *)
(* what happened in it.  Instants are milliseconds, and every event has    *)
(* one; a session is [started, completed], as optional numbers.            *)
(***************************************************************************)
EXTENDS Breakdown, Conversation, SessionFiles

LOCAL INSTANCE SequencesExt
LOCAL INSTANCE FiniteSetsExt
LOCAL INSTANCE TLC

Lanes == {"conversation", "agent", "tools", "files", "spans"}

\* What goes into a lane: the event it selects, and when.
Item(id, lane, at, duration) == [event |-> id, lane |-> lane, at |-> at, duration |-> duration]

\* classifyEventLane: events of the conversation have their lane already.
EventLane(e) ==
    IF e.type \in {"user_prompt", "assistant_response", "api_request_body",
                  "api_response_body"} THEN {}
    ELSE IF e.type \in {"model_interaction", "codex.sse_event", "api_request", "api_error",
                       "assistant_message", "session.active", "session.completed"} THEN {"agent"}
    ELSE IF e.type \in {"skill_invocation", "mcp_call", "mcp_server_connection", "tool_decision",
                       "codex.tool_decision"} THEN {"tools"}
    ELSE IF "operation_id" \in DOMAIN e.attributes THEN {"tools"}
    ELSE {}

\* spanLaneFromRecord
SpanLane(record) ==
    {IF category \in {"planning", "model_generation"} THEN "agent" ELSE "tools" :
        category \in CategoryOf(record.name)}

\* spanTraceItems: a span is in its own lane and in that of what it is a span of.
SpanItems(record) ==
    LET source == CHOOSE i \in record.sources : \A j \in record.sources \ {i} : IdBefore(i, j)
        duration == IF record.interval = "available"
                    THEN {finish - record.start : finish \in record.finish} ELSE Absent
    IN  {Item(source, lane, record.start, duration) : lane \in {"spans"} \cup SpanLane(record)}

\* collectTraceItems
Items(events, operations) ==
    {Item(e.id, "conversation", e.at, Absent) : e \in ConversationRecords(events)}
    \cup UNION {{Item(e.id, lane, e.at, NumberAt(e.attributes, "duration_ms")) :
                    lane \in EventLane(e)} : e \in events}
    \cup {Item(row.event, "files", row.at, row.duration) : row \in FileRows(events, operations)}
    \cup UNION {SpanItems(record) : record \in Project(events)}

\* traceWindow, traceItemBounds, resolveTraceOrigin, resolveTraceEnd, traceWindowMs:
\* from the start of the session to its end or that of its last item.  The
\* window of points at one instant is one millisecond.
ItemEnd(item) == item.at + FoldSet(LAMBDA d, sum : d + sum, 0, item.duration)

Origin(items, session) ==
    FirstNumber(session.started, {m \in {item.at : item \in items} :
                                    \A item \in items : m <= item.at})

WindowLength(items, session) ==
    LET ends == session.completed \cup {ItemEnd(item) : item \in items}
        length == {Max(ends) - o : o \in IF ends = {} THEN {} ELSE Origin(items, session)}
    IN  IF \E l \in length : l > 0 THEN Only(length)
        ELSE IF items # {} THEN 1
        ELSE 0

\* markerFromItem: what is before the window is at its start.
Offset(item, items, session) ==
    Max({0} \cup {item.at - o : o \in Origin(items, session)})

Marker(item, items, session) == item @@ [offset |-> Offset(item, items, session)]

\* sortTraceMarkers
MarkerBefore(m, n) ==
    m.offset < n.offset \/ (m.offset = n.offset /\ IdBefore(m.event, n.event))

-----------------------------------------------------------------------------
FlowSlots == 5

\* Mutant: a group is closed by the first marker that is too late for it.
BucketsDroppingLast(markers, window) ==
    LET slot == Max({1, window \div FlowSlots})
        put(groups, m) ==
            IF groups # << >> /\ m.offset < Head(Last(groups)).offset + slot
            THEN [groups EXCEPT ![Len(groups)] = Append(@, m)]
            ELSE Append(groups, << m >>)
    IN  Front(FoldLeft(put, << >>, markers))

\* bucketFlowMarkers: a group is what comes within a slot of its first marker.
Buckets(markers, window) ==
    LET slot == Max({1, window \div FlowSlots})
        put(groups, m) ==
            IF groups # << >> /\ m.offset < Head(Last(groups)).offset + slot
            THEN [groups EXCEPT ![Len(groups)] = Append(@, m)]
            ELSE Append(groups, << m >>)
    IN  FoldLeft(put, << >>, markers)

\* foldLaneFlow: a crowded lane is folded.
Groups(markers, window) ==
    IF Len(markers) > FlowSlots /\ window > 0 THEN Buckets(markers, window)
    ELSE [i \in DOMAIN markers |-> << markers[i] >>]

\* flowNode, flowGroupSpan: a node selects its first event and has all as members.
FlowNode(group, bars) ==
    LET end(m) == m.offset + FoldSet(LAMBDA d, sum : d + sum, 0, m.duration)
    IN  [event |-> group[1].event, offset |-> group[1].offset,
         members |-> [i \in DOMAIN group |-> group[i].event],
         finish |-> IF bars THEN Max({end(m) : m \in Range(group)}) ELSE group[1].offset]

\* buildSessionTrace, buildTraceLanes: the nodes of each lane.
Trace(events, operations, session) ==
    LET items == Items(events, operations)
        markers == {Marker(item, items, session) : item \in items}
    IN  [lane \in Lanes |->
            LET groups == Groups(Sorted({m \in markers : m.lane = lane}, MarkerBefore),
                                 WindowLength(items, session))
            IN  [i \in DOMAIN groups |-> FlowNode(groups[i], lane = "spans")]]
=============================================================================
