------------------------------ MODULE Breakdown ------------------------------
(***************************************************************************)
(* The spans of a session, and how its time divides among planning, tool   *)
(* calls, model generation and waiting for the user.  Times are ticks,     *)
(* perMs of them to a millisecond; a session is [started, completed], its  *)
(* instants as optional numbers.                                           *)
(***************************************************************************)
EXTENDS InsightEvents

LOCAL INSTANCE SequencesExt
LOCAL INSTANCE FiniteSetsExt

-----------------------------------------------------------------------------
(***************************************************************************)
(* spans/projection.go: the spans of a session as records, one for each    *)
(* pair of trace and span however many events report it, and the pages of  *)
(* them.                                                                   *)
(***************************************************************************)
\* What the envelope has under a key, else the correlation of the event.
SpanNumber(e, key) ==
    FirstNumber(NumberAt(Extension(e, "span"), key), NumberAt(Extension(e, "correlation"), key))

IsSpanEvent(e) ==
    /\ "span" \in DOMAIN e.extensions
    /\ SpanNumber(e, "trace_id") # Absent /\ SpanNumber(e, "span_id") # Absent

Only(number) == CHOOSE n \in number : TRUE

SpanKey(e) == <<Only(SpanNumber(e, "trace_id")), Only(SpanNumber(e, "span_id"))>>

\* spanTime: a span without a start of its own starts at its event.
SpanStart(e) == Only(FirstNumber(NumberAt(Extension(e, "span"), "start"), {e.at}))

SpanFinish(e) == NumberAt(Extension(e, "span"), "finish")

\* spanDuration
Interval(e) ==
    CASE SpanFinish(e) = Absent -> "missing"
      [] \E finish \in SpanFinish(e) : finish < SpanStart(e) -> "invalid"
      [] OTHER -> "available"

\* recordFromEvent
SpanRecordOf(e, sources) ==
    [key |-> SpanKey(e), parent |-> SpanNumber(e, "parent_span_id"),
     name |-> StringAt(Extension(e, "span"), "name", e.type),
     start |-> SpanStart(e), finish |-> SpanFinish(e), interval |-> Interval(e),
     sources |-> sources]

\* Project: the first event of a span says what it is, all are its sources.
Project(events) ==
    LET reports(key) == {e \in events : IsSpanEvent(e) /\ SpanKey(e) = key}
        first(key) == CHOOSE e \in reports(key) : \A f \in reports(key) \ {e} : Before(e, f)
    IN  {SpanRecordOf(first(key), {e.id : e \in reports(key)}) :
            key \in {SpanKey(e) : e \in {f \in events : IsSpanEvent(f)}}}

\* recordLess, by the text of the start.
RecordBefore(r, s) ==
    \/ TextRank(r.start) < TextRank(s.start)
    \/ r.start = s.start /\ IdBefore(r.key, s.key)

SpanList(events) == Sorted(Project(events), RecordBefore)

\* setParentAvailability
ParentAvailability(r, page, all) ==
    LET parent == {<<r.key[1], p>> : p \in r.parent}
    IN  IF r.parent = Absent THEN "root"
        ELSE IF parent \subseteq {s.key : s \in page} THEN "loaded"
        ELSE IF parent \subseteq {s.key : s \in all} THEN "not_loaded"
        ELSE "absent"

-----------------------------------------------------------------------------
(***************************************************************************)
(* breakdown/breakdown.go.                                                 *)
(***************************************************************************)
Categories == {"planning", "tool_calls", "model_generation", "user_wait"}

\* categoryFromType, with the provider's prefix of a name stripped.
NamedCategory ==
    [llm_request |-> "model_generation", tool |-> "tool_calls", execution |-> "tool_calls",
     blocked_on_user |-> "user_wait", planning |-> "planning"]

\* The last word of a type or name is what tells them apart.
TypeWord(name) ==
    CASE name \in {"tool.execution", "claude_code.tool.execution"} -> "execution"
      [] name \in {"tool.blocked_on_user", "claude_code.tool.blocked_on_user"} -> "blocked_on_user"
      [] name \in {"tool", "claude_code.tool"} -> "tool"
      [] name \in {"llm_request", "claude_code.llm_request"} -> "llm_request"
      [] name \in {"planning", "claude_code.planning"} -> "planning"
      [] OTHER -> ""

CategoryOf(name) ==
    {NamedCategory[word] : word \in {TypeWord(name)} \cap DOMAIN NamedCategory}

\* codexTurnHasObservedModelResponse: the one span of Codex that has a category,
\* in the version that was reviewed, by the identity of its turn alone.
IsModelTurn(e, events) ==
    /\ e.surface = Codex /\ e.type = "session_task.turn"
    /\ StringAt(Extension(e, "source"), "version", "") = "0.155.1"
    /\ "turn.id" \in DOMAIN Extension(e, "span_attributes")
    /\ \E f \in events :
            /\ f.surface = Codex /\ f.session = e.session /\ f.type = "codex.sse_event"
            /\ StringAt(f.attributes, "model", "") # ""
            /\ NumberAt(Extension(f, "log_attributes"), "turn.id")
                    = NumberAt(Extension(e, "span_attributes"), "turn.id")

\* classify
EventCategory(e, events) ==
    LET typed == CategoryOf(StringAt(e.attributes, "span_type", ""))
    IN  IF IsModelTurn(e, events) THEN {"model_generation"}
        ELSE IF typed # {} THEN typed
        ELSE CategoryOf(StringAt(Extension(e, "span"), "name", e.type))

\* categoryIndex: of the events of a span the first one with a category.
SpanCategory(key, events) ==
    LET classified == {e \in events : /\ IsSpanEvent(e) /\ SpanKey(e) = key
                                      /\ EventCategory(e, events) # {}}
        first == CHOOSE e \in classified : \A f \in classified \ {e} : Before(e, f)
    IN  IF classified = {} THEN {} ELSE EventCategory(first, events)

\* parseInterval: available, and longer than nothing.
HasLength(r) == r.interval = "available" /\ \E finish \in r.finish : finish > r.start

\* collectIntervals: the intervals, and whether an invalid one was seen.
Intervals(events) ==
    UNION {{[start |-> r.start, finish |-> Only(r.finish), category |-> c, sources |-> r.sources]
                : c \in SpanCategory(r.key, events)}
            : r \in {s \in Project(events) : HasLength(s)}}

SawInvalid(events) ==
    \E r \in Project(events) :
        \/ r.interval # "available"
        \/ ~HasLength(r) /\ SpanCategory(r.key, events) # {}

\* observeWindow: the session from start to completion, else what its spans cover.
Window(events, session) ==
    LET timed == {r \in Project(events) : HasLength(r)}
    IN  IF \E s \in session.started, c \in session.completed : s < c THEN
                {<<Only(session.started), Only(session.completed)>>}
        ELSE IF timed # {} THEN
            {<<Min({r.start : r \in timed}), Max(UNION {r.finish : r \in timed})>>}
        ELSE {}

\* clipInterval
Clipped(interval, window) ==
    LET start == Max({interval.start, window[1]})
        finish == Min({interval.finish, window[2]})
    IN  IF start < finish THEN {start, finish} ELSE {}

\* boundaryPoints
Boundaries(intervals, window) ==
    {window[1], window[2]} \cup UNION {Clipped(i, window) : i \in intervals}

\* segment, coveringCategories, applySegment: the ticks that one category alone
\* covers, that more than one and that none does.
Share(bucket, intervals, window) ==
    LET ordered == Sorted(Boundaries(intervals, window), <)
        covering(a, b) == {i.category : i \in {j \in intervals : j.finish > a /\ j.start < b}}
        bucketOf(a, b) == CASE covering(a, b) = {} -> "unclassified"
                            [] Cardinality(covering(a, b)) = 1 -> Only(covering(a, b))
                            [] OTHER -> "overlap"
        segments == {n \in 1 .. Len(ordered) - 1 :
                        /\ ordered[n] >= window[1] /\ ordered[n] < window[2]
                        /\ bucketOf(ordered[n], ordered[n + 1]) = bucket}
    IN  MapThenSumSet(LAMBDA n : ordered[n + 1] - ordered[n], segments)

\* Mutant: every part is truncated.
MillisecondsTruncated(intervals, window, perMs) ==
    [bucket \in Categories \cup {"overlap", "unclassified"} |->
        Share(bucket, intervals, window) \div perMs]

\* durationsToMilliseconds: what truncation loses is unclassified.
Milliseconds(intervals, window, perMs) ==
    LET ms == [bucket \in Categories \cup {"overlap"} |->
                    Share(bucket, intervals, window) \div perMs]
    IN  [bucket \in Categories \cup {"overlap", "unclassified"} |->
            IF bucket # "unclassified" THEN ms[bucket]
            ELSE Max({0, (window[2] - window[1]) \div perMs
                            - MapThenSumSet(LAMBDA b : ms[b], DOMAIN ms)})]

\* Calculate: nothing for a session without a window or a classified span.
Calculate(events, session, perMs) ==
    {[window |-> window,
      durations |-> Milliseconds(Intervals(events), window, perMs),
      coverage |-> IF SawInvalid(events) THEN "partial" ELSE "complete"]
        : window \in {w \in Window(events, session) :
                        Intervals(events) # {} /\ w[2] - w[1] >= perMs}}
=============================================================================
