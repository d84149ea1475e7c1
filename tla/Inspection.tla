----------------------------- MODULE Inspection -----------------------------
(***************************************************************************)
(* What a reader of the daemon sees of its telemetry: the adapters turn    *)
(* payloads into events, the repository stores them and derives from them  *)
(* the rows of insight_signals, the insight engines and the policies read  *)
(* those rows alone, and the views of a session read its events.           *)
(*                                                                         *)
(* A world is a sequence of payloads [kind, receivedAt, body] that the     *)
(* tools may send, each as often as they like and in any order.            *)
(***************************************************************************)
EXTENDS Policies, InsightSource, SessionTrace, AgentTree, Costs

LOCAL INSTANCE SequencesExt
LOCAL INSTANCE FiniteSetsExt
LOCAL INSTANCE Functions

CONSTANTS
    Worlds,          \* the names of the worlds
    Payloads(_),     \* the payloads of a world
    PathRuleSets,    \* configured path rules
    KeywordSets,     \* configured sets of prompt rules
    MCPAllowlists,   \* configured lists of approved servers
    SkillAllowlists, \* configured lists of approved skills
    Thresholds,      \* thresholds of the context waste report
    SessionWindows,  \* starts and completions a session may be known by
    TicksPerMs       \* resolution of the breakdown

VARIABLES
    world,           \* what is sent
    events,          \* the events table
    operations,      \* the operations table
    signals          \* the insight_signals table

vars == <<world, events, operations, signals>>

Logs == INSTANCE ClaudeLogs
Metrics == INSTANCE ClaudeMetrics
Traces == INSTANCE ClaudeTraces
CodexLog == INSTANCE CodexLogs
CodexMetric == INSTANCE CodexMetrics
CodexTrace == INSTANCE CodexTraces
Cursor == INSTANCE CursorTelemetry

\* The events of a transcript are given as its adapter makes them.
Normalized(payload) ==
    CASE payload.kind = "claude_logs" -> Logs!LogEvents(payload.body)
      [] payload.kind = "claude_metrics" -> Metrics!MetricEvents(payload.body, payload.receivedAt)
      [] payload.kind = "claude_traces" -> Traces!TraceEvents(payload.body)
      [] payload.kind = "codex_logs" -> CodexLog!CodexLogEvents(payload.body, payload.receivedAt)
      [] payload.kind = "codex_metrics" ->
            CodexMetric!CodexMetricEvents(payload.body, payload.receivedAt)
      [] payload.kind = "codex_traces" -> CodexTrace!CodexTraceEvents(payload.body)
      [] payload.kind = "cursor_logs" ->
            Cursor!CursorLogEvents(payload.body, payload.receivedAt)
      [] payload.kind = "cursor_metrics" ->
            Cursor!CursorMetricEvents(payload.body, payload.receivedAt)
      [] payload.kind = "cursor_report" -> Cursor!ReportEvents(payload.body)
      [] payload.kind = "transcript" -> payload.body

ExtractedOperations(payload) ==
    IF payload.kind = "claude_logs" THEN Logs!LogOperations(payload.body) ELSE {}

\* What there is to ingest, normalised once.
Received ==
    [w \in Worlds |-> [i \in DOMAIN Payloads(w) |->
        [events |-> Normalized(Payloads(w)[i]),
         operations |-> ExtractedOperations(Payloads(w)[i])]]]

IsEvent(e) ==
    /\ e = [id |-> e.id, session |-> e.session, surface |-> e.surface, type |-> e.type,
            at |-> e.at, attributes |-> e.attributes, extensions |-> e.extensions]
    /\ e.id \in Nat \X Nat /\ e.at \in Nat
    /\ \A access \in Accesses(e) :
            access.method = "filesystem_read" => access.value \in Seq(STRING)

ASSUME EventsAssumption ==
    \A w \in Worlds : \A i \in DOMAIN Received[w] : \A e \in Received[w][i].events : IsEvent(e)

\* A prompt in a rollout of Codex is a record of its conversation like one of
\* Claude Code, but copyUserPromptEvidence keeps no row of it.
IsCodexPrompt(e) == e.surface = Codex /\ e.type = "user_prompt"

\* What the adapters write in no event: the identifier of a row or the reference
\* of one to its event, a namespace without a name, a path or command in a prompt
\* or a connection or under a key that an insight reads, and a value for an
\* insight in a prompt of Codex.
IsIngested(e) ==
    /\ e.id[2] = 0 /\ "source_event_id" \notin DOMAIN e.attributes
    /\ "" \notin DOMAIN e.extensions
    /\ IsFiniteSet(Accesses(e))
    /\ IsConnection(e) \/ e.type = "user_prompt" => Accesses(e) = {}
    /\ IsSource(e) => Accesses(Thin(e)) = {}
    /\ ~(IsCodexPrompt(e) /\ IsSource(e))

ASSUME AdaptersAssumption ==
    \A w \in Worlds : \A i \in DOMAIN Received[w] :
        /\ IsFiniteSet(Received[w][i].events)
        /\ \A e \in Received[w][i].events : IsIngested(e)

\* A pattern is a sequence of characters, none of which is one of its pieces.
ASSUME PatternsAssumption ==
    \A rules \in PathRuleSets : \A p \in rules.blocked \cup rules.allowed :
        p.kind = "exact" \/ p.value \in Seq(STRING \ {"**", "**/"})

\* INSERT OR IGNORE: of the rows with one identifier the first stays.
Inserted(rows, table) ==
    LET ids == {r.id : r \in rows} \ {r.id : r \in table}
    IN  table \cup {CHOOSE r \in rows : r.id = id : id \in ids}

OfSession(table, session) == {row \in table : row.session = session}

\* rebuildInsightSignals
Rebuilt(sessions, stored) ==
    {row \in signals : row.session \notin sessions}
        \cup UNION {SignalsOf(OfSession(stored, session)) : session \in sessions}

TypeOK ==
    /\ world \in Worlds
    /\ \A table \in {events, operations} : \A r, s \in table : r.id = s.id => r = s

Init == world \in Worlds /\ events = {} /\ operations = {} /\ signals = {}

\* SaveEventsAndOperations, in one transaction.
Ingest(payload) ==
    /\ events' = Inserted(payload.events, events)
    /\ operations' = Inserted(payload.operations, operations)
    /\ signals' = Rebuilt({e.session : e \in payload.events}, events')
    /\ UNCHANGED world

\* DeleteSession
Delete(session) ==
    /\ events' = events \ OfSession(events, session)
    /\ operations' = operations \ OfSession(operations, session)
    /\ signals' = signals \ OfSession(signals, session)
    /\ UNCHANGED world

Next ==
    \/ \E i \in DOMAIN Received[world] : Ingest(Received[world][i])
    \/ \E session \in {e.session : e \in events} : Delete(session)

Spec == Init /\ [][Next]_vars

-----------------------------------------------------------------------------
(***************************************************************************)
(* What the reports say                                                    *)
(***************************************************************************)
\* The server rows without the counts of output and of cache writes, which no
\* signal keeps for a request that has no other count.
InventoryRow(row) ==
    [key |-> row.key, server |-> row.server, invocations |-> row.invocations,
     tools |-> row.tools, context |-> row.context, input |-> row.tokens.input,
     cached |-> row.tokens.cached]

Reports(source) ==
    LET cards == Scorecards(source)
        inventory == MCPInventory(source)
    IN  [skills |-> SkillUsage(source), governance |-> GovernanceStates(source),
         integrations |-> IntegrationStates(source),
         servers |-> {InventoryRow(row) : row \in inventory},
         input |-> InventoryTokens(inventory, "input"), cards |-> cards,
         ranking |-> RankingAvailable(cards), metrics |-> PerformanceMetrics(source),
         waste |-> {ContextWaste(source, t) : t \in Thresholds}]

\* The insight reports never read the events, only what the rebuilds kept of
\* them session by session; they are the reports the events themselves would
\* give, whatever was ingested again, in which order, or deleted meanwhile.
ReportsFromSignals == Reports(signals) = Reports(events)

Decisions(source) ==
    [access |-> RiskyAccess(source),
     paths |-> [rules \in PathRuleSets |-> PathRules(source, rules)],
     servers |-> [allowed \in MCPAllowlists |-> UnapprovedMCP(source, allowed)]]

\* The tools that in some session say of no event which skill it is of.
SilentTools(stored) ==
    {<<e.session, e.surface>> : e \in stored}
        \ {<<e.session, e.surface>> : e \in {f \in stored : DetectionState(f) = "explicit"}}

\* The marker of a silent tool counts as a skill without a name.
SkillReport(stored, allowed) ==
    LET report == UnapprovedSkills(stored, allowed)
    IN  IF allowed = {} \/ report.outcome = "violation" \/ SilentTools(stored) = {} THEN report
        ELSE Report({}, "indeterminate", "partial")

\* Each policy decides over the signals as it would over the events: the same
\* outcome and visibility, and the same findings, each made as often and naming
\* the same event, although accesses and prompts are kept as rows of their own.
\* There are two exceptions, and no other.  The prompts of Codex are not scanned.
\* And where the list of skills is set and no skill violates it, one tool that is
\* silent in one session makes the report indeterminate: the markers that the
\* rebuild adds downgrade a complete decision.
PoliciesFromSignals ==
    LET scanned == {e \in events : ~IsCodexPrompt(e)}
    IN  /\ Decisions(signals) = Decisions(events)
        /\ \A allowed \in SkillAllowlists :
                UnapprovedSkills(signals, allowed) = SkillReport(events, allowed)
        /\ \A rules \in KeywordSets :
                PromptKeywords(signals, rules) = PromptKeywords(scanned, rules)

\* Each state of a session or an integration that was observed is shown as it was
\* at its latest instant, and so is a cumulative metric, although the rows are read
\* in the order of their text; a metric of changes is the sum of them.
LatestStateWins ==
    /\ LET shown == GovernanceStates(signals) \cup IntegrationStates(signals)
       IN  \A e \in signals : \A s \in GovernanceStatesOf(e) \cup IntegrationStatesOf(e) :
            \E r \in shown : r.key = s.key /\ (r = s \/ Before(s, r))
    /\ \A key \in DOMAIN PerformanceMetrics(signals) :
            LET samples == {e \in signals : IsSummary(e) /\ MetricKey(e) = key}
                row == PerformanceMetrics(signals)[key]
            IN  /\ row.at = Max({e.at : e \in samples})
                /\ IF key[7] = Delta
                   THEN /\ row.summary.count = TotalNumber(LAMBDA e : Summary(e).count, samples)
                        /\ row.summary.value = TotalNumber(LAMBDA e : Summary(e).value, samples)
                   ELSE \E e \in samples : e.at = row.at /\ Summary(e) = row.summary

\* What a policy reports of the stored telemetry, as outcomes.
Violations(source) ==
    {<<"access", 0>> : r \in {r \in {RiskyAccess(source)} : r.outcome = "violation"}}
    \cup {<<"path", rules>> : rules \in
            {s \in PathRuleSets : PathRules(source, s).outcome = "violation"}}
    \cup {<<"prompt", rules>> : rules \in
            {s \in KeywordSets : PromptKeywords(source, s).outcome = "violation"}}
    \cup {<<"server", list>> : list \in
            {s \in MCPAllowlists : UnapprovedMCP(source, s).outcome = "violation"}}
    \cup {<<"skill", list>> : list \in
            {s \in SkillAllowlists : UnapprovedSkills(source, s).outcome = "violation"}}

\* A violation that was reported stands while its telemetry is kept: no event
\* that comes later, nor a second telemetry of the same prompt, call or server,
\* takes it back.
ViolationsStand ==
    [][events \subseteq events' => Violations(signals) \subseteq Violations(signals')]_vars

-----------------------------------------------------------------------------
(***************************************************************************)
(* Path rules, against what a pattern means                                *)
(***************************************************************************)
\* The pieces of a pattern: "**/", "**", "*" or a character.
PiecesFrom(pieces, pattern, i) ==
    IF i > Len(pattern) THEN << >>
    ELSE IF pattern[i] = "*" /\ IsAt(pattern, i + 1, "*") THEN
        IF IsAt(pattern, i + 2, "/") THEN <<"**/">> \o pieces[i + 3] ELSE <<"**">> \o pieces[i + 2]
    ELSE << pattern[i] >> \o pieces[i + 1]

RestPieces(pattern) ==
    LET pieces[i \in 1 .. Len(pattern) + 1] == PiecesFrom(pieces, pattern, i)
    IN  pieces

Pieces(pattern) == RestPieces(pattern)[1]

PieceMatches(piece, text) ==
    CASE piece = "**/" -> text = << >> \/ text[Len(text)] = "/"
      [] piece = "**" -> TRUE
      [] piece = "*" -> \A m \in DOMAIN text : text[m] # "/"
      [] piece = "?" -> Len(text) = 1 /\ text[1] # "/"
      [] OTHER -> text = << piece >>

\* A pattern matches a path that can be cut into texts for its pieces.
Means(pattern, path) ==
    LET pieces == Pieces(pattern)
        k == Len(pieces)
    IN  \E cut \in [0 .. k -> 0 .. Len(path)] :
            /\ cut[0] = 0 /\ cut[k] = Len(path)
            /\ \A i \in 1 .. k :
                    /\ cut[i - 1] <= cut[i]
                    /\ PieceMatches(pieces[i], SubSeq(path, cut[i - 1] + 1, cut[i]))

MeansAny(path, patterns) ==
    \E p \in patterns : IF p.kind = "exact" THEN p.value = path ELSE Means(p.value, path)

\* The paths a set of rules flags are the blocked ones and those its mode does
\* not let pass, by the meaning of the patterns: the recursive matcher neither
\* misses a path nor flags one that is allowed.
RulesFlagExactly ==
    \A rules \in {s \in PathRuleSets : s.mode # ""} :
        {f.finding.path : f \in PathRules(signals, rules).findings}
            = {pair[2].value : pair \in {p \in PathAccesses(events) :
                LET path == p[2].value
                IN  \/ MeansAny(path, rules.blocked)
                    \/ rules.mode = "approved_only" /\ ~MeansAny(path, rules.allowed)
                    \/ rules.mode = "flag_all"}}

-----------------------------------------------------------------------------
(***************************************************************************)
(* What the views of a session show                                        *)
(***************************************************************************)
StoredSessions == {e.session : e \in events}

\* The relations whose proven parents lead back to themselves.
OnLoop(relation, parentOf) ==
    LET ascend(reached, r) == reached \cup UNION {parentOf[q] : q \in reached}
    IN  relation \in FoldSet(LAMBDA r, reached : ascend(reached, r), parentOf[relation],
                             DOMAIN parentOf)

\* Whatever spans claim of their parents, the tree of a session's agents has
\* each of them at one place that is reached from a root, and flags as a cycle
\* those on a loop of claims and not those that lead into one.
TreeShowsEveryAgent ==
    \A session \in StoredSessions :
        LET relations == Relations(session, OfSession(events, session))
            nodes == AgentNodes(session, OfSession(events, session))
            parentOf == ParentOf(Positions(session, OfSession(events, session)))
        IN  /\ ShownAgents(nodes) = relations
            /\ Cardinality(nodes) = Cardinality(relations)
            /\ \A node \in nodes : (node.state = "cycle") <=> OnLoop(node.relation, parentOf)

\* The ticks of a window that spans of these categories alone cover.
CoveredTicks(intervals, window, categories) ==
    Cardinality({t \in window[1] .. window[2] - 1 :
        {i.category : i \in {j \in intervals : j.start <= t /\ t < j.finish}} = categories})

\* However spans overlap, nest, repeat or leave the window of their session, the
\* parts of its breakdown add up to the window, and each category has the time
\* that it alone covers.
BreakdownAddsUp ==
    \A session \in StoredSessions, window \in SessionWindows :
        LET own == OfSession(events, session)
        IN  \A result \in Calculate(own, window, TicksPerMs) :
                LET durations == result.durations
                IN  /\ MapThenSumSet(LAMBDA b : durations[b], DOMAIN durations)
                            = (result.window[2] - result.window[1]) \div TicksPerMs
                    /\ \A c \in Categories :
                            durations[c] = CoveredTicks(Intervals(own), result.window, {c})
                                                \div TicksPerMs

\* Folding a crowded lane of the trace loses no event, repeats none and keeps
\* their order; and each file operation whose call is known has its place in the
\* lane of files.
TraceKeepsEveryMarker ==
    \A session \in StoredSessions, window \in SessionWindows :
        LET own == OfSession(events, session)
            performed == OfSession(operations, session)
            trace == Trace(own, performed, window)
            shown(lane) == FlattenSeq([i \in DOMAIN trace[lane] |-> trace[lane][i].members])
        IN  /\ \A lane \in Lanes :
                LET items == {item \in Items(own, performed) : item.lane = lane}
                IN  /\ Range(shown(lane)) = {item.event : item \in items}
                    /\ Len(shown(lane)) = Cardinality(items)
                    /\ \A i \in 1 .. Len(trace[lane]) - 1 :
                            trace[lane][i].offset <= trace[lane][i + 1].offset
            /\ \A o \in {f \in FileOperations(performed) : f.call # Absent} :
                    \A e \in {f \in own : EventCall(f) = o.call} :
                        e.id \in Range(shown("files"))

\* A text of an event that the conversation shows, or a span has unredacted.
ShowsText(e, types, key) ==
    \/ e.type \in types /\ IsConversationEvent(e) /\ ContentAvailability(e) = "available"
    \/ StringAt(Extension(e, "span_attributes"), key, "<REDACTED>") # "<REDACTED>"

HasAccess(e, method) == \E access \in Accesses(e) : access.method = method

HasRepository(e) == "repository" \in DOMAIN Extension(e, "identity")

\* The evidence in an event of each signal that a list of unavailable fields may
\* name.
EvidenceOf(e, field) ==
    CASE field = "approvals" -> "approval_decision" \in DOMAIN e.attributes
      [] field = "tool_calls" -> e.type = "tool_result" \/ "tool_call" \in DOMAIN e.extensions
      [] field = "mcp_calls" -> "mcp_call" \in DOMAIN e.extensions
      [] field = "skill_invocations" -> "skill" \in DOMAIN e.extensions
      [] field = "tool_io" -> {"tool", "tool_execution"} \cap DOMAIN e.extensions # {}
      [] field = "file_operations" -> HasAccess(e, "filesystem_read")
      [] field = "command_execution" ->
            HasAccess(e, "shell_command") \/ "sandbox_outcome" \in DOMAIN e.extensions
      [] field = "model" -> "model" \in DOMAIN e.attributes
      [] field = "token_usage" ->
            {"input_token_count", "output_token_count"} \cap DOMAIN e.attributes # {}
      [] field = "cache_usage" -> "cached_input_token_count" \in DOMAIN e.attributes
      [] field = "reasoning_tokens" -> "reasoning_token_count" \in DOMAIN e.attributes
      [] field = "provider_cost" -> "provider_cost" \in DOMAIN e.attributes
      [] field = "task_outcome" ->
            StringAt(Extension(e, "outcome_contract"), "status", "unknown") # "unknown"
      [] field = "session_lifecycle" -> "session_lifecycle" \in DOMAIN e.extensions
      [] field = "prompt_content" ->
            ShowsText(e, {"user_prompt", "user_message", "api_request_body"}, "user_prompt")
      [] field = "response_content" ->
            ShowsText(e, {"assistant_response", "assistant_message", "api_response_body"},
                      "response.model_output")
      [] field = "trace_span_correlation" -> "trace_id" \in DOMAIN Extension(e, "correlation")
      [] field = "repository_context" -> HasRepository(e)

\* What the adapters overlook of an event: its repository, which they derive after
\* its list, and the path or command of a result of Codex, whose list goes by the
\* name of its record.
Overlooked(e) ==
    {"repository_context"} \cup
        IF e.type = "codex.tool_result" THEN {"file_operations", "command_execution"} ELSE {}

\* No adapter names a signal as unavailable in an event that has it, in whatever
\* combination of fields the event came, but for what it overlooks: every event
\* of Claude Code with a repository lists it as unavailable.
NothingPresentIsUnavailable ==
    \A e \in {f \in events : "unavailable_fields" \in DOMAIN f.attributes} :
        LET unavailable == e.attributes["unavailable_fields"]
        IN  /\ \A field \in unavailable \ Overlooked(e) : ~EvidenceOf(e, field)
            /\ HasRepository(e) => "repository_context" \in unavailable

-----------------------------------------------------------------------------
(***************************************************************************)
(* Requests that are observed in several telemetries                       *)
(***************************************************************************)
\* Payloads that measure or time requests whose own records come as logs or
\* reports.
Measuring ==
    {"claude_metrics", "claude_traces", "codex_metrics", "codex_traces", "cursor_metrics"}

\* What the stored requests cost does not change when metrics or spans of the
\* same requests arrive, of whatever tool; so no request is paid for twice, and
\* an amount that is unknown stays unknown.
SamplesCostNothing ==
    [][\A i \in DOMAIN Received[world] :
            /\ Payloads(world)[i].kind \in Measuring
            /\ events' = Inserted(Received[world][i].events, events)
            => SummarizeCosts(events').amount = SummarizeCosts(events).amount]_vars

\* The input tokens the calculator observes of an event.
ObservedInput(e) == NumberAt(ObservedTokens(e), "input")

\* Where the requests of a session are observed, the input tokens its servers
\* show are those of the requests, each counted once.  The code adds to them the
\* sample of a metric that counts the same tokens.
TokensCountedOnce ==
    \A row \in MCPInventory(signals) :
        LET requests == TotalNumber(ObservedInput, OfSession(events, row.server.session))
        IN  requests # Absent => row.tokens.input = requests
=============================================================================
