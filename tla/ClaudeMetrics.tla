---------------------------- MODULE ClaudeMetrics ----------------------------
(***************************************************************************)
(* The metrics adapter of Claude Code (internal/normalize/claude/          *)
(* metrics.go).                                                            *)
(*                                                                         *)
(* A payload is a set of resources [service, environment, points]; a point *)
(* is [digest, metric, session, at, value, values]: its numeric value, none*)
(* if it cannot be parsed, and a map of its attributes.  The identifier of *)
(* an event is the hash of what tells its point from others: the digest    *)
(* stands for it, so two points with one digest are one.                   *)
(***************************************************************************)
EXTENDS InsightEvents

LOCAL INSTANCE TLC

\* tokenUsageAttribute, linesOfCodeAttribute and the builders of the other
\* metrics: the attribute that has the value of a point, by metric and type.
\* A metric or a type that is not here yields no event.
TokenKeys ==
    [input |-> "input_token_count", output |-> "output_token_count",
     cacheRead |-> "cached_input_token_count",
     cacheCreation |-> "cache_write_input_token_count"]

LineKeys == [added |-> "lines_added_count", removed |-> "lines_removed_count"]

CounterKeys ==
    "claude_code.cost.usage" :> "provider_cost"
        @@ "claude_code.commit.count" :> "commit_count"
        @@ "claude_code.pull_request.count" :> "pull_request_count"
        @@ "claude_code.code_edit_tool.decision" :> "edit_decision_count"
        @@ "claude_code.session.count" :> "session_count"
        @@ "claude_code.active_time.total" :> "active_time_seconds"

TypeOf(point) == StringAt(point.values, "type", "")

\* metricEventsFromInstrument
ValueKey(point) ==
    CASE point.metric = "claude_code.token.usage" -> Optionally("key",
            {TokenKeys[t] : t \in {TypeOf(point)} \cap DOMAIN TokenKeys})
      [] point.metric = "claude_code.lines_of_code.count" -> Optionally("key",
            {LineKeys[t] : t \in {TypeOf(point)} \cap DOMAIN LineKeys})
      [] OTHER -> Optionally("key",
            {CounterKeys[m] : m \in {point.metric} \cap DOMAIN CounterKeys})

IsMapped(point) == "key" \in DOMAIN ValueKey(point)

IsClaude(resource) == resource.service = "claude-code"

\* resourceEmitsCostUsage
CostCaptured(resource) ==
    \E point \in resource.points : point.metric = "claude_code.cost.usage"

BehaviourSignals ==
    {"tool_calls", "mcp_calls", "file_operations", "command_execution", "prompt_content",
     "response_content", "repository_context", "task_outcome", "trace_span_correlation"}

\* tokenUnavailableFields, costUnavailableFields, bareCounterUnavailableFields
MetricUnavailable(point, resource) ==
    BehaviourSignals \cup
        CASE point.metric = "claude_code.token.usage" ->
                IF CostCaptured(resource) THEN {} ELSE {"provider_cost"}
          [] point.metric = "claude_code.cost.usage" -> {"token_usage"}
          [] OTHER -> {"token_usage", "provider_cost"}

\* The counters of commits, decisions and sessions are without a model.
PromotesModel(point) ==
    point.metric \in {"claude_code.token.usage", "claude_code.cost.usage",
                      "claude_code.lines_of_code.count"}

\* tokenUsageEvent, costUsageEvent, buildCountEvent, activeTimeEvent and
\* finalizeMetricEvent: at 0 a point has no readable time of its own.
MetricEvent(point, resource, receivedAt) ==
    [id |-> <<point.digest, 0>>, session |-> point.session, surface |-> ClaudeCode,
     type |-> point.metric,
     at |-> IF point.at = 0 THEN receivedAt ELSE point.at,
     attributes |->
        [unavailable_fields |-> MetricUnavailable(point, resource)]
            @@ Optionally(ValueKey(point)["key"], point.value)
            @@ IF PromotesModel(point) THEN Selected(point.values, {"model"}) ELSE NoValues
            @@ IF point.metric = "claude_code.active_time.total"
               THEN Renamed(point.values, [type |-> "activity_type"]) ELSE NoValues,
     extensions |->
        NotEmpty([metric |-> [name |-> point.metric]
                    @@ IF point.metric = "claude_code.token.usage"
                       THEN Renamed(point.values, [type |-> "token_type"]) ELSE NoValues,
                  metric_attributes |-> point.values,
                  resource |-> resource.environment,
                  environment |-> Environment(point.values, resource.environment),
                  identity |-> Identity(Environment(point.values, resource.environment))])]

\* A mapped point without a value fails the whole payload.
MetricsFail(payload) ==
    \E resource \in payload : IsClaude(resource)
        /\ \E point \in resource.points : IsMapped(point) /\ point.value = Absent

\* NormalizeMetrics
MetricEvents(payload, receivedAt) ==
    IF MetricsFail(payload) THEN {}
    ELSE UNION {{MetricEvent(point, resource, receivedAt) :
                    point \in {p \in resource.points : IsMapped(p)}}
                : resource \in {r \in payload : IsClaude(r)}}
=============================================================================
