---------------------------- MODULE CodexMetrics ----------------------------
(***************************************************************************)
(* The metrics adapter of Codex (internal/normalize/codex/metrics.go).     *)
(*                                                                         *)
(* A payload is a set of resources [service, metrics]; a metric is [name,  *)
(* instrument, temporality, points] and a point [digest, at, numbers,      *)
(* values]: value, count, sum, min and max as far as they can be read, and *)
(* a map of its attributes.  The digest is the hash that identifies the    *)
(* event; at 0 a point has no readable time.                               *)
(***************************************************************************)
EXTENDS InsightEvents

LOCAL INSTANCE TLC

CodexMetricServices == {"codex_exec", "codex_cli_rs", "codex-app-server"}

\* productMetricSpecs, of the families a report tells apart.
ProductMetrics ==
    "codex.turn.ttft.duration_ms" :> [family |-> "turn_latency", kind |-> "histogram"]
    @@ "codex.websocket.request" :> [family |-> "transport_activity", kind |-> "sum"]

\* optionalMetricInt: the number without which there is no event.
RequiredNumber(kind) == IF kind = "histogram" THEN "count" ELSE "value"

\* productHistogramEvent, productSumEvent: the numbers of a point as evidence.
Measured(kind, numbers) ==
    IF kind = "histogram"
    THEN Renamed(numbers, [count |-> "sample_count", sum |-> "sum", min |-> "min", max |-> "max"])
    ELSE Selected(numbers, {"value"})

\* productMetricEvidence: every attribute of a point is a dimension.
Evidence(metric, point) ==
    [name |-> metric.name, family |-> ProductMetrics[metric.name].family,
     kind |-> ProductMetrics[metric.name].kind, scope |-> "observation",
     dimensions |-> StringAt(point.values, "dimension", ""),
     temporality |-> metric.temporality]
    @@ Measured(ProductMetrics[metric.name].kind, point.numbers)

IsProduct(metric, point) ==
    /\ metric.name \in DOMAIN ProductMetrics
    /\ metric.instrument = ProductMetrics[metric.name].kind
    /\ RequiredNumber(metric.instrument) \in DOMAIN point.numbers

-----------------------------------------------------------------------------
\* integrationMetricState: the kind of integration and the state seen, "" if none.
IntegrationState(metric, point) ==
    CASE metric.name = "codex.plugins.loaded_cache.request" ->
            [kind |-> "plugin",
             state |-> CASE StringAt(point.values, "outcome", "") = "hit" -> "cache_hit"
                         [] StringAt(point.values, "outcome", "") = "load" -> "cache_load"
                         [] OTHER -> ""]
      [] metric.name = "codex.mcp.protocol_discovery" -> [kind |-> "mcp", state |-> "discovered"]
      [] metric.name = "codex.mcp.tools.cache_publish.duration_ms" ->
            [kind |-> "mcp",
             state |-> IF StringAt(point.values, "result", "") = "published"
                       THEN "cache_published" ELSE ""]
      [] metric.name = "codex.apps.refresh.duration_ms" -> [kind |-> "app", state |-> "refreshed"]
      [] OTHER -> [kind |-> "", state |-> ""]

IntegrationInstrument(name) ==
    IF name \in {"codex.plugins.loaded_cache.request", "codex.mcp.protocol_discovery"}
    THEN "sum" ELSE "histogram"

\* integrationSumEvents, integrationHistogramEvents, positiveMetricCount
IsIntegration(metric, point) ==
    /\ IntegrationState(metric, point).state # ""
    /\ metric.instrument = IntegrationInstrument(metric.name)
    /\ \E n \in NumberAt(point.numbers, RequiredNumber(metric.instrument)) : n > 0

\* tokenUsageAttribute
TurnTokenKeys ==
    [input |-> "input_token_count", output |-> "output_token_count",
     cached_input |-> "cached_input_token_count",
     cache_write_input |-> "cache_write_input_token_count",
     reasoning_output |-> "reasoning_token_count", total |-> "total_token_count"]

IsTurnTokens(metric, point) ==
    /\ metric.name = "codex.turn.token_usage" /\ metric.instrument = "histogram"
    /\ StringAt(point.values, "token_type", "") \in DOMAIN TurnTokenKeys
    /\ "sum" \in DOMAIN point.numbers

IsSkillTurn(metric, point) ==
    metric.name = "codex.skill.turn.duration_seconds" /\ metric.instrument = "histogram"

IsSkillInjected(metric, point) ==
    /\ metric.name = "codex.skill.injected" /\ metric.instrument = "sum"
    /\ StringAt(point.values, "skill", "") # ""

\* mapSkillStatus
SkillStatus(point) ==
    LET status == StringAt(point.values, "status", "")
    IN  CASE status \in {"ok", "success"} -> "success"
          [] status \in {"error", "failed", "failure"} -> "failed"
          [] OTHER -> status

\* The fields no metric, no token metric, no other metric carries.
UnavailableOfAny ==
    {"prompt_content", "response_content", "repository_context", "task_outcome",
     "provider_cost", "session_lifecycle"}

UnavailableOfTokens ==
    UnavailableOfAny \cup {"tool_calls", "file_operations", "command_execution", "approvals"}

UnavailableOfOthers == UnavailableOfTokens \cup {"model", "token_usage", "cache_usage"}

-----------------------------------------------------------------------------
\* skillEventsFromMetric: what each kind of point adds to its event.
MetricAttributes(metric, point) ==
    CASE IsProduct(metric, point) ->
            [unavailable_fields |-> UnavailableOfAny] @@ Selected(point.values, {"model"})
      [] IsIntegration(metric, point) ->
            [unavailable_fields |-> UnavailableOfOthers,
             integration_kind |-> IntegrationState(metric, point).kind,
             integration_state |-> IntegrationState(metric, point).state]
      [] IsTurnTokens(metric, point) ->
            [unavailable_fields |-> UnavailableOfTokens]
                @@ Optionally(TurnTokenKeys[point.values["token_type"]], {point.numbers["sum"]})
                @@ Selected(point.values, {"model"})
      [] OTHER -> [unavailable_fields |-> UnavailableOfOthers]

MetricExtensions(metric, point) ==
    CASE IsProduct(metric, point) -> [performance_metric |-> Evidence(metric, point)]
      [] IsIntegration(metric, point) ->
            [integration_state |-> IntegrationState(metric, point)
                                        @@ [source_metric |-> metric.name]]
      [] IsSkillTurn(metric, point) ->
            [skill_detection |-> "inferred", skill_turn |-> [outcome |-> SkillStatus(point)]]
      [] IsSkillInjected(metric, point) ->
            [skill_detection |-> "explicit",
             skill |-> Renamed(point.values, [skill |-> "name", invoke_type |-> "invoke_type"])
                        @@ Optionally("outcome", {SkillStatus(point)} \ {""})]
      [] OTHER -> NoValues

HasEvent(metric, point) ==
    \/ IsProduct(metric, point) \/ IsIntegration(metric, point) \/ IsTurnTokens(metric, point)
    \/ IsSkillTurn(metric, point) \/ IsSkillInjected(metric, point)

\* tokenEvent, skillEvent: no metric names its session; each event is one.
CodexMetricEvent(metric, point, receivedAt) ==
    [id |-> <<point.digest, 0>>, session |-> 20000 + point.digest, surface |-> Codex,
     type |-> metric.name, at |-> IF point.at = 0 THEN receivedAt ELSE point.at,
     attributes |-> MetricAttributes(metric, point),
     extensions |-> MetricExtensions(metric, point) @@ [metric_attributes |-> point.values]]

\* NormalizeMetrics
CodexMetricEvents(payload, receivedAt) ==
    UNION {UNION {{CodexMetricEvent(metric, point, receivedAt) :
                        point \in {p \in metric.points : HasEvent(metric, p)}}
                  : metric \in resource.metrics}
            : resource \in {r \in payload : r.service \in CodexMetricServices}}
=============================================================================
