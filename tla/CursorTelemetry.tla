--------------------------- MODULE CursorTelemetry ---------------------------
(***************************************************************************)
(* The adapters of Cursor (internal/normalize/cursor): the logs and metrics*)
(* of its enterprise export, and the reports of its agent.                 *)
(*                                                                         *)
(* A payload of logs or metrics is a sequence of resources [service,       *)
(* settings, scopes], a scope is [name, records] or [name, points].        *)
(*   record  [body, event, source, session, at, values]                    *)
(*   point   [metric, instrument, digest, at, value, values]               *)
(*   report  [source_type, session, request, at, init, result, usage]      *)
(* 0 is an identifier or an instant, "" a text that is not there or not    *)
(* readable; usage is the map of token counts in a result, init the one    *)
(* with which a stream began.                                              *)
(***************************************************************************)
EXTENDS InsightEvents

LOCAL INSTANCE SequencesExt
LOCAL INSTANCE TLC
LOCAL INSTANCE Normalize

CursorExport == <<"cursor", "cursor">>
CursorAgent == <<"cursor", "cursor-agent">>

SafeKeys == {"surface", "entrypoint", "api_status", "billable"}

\* cursorResourceContext and isCursorTelemetryScope: what there is to map.
CursorScopes(payload) ==
    FlattenSeq([i \in DOMAIN payload |->
        LET scopes == SelectSeq(payload[i].scopes, LAMBDA s : s.name = "cursor.telemetry")
        IN  IF payload[i].service # "cursor" THEN << >>
            ELSE [j \in DOMAIN scopes |-> [settings |-> payload[i].settings] @@ scopes[j]]])

\* otelUnavailableFields
ExportUnavailable ==
    {"tool_calls", "mcp_calls", "skill_invocations", "file_operations", "command_execution",
     "approvals", "prompt_content", "response_content", "repository_context", "task_outcome",
     "provider_cost", "trace_span_correlation"}

\* otlpTime
Dated(at, receivedAt) == IF at = 0 THEN receivedAt ELSE at

-----------------------------------------------------------------------------
(***************************************************************************)
(* Requests in the logs                                                    *)
(***************************************************************************)
RequestTokens ==
    [input_tokens |-> "input_token_count", output_tokens |-> "output_token_count",
     cache_read_tokens |-> "cached_input_token_count",
     cache_creation_tokens |-> "cache_write_input_token_count"]

IsRequest(record) == record.body = "api_request"

\* eventIDFromRecord: the identifier Cursor gives the event, else a hash of the
\* session and the identifier of its source, else one of the session, the place
\* of the record in its scope and the time the event is given.  The sums stand
\* for the hashes: sources and instants are below 1000, events above 50000.
RequestId(record, index, receivedAt) ==
    IF record.event # 0 THEN <<record.event, 0>>
    ELSE IF record.source # 0 THEN <<10000 * record.session + record.source, 0>>
    ELSE <<10000 * record.session + 1000 * index + Dated(record.at, receivedAt), 0>>

\* apiRequestEvent
RequestEvent(record, index, settings, receivedAt) ==
    [id |-> RequestId(record, index, receivedAt), session |-> record.session,
     surface |-> CursorExport, type |-> "cursor.api.request",
     at |-> Dated(record.at, receivedAt),
     attributes |-> [unavailable_fields |-> ExportUnavailable]
                        @@ Selected(record.values, {"model"})
                        @@ Renamed(record.values, RequestTokens),
     extensions |-> NotEmpty([log_attributes |-> Selected(record.values, SafeKeys),
                              resource |-> Selected(settings, SafeKeys)])]

RequestsOfScope(scope, receivedAt) ==
    LET event(i) == RequestEvent(scope.records[i], i, scope.settings, receivedAt)
        requests == SelectSeq([i \in DOMAIN scope.records |-> i],
                              LAMBDA i : IsRequest(scope.records[i]))
    IN  [k \in DOMAIN requests |-> event(requests[k])]

\* A request without any token count fails the whole payload.
LogsFail(payload) ==
    \E scope \in Range(CursorScopes(payload)) : \E record \in Range(scope.records) :
        IsRequest(record) /\ DOMAIN RequestTokens \cap DOMAIN record.values = {}

\* NormalizeLogs
CursorLogEvents(payload, receivedAt) ==
    LET scopes == CursorScopes(payload)
    IN  IF LogsFail(payload) THEN {}
        ELSE CorrelateEvents(FlattenSeq([i \in DOMAIN scopes |->
                                RequestsOfScope(scopes[i], receivedAt)]))

-----------------------------------------------------------------------------
(***************************************************************************)
(* Token counts in the metrics                                             *)
(***************************************************************************)
\* tokenUsageAttribute
UsageKeys ==
    [input |-> "input_token_count", output |-> "output_token_count",
     cache_read |-> "cached_input_token_count",
     cache_creation |-> "cache_write_input_token_count"]

\* mapCursorTokenSeries: a sum or a gauge.
IsUsage(point) ==
    /\ point.metric = "cursor.token.usage"
    /\ point.instrument \in {"sum", "gauge"}
    /\ StringAt(point.values, "type", "") \in DOMAIN UsageKeys

\* mapCursorTokenPoint: the session of a sample is its own identifier, a hash
\* of its content and its place.
UsageEvent(point, settings, receivedAt) ==
    [id |-> <<point.digest, 0>>, session |-> 30000 + point.digest, surface |-> CursorExport,
     type |-> "cursor.token.usage", at |-> Dated(point.at, receivedAt),
     attributes |-> [unavailable_fields |-> ExportUnavailable \cup {"session_lifecycle"}]
                        @@ Selected(point.values, {"model"})
                        @@ Optionally(UsageKeys[point.values["type"]], point.value),
     extensions |-> NotEmpty([metric |-> [name |-> point.metric,
                                          token_type |-> point.values["type"]],
                              metric_attributes |-> Selected(point.values, SafeKeys),
                              resource |-> Selected(settings, SafeKeys)])]

\* A sample without a value fails the whole payload.
MetricsFail(payload) ==
    \E scope \in Range(CursorScopes(payload)) :
        \E point \in scope.points : IsUsage(point) /\ point.value = Absent

\* NormalizeMetrics
CursorMetricEvents(payload, receivedAt) ==
    IF MetricsFail(payload) THEN {}
    ELSE UNION {{UsageEvent(point, scope.settings, receivedAt) :
                    point \in {p \in scope.points : IsUsage(p)}}
                : scope \in Range(CursorScopes(payload))}

-----------------------------------------------------------------------------
(***************************************************************************)
(* Reports of the agent                                                    *)
(***************************************************************************)
\* resultStatus: an error, else what the subtype says.
Statuses ==
    [success |-> "success", ok |-> "success", cancelled |-> "cancelled", canceled |-> "cancelled",
     error |-> "failed", failed |-> "failed", failure |-> "failed"]

ResultStatus(result) ==
    IF StringAt(result, "is_error", "") = "true" THEN {"failed"}
    ELSE IF "subtype" \notin DOMAIN result THEN Absent
    ELSE IF result["subtype"] \in DOMAIN Statuses THEN {Statuses[result["subtype"]]}
    ELSE {"unknown"}

\* hasOutcome
HasOutcome(result) ==
    StringAt(result, "is_error", "") # "" \/ StringAt(result, "subtype", "") # ""

\* Only a stream says which model it is of.
ReportModel(report) ==
    IF report.source_type = "local_cli_stream_json" THEN Selected(report.init, {"model"})
    ELSE NoValues

AgentUnavailable == (ExportUnavailable \ {"task_outcome"}) \cup {"reasoning_tokens"}

\* unavailableFields
ReportUnavailable(report) ==
    AgentUnavailable
        \cup (IF ReportModel(report) = NoValues THEN {"model"} ELSE {})
        \cup (IF {"input_tokens", "output_tokens"} \cap DOMAIN report.usage = {}
              THEN {"token_usage"} ELSE {})
        \cup (IF "cache_read_tokens" \in DOMAIN report.usage THEN {} ELSE {"cache_usage"})
        \cup (IF HasOutcome(report.result) THEN {} ELSE {"task_outcome"})

\* attachOutcomeContract
ReportContract(report) ==
    IF ResultStatus(report.result) = Absent THEN NoValues
    ELSE [source |-> "provider_completion"] @@ Optionally("status", ResultStatus(report.result))
            @@ ReportModel(report) @@ Selected(report.result, {"duration_ms"})
            @@ Selected(report.usage, {"input_tokens", "output_tokens"})

\* normaliseResult: known by its request, else as the result of its session.
ReportEvent(report) ==
    [id |-> IF report.request # 0 THEN <<report.request, 0>> ELSE <<500 + report.session, 0>>,
     session |-> report.session, surface |-> CursorAgent,
     type |-> StringAt(report.result, "type", "result"), at |-> report.at,
     attributes |-> [unavailable_fields |-> ReportUnavailable(report)]
                        @@ ReportModel(report)
                        @@ Renamed(Selected(report.usage, {"input_tokens", "output_tokens"}),
                                   RequestTokens),
     extensions |->
        NotEmpty([outcome_contract |-> ReportContract(report),
                  cursor |-> Selected(report.usage, {"cache_read_tokens", "cache_creation_tokens"}),
                  result |-> Without(report.result,
                                {"type", "subtype", "is_error", "duration_ms", "result_summary"}),
                  init |-> Without(report.init, {"type", "subtype", "model"})])]

\* NormalizeIngest: a probe of capabilities reports nothing, and a report
\* without a result or its session is refused.
ReportEvents(report) ==
    IF /\ report.source_type \in {"local_cli_print_json", "local_cli_stream_json"}
       /\ report.session # 0
    THEN {ReportEvent(report)} ELSE {}
=============================================================================
