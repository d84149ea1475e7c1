----------------------------- MODULE ClaudeLogs -----------------------------
(***************************************************************************)
(* The log adapter of Claude Code (internal/normalize/claude: logs.go,     *)
(* normalizer.go, log_operations.go, records.go).                          *)
(*                                                                         *)
(* A payload is a sequence of resources [service, environment, records], a *)
(* record is [name, session, at, sequence, values]: its reserved wire keys *)
(* and a map of the others.  "" is a name, and 0 a session or an instant,  *)
(* that is not there or not readable.  The actor and the repository of an  *)
(* event are written here as a namespace of its own, identity.             *)
(***************************************************************************)
EXTENDS InsightEvents

LOCAL INSTANCE SequencesExt
LOCAL INSTANCE TLC

ServerIdentityKeys == {"mcp_server_name", "server.name", "mcp.server_name"}
CorrelationKeys == [prompt_id |-> "prompt_id", message_uuid |-> "message_uuid"]

\* sampleEventFromRecord: every spelling of an MCP server's name is one.
Sample(r) ==
    [r EXCEPT !.values = Without(@, ServerIdentityKeys)
                @@ Renamed(@, [key \in ServerIdentityKeys |-> "server_name"])]

\* normaliseResourceLogs: of the resources of Claude Code the records with a name.
Samples(payload) ==
    FlattenSeq([i \in DOMAIN payload |->
        LET resource == payload[i]
            named == SelectSeq(resource.records, LAMBDA r : r.name # "")
        IN  IF resource.service # "claude-code" THEN << >>
            ELSE [j \in DOMAIN named |->
                    [sample |-> Sample(named[j]), environment |-> resource.environment]]])

IsMalformed(r) == r.session = 0 \/ r.at = 0

\* sequenceKey: a record without a sequence is known by its place in the payload.
RecordNumber(r, ordinal) ==
    IF r.sequence # Absent THEN CHOOSE n \in r.sequence : TRUE ELSE 50 + ordinal

EventId(r, ordinal) == <<100 * r.session + RecordNumber(r, ordinal), 0>>

-----------------------------------------------------------------------------
\* The outcome a completion has by its name.
CompletionStatus == [api_request |-> "success", api_error |-> "failed", api_refusal |-> "refused"]

IsCompletion(r) == r.name \in DOMAIN CompletionStatus

\* attachPriceableRequestAttributes
PriceableAttributes(r) ==
    IF IsCompletion(r)
    THEN Renamed(r.values, [model |-> "model", input_tokens |-> "input_token_count",
                            output_tokens |-> "output_token_count",
                            cache_read_tokens |-> "cached_input_token_count"])
    ELSE NoValues

\* outcomeErrorCode
ErrorCode(r) ==
    LET code == StringAt(r.values, "error", StringAt(r.values, "error_code", ""))
    IN  IF code # "" THEN {code}
        ELSE IF "status_code" \in DOMAIN r.values THEN {"http_" \o r.values["status_code"]}
        ELSE Absent

\* attachOutcomeContract, attachRefusalContext
OutcomeContract(r) ==
    IF ~IsCompletion(r) THEN NoValues
    ELSE [source |-> "provider_completion", status |-> CompletionStatus[r.name]]
            @@ Selected(r.values, {"model", "duration_ms", "input_tokens", "output_tokens"})
            @@ Optionally("error_code", ErrorCode(r))
            @@ Optionally("retry_attempt", {n \in NumberAt(r.values, "attempt") : n > 0})
            @@ IF r.name # "api_refusal" THEN NoValues
               ELSE Selected(r.values, {"server_fallback_hop", "has_category",
                                        "has_explanation", "category", "explanation"})

\* attachSkillDetection, skillOutcome
SkillBlock(r) ==
    LET status == StringAt(r.values, "skill_status", "")
        outcome == CASE status \in {"success", "ok"} -> "success"
                     [] status \in {"error", "failed", "failure"} -> "failed"
                     [] OTHER -> status
    IN  IF r.name # "skill_activated" THEN NoValues
        ELSE Renamed(r.values, [skill_name |-> "name", invocation_trigger |-> "invocation_trigger",
                                skill_source |-> "source"])
             @@ Optionally("outcome", {outcome} \ {""})

SkillDetection(r) ==
    IF r.name = "skill_activated" THEN [skill_detection |-> "explicit"] ELSE NoValues

\* permissionModeContext, authContext, pluginLoadedContext: the fields each event
\* has of its own; they leave the echo of the record.
GovernanceFields ==
    [permission_mode_changed |-> {"from_mode", "to_mode", "trigger"},
     auth |-> {"action", "success", "auth_method", "error_category", "status_code"},
     plugin_loaded |-> {"plugin_name", "plugin_scope", "has_mcp", "safe_mode"}]

\* attachGovernanceContext
GovernanceBlock(r) ==
    IF r.name \notin DOMAIN GovernanceFields THEN NoValues
    ELSE [kind |-> r.name] @@ Selected(r.values, GovernanceFields[r.name])
            @@ IF r.name # "permission_mode_changed" THEN NoValues
               ELSE [bypass_permissions |->
                        StringAt(r.values, "to_mode", "") = "bypassPermissions"]

\* claudeApprovalDecisionStatus
ApprovalDecision(r) ==
    LET decision == StringAt(r.values, "decision", "unknown")
    IN  CASE decision \in {"accept", "approve", "allow"} -> "approved"
          [] decision \in {"reject", "deny", "abort", "blocked"} -> "denied"
          [] OTHER -> decision

ToolDecisionFields ==
    {"decision", "source", "tool_name", "tool_source", "tool_use_id", "tool_parameters"}

\* attachToolDecision: the attributes and the block of a permission decision.
\* Without the identity of its tool call a decision has that of its event.
DecisionAttributes(r, id) ==
    IF r.name # "tool_decision" THEN NoValues
    ELSE [approval_id |-> IF "tool_use_id" \in DOMAIN r.values
                          THEN <<r.session, r.values["tool_use_id"]>> ELSE id,
          approval_decision |-> ApprovalDecision(r)]
         @@ Selected(r.values, {"tool_name", "tool_source"})
         @@ Renamed(r.values, [source |-> "approval_reason_class"])

DecisionBlock(r, id) ==
    IF r.name # "tool_decision" THEN NoValues
    ELSE [approval_id |-> DecisionAttributes(r, id).approval_id, decision |-> ApprovalDecision(r)]
         @@ Renamed(r.values, [decision |-> "raw_decision"])
         @@ Selected(r.values, ToolDecisionFields \ {"decision"})

\* attachMCPCorrelation, stampMCPCorrelation: the name mcp__server__tool is the
\* pair <<server, tool>> under mcp_tool, any other name is under tool_name.
IsMCPResult(r) ==
    r.name = "tool_result" /\ "mcp_tool" \in DOMAIN r.values

MCPBlock(r) ==
    IF ~IsMCPResult(r) THEN NoValues
    ELSE [server_name |-> r.values["mcp_tool"][1], tool_name |-> r.values["mcp_tool"][2]]

-----------------------------------------------------------------------------
Signals ==
    {"model", "token_usage", "cache_usage", "task_outcome", "tool_calls", "mcp_calls",
     "file_operations", "reasoning_tokens", "repository_context", "prompt_content",
     "response_content", "provider_cost", "trace_span_correlation", "approvals"}

\* What an event of a name may carry of these.
CarriedBy(name) ==
    CASE name \in DOMAIN CompletionStatus ->
            {"model", "token_usage", "cache_usage", "task_outcome"}
      [] name = "tool_result" -> {"tool_calls"}
      [] name = "tool_decision" -> {"approvals"}
      [] name = "user_prompt" -> {"prompt_content"}
      [] name \in {"assistant_response", "api_response_body"} -> {"model", "response_content"}
      [] name = "api_request_body" -> {"model", "prompt_content"}
      [] OTHER -> {}

\* Mutant: a call of an MCP tool keeps the list of any other tool.
UnavailableByName(r) == Signals \ CarriedBy(r.name)

\* unavailableFields, and removeUnavailableField of a call of an MCP tool.
UnavailableFields(r) ==
    Signals \ (CarriedBy(r.name) \cup IF IsMCPResult(r) THEN {"mcp_calls"} ELSE {})

\* promotedEventFields
Promoted(name) ==
    CASE name = "skill_activated" ->
            {"skill_name", "skill_status", "invocation_trigger", "skill_source"}
      [] name = "tool_decision" -> ToolDecisionFields
      [] name \in DOMAIN GovernanceFields -> GovernanceFields[name]
      [] OTHER -> {}

\* Every other value of the record, as it came.
Echo(r) ==
    Without(r.values, Promoted(r.name) \cup DOMAIN CorrelationKeys \cup EnvironmentKeys)

\* normaliseSampleEvent
LogEvent(entry, ordinal) ==
    LET r == entry.sample
        id == EventId(r, ordinal)
        environment == Environment(r.values, entry.environment)
    IN  [id |-> id, session |-> r.session, surface |-> ClaudeCode, type |-> r.name, at |-> r.at,
         attributes |->
            [unavailable_fields |-> UnavailableFields(r)]
                @@ PriceableAttributes(r) @@ DecisionAttributes(r, id)
                @@ IF IsMCPResult(r) THEN [category |-> "MCP call"] ELSE NoValues,
         extensions |->
            SkillDetection(r) @@ NotEmpty(
                [correlation |-> Renamed(r.values, CorrelationKeys),
                 event |-> Echo(r), environment |-> environment,
                 resource |-> entry.environment, identity |-> Identity(environment),
                 skill |-> SkillBlock(r), outcome_contract |-> OutcomeContract(r),
                 governance |-> GovernanceBlock(r), tool_decision |-> DecisionBlock(r, id),
                 mcp_call |-> MCPBlock(r)])]

\* NormalizeLogs: the first malformed record fails the payload; a payload
\* without records of Claude Code is not one.
LogsFail(payload) == \E i \in DOMAIN Samples(payload) : IsMalformed(Samples(payload)[i].sample)

LogEvents(payload) ==
    LET samples == Samples(payload)
    IN  IF LogsFail(payload) THEN {}
        ELSE {LogEvent(samples[i], i) : i \in DOMAIN samples}

-----------------------------------------------------------------------------
\* operationCategory
OperationCategory(r) ==
    LET tool == StringAt(r.values, "tool_name", "")
    IN  IF "mcp_tool" \in DOMAIN r.values \/ "mcp_server_scope" \in DOMAIN r.values THEN
            "MCP call"
        ELSE IF tool = "Bash" THEN "shell command"
        ELSE IF tool \in {"Read", "Glob", "Grep", "NotebookRead"} THEN "filesystem read"
        ELSE IF tool \in {"Write", "Edit", "MultiEdit", "NotebookEdit"} THEN "filesystem write"
        ELSE IF tool \in {"WebFetch", "WebSearch"} THEN "network request"
        ELSE "unknown"

\* toolResultOutcome
ToolOutcome(r) ==
    CASE StringAt(r.values, "success", "") \in {"true", "success", "ok"} -> "success"
      [] StringAt(r.values, "success", "") \in {"false", "error", "failure", "failed"} -> "failed"
      [] OTHER -> "unknown"

\* operationSuffix: the provider's identity of the call, the sequence, or the
\* place among the operations of the payload.
OperationId(r, ordinal) ==
    IF "tool_use_id" \in DOMAIN r.values THEN <<r.session, "tool", r.values["tool_use_id"]>>
    ELSE IF r.sequence # Absent THEN <<r.session, "sequence", r.sequence>>
    ELSE <<r.session, "ordinal", ordinal, r>>

\* ExtractLogOperations
LogOperations(payload) ==
    LET results == SelectSeq(Samples(payload), LAMBDA entry : entry.sample.name = "tool_result")
        r(i) == results[i].sample
    IN  IF \E i \in DOMAIN results : IsMalformed(r(i)) THEN {}
        ELSE {[id |-> OperationId(r(i), i), session |-> r(i).session, surface |-> ClaudeCode,
               call |-> NumberAt(r(i).values, "tool_use_id"),
               category |-> OperationCategory(r(i)), outcome |-> ToolOutcome(r(i)),
               duration |-> NumberAt(r(i).values, "duration_ms")] : i \in DOMAIN results}
=============================================================================
