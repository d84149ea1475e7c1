------------------------------ MODULE CodexLogs ------------------------------
(***************************************************************************)
(* The log adapter of Codex (internal/normalize/codex/logs.go).            *)
(*                                                                         *)
(* A payload is a set of resources [service, records]; a record is         *)
(* [digest, name, session, at, values].  The digest is the hash of the     *)
(* whole record, which identifies its event.  "" is a name, and 0 a session*)
(* or an instant, that is not there or not readable.                       *)
(***************************************************************************)
EXTENDS InsightEvents

LOCAL INSTANCE TLC

CodexServices == {"codex_cli_rs", "codex_exec"}

EventName(r) == IF r.name = "" THEN "codex.log.received" ELSE r.name

\* codexCanonicalEventType
EventType(r) == IF r.name = "codex.conversation_starts" THEN "session.active" ELSE EventName(r)

\* codexLogSessionID: a record without a conversation is a session of its own.
LogSession(r) == IF r.session # 0 THEN r.session ELSE 20000 + r.digest

\* attachCodexLogTokenCounts: of two spellings the first counts.
TokenCounts(r) ==
    Renamed(r.values, [cached_input_token_count |-> "cached_input_token_count"])
        @@ Renamed(r.values, [cached_token_count |-> "cached_input_token_count"])
        @@ Selected(r.values,
                    {"input_token_count", "output_token_count", "reasoning_token_count"})

-----------------------------------------------------------------------------
\* codexLifecycleDetails, codexLifecycleFieldKeys: the kind of an event, where its
\* phase and its status are, and what else it says.
Lifecycle ==
    "codex.conversation_starts" :>
            [kind |-> "session_start", fields |-> NoValues,
             details |-> {"approval_policy", "provider_name", "sandbox_policy"}]
    @@ "codex.startup_phase" :>
            [kind |-> "startup_phase",
             fields |-> "startup.phase" :> "phase" @@ "startup.status" :> "status",
             details |-> {"startup.phase", "startup.status", "duration_ms"}]
    @@ "codex.websocket_connect" :>
            [kind |-> "websocket_connect", fields |-> NoValues,
             details |-> {"duration_ms", "success"}]
    @@ "codex.auth_recovery" :>
            [kind |-> "auth_recovery",
             fields |-> "auth.step" :> "phase" @@ "auth.outcome" :> "status",
             details |-> {"auth.mode", "auth.step", "auth.outcome", "auth.recovery_reason"}]

\* codexLifecycleEvent
IsLifecycle(r) == r.name \in DOMAIN Lifecycle

\* codexEntrypoint
Entrypoint(service) == IF service = "codex_exec" THEN "codex exec" ELSE "interactive"

\* codexSuccessStatus
SuccessStatus(r) ==
    CASE StringAt(r.values, "success", "") \in {"true", "ok", "success"} -> "success"
      [] StringAt(r.values, "success", "") \in {"false", "error", "failed", "failure"} ->
            "failed"
      [] OTHER -> ""

LifecycleDetails(r) ==
    [kind |-> Lifecycle[r.name].kind] @@ Renamed(r.values, Lifecycle[r.name].fields)
        @@ (IF r.name = "codex.websocket_connect" /\ SuccessStatus(r) # ""
            THEN [status |-> SuccessStatus(r)] ELSE NoValues)

\* attachCodexGovernanceAttributes: the dotted spelling overwrites the other.
Governance(r) ==
    Renamed(r.values, "auth.mode" :> "auth_mode")
        @@ Selected(r.values, {"approval_policy", "sandbox_policy", "auth_mode"})

\* attachCodexLifecycleSignal, attachCodexLifecycleMetadata
LifecycleAttributesOf(r, service) ==
    IF ~IsLifecycle(r) THEN NoValues
    ELSE Renamed(LifecycleDetails(r), [kind |-> "lifecycle_kind", phase |-> "lifecycle_phase",
                                       status |-> "lifecycle_status"])
         @@ [entrypoint |-> Entrypoint(service)]
         @@ Selected(r.values, {"duration_ms"}) @@ Governance(r)

LifecycleBlock(r, service) ==
    IF ~IsLifecycle(r) THEN NoValues
    ELSE LifecycleDetails(r) @@ [source_event |-> r.name, entrypoint |-> Entrypoint(service)]
         @@ Selected(r.values, Lifecycle[r.name].details
                                \cup {"auth_mode", "originator", "terminal.type", "duration_ms"})

-----------------------------------------------------------------------------
\* codexErrorCode
FailureCode(r) ==
    IF SuccessStatus(r) # "failed" THEN Absent
    ELSE LET code == StringAt(r.values, "error_code", StringAt(r.values, "error", ""))
             status == StringAt(r.values, "http.status_code", "")
         IN  IF code # "" THEN {code}
             ELSE IF status # "" THEN {"http_" \o status}
             ELSE Absent

\* attachCodexOutcomeContract: without a readable success there is none.
CodexContract(r) ==
    IF r.name \notin {"codex.tool_result", "codex.api_request"} \/ SuccessStatus(r) = ""
    THEN NoValues
    ELSE [source |-> IF r.name = "codex.tool_result" THEN "tool_result"
                     ELSE "provider_completion",
          status |-> SuccessStatus(r)]
         @@ Selected(r.values, {"model", "duration_ms"})
         @@ Renamed(r.values, [input_token_count |-> "input_tokens",
                               output_token_count |-> "output_tokens"])
         @@ Optionally("error_code", FailureCode(r))
         @@ Optionally("retry_attempt", {n \in NumberAt(r.values, "attempt") : n > 0})

\* codexOperationCategory
CodexCategory(r) ==
    IF "mcp_server" \in DOMAIN r.values THEN "MCP call"
    ELSE IF StringAt(r.values, "tool_name", "") = "exec_command" THEN "shell command"
    ELSE IF StringAt(r.values, "tool_name", "") = "apply_patch" THEN "filesystem write"
    ELSE "unknown"

\* The identity of what a record reports on: its call, else the record itself.
CallIdentity(r, kind) ==
    IF "call_id" \in DOMAIN r.values THEN <<LogSession(r), kind, r.values["call_id"]>>
    ELSE <<LogSession(r), "record", r.digest>>

\* codexSandboxOutcomeStatus
SandboxStatus(r) ==
    LET outcome == StringAt(r.values, "outcome", "")
    IN  IF outcome \in {"success", "succeeded", "ok", "pass", "passed"} THEN "success"
        ELSE IF outcome \in {"failed", "failure", "error", "denied", "blocked"} THEN "failed"
        ELSE IF outcome # "" THEN outcome
        ELSE IF SuccessStatus(r) # "" THEN SuccessStatus(r)
        ELSE "unknown"

\* codexToolCall, codexSandboxOutcome: what a record says of an operation.
Operation(r) ==
    CASE r.name = "codex.tool_result" ->
            [operation_id |-> CallIdentity(r, "tool"), category |-> CodexCategory(r),
             outcome |-> IF SuccessStatus(r) = "" THEN "unknown" ELSE SuccessStatus(r)]
            @@ Selected(r.values, {"duration_ms"})
      [] r.name = "codex.sandbox_outcome" ->
            [operation_id |-> CallIdentity(r, "sandbox"), category |-> "shell command",
             outcome |-> SandboxStatus(r)]
            @@ Selected(r.values, {"duration_ms"})
            @@ Renamed(r.values, [initial_duration_ms |-> "duration_ms"])
      [] OTHER -> NoValues

\* codexApprovalDecisionStatus
CodexDecision(r) ==
    LET decision == StringAt(r.values, "decision", "unknown")
    IN  CASE decision \in {"approved", "approve", "allow", "allowed", "granted", "accepted",
                           "yes"} -> "approved"
          [] decision \in {"denied", "deny", "blocked", "rejected", "no"} -> "denied"
          [] OTHER -> decision

\* codexToolDecision
Decision(r) ==
    IF r.name # "codex.tool_decision" THEN NoValues
    ELSE [approval_id |-> CallIdentity(r, "approval"), approval_decision |-> CodexDecision(r)]
         @@ Renamed(r.values, [source |-> "approval_reason_class"])
         @@ Selected(r.values, {"tool_name", "tool_namespace"})

\* codexMCPCall: on whatever record names a server.
CodexMCPBlock(r) ==
    IF "mcp_server" \notin DOMAIN r.values THEN NoValues
    ELSE Renamed(r.values, [mcp_server |-> "server_name", tool_name |-> "tool_name",
                            call_id |-> "call_id", duration_ms |-> "duration_ms",
                            success |-> "success"])

\* codexLogUnavailableFields, and what the counts and the contract change in it.
CodexUnavailable(r) ==
    {"file_operations", "prompt_content", "response_content", "repository_context",
     "provider_cost", "session_lifecycle", "approvals", "command_execution", "tool_calls",
     "cache_usage", "reasoning_tokens", "task_outcome"}
    \ ((IF IsLifecycle(r) THEN {"session_lifecycle"} ELSE {})
        \cup (CASE r.name = "codex.tool_decision" -> {"approvals"}
                [] r.name = "codex.sandbox_outcome" -> {"command_execution"}
                [] r.name = "codex.tool_result" -> {"tool_calls", "task_outcome"}
                [] r.name = "codex.api_request" -> {"task_outcome"}
                [] OTHER -> {})
        \cup (IF "cached_input_token_count" \in DOMAIN TokenCounts(r) THEN {"cache_usage"} ELSE {})
        \cup (IF "reasoning_token_count" \in DOMAIN TokenCounts(r)
              THEN {"reasoning_tokens"} ELSE {}))

-----------------------------------------------------------------------------
\* normalizeLogRecord: all but the events of the lifecycle are dated by their
\* receipt, whatever time their record has.
CodexLogEvent(r, service, receivedAt) ==
    [id |-> <<r.digest, 0>>, session |-> LogSession(r), surface |-> Codex,
     type |-> EventType(r),
     at |-> IF IsLifecycle(r) /\ r.at # 0 THEN r.at ELSE receivedAt,
     attributes |->
        (IF CodexMCPBlock(r) = NoValues THEN NoValues ELSE [category |-> "MCP call"])
            @@ Decision(r) @@ Operation(r) @@ LifecycleAttributesOf(r, service)
            @@ TokenCounts(r) @@ Selected(r.values, {"model"})
            @@ [unavailable_fields |-> CodexUnavailable(r)],
     extensions |->
        NotEmpty([log_attributes |-> r.values,
                  tool_call |-> IF r.name = "codex.tool_result" THEN Operation(r) ELSE NoValues,
                  sandbox_outcome |-> IF r.name = "codex.tool_result" THEN NoValues
                                      ELSE Operation(r),
                  tool_decision |-> Decision(r),
                  session_lifecycle |-> LifecycleBlock(r, service),
                  mcp_call |-> CodexMCPBlock(r), outcome_contract |-> CodexContract(r)])]

\* NormalizeLogs: no record of Codex is malformed.
CodexLogEvents(payload, receivedAt) ==
    UNION {{CodexLogEvent(r, resource.service, receivedAt) : r \in resource.records}
            : resource \in {res \in payload : res.service \in CodexServices}}
=============================================================================
