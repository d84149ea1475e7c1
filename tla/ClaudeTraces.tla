---------------------------- MODULE ClaudeTraces ----------------------------
(***************************************************************************)
(* The traces adapter of Claude Code (internal/normalize/claude/traces.go).*)
(*                                                                         *)
(* A payload is a set of resources [service, identity, environment, spans];*)
(* a span is [trace, span, parent, name, type, session, start, finish,     *)
(* values].  A number 0 or a name "" stands for what is not there or not   *)
(* readable; parent and finish are optional numbers.  The block of fields  *)
(* an event has for the type of its span is nested in its attributes; it   *)
(* is written as a namespace beside those of the extensions.               *)
(***************************************************************************)
EXTENDS InsightEvents

LOCAL INSTANCE TLC

IsClaudeTrace(resource) == resource.service = "claude-code"

\* spanEvent, spanStartTime: what a span must have.
IsMalformedSpan(span) ==
    span.trace = 0 \/ span.span = 0 \/ span.name = "" \/ span.start = 0

SpanType(span) == IF span.type = "" THEN "unavailable" ELSE span.type

\* spanSessionID: a trace without a session is one of its own.
SpanSession(span) == IF span.session # 0 THEN span.session ELSE 1000 + span.trace

\* The hash of trace, span and resource.
SpanEventId(span, resource) ==
    <<10000 * resource.identity + 100 * span.trace + span.span, 0>>

AgentFields == {"agent_id", "parent_agent_id"}

\* The block of a type of span and the fields it takes from the attributes:
\* interactionAttributes, llmRequestAttributes, toolAttributes,
\* toolExecutionAttributes, toolBlockedOnUserAttributes, hookAttributes.
SpanBlocks ==
    "interaction" :> [name |-> "interaction",
                      fields |-> {"sequence", "user_prompt_length", "new_context"}]
    @@ "llm_request" :> [name |-> "llm_request",
                         fields |-> AgentFields \cup
                            {"model", "request_id", "duration_ms", "ttft_ms", "input_tokens",
                             "output_tokens", "cache_read_tokens", "cache_creation_tokens",
                             "attempt", "status_code", "error_class", "error", "success",
                             "finish_reasons", "new_context"}]
    @@ "tool" :> [name |-> "tool",
                  fields |-> AgentFields \cup
                    {"tool_name", "file_path", "full_command", "skill_name", "tool_use_id",
                     "duration_ms", "result_tokens", "new_context"}]
    @@ "tool.execution" :> [name |-> "tool_execution",
                            fields |-> {"tool_use_id", "error_class", "error", "duration_ms",
                                        "success"}]
    @@ "tool.blocked_on_user" :> [name |-> "tool_blocked_on_user",
                                  fields |-> {"decision", "source", "duration_ms"}]
    @@ "hook" :> [name |-> "hook",
                  fields |-> {"hook_event", "hook_definitions", "num_blocking", "duration_ms"}]

SpanBlock(span) ==
    IF span.type \notin DOMAIN SpanBlocks THEN NoValues
    ELSE SpanBlocks[span.type].name :> Selected(span.values, SpanBlocks[span.type].fields)

\* spanHomedKeys: what the echo leaves to the block of the type.
HomedKeys(type) ==
    CASE type = "interaction" -> {"new_context"}
      [] type = "llm_request" -> {"error", "new_context", "finish_reasons"}
      [] type = "tool" -> {"file_path", "full_command", "new_context"}
      [] type = "tool.execution" -> {"error"}
      [] type = "hook" -> {"hook_definitions"}
      [] OTHER -> {}

\* spanAttributesEcho
SpanEcho(span) == Without(span.values, HomedKeys(span.type) \cup EnvironmentKeys)

\* spanContentObserved, spanContentPresent: redacted text is not content.
HasContent(span, key) == StringAt(span.values, key, "<REDACTED>") # "<REDACTED>"

ObservedContent(span) ==
    LET prompt == \/ span.type = "interaction" /\ HasContent(span, "user_prompt")
                  \/ span.type \in {"interaction", "llm_request"} /\ HasContent(span, "new_context")
        response == span.type = "llm_request" /\ HasContent(span, "response.model_output")
    IN  (IF prompt THEN {"prompt_content"} ELSE {})
            \cup IF response THEN {"response_content"} ELSE {}

\* spanUnavailableFields
SpanUnavailable(span) ==
    ({"mcp_calls", "prompt_content", "response_content", "repository_context", "provider_cost"}
        \cup IF span.type \in {"tool", "tool.execution", "tool.blocked_on_user"} THEN {}
             ELSE {"tool_io", "file_operations", "command_execution"})
    \ ObservedContent(span)

\* spanCorrelation: only the span of a prompt bounds a task.
TaskBoundary(span) ==
    CASE span.type = "interaction" -> "boundary"
      [] span.type \in {"tool", "tool.execution", "tool.blocked_on_user", "hook"} -> "inside"
      [] OTHER -> "unknown"

SpanCorrelation(span) ==
    [trace_id |-> span.trace, span_id |-> span.span, task_boundary |-> TaskBoundary(span)]
        @@ Optionally("parent_span_id", span.parent)
        @@ Selected(span.values, {"workflow_run_id", "workflow_name"})

\* spanEvent, attachSpanEventsAndLinks
SpanEvent(span, resource) ==
    [id |-> SpanEventId(span, resource), session |-> SpanSession(span), surface |-> ClaudeCode,
     type |-> span.name, at |-> span.start,
     attributes |->
        [unavailable_fields |-> SpanUnavailable(span), span_type |-> SpanType(span)]
            @@ Selected(span.values, {"model"}),
     extensions |->
        NotEmpty(SpanBlock(span) @@
            [correlation |-> SpanCorrelation(span),
             span |-> [trace_id |-> span.trace, span_id |-> span.span, name |-> span.name,
                       start |-> span.start]
                        @@ Optionally("parent_span_id", span.parent)
                        @@ Optionally("finish", span.finish),
             span_attributes |-> SpanEcho(span),
             environment |-> Environment(span.values, resource.environment),
             identity |-> Identity(Environment(span.values, resource.environment))])]

TracesFail(payload) ==
    \E resource \in payload : IsClaudeTrace(resource)
        /\ \E span \in resource.spans : IsMalformedSpan(span)

\* NormalizeTraces: one malformed span fails the payload.
TraceEvents(payload) ==
    IF TracesFail(payload) THEN {}
    ELSE UNION {{SpanEvent(span, resource) : span \in resource.spans}
                : resource \in {r \in payload : IsClaudeTrace(r)}}
=============================================================================
