----------------------------- MODULE CodexTraces -----------------------------
(***************************************************************************)
(* The traces adapter of Codex (internal/normalize/codex/traces.go).       *)
(*                                                                         *)
(* A payload is a set of resources [service, version, conversation,        *)
(* thread, spans]; a span is [trace, span, parent, name, thread, start,    *)
(* finish, values], where 0 and "" stand for what is not there or not      *)
(* readable.  The source version of an event is written here as a          *)
(* namespace of its own, source.                                           *)
(***************************************************************************)
EXTENDS InsightEvents

LOCAL INSTANCE TLC

TraceServices == {"codex_cli_rs", "codex_exec"}

\* requiredTraceSpanFields
LacksStructure(span) ==
    span.trace = 0 \/ span.span = 0 \/ span.name = "" \/ span.start = 0

\* codexTraceSessionIdentity: the conversation, the thread of the resource, that
\* of the span; a trace without one is a session of its own.
TraceSession(span, resource) ==
    LET named == SelectSeq(<<resource.conversation, resource.thread, span.thread>>,
                           LAMBDA s : s # 0)
    IN  IF named # << >> THEN Head(named) ELSE 1000 + span.trace

TurnTokenFields ==
    [input_tokens |-> "input_token_count", cached_input_tokens |-> "cached_input_token_count",
     cache_write_input_tokens |-> "cache_write_input_token_count",
     output_tokens |-> "output_token_count",
     reasoning_output_tokens |-> "reasoning_token_count", total_tokens |-> "total_token_count"]

\* codexTraceAttributes
TraceTokens(span) == Renamed(span.values, TurnTokenFields)

TraceUnavailable(span) ==
    ({"model", "token_usage", "cache_usage", "tool_calls", "file_operations",
      "command_execution", "approvals", "prompt_content", "response_content",
      "repository_context", "task_outcome", "provider_cost"}
    \ (IF TraceTokens(span) = NoValues THEN {} ELSE {"token_usage"}))
    \ (IF {"cached_input_token_count", "cache_write_input_token_count"}
            \cap DOMAIN TraceTokens(span) = {} THEN {} ELSE {"cache_usage"})

\* normalizeLiveTraceSpan, liveTraceCorrelation
CodexSpanEvent(span, resource) ==
    [id |-> <<30000 + 100 * span.trace + span.span, 0>>, session |-> TraceSession(span, resource),
     surface |-> Codex, type |-> span.name, at |-> span.start,
     attributes |-> TraceTokens(span) @@ [unavailable_fields |-> TraceUnavailable(span)],
     extensions |->
        [correlation |-> [trace_id |-> span.trace, span_id |-> span.span]
                            @@ Optionally("parent_span_id", span.parent),
         span |-> Optionally("finish", span.finish), source |-> [version |-> resource.version]]
        @@ NotEmpty([span_attributes |-> span.values])]

CodexTracesFail(payload) ==
    \E resource \in payload : resource.service \in TraceServices
        /\ (resource.spans = {} \/ \E span \in resource.spans : LacksStructure(span))

\* NormalizeTraces: a resource of Codex without spans, or with a malformed one,
\* fails the payload.
CodexTraceEvents(payload) ==
    IF CodexTracesFail(payload) THEN {}
    ELSE UNION {{CodexSpanEvent(span, resource) : span \in resource.spans}
                : resource \in {r \in payload : r.service \in TraceServices}}
=============================================================================
