----------------------------- MODULE MCInspection -----------------------------
(***************************************************************************)
(* Worlds of a few payloads each, one for every part of what is read: the  *)
(* instants 20 and 21 are those of a whole second and of the next tenth,   *)
(* whose text is in the other order.                                       *)
(***************************************************************************)
EXTENDS Inspection, SequencesExt

SetOfOne(n) == IF n = 0 THEN {} ELSE {n}

Log(name, session, at, sequence, values) ==
    [name |-> name, session |-> session, at |-> at, sequence |-> SetOfOne(sequence),
     values |-> values]

Payload(kind, body) == [kind |-> kind, receivedAt |-> 33, body |-> body]

ClaudeLog(records) ==
    Payload("claude_logs",
        << [service |-> "claude-code",
            environment |-> [user_email |-> "e", workspace_host_paths |-> <<"", "w">>],
            records |-> records] >>)

Sample(digest, metric, session, at, value, values) ==
    [digest |-> digest, metric |-> metric, session |-> session, at |-> at, value |-> value,
     values |-> values]

ClaudeMetric(points) ==
    Payload("claude_metrics",
        {[service |-> "claude-code",
          environment |-> [user_email |-> "e", workspace_host_paths |-> <<"">>],
          points |-> points]})

Span(span, parent, type, start, finish, values) ==
    [trace |-> 1, span |-> span, parent |-> SetOfOne(parent),
     name |-> IF type = "" THEN "other" ELSE "claude_code." \o type, type |-> type, session |-> 1,
     start |-> start, finish |-> SetOfOne(finish), values |-> values]

ClaudeTrace(identity, spans) ==
    Payload("claude_traces",
        {[service |-> "claude-code", identity |-> identity,
          environment |-> IF identity = 1 THEN [workspace_host_paths |-> <<"w">>] ELSE NoValues,
          spans |-> spans]})

CodexRecord(digest, name, session, at, values) ==
    [digest |-> digest, name |-> name, session |-> session, at |-> at, values |-> values]

CodexLogPayload(records) ==
    Payload("codex_logs", {[service |-> "codex_exec", records |-> records]})

Point(digest, at, numbers, values) ==
    [digest |-> digest, at |-> at, numbers |-> numbers, values |-> values]

CodexMeasures(name, instrument, temporality, points) ==
    Payload("codex_metrics",
        {[service |-> "codex-app-server",
          metrics |-> {[name |-> name, instrument |-> instrument, temporality |-> temporality,
                        points |-> points]}]})

Turn(span, start, finish, values) ==
    [trace |-> 2, span |-> span, parent |-> Absent, name |-> "session_task.turn", thread |-> 1,
     start |-> start, finish |-> SetOfOne(finish), values |-> values]

CodexTracePayload(version, spans) ==
    Payload("codex_traces",
        {[service |-> "codex_cli_rs", version |-> version, conversation |-> 0, thread |-> 0,
          spans |-> spans]})

CursorPayload(kind, receivedAt, scopes) ==
    [kind |-> kind, receivedAt |-> receivedAt,
     body |-> << [service |-> "cursor", settings |-> [surface |-> "ide"], scopes |-> scopes] >>]

CursorRecord(event, source, session, at, values) ==
    [body |-> "api_request", event |-> event, source |-> source, session |-> session, at |-> at,
     values |-> values]

Tokens(digest, type, value) ==
    [metric |-> "cursor.token.usage", instrument |-> "sum", digest |-> digest, at |-> 20,
     value |-> value, values |-> [type |-> type, model |-> "m1"]]

AgentReport(stream, request, at, result, usage) ==
    Payload("cursor_report",
        [source_type |-> IF stream THEN "local_cli_stream_json" ELSE "local_cli_print_json",
         session |-> 1, request |-> request, at |-> at, init |-> [model |-> "m1"],
         result |-> result, usage |-> usage])

Message(number, uuid, text) ==
    [id |-> <<number, 0>>, session |-> number \div 100, surface |-> ClaudeCode,
     type |-> "user_message", at |-> 19,
     attributes |-> [unavailable_fields |-> {"response_content", "tool_io", "mcp_calls",
                                            "file_operations", "repository_context",
                                            "provider_cost"}],
     extensions |-> [transcript |-> [prompt_content |-> text],
                     correlation |-> [uuid |-> uuid]]]

Transcript(messages) == Payload("transcript", messages)

\* A prompt as rolloutEvent makes one of a message of the user.
RolloutPrompt(number, text) ==
    [id |-> <<number, 0>>, session |-> number \div 100, surface |-> Codex,
     type |-> "user_prompt", at |-> 19, attributes |-> [unavailable_fields |-> {}],
     extensions |-> [event |-> [prompt |-> text]]]

-----------------------------------------------------------------------------
\* Requests, their metric, and the servers of two sessions.
Usage == <<
    ClaudeLog(<<
        Log("api_request", 1, 20, 1,
            [model |-> "m1", input_tokens |-> 5, output_tokens |-> 2, cache_read_tokens |-> 3,
             duration_ms |-> 7]),
        Log("api_request", 1, 21, 2,
            [model |-> "m1", input_tokens |-> 9, cache_read_tokens |-> 9, duration_ms |-> 4,
             attempt |-> 2]) >>),
    ClaudeLog(<<
        Log("mcp_server_connection", 1, 20, 3,
            "server.name" :> "db" @@ [status |-> "connected", server_scope |-> "user"]),
        Log("mcp_server_connection", 1, 21, 4,
            "mcp.server_name" :> "db" @@ [status |-> "failed"]) >>),
    ClaudeLog(<<
        Log("tool_result", 1, 22, 5,
            [mcp_tool |-> <<"db", "query">>, tool_use_id |-> 1, success |-> "true"]),
        Log("tool_result", 2, 22, 6, [mcp_tool |-> <<"web", "get">>, success |-> "false"]) >>),
    ClaudeLog(<<
        Log("mcp_server_connection", 2, 23, 0, [status |-> "connected"]),
        Log("api_error", 2, 24, 7, [model |-> "m2", error |-> "e", duration_ms |-> 1]),
        Log("api_refusal", 2, 25, 8, [model |-> "m2", has_category |-> "true"]) >>),
    ClaudeMetric({Sample(5001, "claude_code.token.usage", 1, 21, {5},
                         [type |-> "input", model |-> "m1"])}),
    ClaudeLog(<< Log("api_request", 1, 22, 9, [model |-> "m1"]), Log("auth", 0, 22, 9, NoValues) >>),
    CodexLogPayload({CodexRecord(6001, "codex.tool_result", 3, 0,
        [mcp_server |-> "db", tool_name |-> "query", call_id |-> 1, success |-> "true",
         model |-> "m3", input_token_count |-> 4])}) >>

\* Words on skills, and prompts in two telemetries.
Skills == <<
    ClaudeLog(<< Log("skill_activated", 1, 20, 1, [skill_name |-> "s1", skill_status |-> "ok"]),
                 Log("skill_activated", 1, 21, 2, [skill_name |-> "s1"]) >>),
    ClaudeLog(<< Log("skill_activated", 2, 20, 3, [invocation_trigger |-> "t"]) >>),
    ClaudeLog(<< Log("auth", 4, 20, 4, NoValues) >>),
    CodexMeasures("codex.skill.injected", "sum", 1,
        {Point(6001, 20, [value |-> 1], [skill |-> "s2", status |-> "error"])}),
    CodexMeasures("codex.skill.turn.duration_seconds", "histogram", 1,
        {Point(6002, 20, [count |-> 1], [status |-> "ok"])}) >>

Prompts == <<
    ClaudeLog(<< Log("user_prompt", 1, 20, 1, [message_uuid |-> "u1", prompt |-> "secret"]) >>),
    ClaudeLog(<< Log("user_prompt", 1, 20, 2, [message_uuid |-> "u2", prompt_length |-> 6]) >>),
    Transcript({Message(150, "u1", "secret"), Message(151, "u2", "secret")}),
    ClaudeLog(<< Log("user_prompt", 2, 20, 3, [prompt |-> "<redacted>"]),
                 Log("user_prompt", 2, 21, 4, [message_uuid |-> "u4", prompt |-> "sec"]) >>),
    Transcript({Message(250, "u3", "harmless"), Message(251, "u4", "secret"),
                RolloutPrompt(350, "secret")}) >>

-----------------------------------------------------------------------------
\* Accesses in spans of a tool and in records of Codex.
Secret == << "~", "/", ".ssh", "/", "k" >>

Access == <<
    ClaudeTrace(1, {Span(1, 0, "tool", 20, 21,
                         [tool_name |-> "Read", file_path |-> << "a", "/", ".env" >>])}),
    ClaudeTrace(1, {Span(2, 0, "tool", 21, 22, [full_command |-> << <<"c">>, Secret >>])}),
    CodexLogPayload({CodexRecord(6001, "codex.tool_result", 2, 0,
        [tool_name |-> "exec_command", call_id |-> 1, command |-> << <<"c">>, <<".env">> >>])}),
    CodexLogPayload({CodexRecord(6002, "codex.tool_result", 2, 0,
        [tool_name |-> "apply_patch", path |-> << "/", "b" >>])}) >>

\* Every path of up to three characters, each in a span of its own.
Paths ==
    LET paths == Listed(BoundedSeq({"a", "/"}, 3) \ {<< >>})
        span(i) == Span(i, 0, "tool", 20 + (i % 3), 30,
                        [tool_name |-> "Read", file_path |-> paths[i]])
        half == Len(paths) \div 2
    IN  << ClaudeTrace(1, {span(i) : i \in 1 .. half}),
           ClaudeTrace(1, {span(i) : i \in half + 1 .. Len(paths)}) >>

Rule(kind, value) == [kind |-> kind, value |-> value]

\* "**/a", "a/**", "*a", "a*/a", "/**/a" and the exact path "a/".
Globs == {Rule("glob", pattern) : pattern \in
            {<<"*", "*", "/", "a">>, <<"a", "/", "*", "*">>, <<"*", "a">>,
             <<"?", "*", "/", "a">>, <<"/", "*", "*", "/", "a">>}}

Rules ==
    {[mode |-> "blocked_only", allowed |-> {}, blocked |-> {g}] : g \in Globs}
    \cup {[mode |-> "approved_only", allowed |-> {Rule("glob", <<"*", "*", "/", "a">>)},
           blocked |-> {Rule("exact", <<"a", "/">>)}],
          [mode |-> "flag_all", allowed |-> {}, blocked |-> {}],
          [mode |-> "", allowed |-> {}, blocked |-> {}]}

-----------------------------------------------------------------------------
\* Samples of changes and of counts so far, and integrations.
Measures == <<
    CodexMeasures("codex.turn.ttft.duration_ms", "histogram", 1,
        {Point(6001, 20, [count |-> 1, sum |-> 4, min |-> 4, max |-> 4], [model |-> "m1"]),
         Point(6002, 21, [count |-> 2, sum |-> 4, min |-> 1, max |-> 3], [model |-> "m1"])}),
    CodexMeasures("codex.websocket.request", "sum", 2,
        {Point(6003, 20, [value |-> 3], NoValues)}),
    CodexMeasures("codex.websocket.request", "sum", 2,
        {Point(6004, 21, [value |-> 5], NoValues)}),
    CodexMeasures("codex.plugins.loaded_cache.request", "sum", 1,
        {Point(6005, 20, [value |-> 1], [outcome |-> "hit"]),
         Point(6006, 21, [value |-> 1], [outcome |-> "hit"]),
         Point(6007, 21, [value |-> 0], [outcome |-> "load"])}),
    CodexMeasures("codex.turn.token_usage", "histogram", 1,
        {Point(6008, 0, [sum |-> 6], [token_type |-> "input", model |-> "m1"]),
         Point(6009, 0, [sum |-> 6], [token_type |-> "cached_input", model |-> "m1"])}),
    ClaudeMetric({Sample(5001, "claude_code.token.usage", 1, 20, {5}, [type |-> "cacheRead"]),
                  Sample(5002, "claude_code.cost.usage", 1, 20, {1}, [model |-> "m1"]),
                  Sample(5003, "claude_code.lines_of_code.count", 1, 0, {2}, [type |-> "added"])}),
    ClaudeMetric({Sample(5004, "claude_code.session.count", 1, 20, {1}, NoValues),
                  Sample(5005, "claude_code.commit.count", 1, 20, {}, NoValues)}) >>

Governed == <<
    CodexLogPayload({
        CodexRecord(6001, "codex.conversation_starts", 1, 20,
            [approval_policy |-> "never", sandbox_policy |-> "off", provider_name |-> "p"]),
        CodexRecord(6002, "codex.conversation_starts", 1, 21, [approval_policy |-> "never"])}),
    CodexLogPayload({
        CodexRecord(6003, "codex.auth_recovery", 1, 20,
            "auth.mode" :> "key" @@ "auth.step" :> "refresh" @@ "auth.outcome" :> "failed"),
        CodexRecord(6004, "codex.auth_recovery", 1, 21,
            "auth.mode" :> "key" @@ "auth.step" :> "refresh" @@ "auth.outcome" :> "failed")}),
    CodexLogPayload({
        CodexRecord(6005, "codex.websocket_connect", 1, 22, [success |-> "true", duration_ms |-> 3]),
        CodexRecord(6006, "codex.startup_phase", 1, 22, "startup.phase" :> "load"),
        CodexRecord(6007, "codex.tool_decision", 0, 22, [call_id |-> 1, decision |-> "deny"]),
        CodexRecord(6008, "codex.sandbox_outcome", 1, 22, [outcome |-> "blocked"]),
        CodexRecord(6009, "codex.api_request", 1, 22,
            [success |-> "false", error |-> "e", model |-> "m1", cached_token_count |-> 2,
             reasoning_token_count |-> 1])}),
    ClaudeLog(<<
        Log("permission_mode_changed", 2, 20, 1, [to_mode |-> "bypassPermissions"]),
        Log("auth", 2, 20, 2, [action |-> "login", success |-> "true"]),
        Log("plugin_loaded", 2, 20, 3, [plugin_name |-> "p"]),
        Log("tool_decision", 2, 20, 4,
            [decision |-> "accept", tool_use_id |-> 1, tool_name |-> "Read", source |-> "user"]) >>) >>

-----------------------------------------------------------------------------
\* Agents that claim each other, one that leads into their loop, one of the main
\* session with a child, and one of two parents.
Agents == <<
    ClaudeTrace(1, {Span(1, 0, "interaction", 20, 40, [user_prompt |-> "<REDACTED>"]),
                    Span(2, 1, "tool", 21, 30, [tool_name |-> "Task"])}),
    ClaudeTrace(1, {Span(3, 0, "llm_request", 22, 25, [agent_id |-> "b", parent_agent_id |-> "c"])}),
    ClaudeTrace(1, {Span(4, 0, "llm_request", 23, 26, [agent_id |-> "c", parent_agent_id |-> "b"])}),
    ClaudeTrace(1, {Span(5, 0, "tool", 24, 27, [agent_id |-> "a", parent_agent_id |-> "b"])}),
    ClaudeTrace(1, {Span(6, 2, "llm_request", 25, 28, [agent_id |-> "d"]),
                    Span(7, 5, "tool", 26, 28, [agent_id |-> "e", parent_agent_id |-> "d"])}),
    ClaudeTrace(1, {Span(8, 0, "tool", 27, 29, [agent_id |-> "b", parent_agent_id |-> "a"]),
                    Span(9, 0, "hook", 27, 29, [agent_id |-> "f", parent_agent_id |-> "f"])}) >>

\* Spans that overlap, nest, lack an end, have no length or end before they
\* begin; one that two exporters report; and a turn of Codex.
Timed == <<
    ClaudeTrace(1, {Span(1, 0, "interaction", 20, 90, [user_prompt |-> "p"]),
                    Span(2, 1, "llm_request", 22, 41,
                         "response.model_output" :> "r" @@ [model |-> "m1"])}),
    ClaudeTrace(1, {Span(3, 1, "tool", 35, 67, [tool_name |-> "Bash"]),
                    Span(4, 3, "tool.execution", 44, 60, NoValues)}),
    ClaudeTrace(2, {Span(3, 1, "tool", 35, 67, [tool_name |-> "Bash"])}),
    ClaudeTrace(1, {Span(5, 3, "tool.blocked_on_user", 60, 75, NoValues),
                    Span(6, 0, "llm_request", 80, 0, NoValues)}),
    ClaudeTrace(1, {Span(7, 0, "tool", 50, 50, NoValues), Span(8, 0, "planning", 70, 65, NoValues)}),
    CodexTracePayload("0.155.1",
        {Turn(1, 30, 58, "turn.id" :> 1 @@ [input_tokens |-> 4, reasoning_output_tokens |-> 1])}),
    CodexTracePayload("0.160.0", {Turn(2, 90, 95, "turn.id" :> 1)}),
    CodexLogPayload({CodexRecord(6001, "codex.sse_event", 1, 0,
        "turn.id" :> 1 @@ [model |-> "m1"])}) >>

\* Prices by a family of models and by one model, of which the later ones are
\* overridden or not in force when the first requests are made.
Price(id, provider, models, weight, effective, rates) ==
    [id |-> id, provider |-> provider, models |-> models, weight |-> weight,
     effective |-> effective, rates |-> rates]

Prices ==
    Merged(
        << Price("family", "anthropic", {"m1", "m2"}, 1, 0,
                 [input |-> 3000000, output |-> 15000000, cached_input |-> 300000]),
           Price("one", "anthropic", {"m1"}, 10002, 21, [input |-> 9000000]),
           Price("codex", "openai", {"m1", "m3"}, 1, 0, [input |-> 2000000]) >>,
        << Price("one", "anthropic", {"m1"}, 10002, 22, [input |-> 5000000]),
           Price("cursor", "cursor", {"m1"}, 1, 0,
                 [input |-> 1000000, cached_input |-> 100000]) >>)

Windows ==
    {[started |-> {}, completed |-> {}], [started |-> {30}, completed |-> {}],
     [started |-> {25}, completed |-> {70}]}

\* A crowded session: the calls of its tools, in logs and in spans.
Crowded == <<
    ClaudeLog([i \in 1 .. 6 |->
        Log(IF i % 2 = 0 THEN "api_request" ELSE "api_error", 1, 20 + 7 * i, i,
            [model |-> "m1", duration_ms |-> 3])]),
    ClaudeLog(<<
        Log("tool_result", 1, 24, 11, [tool_name |-> "Read", tool_use_id |-> 1, duration_ms |-> 2]),
        Log("tool_result", 1, 31, 12, [tool_name |-> "Edit", tool_use_id |-> 2]),
        Log("tool_result", 1, 32, 13, [tool_name |-> "Write"]) >>),
    ClaudeTrace(1, {Span(1, 0, "tool", 22, 24,
                         [tool_name |-> "Read", tool_use_id |-> 1, file_path |-> <<"a">>]),
                    Span(2, 0, "tool", 28, 31, [tool_name |-> "Edit", tool_use_id |-> 2])}),
    ClaudeTrace(1, {Span(i, 0, "tool", 20 + 5 * i, 24 + 5 * i, [tool_name |-> "Bash"]) : i \in 3 .. 8}),
    ClaudeLog(<< Log("user_prompt", 1, 20, 21, [prompt_length |-> 4]),
                 Log("assistant_response", 1, 62, 22, [response |-> "r"]),
                 Log("api_request_body", 1, 63, 23, [body |-> "b", model |-> "m1"]),
                 Log("api_response_body", 1, 64, 24, [body |-> "b", model |-> "m1"]) >>) >>

\* Requests with and without an identifier or a time of their own, some of them
\* delivered again later, two of one source, a payload with a broken sample, and
\* the results of one session of the agent.
CursorRequests ==
    << [name |-> "cursor.telemetry",
        records |-> <<
            CursorRecord(50001, 0, 1, 20, [model |-> "m1", input_tokens |-> 5]),
            CursorRecord(0, 7, 1, 21, [input_tokens |-> 4, cache_read_tokens |-> 3]),
            CursorRecord(0, 7, 1, 22, [input_tokens |-> 9]),
            CursorRecord(0, 0, 1, 0, [output_tokens |-> 2, surface |-> "cli"]) >>],
       [name |-> "other", records |-> << CursorRecord(50002, 0, 1, 20, [input_tokens |-> 1]) >>] >>

CursorSamples(value) ==
    << [name |-> "cursor.telemetry",
        points |-> {Tokens(7001, "input", {5}), Tokens(7002, "cache_read", value)}] >>

CursorWorld == <<
    CursorPayload("cursor_logs", 33, CursorRequests),
    CursorPayload("cursor_logs", 34, CursorRequests),
    CursorPayload("cursor_metrics", 33, CursorSamples({2})),
    CursorPayload("cursor_metrics", 33, CursorSamples({})),
    CursorPayload("cursor_logs", 33,
        << [name |-> "cursor.telemetry",
            records |-> << CursorRecord(50003, 0, 1, 20, [model |-> "m1"]) >>] >>),
    AgentReport(TRUE, 0, 25, [is_error |-> "false", subtype |-> "success", duration_ms |-> 3],
           [input_tokens |-> 6, cache_read_tokens |-> 1]),
    AgentReport(FALSE, 0, 26, [is_error |-> "true", subtype |-> "success"], NoValues),
    AgentReport(TRUE, 801, 25, [subtype |-> "", duration_ms |-> 3], [output_tokens |-> 2]),
    AgentReport(FALSE, 802, 26, [is_error |-> "false", type |-> "done"], NoValues) >>

-----------------------------------------------------------------------------
WorldNames ==
    {"usage", "skills", "prompts", "access", "paths", "measures", "governed", "agents", "timed",
     "crowded", "cursor"}

PayloadsOf(w) ==
    CASE w = "usage" -> Usage
      [] w = "skills" -> Skills
      [] w = "prompts" -> Prompts
      [] w = "access" -> Access
      [] w = "paths" -> Paths
      [] w = "measures" -> Measures
      [] w = "governed" -> Governed
      [] w = "agents" -> Agents
      [] w = "timed" -> Timed
      [] w = "crowded" -> Crowded
      [] w = "cursor" -> CursorWorld

Keywords ==
    {{[id |-> "k", enabled |-> TRUE, texts |-> {"secret"}]},
     {[id |-> "k", enabled |-> FALSE, texts |-> {"secret"}]}}

ServerLists == {{}, {"db"}, {"db", "web"}}
SkillLists == {{}, {"s1"}}
Limits == {[ratio |-> <<1, 2>>, growth |-> <<3, 2>>]}
=============================================================================
