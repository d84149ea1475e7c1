------------------------------- MODULE MCIngest -------------------------------
(***************************************************************************)
(* A Claude Code transcript with one tool call, a Codex rollout that begins*)
(* with a legacy call, two OTLP payloads and a Cursor report.              *)
(***************************************************************************)
EXTENDS Ingest, TLC

Line(type, at, uuid) ==
    [type |-> type, sound |-> TRUE, uuid |-> uuid, session |-> "claude", at |-> at,
     prompt |-> "", text |-> TRUE, uses |-> << >>, results |-> << >>, meta |-> << >>]

\* The assistant opens a pull request; the result of the call names it.
Transcript == <<
    [Line("user", 1, "u1") EXCEPT !.prompt = "p1"],
    [Line("assistant", 2, "a1") EXCEPT
        !.uses = << [id |-> "t1", category |-> "shell command", links |-> {}] >>],
    [Line("user", 3, "u2") EXCEPT
        !.prompt = "p1", !.text = FALSE,
        !.results = << [id |-> "t1", outcome |-> "success", links |-> {"pr"}] >>] >>

NoCall == [id |-> "", tool |-> "", category |-> "", outcome |-> "", files |-> {}]

Record(type, at, id, kind, call) ==
    [type |-> type, sound |-> TRUE, at |-> at, id |-> id, kind |-> kind, call |-> call]

LegacyCall == [id |-> "c1", tool |-> "exec", category |-> "shell command",
               outcome |-> "", files |-> {}]
Patch == [id |-> "i1", tool |-> "FileChange", category |-> "filesystem write",
          outcome |-> "success", files |-> {"f", "g"}]

Rollout == <<
    Record("session_meta", 1, "codex", "", NoCall),
    Record("response_item", 2, "", "custom_tool_call", LegacyCall),
    Record("response_item", 3, "", "custom_tool_call_output", LegacyCall),
    Record("event_msg", 4, "", "item_completed", Patch) >>

Event(session, name) ==
    [id |-> <<session, name>>, session |-> session, type |-> "api_request",
     at |-> 2, facts |-> {}]

\* The call of the transcript as the logs report it.
LoggedCall ==
    [session |-> "claude", operation |-> <<"claude", "tool", "t1">>,
     outcome |-> "success", category |-> "unknown", provenance |-> "observed",
     extensions |-> ("event.duration_ms" :> {})]

Resource(tool, session, name, operations) ==
    [tool |-> tool, sound |-> TRUE, events |-> {Event(session, name)},
     operations |-> operations]

\* Two tools and one that no adapter knows.
Logs == << Resource("claude", "claude", "log", {LoggedCall}),
           Resource("codex", "codex", "log", {}),
           Resource("unknown", "other", "log", {}) >>

\* One resource of two is beyond its adapter.
Mixed == << Resource("codex", "codex", "metric", {}),
            [Resource("claude", "claude", "metric", {}) EXCEPT !.sound = FALSE] >>

Reported == << Resource("cursor", "cursor", "report", {}) >>

Sources == {"transcript", "rollout", "logs", "mixed", "report"}
Routes == ("transcript" :> "transcript") @@ ("rollout" :> "rollout") @@ ("logs" :> "logs")
            @@ ("mixed" :> "metrics") @@ ("report" :> "cursor-agent")
Texts == ("transcript" :> Transcript) @@ ("rollout" :> Rollout) @@ ("logs" :> Logs)
            @@ ("mixed" :> Mixed) @@ ("report" :> Reported)

Interchangeable == Permutations(Request)
=============================================================================
