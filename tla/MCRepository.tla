---------------------------- MODULE MCRepository ----------------------------
(***************************************************************************)
(* Small instances of Repository: a Codex root and its child thread, whose *)
(* rollouts arrive apart, and a Claude Code session with a sub-agent.      *)
(***************************************************************************)
EXTENDS Repository, TLC

Sessions == {"root", "child", "claude"}

Other == [kind |-> "other"]

Rollout(kind, thread, word) == [kind |-> kind, thread |-> thread, word |-> word]

Span(span, parentSpan, agent, type, order) ==
    [kind |-> "span", trace |-> "t", span |-> span, parentSpan |-> parentSpan,
     agent |-> agent, parentAgent |-> None, type |-> type, order |-> order]

CodexEvent(id, session, at, life, body) ==
    [id |-> id, session |-> session, tool |-> "codex", at |-> at, life |-> life,
     model |-> None, thin |-> FALSE, detection |-> 1, accesses |-> 0, body |-> body]

ClaudeEvent(id, at, life, model, body) ==
    [id |-> id, session |-> "claude", tool |-> "claude-code", at |-> at,
     life |-> life, model |-> model, thin |-> TRUE, detection |-> 1 + (id % 4),
     accesses |-> id % 2, body |-> body]

\* The child's rollout: its metadata, then its end.
ChildMeta == CodexEvent(1, "child", 2, None, Rollout("session_meta", "root", None))
ChildDone == CodexEvent(2, "child", 4, "completed", Rollout("task_complete", None, None))

\* The root's rollout: its start, and an activity that reports the child's failure.
RootStart == CodexEvent(3, "root", 1, "active", Rollout("task_started", None, "trace"))
RootSaw == CodexEvent(4, "root", 3, None, Rollout("activity", "child", "failed"))

\* The root's telemetry: an event of a Codex session that is not of its rollout.
RootLog == CodexEvent(11, "root", 2, None, Other)

\* A root that is itself announced as the child of its child.
RootMeta == CodexEvent(5, "root", 1, None, Rollout("session_meta", "child", None))

SpawnTool == ClaudeEvent(6, 3, "active", None, Span("s1", None, None, "tool", 1))
AgentCall == ClaudeEvent(7, 2, None, "m", Span("s2", "s1", "a", "llm_request", 2))
AgentTool == ClaudeEvent(8, 4, "failed", "n", Span("s3", "s2", "a", "tool", 3))

\* Another event under the identifier of AgentTool.
AgentToolAgain == [AgentTool EXCEPT !.life = "completed"]

\* A turn that starts on a whole second (started_at counts seconds) and is
\* interrupted before the second is over (the line's own timestamp).
TurnStarted == CodexEvent(9, "root", 2, "active", Rollout("task_started", None, "trace"))
TurnAborted == CodexEvent(10, "root", 3, "cancelled",
                          Rollout("turn_aborted", None, "interrupted"))

Events == {TurnStarted, TurnAborted, ChildMeta, ChildDone, RootStart,
           RootSaw, RootMeta, RootLog, SpawnTool, AgentCall, AgentTool, AgentToolAgain}

\* The same tool call seen on two routes, and the call of a silent session.
Op(session, outcome, path) ==
    [session |-> session, operation |-> "op", outcome |-> outcome,
     category |-> "shell", provenance |-> "observed", extensions |-> path :> path]

Otlp == Op("claude", "success", "event")
Transcript == Op("claude", "unknown", "arguments")
Observations == {Otlp, Transcript}

Req(events, operations) == [events |-> events, operations |-> operations]

\* Lineage: rollouts of the two threads in every order, with deletions between.
LineageBatches == {Req(<<ChildMeta, ChildDone>>, <<>>), Req(<<RootStart, RootSaw>>, <<>>),
                   Req(<<RootMeta, RootLog>>, <<>>), Req(<<RootLog, SpawnTool>>, <<>>)}

\* Pricing and operations: re-delivery, an identifier used twice, two routes.
PricingBatches == {Req(<<AgentTool, AgentCall>>, <<Otlp>>), Req(<<AgentToolAgain>>, <<>>),
                   Req(<<>>, <<Transcript>>), Req(<<RootStart, AgentCall>>, <<>>)}

TurnBatches == {Req(<<TurnStarted, TurnAborted>>, <<>>)}
=============================================================================
