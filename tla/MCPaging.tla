------------------------------ MODULE MCPaging ------------------------------
(***************************************************************************)
(* Two sessions, half-second instants, and events that arrive late.        *)
(***************************************************************************)
EXTENDS Paging, TLC

At(id, session, at, body) ==
    [id |-> id, session |-> session, tool |-> "claude-code", at |-> at, life |-> None,
     model |-> None, thin |-> FALSE, detection |-> 1, accesses |-> 0, body |-> body]

Span(order) ==
    [kind |-> "span", trace |-> "t", span |-> "s", parentSpan |-> None, agent |-> None,
     parentAgent |-> None, type |-> "tool", order |-> order]

\* Other is the body of logs and transcript records.
Other == [kind |-> "other"]

Prompt == At(1, "long", 2, Other)
Answer == At(2, "long", 3, Other)
Message == At(3, "long", 3, Other)
Tool == At(4, "long", 1, Span(1))
ToolAgain == At(5, "long", 1, Span(1))
Call == At(6, "long", 3, Span(2))
Short == At(7, "short", 3, Other)

\* One event for each way a row can appear, repeat or move.
SomeEvents == {Prompt, Message, Tool, ToolAgain, Call, Short}
DashboardEvents == {Prompt, Message, Answer}

Texts == {Prompt, Answer, Message}
Messages == {Message}
Ranks == [s \in {"long", "short"} |-> IF s = "long" THEN 1 ELSE 2]
=============================================================================
