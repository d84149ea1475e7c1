----------------------------- MODULE CodexRollout -----------------------------
(***************************************************************************)
(* A Codex rollout file as the import reads it (normalize/codex, rollout.go*)
(* and rollout_operations.go).                                             *)
(*                                                                         *)
(* A line is [type, sound, at, id, kind, call].  "sound": it has a type and*)
(* a time that parses.  id is payload.id and kind payload.type, "" if      *)
(* absent.  call is what the line says of a tool call: [id, tool, category,*)
(* outcome, files], with an empty id in a line about none.                 *)
(*                                                                         *)
(* Not modelled: the events of disabled plug-ins, and the attributes that  *)
(* lifecycle and governance records add to their event.                    *)
(***************************************************************************)
EXTENDS Normalize, TLC

LOCAL INSTANCE SequencesExt

Metas(lines) == {i \in DOMAIN lines : lines[i].type = "session_meta"}

\* decodeRollout gives up at a line that is no JSON or has no envelope, and at a
\* session_meta without an identifier or with another one than before.
Fatal(lines, i) ==
    \/ lines[i].type = "torn"
    \/ ~lines[i].sound
    \/ /\ i \in Metas(lines)
       /\ \/ lines[i].id = ""
          \/ \E j \in Metas(lines) : j < i /\ lines[j].id # lines[i].id

RolloutSound(lines) ==
    /\ Metas(lines) # {}
    /\ \A i \in DOMAIN lines : ~Fatal(lines, i)

SessionOf(lines) == lines[CHOOSE i \in Metas(lines) : TRUE].id

-----------------------------------------------------------------------------
\* rolloutEventID: the record's own identifier, or its position and digest.
\* In a file that only grows a position has one digest.
RecordId(lines, i) ==
    IF lines[i].id # ""
    THEN <<"record", SessionOf(lines), lines[i].type, lines[i].id>>
    ELSE <<"line", SessionOf(lines), i>>

RecordEvent(lines, i) ==
    [id |-> RecordId(lines, i), session |-> SessionOf(lines), type |-> lines[i].type,
     at |-> lines[i].at, facts |-> {<<"line", i>>}]

-----------------------------------------------------------------------------
Items == {"CommandExecution", "FileChange", "McpToolCall"}

IsCompletedItem(line) ==
    line.type = "event_msg" /\ line.kind = "item_completed"
        /\ line.call.tool \in Items /\ line.call.id # ""

IsLegacyCall(line) ==
    line.type = "response_item" /\ line.kind = "custom_tool_call" /\ line.call.id # ""

\* Some line has the output of the legacy call.
HasOutput(lines, id) ==
    \E i \in DOMAIN lines :
        /\ lines[i].type = "response_item"
        /\ lines[i].kind = "custom_tool_call_output"
        /\ lines[i].call.id = id

HasItems(lines) == \E i \in DOMAIN lines : IsCompletedItem(lines[i])

\* rolloutOperations: completed items, and legacy calls only if there is none.
CallLines(lines) ==
    IF HasItems(lines) THEN SelectSeq(lines, IsCompletedItem)
    ELSE SelectSeq(lines, IsLegacyCall)

CallOutcome(line) == IF IsLegacyCall(line) THEN "unknown" ELSE line.call.outcome

\* The paths of rolloutOperationExtensions: a completed item has its result.
CallPaths(lines, line) ==
    LET call == IF line.call.category = "MCP call" THEN "mcp_call" ELSE "tool_call"
    IN  IF IsLegacyCall(line) /\ ~HasOutput(lines, line.call.id)
        THEN {call} ELSE {call, call \o ".result"}

OperationId(lines, line) == <<SessionOf(lines), "tool", line.call.id>>

CallOperation(lines, line) ==
    [session |-> SessionOf(lines), operation |-> OperationId(lines, line),
     outcome |-> CallOutcome(line), category |-> line.call.category,
     provenance |-> "observed",
     extensions |-> [path \in CallPaths(lines, line) |-> line.call.tool]]

\* rolloutOperationEvents: one for each changed file, else one for the call.
CallEvents(lines, line) ==
    LET session == SessionOf(lines)
        Event(id) == [id |-> id, session |-> session, type |-> "tool_call",
                      at |-> line.at, facts |-> {<<"call", line.call.id>>}]
    IN  IF line.call.files = {}
        THEN {Event(<<"toolcall", session, line.call.id>>)}
        ELSE {Event(<<"toolcall", session, line.call.id, "file", file>>) :
                file \in line.call.files}

\* NormalizeRolloutEvidence.
RolloutEvents(lines) ==
    LET calls == CallLines(lines)
    IN  CorrelateEvents([i \in DOMAIN lines |-> RecordEvent(lines, i)]
            \o FlattenSeq([i \in DOMAIN calls |-> SetToSeq(CallEvents(lines, calls[i]))]))

RolloutOperations(lines) ==
    LET calls == CallLines(lines)
    IN  CorrelateOperations([i \in DOMAIN calls |-> CallOperation(lines, calls[i])])
=============================================================================
