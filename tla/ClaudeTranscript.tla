--------------------------- MODULE ClaudeTranscript ---------------------------
(***************************************************************************)
(* A Claude Code transcript as the import reads it (normalize/claude,      *)
(* jsonl.go and jsonl_toolcalls.go): the lines a session has written so    *)
(* far, the last of them perhaps cut off.                                  *)
(*                                                                         *)
(* A line is [type, sound, uuid, session, at, prompt, text, uses, results, *)
(* meta].  "sound": it has a uuid, a session and a time that parse.        *)
(* "text": it has text of its own.  uses and results are its blocks of     *)
(* those kinds, [id, category, links] and [id, outcome, links], no two of a*)
(* line with one identifier, and meta its toolUseResult, the empty function*)
(* if it has none.  Of the body of a tool call only the links to pull      *)
(* requests are told apart.                                                *)
(***************************************************************************)
EXTENDS Normalize, SequencesExt

\* The walk stops, and the import is refused, at a line that is no JSON, as one
\* that was not written to its end, and at an assistant line without its fields.
Fatal(line) ==
    \/ line.type = "torn"
    \/ line.type = "assistant" /\ ~line.sound

TranscriptSound(lines) == \A i \in DOMAIN lines : ~Fatal(lines[i])

-----------------------------------------------------------------------------
\* Events of messages: every assistant line, and a sound user line with text.
HasMessage(line) ==
    \/ line.type = "assistant"
    \/ line.type = "user" /\ line.sound /\ line.text

PromptFact(prompt) == IF prompt = "" THEN {} ELSE {<<"prompt", prompt>>}

MessageEvent(line) ==
    [id |-> <<line.session, line.uuid>>, session |-> line.session,
     type |-> IF line.type = "assistant" THEN "assistant_message" ELSE "user_message",
     at |-> line.at, facts |-> PromptFact(line.prompt)]

-----------------------------------------------------------------------------
(***************************************************************************)
(* The collector: from identifiers of tool uses to what is known of the    *)
(* call.  body has a path for each of its parts that was seen.             *)
(***************************************************************************)
\* A map, and what an earlier one has besides.
Over(later, earlier) ==
    [key \in DOMAIN later \cup DOMAIN earlier |->
        IF key \in DOMAIN later THEN later[key] ELSE earlier[key]]

NewCall(line, use) ==
    [session |-> line.session, at |-> line.at, category |-> use.category,
     outcome |-> "unknown", body |-> [part \in {"input"} |-> use.links], facts |-> {}]

\* A later use of an identifier replaces the earlier call, result and all.
CollectToolUses(calls, line) ==
    Over([id \in {use.id : use \in Range(line.uses)} |->
            NewCall(line, CHOOSE use \in Range(line.uses) : use.id = id)], calls)

\* What the line of a result adds to the call's event: its prompt, and the line
\* itself if it makes no event of its own.
ResultFacts(line) ==
    PromptFact(line.prompt) \cup IF line.text THEN {} ELSE {<<"record", line.uuid>>}

\* A call with its result, and with the toolUseResult if that is its own.
Answered(call, line, result, meta) ==
    [call EXCEPT !.outcome = result.outcome,
                 !.body = Over(meta, Over([part \in {"result"} |-> result.links], @)),
                 !.facts = ResultFacts(line)]

\* Each result goes to the call of its identifier if there is one; the first
\* call that is found also gets the toolUseResult.
CollectToolResults(calls, line) ==
    LET matched == {i \in DOMAIN line.results : line.results[i].id \in DOMAIN calls}
        IsFirst(i) == \A j \in matched : i <= j
        ResultOf(id) == CHOOSE i \in matched : line.results[i].id = id
    IN  [id \in DOMAIN calls |->
            IF \E i \in matched : line.results[i].id = id
            THEN Answered(calls[id], line, line.results[ResultOf(id)],
                          IF IsFirst(ResultOf(id)) THEN line.meta ELSE << >>)
            ELSE calls[id]]

Collect(calls, line) ==
    CASE line.type = "assistant" -> CollectToolUses(calls, line)
      [] line.type = "user" -> CollectToolResults(calls, line)
      [] OTHER -> calls

\* The calls after each line.
CallsAfter(lines) ==
    LET after[n \in 0 .. Len(lines)] ==
            IF n = 0 THEN << >> ELSE Collect(after[n - 1], lines[n])
    IN  after

ToolCalls(lines) == CallsAfter(lines)[Len(lines)]

\* No identifier names two uses, or two results, of different lines.
UsedOnce(lines) ==
    \A i, j \in DOMAIN lines : i # j =>
        /\ (lines[i].type = "assistant" /\ lines[j].type = "assistant") =>
            \A use \in Range(lines[i].uses), other \in Range(lines[j].uses) : use.id # other.id
        /\ (lines[i].type = "user" /\ lines[j].type = "user") =>
            \A result \in Range(lines[i].results), other \in Range(lines[j].results) :
                result.id # other.id

-----------------------------------------------------------------------------
\* correlationEvent: an MCP call and any other have events of their own kind.
CallEvent(id, call) ==
    LET kind == IF call.category = "MCP call" THEN "mcp" ELSE "toolcall"
    IN  [id |-> <<call.session, kind, id>>, session |-> call.session,
         type |-> IF kind = "mcp" THEN "mcp_call" ELSE "tool_call", at |-> call.at,
         facts |-> call.facts \cup
                    {<<"link", link>> : link \in UNION Range(call.body)}]

\* operation: one namespace for both kinds, shared with the OTLP route.
CallOperation(id, call) ==
    [session |-> call.session, operation |-> <<call.session, "tool", id>>,
     outcome |-> call.outcome, category |-> call.category,
     provenance |-> "observed", extensions |-> call.body]

\* NormalizeTranscript and ExtractTranscriptOperations.  The identifiers of
\* calls are unlike those of messages, so each part is correlated by itself.
TranscriptEvents(lines) ==
    LET messages == {i \in DOMAIN lines : HasMessage(lines[i])}
        calls == ToolCalls(lines)
    IN  CorrelateEvents([i \in messages |-> MessageEvent(lines[i])])
        \cup {CallEvent(id, calls[id]) : id \in DOMAIN calls}

TranscriptOperations(lines) ==
    LET calls == ToolCalls(lines)
    IN  {CallOperation(id, calls[id]) : id \in DOMAIN calls}
=============================================================================
