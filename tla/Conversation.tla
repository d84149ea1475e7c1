---------------------------- MODULE Conversation ----------------------------
(***************************************************************************)
(* conversation/projection.go: which events are records of a conversation, *)
(* and what of their content the provider left.                            *)
(***************************************************************************)
EXTENDS InsightEvents

IsBody(e) == e.type \in {"api_request_body", "api_response_body"}

\* contentShape: where a type of event has its content.
ContentNamespace(e) ==
    IF e.type \in {"user_message", "assistant_message"} THEN "transcript" ELSE "event"

ContentKey(e) ==
    CASE e.type = "user_prompt" -> "prompt"
      [] e.type = "assistant_response" -> "response"
      [] e.type = "user_message" -> "prompt_content"
      [] e.type = "assistant_message" -> "response_content"
      [] OTHER -> "body"

LengthKey(e) ==
    CASE e.type = "user_prompt" -> "prompt_length"
      [] e.type = "assistant_response" -> "response_length"
      [] OTHER -> "body_length"

Role(e) ==
    CASE e.type \in {"user_prompt", "user_message"} -> "user"
      [] e.type \in {"assistant_response", "assistant_message"} -> "assistant"
      [] OTHER -> "unknown"

\* A transcript record counts when it has text of its own, or thinking.
IsConversationEvent(e) ==
    \/ /\ e.surface \in {ClaudeCode, Codex}
       /\ e.type \in {"user_prompt", "assistant_response"} \/ IsBody(e)
    \/ /\ e.surface = ClaudeCode
       /\ \/ e.type \in {"user_message", "assistant_message"}
             /\ StringAt(Extension(e, "transcript"), ContentKey(e), "") # ""
          \/ e.type = "assistant_message"
             /\ StringAt(Extension(e, "transcript"), "thinking", "") # ""

Redacted == "<redacted>"

\* contentValue
ContentAvailability(e) ==
    LET content == Extension(e, ContentNamespace(e))
    IN  IF ContentKey(e) \in DOMAIN content THEN
                IF content[ContentKey(e)] = Redacted THEN "provider_redacted" ELSE "available"
        ELSE IF IsBody(e) /\ "body_ref" \in DOMAIN content THEN "body_reference"
        ELSE IF ContentNamespace(e) = "event" /\ LengthKey(e) \in DOMAIN content THEN
            "length_only"
        ELSE "unavailable"

Text(e) == Extension(e, ContentNamespace(e))[ContentKey(e)]

\* Project
ConversationRecords(events) == {e \in events : IsConversationEvent(e)}
=============================================================================
