---------------------------- MODULE InsightSource ----------------------------
(***************************************************************************)
(* The rows of insight_signals (insights/source_events.go, ThinAccessEvents*)
(* of governance/risky_access.go): what rebuildInsightSignals keeps of a   *)
(* session's events for the insights and policies, which never read the    *)
(* events themselves.                                                      *)
(***************************************************************************)
EXTENDS InsightEvents

TokenAttributes ==
    {"input_token_count", "output_token_count", "cached_input_tokens",
     "cached_input_token_count"}
TokenFields ==
    {"input_tokens", "output_tokens", "cache_read_tokens", "cache_creation_tokens"}
GovernanceAttributes == {"approval_policy", "sandbox_policy", "auth_mode"}
LifecycleAttributes == {"lifecycle_kind", "lifecycle_phase", "lifecycle_status"}
IntegrationAttributes == {"integration_kind", "integration_name", "integration_state"}

\* copyUserPromptEvidence: both records of a prompt, those of Claude Code only.
IsClaudePrompt(e) == e.surface = ClaudeCode /\ e.type \in {"user_prompt", "user_message"}

HasIntegration(e) == {"integration_kind", "integration_state"} \subseteq DOMAIN e.attributes

IsAuthRecovery(e) == StringAt(e.attributes, "lifecycle_kind", "") = "auth_recovery"

HasGovernance(e) ==
    GovernanceAttributes \cap DOMAIN e.attributes # {} \/ IsAuthRecovery(e)

\* thinInsightEvent: whether any insight reads the event.
IsSource(e) ==
    \/ IsConnection(e) \/ IsUse(e) \/ HasContract(e) \/ HasMetric(e) \/ HasTokens(e)
    \/ "skill_detection" \in DOMAIN e.extensions
    \/ IsClaudePrompt(e) \/ HasIntegration(e) \/ HasGovernance(e)

\* Mutant: the category of a call is kept of the events that are named for one.
KeptAttributesOfNamed(e) ==
    (IF HasMetric(e) THEN {"model"} ELSE {})
    \cup (IF e.type \in {"mcp_call", "mcp.call"} THEN {"category"} ELSE {})
    \cup (IF HasTokens(e) THEN TokenAttributes ELSE {})
    \cup (IF HasIntegration(e) THEN IntegrationAttributes ELSE {})
    \cup (IF IsAuthRecovery(e) THEN LifecycleAttributes ELSE {})
    \cup GovernanceAttributes

KeptAttributes(e) ==
    (IF HasMetric(e) THEN {"model"} ELSE {})
    \cup (IF IsUse(e) THEN {"category"} ELSE {})
    \cup (IF HasTokens(e) THEN TokenAttributes ELSE {})
    \cup (IF HasIntegration(e) THEN IntegrationAttributes ELSE {})
    \cup (IF IsAuthRecovery(e) THEN LifecycleAttributes ELSE {})
    \cup GovernanceAttributes

\* Of the event namespace only what an insight reads, unless the event is a
\* connection; of a message its text and its identity.
KeptFields(e, namespace) ==
    CASE namespace = "event" ->
            (IF IsConnection(e) THEN DOMAIN e.extensions["event"] ELSE {})
            \cup (IF IsClaudePrompt(e) /\ e.type = "user_prompt"
                  THEN {"prompt", "prompt_length"} ELSE {})
            \cup (IF HasTokens(e) THEN TokenFields ELSE {})
      [] namespace = "transcript" -> {"prompt_content"}
      [] namespace = "correlation" ->
            IF e.type = "user_prompt" THEN {"message_uuid"} ELSE {"uuid"}
      [] OTHER -> DOMAIN e.extensions[namespace]

KeepsNamespace(e, namespace) ==
    CASE namespace = "event" -> KeptFields(e, "event") \cap DOMAIN e.extensions["event"] # {}
      [] namespace = "transcript" -> IsClaudePrompt(e) /\ e.type = "user_message"
      [] namespace = "correlation" -> IsClaudePrompt(e)
      [] namespace = "mcp_call" -> IsUse(e)
      [] namespace = "skill" -> DetectionState(e) = "explicit"
      [] namespace = "integration_state" -> HasIntegration(e)
      [] namespace \in {"governance_state", "session_lifecycle"} -> HasGovernance(e)
      [] OTHER -> namespace \in {"outcome_contract", "performance_metric"}

KeptExtensions(e) ==
    [namespace \in {n \in DOMAIN e.extensions :
                        n = "skill_detection" \/ KeepsNamespace(e, n)} |->
        IF namespace = "skill_detection" THEN e.extensions[namespace]
        ELSE Selected(e.extensions[namespace], KeptFields(e, namespace))]

Thin(e) ==
    [e EXCEPT !.attributes = Selected(@, KeptAttributes(e)),
              !.extensions = KeptExtensions(e)]

\* The marker of a surface, dated by the first event of the session.
MarkerOf(events, surface) ==
    LET first == FirstStored(events)
    IN  [id |-> <<LastId, 0>>, session |-> first.session, surface |-> surface,
         type |-> "skill_coverage", at |-> first.at, attributes |-> NoValues,
         extensions |-> [skill_detection |-> StrongestDetection(events, surface)]]

\* SourceEventsFromSession
SourceEvents(events) ==
    {Thin(e) : e \in {f \in events : IsSource(f)}}
        \cup {MarkerOf(events, surface) : surface \in Surfaces(events)}

-----------------------------------------------------------------------------
\* ThinAccessEvent: the path or command alone, and the event it is from.
ThinAccess(e, access, index) ==
    [id |-> <<e.id[1], index>>, session |-> e.session, surface |-> e.surface,
     type |-> e.type, at |-> e.at,
     attributes |-> IF access.method = "filesystem_read"
                    THEN [source_event_id |-> e.id, file_path |-> access.value]
                    ELSE [source_event_id |-> e.id, command |-> access.value],
     extensions |-> NoValues]

\* ThinAccessEvents: numbered across the session, in the order of a map within
\* one event.
ThinAccesses(events) ==
    LET before(e) == Cardinality({p \in EventAccesses(events) : StoredBefore(p[1], e)})
        within(e) == CHOOSE place \in [Accesses(e) -> 1 .. Cardinality(Accesses(e))] :
                        \A a, b \in Accesses(e) : place[a] = place[b] => a = b
    IN  {ThinAccess(p[1], p[2], before(p[1]) + within(p[1])[p[2]]) : p \in EventAccesses(events)}

\* rebuildInsightSignals, of a session's events.
SignalsOf(events) == SourceEvents(events) \cup ThinAccesses(events)
=============================================================================
