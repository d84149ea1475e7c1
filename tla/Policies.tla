------------------------------ MODULE Policies ------------------------------
(***************************************************************************)
(* The governance policies (internal/governance) and the classification of *)
(* paths and commands they use (privacy/sanitizer.go): pure functions of   *)
(* the events and of the configured lists.  A report is its outcome, its   *)
(* visibility and its findings.                                            *)
(*                                                                         *)
(* A path is a sequence of characters; "/" separates, and a name such as   *)
(* ".env" stands for a whole segment.  A command is the sequence of the    *)
(* words commandSplit makes of it, each read as a path.                    *)
(***************************************************************************)
EXTENDS Insights, Conversation

LOCAL INSTANCE SequencesExt
LOCAL INSTANCE Functions
LOCAL INSTANCE TLC

Report(findings, outcome, visibility) ==
    [findings |-> findings, outcome |-> outcome, visibility |-> visibility]

Unconfigured == Report({}, "indeterminate", "policy_unconfigured")
Unavailable == Report({}, "indeterminate", "unavailable")

-----------------------------------------------------------------------------
Names == {".env", ".env.example", ".ssh", "id_rsa", "key.pem", "credentials", ".aws", ".config"}

Segments(path) == SelectSeq(path, LAMBDA c : c # "/")

SecretSegments == {".ssh", ".aws"}
SecretNames == {".env", "id_rsa", "key.pem", "credentials"}
HomeSegments == {".ssh", ".aws", ".config"}

\* ClassifyPath: a secret by any of its directories or by its last segment.
IsSecret(path) ==
    /\ Segments(path) # << >>
    /\ \/ Range(Segments(path)) \cap SecretSegments # {}
       \/ Last(Segments(path)) \in SecretNames

\* classifyBoundary
Boundary(path) ==
    CASE path # << >> /\ path[1] = "~" -> "external"
      [] path # << >> /\ path[1] = "/" ->
            IF Range(path) \cap HomeSegments # {} THEN "external" ELSE "indeterminate"
      [] path = << >> -> "indeterminate"
      [] OTHER -> "project"

\* classifyAccess: what is found in one access.
AccessFindings(e, access) ==
    LET values == IF access.method = "filesystem_read" THEN << access.value >> ELSE access.value
        secret == SelectSeq(values, IsSecret)
    IN  IF secret = << >> THEN {}
        ELSE {[method |-> access.method, boundary |-> Boundary(secret[1]),
               value |-> access.value, at |-> e.at, session |-> e.session]}

\* Findings are listed as often as they are made: found pairs each with its place.
Counted(found) ==
    {[finding |-> made, times |-> Cardinality({pair \in found : pair[2] = made})] :
        made \in {pair[2] : pair \in found}}

\* RiskyAccessFromEvents
RiskyAccess(events) ==
    LET found == UNION {{<<<<p[1].id, p[2].where>>, finding>> :
                            finding \in AccessFindings(p[1], p[2])} : p \in EventAccesses(events)}
    IN  IF found # {} THEN Report(Counted(found), "violation", "observed")
        ELSE IF EventAccesses(events) # {} THEN Report({}, "not_violation", "observed")
        ELSE Unavailable

-----------------------------------------------------------------------------
(***************************************************************************)
(* path_rules.go.  pathMatcher.match: the positions in the path from which *)
(* the pattern matches from its place i on, given those of its later       *)
(* places.                                                                 *)
(***************************************************************************)
IsAt(pattern, i, c) == i <= Len(pattern) /\ pattern[i] = c

\* Mutant: "**/" stands for one segment at least.
PlacesOfSegments(places, pattern, path, i) ==
    LET across == IsAt(pattern, i + 1, "*")
        next == IF across THEN i + 2 ELSE i + 1
    IN  IF i > Len(pattern) THEN {Len(path) + 1}
        ELSE IF pattern[i] = "*" THEN
            {j \in 1 .. Len(path) + 1 : \E k \in j .. Len(path) + 1 :
                /\ across \/ \A m \in j .. k - 1 : path[m] # "/"
                /\ k \in places[next]}
        ELSE {j \in 1 .. Len(path) :
                /\ IF pattern[i] = "?" THEN path[j] # "/" ELSE path[j] = pattern[i]
                /\ j + 1 \in places[i + 1]}

PlacesFrom(places, pattern, path, i) ==
    LET across == IsAt(pattern, i + 1, "*")
        next == IF across THEN i + 2 ELSE i + 1
    IN  IF i > Len(pattern) THEN {Len(path) + 1}
        ELSE IF pattern[i] = "*" THEN
            (IF across /\ IsAt(pattern, next, "/") THEN places[next + 1] ELSE {})
            \cup {j \in 1 .. Len(path) + 1 : \E k \in j .. Len(path) + 1 :
                    /\ across \/ \A m \in j .. k - 1 : path[m] # "/"
                    /\ k \in places[next]}
        ELSE {j \in 1 .. Len(path) :
                /\ IF pattern[i] = "?" THEN path[j] # "/" ELSE path[j] = pattern[i]
                /\ j + 1 \in places[i + 1]}

GlobPlaces(pattern, path) ==
    LET places[i \in 1 .. Len(pattern) + 1] == PlacesFrom(places, pattern, path, i)
    IN  places

GlobMatches(pattern, path) == 1 \in GlobPlaces(pattern, path)[1]

MatchesAny(path, patterns) ==
    \E p \in patterns : IF p.kind = "exact" THEN p.value = path ELSE GlobMatches(p.value, path)

\* pathRuleDecision: the reason to flag a path, if there is one.
PathReason(path, rules) ==
    IF MatchesAny(path, rules.blocked) THEN {"blocked_match"}
    ELSE IF rules.mode = "approved_only" THEN
            IF MatchesAny(path, rules.allowed) THEN {} ELSE {"not_allowed"}
    ELSE IF rules.mode = "flag_all" THEN {"flag_all"}
    ELSE {}

\* Mutant: a finding names the row it was made of.
SourceRow(e) == e.id

\* pathRuleSourceEventID
SourceEvent(e) ==
    IF "source_event_id" \in DOMAIN e.attributes THEN e.attributes["source_event_id"] ELSE e.id

PathAccesses(events) ==
    {pair \in EventAccesses(events) : pair[2].method = "filesystem_read"}

PathRules(events, rules) ==
    LET found == UNION {{<<<<p[1].id, p[2].where>>,
                           [path |-> p[2].value, reason |-> reason, event |-> SourceEvent(p[1]),
                            session |-> p[1].session]>> :
                            reason \in PathReason(p[2].value, rules)} : p \in PathAccesses(events)}
    IN  IF rules.mode = "" THEN Unconfigured
        ELSE IF PathAccesses(events) = {} THEN Unavailable
        ELSE IF found # {} THEN Report(Counted(found), "violation", "observed")
        ELSE Report({}, "not_violation", "observed")

-----------------------------------------------------------------------------
(***************************************************************************)
(* prompt_keywords.go.  A rule is the texts it matches.                    *)
(***************************************************************************)
UserPrompts(events) == {e \in ConversationRecords(events) : Role(e) = "user"}

\* promptIdentityKey: the provider's identity of the message, where there is
\* one, joins its two telemetries.
PromptIdentity(e) ==
    LET uuid == StringAt(Extension(e, "correlation"),
                         IF e.type = "user_prompt" THEN "message_uuid" ELSE "uuid", "")
    IN  IF e.surface = ClaudeCode /\ uuid # "" THEN <<"claude", e.session, uuid>>
        ELSE <<"event", e.id>>

\* Mutant: where the log has a text of the prompt, it decides alone.
FindingOfLog(sources, rule) ==
    LET logged == {e \in sources : e.type = "user_prompt"}
        matched == {e \in IF logged # {} THEN logged ELSE sources : Text(e) \in rule.texts}
        primary == CHOOSE e \in matched : \A f \in matched \ {e} : IdBefore(e.id, f.id)
    IN  IF matched = {} THEN {}
        ELSE {[rule |-> rule.id, event |-> primary.id, session |-> primary.session,
               corroborating |-> {e.id : e \in matched \ {primary}}]}

\* promptIdentity.finding: the log record comes first, the others corroborate.
PromptFinding(sources, rule) ==
    LET matched == {e \in sources : Text(e) \in rule.texts}
        logged == {e \in matched : e.type = "user_prompt"}
        among == IF logged # {} THEN logged ELSE matched
        primary == CHOOSE e \in among : \A f \in among \ {e} : IdBefore(e.id, f.id)
    IN  IF matched = {} THEN {}
        ELSE {[rule |-> rule.id, event |-> primary.id, session |-> primary.session,
               corroborating |-> {e.id : e \in matched \ {primary}}]}

PromptKeywords(events, rules) ==
    LET enabled == {r \in rules : r.enabled}
        prompts == {{e \in UserPrompts(events) : PromptIdentity(e) = key} :
                        key \in {PromptIdentity(e) : e \in UserPrompts(events)}}
        sources(prompt) == {e \in prompt : ContentAvailability(e) = "available"}
        findings == UNION {PromptFinding(sources(pair[1]), pair[2]) :
                                pair \in prompts \X enabled}
        complete == {p \in prompts : sources(p) # {}}
    IN  IF enabled = {} THEN Unconfigured
        ELSE IF findings # {} THEN Report(findings, "violation", "observed")
        ELSE IF complete = {} THEN Unavailable
        ELSE IF complete # prompts THEN Report({}, "indeterminate", "partial")
        ELSE Report({}, "not_violation", "observed")

-----------------------------------------------------------------------------
(***************************************************************************)
(* unapproved_mcp.go and unapproved_skills.go.                             *)
(***************************************************************************)
\* A server without a name can be neither approved nor flagged.
UnapprovedMCP(events, allowlist) ==
    LET names == {key[1] : key \in DOMAIN Servers(events)}
        findings == {[server |-> k, state |-> IF k[1] = "" THEN "unidentified" ELSE "unapproved"]
                        : k \in {key \in DOMAIN Servers(events) : key[1] \notin allowlist}}
    IN  IF allowlist = {} THEN Unconfigured
        ELSE IF names = {} THEN Unavailable
        ELSE IF names \subseteq allowlist THEN Report({}, "not_violation", "observed")
        ELSE IF names \ allowlist = {""} THEN Report(findings, "indeterminate", "observed")
        ELSE Report(findings, "violation", "observed")

\* skillSignalPresent: a word on skills that names none.  The explicit marker of
\* the signals is not one.
IsIncompleteSkill(e) ==
    /\ "skill_detection" \in DOMAIN e.extensions
    /\ ~IsNamedSkill(e)
    /\ ~(e.type = "skill_coverage" /\ e.extensions["skill_detection"] = "explicit")

UnapprovedSkills(events, allowlist) ==
    LET named == {e \in events : IsNamedSkill(e)}
        name(e) == Extension(e, "skill")["name"]
        flagged == {e \in named : name(e) \notin allowlist}
        findings == {[skill |-> <<e.surface, name(e)>>,
                      events |-> {f.id : f \in {g \in flagged :
                            <<g.surface, name(g)>> = <<e.surface, name(e)>>}}] : e \in flagged}
        incomplete == \E e \in events : IsIncompleteSkill(e)
    IN  IF allowlist = {} THEN Unconfigured
        ELSE IF findings # {} THEN Report(findings, "violation", "observed")
        ELSE IF incomplete THEN Report({}, "indeterminate", "partial")
        ELSE IF named = {} THEN Unavailable
        ELSE Report({}, "not_violation", "observed")
=============================================================================
