---------------------------- MODULE InsightEvents ----------------------------
(***************************************************************************)
(* A canonical event as the insight and policy engines read it, and the    *)
(* helpers with which they read optional values.                           *)
(*                                                                         *)
(* attributes maps names to values; extensions maps a namespace of         *)
(* provider_extensions to a map of its own, or to a string.  A blank or    *)
(* unparsable value is absent.  The surface of an event is its pair of     *)
(* provider and tool.  An optional number is a set of at most one number.  *)
(*                                                                         *)
(* An identifier is a pair of naturals in the order of its text: <<n, 0>>  *)
(* is an event as it was ingested, <<n, i>> a row derived from it, whose   *)
(* identifier has that of the event as a prefix.  Instants are tenths of a *)
(* second.                                                                 *)
(***************************************************************************)
EXTENDS Integers, Sequences, FiniteSets

LOCAL INSTANCE FiniteSetsExt
LOCAL INSTANCE TLC

\* The elements of a set as a sequence, in no order and in the order of before.
Listed(elements) == FoldSet(LAMBDA e, list : Append(list, e), << >>, elements)

Sorted(elements, before(_, _)) == SortSeq(Listed(elements), before)

Absent == {}

NoValues == << >>

\* stringValue, observedAttribute: the string under a key, or the fallback.
StringAt(values, key, fallback) ==
    IF key \in DOMAIN values /\ values[key] # "" THEN values[key] ELSE fallback

\* intValue, optionalInt64, contractInt.
NumberAt(values, key) == IF key \in DOMAIN values THEN {values[key]} ELSE Absent

\* firstInt
FirstNumber(primary, fallback) == IF primary # Absent THEN primary ELSE fallback

\* addOptional
AddNumber(left, right) ==
    CASE left = Absent -> right
      [] right = Absent -> left
      [] OTHER -> {l + r : l \in left, r \in right}

Smaller(left, right) ==
    {m \in left \cup right : \A n \in left \cup right : m <= n}

Larger(left, right) ==
    {m \in left \cup right : \A n \in left \cup right : m >= n}

\* A namespace of provider_extensions that is not there reads as an empty map.
Extension(e, namespace) ==
    IF namespace \in DOMAIN e.extensions THEN e.extensions[namespace] ELSE NoValues

\* copySelectedKeys, selectedKeys
Selected(values, keys) == [key \in keys \cap DOMAIN values |-> values[key]]

Without(values, keys) == Selected(values, DOMAIN values \ keys)

\* The values under the keys of names, each under its new name.
Renamed(values, names) ==
    [name \in {names[key] : key \in DOMAIN names \cap DOMAIN values} |->
        values[CHOOSE key \in DOMAIN names \cap DOMAIN values : names[key] = name]]

\* A map of one entry if there is a value for it.
Optionally(key, value) == [k \in IF value = Absent THEN {} ELSE {key} |-> CHOOSE v \in value : TRUE]

\* Of the blocks an adapter builds those that are not empty.
NotEmpty(blocks) ==
    Selected(blocks, {namespace \in DOMAIN blocks : DOMAIN blocks[namespace] # {}})

\* "skill-coverage:...", behind the identifiers the adapters make.
LastId == 1000000

IdBefore(i, j) == i[1] < j[1] \/ (i[1] = j[1] /\ i[2] < j[2])

\* Before in time, then in identifiers: the order of time.Time.
Before(e, f) == e.at < f.at \/ (e.at = f.at /\ IdBefore(e.id, f.id))

\* The place of an instant in the order of its text, in which a whole second
\* follows the fractions of it: see module Events.
TextRank(at) == IF at % 10 = 0 THEN at + 9 ELSE at - 1

\* ORDER BY occurred_at, event_id and ORDER BY occurred_at, signal_id
StoredBefore(e, f) ==
    \/ TextRank(e.at) < TextRank(f.at)
    \/ TextRank(e.at) = TextRank(f.at) /\ IdBefore(e.id, f.id)

InStoredOrder(events) == Sorted(events, StoredBefore)

FirstStored(events) == CHOOSE e \in events : \A f \in events \ {e} : StoredBefore(e, f)

-----------------------------------------------------------------------------
ClaudeCode == <<"anthropic", "claude-code">>
Codex == <<"openai", "codex">>

\* detectionState: what the provider says of skills on this event.
DetectionState(e) ==
    IF StringAt(e.extensions, "skill_detection", "") \in {"explicit", "inferred", "unavailable"}
    THEN e.extensions["skill_detection"]
    ELSE "unknown"

DetectionStates == <<"unknown", "unavailable", "inferred", "explicit">>

\* The best state any event of a surface carries, by detectionRank.
StrongestDetection(events, surface) ==
    LET states == {DetectionState(e) : e \in {f \in events : f.surface = surface}}
        strongest == CHOOSE i \in DOMAIN DetectionStates :
                        /\ DetectionStates[i] \in states
                        /\ \A j \in i + 1 .. Len(DetectionStates) :
                                DetectionStates[j] \notin states
    IN  DetectionStates[strongest]

Surfaces(events) == {e.surface : e \in events}

\* tokenSignals: input tokens and cached input tokens.
InputTokens(e) ==
    FirstNumber(NumberAt(e.attributes, "input_token_count"),
        FirstNumber(NumberAt(Extension(e, "event"), "input_tokens"),
                    NumberAt(Extension(e, "outcome_contract"), "input_tokens")))

CachedTokens(e) ==
    FirstNumber(NumberAt(e.attributes, "cached_input_tokens"),
        FirstNumber(NumberAt(e.attributes, "cached_input_token_count"),
                    NumberAt(Extension(e, "event"), "cache_read_tokens")))

HasTokens(e) == InputTokens(e) # Absent \/ CachedTokens(e) # Absent

IsConnection(e) == e.type = "mcp_server_connection"

\* mcpUseEvent: a call that names its server.
IsUse(e) ==
    /\ \/ e.type \in {"mcp_call", "mcp.call"}
       \/ StringAt(e.attributes, "category", "") = "MCP call"
    /\ StringAt(Extension(e, "mcp_call"), "server_name", "") # ""

EnvironmentKeys ==
    {"user_id", "user_account_uuid", "user_email", "workspace_host_paths", "organization_id",
     "app_version"}

\* claudeEnvironment, attachResourceEnvironment: the values of the record, span or
\* point before those of its resource.
Environment(values, resource) ==
    Selected(values, EnvironmentKeys) @@ Selected(resource, EnvironmentKeys)

\* environmentActorID, environmentRepositoryID: the first path of the workspace
\* that is not blank.
Actor(environment) ==
    StringAt(environment, "user_id",
        StringAt(environment, "user_account_uuid",
            StringAt(environment, "user_email", "unavailable")))

Repository(environment) ==
    LET paths == IF "workspace_host_paths" \in DOMAIN environment
                 THEN environment["workspace_host_paths"] ELSE << >>
        named == SelectSeq(paths, LAMBDA path : path # "")
    IN  IF named = << >> THEN Absent ELSE {Head(named)}

\* applyEnvironmentIdentity
Identity(environment) ==
    [actor |-> Actor(environment)] @@ Optionally("repository", Repository(environment))

HasContract(e) == "outcome_contract" \in DOMAIN e.extensions

HasMetric(e) == "performance_metric" \in DOMAIN e.extensions

-----------------------------------------------------------------------------
(***************************************************************************)
(* Access observations: every path and every command under a known key, in *)
(* the attributes or in a namespace of the extensions.                     *)
(***************************************************************************)
PathKeys == {"file_path", "path", "file", "filename"}
CommandKeys == {"command", "command_line", "cmd", "full_command"}

\* leafAccess
LeafAccesses(namespace, values) ==
    {[where |-> <<namespace, key>>,
      method |-> IF key \in PathKeys THEN "filesystem_read" ELSE "shell_command",
      value |-> values[key]]
        : key \in (PathKeys \cup CommandKeys) \cap DOMAIN values}

\* collectAccesses
Accesses(e) ==
    LeafAccesses("", e.attributes)
        \cup UNION {LeafAccesses(namespace, e.extensions[namespace]) :
                        namespace \in DOMAIN e.extensions \ {"skill_detection"}}

EventAccesses(events) == UNION {{e} \X Accesses(e) : e \in events}
=============================================================================
