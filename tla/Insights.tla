------------------------------ MODULE Insights ------------------------------
(***************************************************************************)
(* The insight engines (internal/insights), pure functions of the events   *)
(* they are given.  An engine whose result the code builds in the order of *)
(* the events is a fold over them in stored order; the others are sets.    *)
(* The order in which the rows of a report are listed is left out.         *)
(***************************************************************************)
EXTENDS InsightEvents

LOCAL INSTANCE SequencesExt
LOCAL INSTANCE FiniteSetsExt
LOCAL INSTANCE Functions

\* The sum of the numbers f has for the elements, Absent if it has none.
TotalNumber(f(_), elements) ==
    FoldSet(LAMBDA e, sum : AddNumber(f(e), sum), Absent, elements)

-----------------------------------------------------------------------------
(***************************************************************************)
(* skill.go                                                                *)
(***************************************************************************)
\* explicitSkill
IsNamedSkill(e) ==
    DetectionState(e) = "explicit" /\ StringAt(Extension(e, "skill"), "name", "") # ""

SkillOutcomes(uses) ==
    {StringAt(Extension(e, "skill"), "outcome", "") : e \in uses} \ {""}

SkillUsage(events) ==
    LET uses == {e \in events : IsNamedSkill(e)}
        key(e) == <<e.surface, Extension(e, "skill")["name"]>>
        of(k) == {e \in uses : key(e) = k}
    IN  [skills |-> {[skill |-> k,
                      count |-> Cardinality(of(k)),
                      outcomes |-> [outcome \in SkillOutcomes(of(k)) |->
                            Cardinality({e \in of(k) :
                                StringAt(Extension(e, "skill"), "outcome", "") = outcome})]]
                        : k \in {key(e) : e \in uses}},
         coverage |-> [surface \in Surfaces(events) |-> StrongestDetection(events, surface)]]

-----------------------------------------------------------------------------
(***************************************************************************)
(* observed_states.go, governance_states.go, integrations.go               *)
(***************************************************************************)
\* Mutant: of two states the one that is read later is shown.
ReplaceState(s, shown) == {r \in shown : r.key # s.key} \cup {s}

\* A state replaces the one of its key if it is later (stateIsLater).
ObserveState(s, shown) ==
    LET current == {r \in shown : r.key = s.key}
    IN  IF \A r \in current : Before(r, s) THEN (shown \ current) \cup {s} ELSE shown

\* latestObservedStates, over the states each row shows, in the order of the rows.
LatestStates(observed) ==
    FoldLeft(LAMBDA shown, states : FoldSet(ObserveState, shown, states), {}, observed)

State(e, key) == [key |-> key, at |-> e.at, id |-> e.id]

GovernanceStatesOf(e) ==
    {State(e, <<e.surface, e.session, kind, e.attributes[kind], "">>) :
        kind \in {k \in {"approval_policy", "sandbox_policy", "auth_mode"} :
                    StringAt(e.attributes, k, "") # ""}}
    \cup
    {State(e, <<e.surface, e.session, "auth_recovery", e.attributes["lifecycle_status"],
               StringAt(e.attributes, "lifecycle_phase", "")>>) :
        recovery \in {r \in {"auth_recovery"} :
                        /\ StringAt(e.attributes, "lifecycle_kind", "") = r
                        /\ StringAt(e.attributes, "lifecycle_status", "") # ""}}

GovernanceStates(events) ==
    LET rows == InStoredOrder(events)
    IN  LatestStates([i \in DOMAIN rows |-> GovernanceStatesOf(rows[i])])

\* What the event says, else that its server was used.
IntegrationStatesOf(e) ==
    LET kind == StringAt(e.attributes, "integration_kind", "")
        state == StringAt(e.attributes, "integration_state", "")
    IN  IF kind # "" /\ state # "" THEN
                {State(e, <<e.surface, kind,
                           StringAt(e.attributes, "integration_name", ""), state>>)}
        ELSE IF "mcp_call" \in DOMAIN e.extensions THEN
                {State(e, <<e.surface, "mcp",
                           StringAt(Extension(e, "mcp_call"), "server_name", ""), "used">>)}
        ELSE {}

IntegrationStates(events) ==
    LET rows == InStoredOrder(events)
    IN  LatestStates([i \in DOMAIN rows |-> IntegrationStatesOf(rows[i])])

-----------------------------------------------------------------------------
(***************************************************************************)
(* mcp.go                                                                  *)
(***************************************************************************)
\* requestTokenContext
TokenContext(e) ==
    LET event == Extension(e, "event")
    IN  [input |-> FirstNumber(NumberAt(e.attributes, "input_token_count"),
                               NumberAt(event, "input_tokens")),
         output |-> FirstNumber(NumberAt(e.attributes, "output_token_count"),
                                NumberAt(event, "output_tokens")),
         cached |-> CachedTokens(e),
         created |-> NumberAt(event, "cache_creation_tokens")]

\* mergeTokenContext, over all events of a session.
SessionTokens(events, session) ==
    LET of == {e \in events : e.session = session}
    IN  [input |-> TotalNumber(LAMBDA e : TokenContext(e).input, of),
         output |-> TotalNumber(LAMBDA e : TokenContext(e).output, of),
         cached |-> TotalNumber(LAMBDA e : TokenContext(e).cached, of),
         created |-> TotalNumber(LAMBDA e : TokenContext(e).created, of)]

\* The name is the identity of a server; a connection without one stands for
\* itself.
UseKey(e) == <<Extension(e, "mcp_call")["server_name"], <<0, 0>>>>

ConnectionKey(e) ==
    LET name == StringAt(Extension(e, "event"), "server_name", "")
    IN  <<name, IF name = "" THEN e.id ELSE <<0, 0>>>>

\* mcpConnection
Connection(e) ==
    [surface |-> e.surface, session |-> e.session,
     status |-> StringAt(Extension(e, "event"), "status", "unknown"),
     scope |-> StringAt(Extension(e, "event"), "server_scope", "unknown")]

UsedOnly(e) ==
    [surface |-> e.surface, session |-> e.session, status |-> "unavailable",
     scope |-> "unknown"]

\* The first use adds its server, a connection replaces what is there.
Servers(events) ==
    LET uses(k) == {e \in events : IsUse(e) /\ UseKey(e) = k}
        connections(k) == {e \in events : IsConnection(e) /\ ConnectionKey(e) = k}
        last(k) == CHOOSE e \in connections(k) :
                        \A f \in connections(k) \ {e} : StoredBefore(f, e)
    IN  [k \in {UseKey(e) : e \in {f \in events : IsUse(f)}}
                \cup {ConnectionKey(e) : e \in {f \in events : IsConnection(f)}} |->
            IF connections(k) # {} THEN Connection(last(k)) ELSE UsedOnly(FirstStored(uses(k)))]

\* mergeMCPUsage: every call of a server, whatever session it is in.
UsesOf(events, key) == {e \in events : IsUse(e) /\ UseKey(e) = key}

\* annotatedServer
ContextState(key, uses) ==
    IF uses # {} THEN "used"
    ELSE IF key[1] # "" THEN "connected_but_unused"
    ELSE "usage_unavailable"

MCPInventory(events) ==
    LET servers == Servers(events)
    IN  {[key |-> k, server |-> servers[k],
          invocations |-> Cardinality(UsesOf(events, k)),
          tools |-> {StringAt(Extension(e, "mcp_call"), "tool_name", "") :
                        e \in UsesOf(events, k)} \ {""},
          context |-> ContextState(k, UsesOf(events, k)),
          tokens |-> SessionTokens(events, servers[k].session)] : k \in DOMAIN servers}

\* mcpTotals: the tokens of a session once, however many servers it has.
InventoryTokens(inventory, kind) ==
    TotalNumber(LAMBDA pair : pair[2],
                {<<row.server.session, row.tokens[kind]>> : row \in inventory})

-----------------------------------------------------------------------------
(***************************************************************************)
(* model_performance.go                                                    *)
(***************************************************************************)
Contract(e) == e.extensions["outcome_contract"]

Recognised == {"success", "failed", "abandoned"}

\* Events with a contract for a known model: the model has a card even if the
\* status of the only one is not recognised.
Contracted(events) ==
    {e \in events : HasContract(e)
        /\ StringAt(Contract(e), "model", "") \notin {"", "unknown"}}

\* The value p percent up a sorted sequence, interpolated, in hundredths.
Percentile(sorted, p) ==
    LET rank == p * (Len(sorted) - 1)
        lower == rank \div 100
        weight == rank % 100
    IN  IF sorted = << >> THEN Absent
        ELSE IF weight = 0 THEN {100 * sorted[lower + 1]}
        ELSE {(100 - weight) * sorted[lower + 1] + weight * sorted[lower + 2]}

\* contractTokens
ContractTokens(e) ==
    AddNumber(NumberAt(Contract(e), "input_tokens"), NumberAt(Contract(e), "output_tokens"))

\* The durations of the outcomes, in order.
Latencies(outcomes) ==
    SortSeq(FoldSet(LAMBDA e, list : list \o Listed(NumberAt(Contract(e), "duration_ms")),
                    << >>, outcomes), <)

Scorecard(key, contracted) ==
    LET of == {e \in contracted : <<e.surface, Contract(e)["model"]>> = key}
        counted == {e \in of : StringAt(Contract(e), "status", "") \in Recognised}
        with(status) == {e \in of : StringAt(Contract(e), "status", "") = status}
        completed == {e \in with("success") : ContractTokens(e) # Absent}
        latencies == Latencies(counted)
    IN  [model |-> key,
         sample |-> Cardinality(counted),
         success |-> Cardinality(with("success")),
         failed |-> Cardinality(with("failed")),
         retries |-> Cardinality({e \in counted :
                        \E n \in NumberAt(Contract(e), "retry_attempt") : n > 0}),
         codes |-> LET code(e) == StringAt(Contract(e), "error_code", "")
                   IN  [c \in {code(e) : e \in counted} \ {""} |->
                            Cardinality({e \in counted : code(e) = c})],
         tokens |-> <<TotalNumber(ContractTokens, completed), Cardinality(completed)>>,
         p50 |-> Percentile(latencies, 50),
         p95 |-> Percentile(latencies, 95)]

Scorecards(events) ==
    {Scorecard(key, Contracted(events)) :
        key \in {<<e.surface, Contract(e)["model"]>> : e \in Contracted(events)}}

MinRankingSampleSize == 10

\* rankingFor: no ranking unless every model has enough outcomes.
RankingAvailable(cards) ==
    Cardinality(cards) >= 2 /\ \A card \in cards : card.sample >= MinRankingSampleSize

-----------------------------------------------------------------------------
\* performanceSummary, of an event whose metric has a name, a family and a kind.
Metric(e) == e.extensions["performance_metric"]

IsSummary(e) ==
    /\ HasMetric(e)
    /\ StringAt(Metric(e), "name", "") # "" /\ StringAt(Metric(e), "family", "") # ""
    /\ StringAt(Metric(e), "kind", "") \in {"histogram", "sum"}

Delta == 1

Temporality(e) ==
    IF "temporality" \in DOMAIN Metric(e) THEN Metric(e)["temporality"] ELSE 0

MetricKey(e) ==
    <<e.surface, StringAt(e.attributes, "model", ""), Metric(e)["name"], Metric(e)["kind"],
      StringAt(Metric(e), "scope", ""), StringAt(Metric(e), "dimensions", ""),
      Temporality(e)>>

Summary(e) ==
    [count |-> NumberAt(Metric(e), "sample_count"), total |-> NumberAt(Metric(e), "sum"),
     value |-> NumberAt(Metric(e), "value"),
     min |-> NumberAt(Metric(e), "min"), max |-> NumberAt(Metric(e), "max")]

\* mergeDeltaPerformance
MergeSummaries(left, right) ==
    [count |-> AddNumber(left.count, right.count), total |-> AddNumber(left.total, right.total),
     value |-> AddNumber(left.value, right.value),
     min |-> Smaller(left.min, right.min), max |-> Larger(left.max, right.max)]

\* Mutant: every sample is added, whether it is the change or the count so far.
AccumulateEvery(rows, e) ==
    IF ~IsSummary(e) THEN rows
    ELSE IF MetricKey(e) \notin DOMAIN rows THEN
            [k \in DOMAIN rows \cup {MetricKey(e)} |->
                IF k = MetricKey(e) THEN [summary |-> Summary(e), at |-> e.at, id |-> e.id]
                ELSE rows[k]]
    ELSE [rows EXCEPT ![MetricKey(e)].summary = MergeSummaries(@, Summary(e))]

\* accumulatePerformanceMetric: changes are added, of counts so far the latest
\* is kept.
AccumulateMetric(rows, e) ==
    IF ~IsSummary(e) THEN rows
    ELSE IF MetricKey(e) \notin DOMAIN rows THEN
            [k \in DOMAIN rows \cup {MetricKey(e)} |->
                IF k = MetricKey(e) THEN [summary |-> Summary(e), at |-> e.at, id |-> e.id]
                ELSE rows[k]]
    ELSE
            LET row == rows[MetricKey(e)]
                summary == IF Temporality(e) = Delta THEN
                               MergeSummaries(row.summary, Summary(e))
                           ELSE IF Before(row, e) THEN Summary(e)
                           ELSE row.summary
                latest == IF Before(row, e) THEN e ELSE row
            IN  [rows EXCEPT ![MetricKey(e)] =
                    [summary |-> summary, at |-> latest.at, id |-> latest.id]]

PerformanceMetrics(events) == FoldLeft(AccumulateMetric, NoValues, InStoredOrder(events))

-----------------------------------------------------------------------------
(***************************************************************************)
(* context_waste.go                                                        *)
(***************************************************************************)
InputSamples(points) == {e \in points : InputTokens(e) # Absent}

NumbersOf(f(_), events) == UNION {f(e) : e \in events}

\* inputStats: the earliest and the largest sample.
FirstInput(points) ==
    NumbersOf(InputTokens, {e \in InputSamples(points) :
        \A f \in InputSamples(points) \ {e} : Before(e, f)})

MaxInput(points) ==
    LET inputs == NumbersOf(InputTokens, points)
    IN  {n \in inputs : \A m \in inputs : m <= n}

\* overlapSums: of the points with both numbers.
Overlap(points) ==
    LET both == {e \in points : InputTokens(e) # Absent /\ CachedTokens(e) # Absent}
    IN  [input |-> TotalNumber(InputTokens, both), cached |-> TotalNumber(CachedTokens, both)]

\* A ratio is a pair of numbers, the second one positive; so are thresholds.
AtLeast(ratio, threshold) == ratio[1] * threshold[2] >= threshold[1] * ratio[2]

\* cachedContextRatio
CachedRatio(points) ==
    LET overlap == Overlap(points)
    IN  {<<c, i>> : c \in overlap.cached, i \in {n \in overlap.input : n > 0}}

\* inputTokenGrowth
InputGrowth(points) ==
    IF Cardinality(InputSamples(points)) < 2 THEN {}
    ELSE {<<m, f>> : m \in MaxInput(points), f \in {n \in FirstInput(points) : n > 0}}

ContextWaste(events, thresholds) ==
    LET points(s) == {e \in events : e.session = s /\ HasTokens(e)}
    IN  {[session |-> s, points |-> Cardinality(points(s)),
          ratio |-> CachedRatio(points(s)), growth |-> InputGrowth(points(s)),
          reasons |-> (IF \E r \in CachedRatio(points(s)) : AtLeast(r, thresholds.ratio)
                       THEN {"cached_context_ratio"} ELSE {})
                      \cup (IF \E g \in InputGrowth(points(s)) : AtLeast(g, thresholds.growth)
                             THEN {"input_token_growth"} ELSE {})]
            : s \in {e.session : e \in {f \in events : HasTokens(f)}}}
=============================================================================
