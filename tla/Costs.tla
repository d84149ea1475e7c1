-------------------------------- MODULE Costs --------------------------------
(***************************************************************************)
(* The cost of an event and of what is stored (internal/cost), as pure     *)
(* functions; that a cost is kept with its event, whatever catalog comes   *)
(* later, is in module Repository.                                         *)
(*                                                                         *)
(* A price is [id, provider, models, weight, effective, rates]: the models *)
(* its matcher accepts, and the weight of a match, which is the length of  *)
(* the matcher's text, and 10000 more if it names one model alone.  Rates  *)
(* are per million tokens.                                                 *)
(***************************************************************************)
EXTENDS InsightEvents

LOCAL INSTANCE SequencesExt
LOCAL INSTANCE FiniteSetsExt

CONSTANT Catalog     \* the records of the price catalog, in its order

\* merge: a record of the override replaces the one with its identifier.
Merged(bundled, override) ==
    LET ids(records) == {records[i].id : i \in DOMAIN records}
        of(id) == override[CHOOSE i \in DOMAIN override : override[i].id = id]
    IN  [i \in DOMAIN bundled |->
            IF bundled[i].id \in ids(override) THEN of(bundled[i].id) ELSE bundled[i]]
        \o SelectSeq(override, LAMBDA r : r.id \notin ids(bundled))

\* selectPrice: of the prices in force the closest match, of several the latest,
\* of several the first.
Preferred(i, j) ==
    \/ Catalog[i].weight > Catalog[j].weight
    \/ /\ Catalog[i].weight = Catalog[j].weight
       /\ \/ Catalog[i].effective > Catalog[j].effective
          \/ Catalog[i].effective = Catalog[j].effective /\ i < j

SelectPrice(provider, model, at) ==
    LET matching == {i \in DOMAIN Catalog : /\ Catalog[i].provider = provider
                                            /\ model \in Catalog[i].models
                                            /\ Catalog[i].effective <= at}
    IN  {Catalog[i] : i \in {k \in matching : \A j \in matching \ {k} : Preferred(k, j)}}

MetricSamples ==
    {"codex.turn.token_usage", "claude_code.token.usage", "claude_code.cost.usage",
     "cursor.token.usage"}

\* Mutant: the samples of one tool are taken for requests.
PricesCursorSamples(e) ==
    IF e.type \in MetricSamples \ {"cursor.token.usage"} THEN NoValues
    ELSE Renamed(e.attributes,
                 [input_token_count |-> "input", cached_input_token_count |-> "cached_input",
                  output_token_count |-> "output", reasoning_token_count |-> "reasoning"])

\* The tokens that are priced: samples of a metric are left out, since they
\* repeat what the records of the requests say.
ObservedTokens(e) ==
    IF e.type \in MetricSamples THEN NoValues
    ELSE Renamed(e.attributes,
                 [input_token_count |-> "input", cached_input_token_count |-> "cached_input",
                  output_token_count |-> "output", reasoning_token_count |-> "reasoning"])

RoundedProduct(tokens, rate) == (tokens * rate + 500000) \div 1000000

\* Calculator.Calculate: a category without a rate leaves the amount partial.
EventCost(e) ==
    LET tokens == ObservedTokens(e)
        prices == SelectPrice(e.surface[1], StringAt(e.attributes, "model", ""), e.at)
        rates == UNION {DOMAIN p.rates : p \in prices}
        amount(p) == MapThenSumSet(LAMBDA c : RoundedProduct(tokens[c], p.rates[c]),
                                   DOMAIN tokens \cap DOMAIN p.rates)
    IN  [amount |-> IF tokens = NoValues THEN Absent ELSE {amount(p) : p \in prices},
         status |-> IF tokens = NoValues THEN "not_applicable"
                    ELSE IF StringAt(e.attributes, "model", "") = "" THEN "unknown_model"
                    ELSE IF prices = {} THEN "unknown_price"
                    ELSE IF DOMAIN tokens \subseteq rates THEN "calculated"
                    ELSE "partial"]

\* SummarizeCosts: no amount at all where nothing has one.
SummarizeCosts(events) ==
    LET statuses == {EventCost(e).status : e \in events}
    IN  [amount |-> FoldSet(LAMBDA e, sum : AddNumber(EventCost(e).amount, sum), Absent, events),
         statuses |-> [s \in statuses |->
                            Cardinality({e \in events : EventCost(e).status = s})]]
=============================================================================
