---------------------------- MODULE ClaudeLineage ----------------------------
(***************************************************************************)
(* ReconstructSubAgentRelations (internal/normalize/claude): the sub-agent *)
(* tree of one Claude Code session, derived from all its stored spans.     *)
(***************************************************************************)
EXTENDS Events

IsSpan(e) == e.body.kind = "span"

\* One view per (trace, span): the first in store order wins; a span without
\* an identifier is never a duplicate.
SubAgentSpans(events) ==
    {e \in {f \in events : IsSpan(f)} :
        e.body.span # None =>
            ~ \E f \in events : /\ IsSpan(f)
                                /\ f.body.trace = e.body.trace
                                /\ f.body.span = e.body.span
                                /\ StoreBefore(f, e)}

\* The order in which relationFromGroup reads an agent's spans.
SpanBefore(e, f) ==
    \/ e.body.order < f.body.order
    \/ e.body.order = f.body.order /\ StoreBefore(e, f)

EarliestSpan(spans) == CHOOSE e \in spans : \A f \in spans \ {e} : SpanBefore(e, f)

\* spawnSpanFor: the n-th ancestors along parent_span_id, within the trace.
Ancestors(spans, e) ==
    LET up[n \in Nat] ==
            IF n = 0
            THEN {e}
            ELSE LET children == up[n - 1]
                 IN  {p \in spans : \E c \in children :
                        /\ c.body.parentSpan # None
                        /\ p.body.span = c.body.parentSpan
                        /\ p.body.trace = c.body.trace}
    IN  up

\* The nearest ancestor tool span of another agent, as a set of at most one.
SpawnSpan(spans, e) ==
    LET Spawners(n) == {p \in Ancestors(spans, e)[n] :
                            p.body.type = "tool" /\ p.body.agent # e.body.agent}
        distances == {n \in 1 .. Cardinality(spans) : Spawners(n) # {}}
    IN  IF distances = {}
        THEN {}
        ELSE Spawners(CHOOSE n \in distances : \A m \in distances : n <= m)

\* relationFromGroup over the spans of one (trace, agent).
SubAgentRelation(s, spans, group) ==
    LET parented == {e \in group : e.body.parentAgent # None}
        spawned == {e \in group : SpawnSpan(spans, e) # {}}
        first == EarliestSpan(group)
    IN  [tool |-> "claude-code",
         session |-> s,
         trace |-> first.body.trace,
         agent |-> first.body.agent,
         parent |-> IF parented = {} THEN None
                    ELSE EarliestSpan(parented).body.parentAgent,
         candidates |-> {e.body.parentAgent : e \in parented},
         spawn |-> IF spawned = {} THEN {}
                   ELSE {p.id : p \in SpawnSpan(spans, EarliestSpan(spawned))},
         evidence |-> {e.id : e \in group},
         operations |-> Cardinality({e \in group : e.body.type = "tool"}),
         requests |-> Cardinality({e \in group : e.body.type = "llm_request"})]

ClaudeRelations(s, events) ==
    LET spans == SubAgentSpans(events)
        agents == {e \in spans : e.body.agent # None}
    IN  {SubAgentRelation(s, spans, {f \in agents : /\ f.body.trace = e.body.trace
                                                    /\ f.body.agent = e.body.agent})
            : e \in agents}
=============================================================================
