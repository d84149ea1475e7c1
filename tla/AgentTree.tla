------------------------------ MODULE AgentTree ------------------------------
(***************************************************************************)
(* agenttree/tree.go: the tree of the sub-agents of a Claude Code session, *)
(* from the relations the repository derives from its stored spans.        *)
(*                                                                         *)
(* Children are listed in stored order, which is left out here: a node has *)
(* its parent, as a set of at most one relation.                           *)
(***************************************************************************)
EXTENDS InsightEvents

LOCAL INSTANCE SequencesExt
LOCAL INSTANCE Functions
LOCAL INSTANCE TLC

Lineage == INSTANCE ClaudeLineage WITH Event <- {}, Session <- {}, TicksPerSecond <- 1

\* subAgentSpanFromEvent: a stored span as the lineage reads it.
SubAgentSpan(e) ==
    LET envelope == Extension(e, "span")
        attributes == Extension(e, "span_attributes")
        text(key) == IF key \in DOMAIN envelope THEN ToString(envelope[key]) ELSE ""
    IN  [id |-> e.id[1], session |-> e.session, tool |-> "claude-code", at |-> e.at,
         body |-> [kind |-> "span", trace |-> text("trace_id"), span |-> text("span_id"),
                   parentSpan |-> text("parent_span_id"),
                   agent |-> StringAt(attributes, "agent_id", ""),
                   parentAgent |-> StringAt(attributes, "parent_agent_id", ""),
                   type |-> StringAt(e.attributes, "span_type", ""), order |-> e.at]]

SubAgentSpans(events) ==
    {SubAgentSpan(e) :
        e \in {f \in events : f.surface = ClaudeCode /\ "span" \in DOMAIN f.extensions}}

Relations(session, events) == Lineage!ClaudeRelations(session, SubAgentSpans(events))

-----------------------------------------------------------------------------
\* The agent whose span spawned this one; "" is the main session.
Spawner(r, spans) == {s.body.agent : s \in {t \in spans : t.id \in r.spawn}}

\* classify, withCandidate: what is proved of the parent of a relation.
Position(r, relations, spans) ==
    LET spawner == Spawner(r, spans)
        named == spawner \ {""}
        retained == {q \in relations : q.trace = r.trace /\ q.agent = r.parent}
        position(state, candidates, parent) ==
            [relation |-> r, state |-> state, candidates |-> candidates, parent |-> parent]
    IN  IF Cardinality(r.candidates) > 1 THEN
                position("parent_conflict", r.candidates \cup named, {})
        ELSE IF r.parent = "" /\ spawner = {""} THEN position("main_session_observed", {}, {})
        ELSE IF r.parent = "" THEN position("unknown", named, {})
        ELSE IF named \ {r.parent} # {} THEN
            position("parent_conflict", {r.parent} \cup named, {})
        ELSE IF retained = {} THEN position("parent_agent_not_retained", {}, {})
        ELSE position("parent_agent_observed", {}, retained)

\* The path of one walk: along the parents, up to a node that is visited.
WalkFrom(start, parentOf, settled) ==
    LET extend(path, n) ==
            LET next == parentOf[Last(path)] \ (settled \cup Range(path))
            IN  path \o Listed(next)
    IN  IF start \in settled THEN << >>
        ELSE FoldLeft(extend, << start >>, Listed(DOMAIN parentOf))

\* Mutant: only the node that the walk enters again is taken for one of a loop.
LoopWithoutItsTail(path, parentOf) ==
    IF path = << >> THEN {} ELSE parentOf[Last(path)] \cap Range(path)

\* flagLoop: the tail of the path from the node it enters again.
LoopOf(path, parentOf) ==
    IF path = << >> THEN {}
    ELSE {path[i] : i \in {j \in DOMAIN path :
            \E k \in 1 .. j : path[k] \in parentOf[Last(path)]}}

\* markCycles: one walk from each node; no node is walked twice.
Loops(parentOf) ==
    LET walk(marked, start) ==
            LET path == WalkFrom(start, parentOf, marked.settled)
            IN  [settled |-> marked.settled \cup Range(path),
                 loops |-> marked.loops \cup LoopOf(path, parentOf)]
    IN  FoldLeft(walk, [settled |-> {}, loops |-> {}], Listed(DOMAIN parentOf)).loops

Positions(session, events) ==
    LET relations == Relations(session, events)
        spans == SubAgentSpans(events)
    IN  {Position(r, relations, spans) : r \in relations}

\* The proven parent of each relation.
ParentOf(positions) ==
    LET parent(r) == UNION {p.parent : p \in {q \in positions : q.relation = r}}
    IN  [r \in {p.relation : p \in positions} |-> parent(r)]

\* Build: a node on a loop keeps its relation and becomes a root.
AgentNodes(session, events) ==
    LET positions == Positions(session, events)
        loops == Loops(ParentOf(positions))
    IN  {IF p.relation \in loops THEN [p EXCEPT !.state = "cycle", !.parent = {}] ELSE p :
            p \in positions}

\* nest: the relations a reader of the tree meets, from its roots down.
ShownAgents(nodes) ==
    LET descend(shown, n) ==
            shown \cup {node.relation :
                node \in {m \in nodes : m.parent # {} /\ m.parent \subseteq shown}}
    IN  FoldLeft(descend, {node.relation : node \in {m \in nodes : m.parent = {}}},
                 Listed(nodes))
=============================================================================
