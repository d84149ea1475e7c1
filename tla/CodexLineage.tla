---------------------------- MODULE CodexLineage ----------------------------
(***************************************************************************)
(* ReconstructAgentRelations (internal/normalize/codex): the tree of Codex *)
(* threads, derived from every retained rollout event of every session.    *)
(* A child announces its parent (session_meta), a parent mentions its      *)
(* children (SubAgentActivity); either may be missing, because rollouts    *)
(* arrive, are deleted and expire independently.                           *)
(***************************************************************************)
EXTENDS Events

OfKind(rollout, kind) == {e \in rollout : e.body.kind = kind}

\* Threads with an event of their own; activity can name others.
Retained(rollout) == SessionIds(rollout)

Mentioned(rollout) == {e.body.thread : e \in OfKind(rollout, "activity")} \ {None}

Threads(rollout) == Retained(rollout) \cup Mentioned(rollout)

\* observeMetadata: the last session_meta that carries thread_spawn decides.
ParentOf(rollout, t) ==
    LET spawns == {e \in OfKind(rollout, "session_meta") :
                        e.session = t /\ e.body.thread # None}
    IN  IF spawns = {} THEN None ELSE StoreLast(spawns).body.thread

\* The trace of the thread's last task_started.
TraceOf(rollout, t) ==
    LET started == {e \in OfKind(rollout, "task_started") : e.session = t}
    IN  IF started = {} THEN None ELSE StoreLast(started).body.word

-----------------------------------------------------------------------------
(***************************************************************************)
(* setOutcome: a stronger outcome replaces a weaker one, the first of      *)
(* equal strength stays.                                                   *)
(***************************************************************************)
OutcomeRank(word) ==
    CASE word \in {"interrupted", "cancelled", "failed"} -> 2
      [] word = "completed" -> 1
      [] OTHER -> 0

\* The outcome event e reports of thread t, or None.
ReportedOutcome(e, t) ==
    CASE e.body.kind = "task_complete" /\ e.session = t -> "completed"
      [] e.body.kind = "turn_aborted" /\ e.session = t ->
            IF e.body.word = None THEN "cancelled" ELSE e.body.word
      [] /\ e.body.kind = "activity"
         /\ e.body.thread = t
         /\ e.body.word \in {"completed", "interrupted", "failed", "cancelled"} ->
            e.body.word
      [] OTHER -> None

OutcomeOf(rollout, t) ==
    LET reports == {e \in rollout : ReportedOutcome(e, t) # None}
        Strength(e) == OutcomeRank(ReportedOutcome(e, t))
        strongest == {e \in reports : \A f \in reports : Strength(f) <= Strength(e)}
    IN  IF reports = {} THEN None ELSE ReportedOutcome(StoreFirst(strongest), t)

\* observeOperation counts an item identifier once.
OperationCount(rollout, t) ==
    Cardinality({e.body.word : e \in {f \in OfKind(rollout, "operation") :
                                        f.session = t /\ f.body.word # None}})

\* Every thread that claims, or is claimed as, the parent of t.
ParentCandidates(rollout, t) ==
    ({e.session : e \in {f \in OfKind(rollout, "activity") : f.body.thread = t}}
        \cup {ParentOf(rollout, t)}) \ {None}

\* observeActivity keeps the first "started" activity as the spawn evidence.
SpawnOf(rollout, t) ==
    LET starts == {e \in OfKind(rollout, "activity") :
                        e.body.thread = t /\ e.body.word = "started"}
    IN  IF starts = {} THEN {} ELSE {StoreFirst(starts).id}

-----------------------------------------------------------------------------
(***************************************************************************)
(* codexAgentRoot climbs parent edges to a thread without a parent (the    *)
(* root: complete) or whose parent is not retained (incomplete).  A climb  *)
(* that never gets there runs in a loop, and t stands for its own root.    *)
(***************************************************************************)
Climb(rollout, t) ==
    LET up[n \in Nat] == IF n = 0 THEN t ELSE ParentOf(rollout, up[n - 1])
    IN  up

Tops(rollout, t) ==
    {r \in Retained(rollout) :
        /\ ParentOf(rollout, r) \notin Retained(rollout)
        /\ \E n \in 0 .. Cardinality(Retained(rollout)) : Climb(rollout, t)[n] = r}

RootOf(rollout, t) ==
    IF Tops(rollout, t) = {}
    THEN [thread |-> t, complete |-> FALSE]
    ELSE LET top == CHOOSE r \in Tops(rollout, t) : TRUE
         IN  [thread |-> top, complete |-> ParentOf(rollout, top) = None]

\* relationFromAgentThread: parent = None is a child of the main session.
Relation(rollout, t) ==
    LET root == RootOf(rollout, t)
        parent == ParentOf(rollout, t)
        trace == TraceOf(rollout, root.thread)
    IN  [tool |-> "codex",
         session |-> root.thread,
         trace |-> IF trace = None THEN root.thread ELSE trace,
         agent |-> t,
         parent |-> IF root.complete /\ parent = root.thread THEN None ELSE parent,
         outcome |-> OutcomeOf(rollout, t),
         operations |-> OperationCount(rollout, t),
         candidates |-> ParentCandidates(rollout, t),
         spawn |-> SpawnOf(rollout, t),
         evidence |-> {e.id : e \in {f \in rollout : f.session = t}}]

\* A thread that announced a parent has a relation; every other has none.
CodexRelations(rollout) ==
    {Relation(rollout, t) : t \in {u \in Threads(rollout) : ParentOf(rollout, u) # None}}
=============================================================================
