---------------------------- MODULE RetainedStore ----------------------------
(***************************************************************************)
(* What the repository promises its callers, without transactions, partial *)
(* work, failures or restarts: an ingest request is stored whole and at    *)
(* once, data leaves only by whole sessions, and whatever is derived from  *)
(* the retained events always agrees with them.                            *)
(***************************************************************************)
EXTENDS Naturals

CONSTANTS
    Session,       \* the sessions there can be
    Batch,         \* ingest requests
    Calculator,    \* price catalogs, and the absence of one
    Derived(_),    \* what is derived from a set of events
    Stored(_, _)   \* rows of operations, with those of a request merged in

VARIABLES
    events,        \* the retained events
    costs,         \* their prices
    operations,    \* the evidence of tool calls
    view           \* the derived tables

vars == <<events, costs, operations, view>>

NoCalculator == ""

Cost(e, catalog) == [event |-> e.id, session |-> e.session, catalog |-> catalog]

Init ==
    /\ events = {} /\ costs = {} /\ operations = {}
    /\ view = Derived({})

\* The first copy of each identifier the store has not retained yet.
NewEvents(sent) ==
    {sent[i] : i \in {j \in DOMAIN sent :
        /\ \A e \in events : e.id # sent[j].id
        /\ \A k \in 1 .. j - 1 : sent[k].id # sent[j].id}}

\* A request is stored whole, its new events priced from one catalog if any.
Accept(batch) ==
    LET new == NewEvents(batch.events)
    IN  /\ events' = events \cup new
        /\ \E catalog \in Calculator :
            costs' = costs \cup {Cost(e, catalog) :
                                    e \in IF catalog = NoCalculator THEN {} ELSE new}
        /\ operations' = Stored(operations, batch.operations)
        /\ view' = Derived(events')

\* Deletion and retention forget sessions: everything of theirs, nothing else.
Forget(gone) ==
    /\ events' = {e \in events : e.session \notin gone}
    /\ costs' = {c \in costs : c.session \notin gone}
    /\ operations' = {o \in operations : o.session \notin gone}
    /\ view' = Derived(events')

Next ==
    \/ \E batch \in Batch : Accept(batch)
    \/ \E gone \in SUBSET Session : Forget(gone)

Spec == Init /\ [][Next]_vars
=============================================================================
