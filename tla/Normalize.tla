------------------------------ MODULE Normalize ------------------------------
(***************************************************************************)
(* What every adapter does with the events and operations it made          *)
(* (normalize.go): one of each identity is kept.                           *)
(*                                                                         *)
(* An event is [id, session, type, at, facts]; facts are what it can tell a*)
(* reader: the links, prompts and records it carries.                      *)
(***************************************************************************)
EXTENDS Naturals, Sequences

\* The position of the one kept among those of its identity: the earliest, and
\* of several at one time the first.  made is a function of positions, of lines say.
FirstOfItsId(made, i) ==
    \A j \in DOMAIN made :
        made[j].id = made[i].id =>
            \/ made[i].at < made[j].at
            \/ made[i].at = made[j].at /\ i <= j

\* CorrelateEvents, but for the order, which no one who stores events sees.
CorrelateEvents(made) ==
    {made[i] : i \in {k \in DOMAIN made : FirstOfItsId(made, k)}}

\* CorrelateOperations: the sort is stable, so the first one is kept.
CorrelateOperations(operations) ==
    {operations[i] : i \in {k \in DOMAIN operations :
        \A j \in 1 .. k - 1 : \/ operations[j].operation # operations[k].operation
                              \/ operations[j].session # operations[k].session}}
=============================================================================
