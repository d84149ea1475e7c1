--------------------------- MODULE InspectionProofs ---------------------------
(***************************************************************************)
(* Proofs about Inspection, for every set of worlds, payloads and          *)
(* configurations: the table of signals is a function of the stored events,*)
(* a violation that was reported stands while its telemetry is kept, the   *)
(* path rules flag the paths their patterns mean, the policies decide over *)
(* the signals as they would over the events, and the tree of a session's  *)
(* agents shows each of them, and as a cycle those on one.                 *)
(***************************************************************************)
EXTENDS SequencesExt, Inspection, SequenceTheorems, Induction

UniqueIds(S) == \A e, f \in S : e.id = f.id => e = f

\* The rows of insight_signals that the events of a table give.
SignalsOfAll(S) == UNION {SignalsOf(OfSession(S, session)) : session \in {e.session : e \in S}}

SignalsInvariant ==
    /\ world \in Worlds
    /\ \A e \in events : IsEvent(e)
    /\ UniqueIds(events)
    /\ signals = SignalsOfAll(events)

(***************************************************************************)
(* A set of events has a first one, whose session the markers are of.      *)
(***************************************************************************)
LEMMA TextRankType == \A at \in Nat : TextRank(at) \in Nat
<1> SUFFICES ASSUME NEW at \in Nat PROVE TextRank(at) \in Nat
  OBVIOUS
<1>1. CASE at = 0
  BY <1>1 DEF TextRank
<1>2. CASE at > 0
  BY <1>2 DEF TextRank
<1> QED BY <1>1, <1>2

\* The elements of a set that has one whose number is least.
LEMMA LeastBy ==
    ASSUME NEW S, S # {}, NEW f, \A e \in S : f[e] \in Nat
    PROVE  \E e \in S : \A d \in S : f[e] <= f[d]
<1> DEFINE N == {f[e] : e \in S}
<1>1. N \in SUBSET Nat /\ N # {}
  OBVIOUS
<1>2. PICK m \in N : \A n \in N : m <= n
  <2> HIDE DEF N
  <2> QED BY <1>1, Least
<1>3. PICK e \in S : m = f[e]
  OBVIOUS
<1>4. \A d \in S : f[d] \in N
  OBVIOUS
<1> QED BY <1>2, <1>3, <1>4

LEMMA FirstStoredExists ==
    ASSUME NEW S, S # {}, \A e \in S : IsEvent(e), UniqueIds(S)
    PROVE  /\ FirstStored(S) \in S
           /\ \A e \in S \ {FirstStored(S)} : StoredBefore(FirstStored(S), e)
<1> DEFINE rank == [e \in S |-> TextRank(e.at)]
           A == {e \in S : \A d \in S : rank[e] <= rank[d]}
           high == [e \in A |-> e.id[1]]
           B == {e \in A : \A d \in A : high[e] <= high[d]}
           low == [e \in B |-> e.id[2]]
           C == {e \in B : \A d \in B : low[e] <= low[d]}
<1>1. \A e \in S : rank[e] \in Nat /\ rank[e] = TextRank(e.at)
  BY TextRankType DEF IsEvent
<1>2. A # {}
  <2>1. \E e \in S : \A d \in S : rank[e] <= rank[d]
    <3> HIDE DEF rank
    <3> QED BY <1>1, LeastBy
  <2> QED BY <2>1
<1>3. \A e \in A : high[e] \in Nat /\ high[e] = e.id[1]
  BY DEF IsEvent
<1>4. B # {}
  <2>1. \E e \in A : \A d \in A : high[e] <= high[d]
    <3> HIDE DEF A, high
    <3> QED BY <1>2, <1>3, LeastBy
  <2> QED BY <2>1
<1>5. \A e \in B : low[e] \in Nat /\ low[e] = e.id[2]
  BY DEF IsEvent
<1>6. C # {}
  <2>1. \E e \in B : \A d \in B : low[e] <= low[d]
    <3> HIDE DEF B, low
    <3> QED BY <1>4, <1>5, LeastBy
  <2> QED BY <2>1
<1>7. PICK e \in C : TRUE
  BY <1>6
<1>8. e \in S /\ e \in A /\ e \in B
  OBVIOUS
<1>9. ASSUME NEW f \in S \ {e} PROVE StoredBefore(e, f)
  <2>1. rank[e] <= rank[f] /\ rank[e] \in Nat /\ rank[f] \in Nat
    <3> HIDE DEF rank
    <3> QED BY <1>1, <1>8
  <2>2. CASE rank[e] < rank[f]
    BY <1>1, <1>8, <2>2 DEF StoredBefore
  <2>3. CASE rank[e] = rank[f]
    <3>1. f \in A
      <4> HIDE DEF rank
      <4> QED BY <1>1, <1>8, <2>3
    <3>2. high[e] <= high[f] /\ high[e] = e.id[1] /\ high[f] = f.id[1]
      <4> HIDE DEF A, high
      <4> QED BY <1>3, <1>8, <3>1
    <3>3. e.id \in Nat \X Nat /\ f.id \in Nat \X Nat /\ e.id # f.id
      BY <1>8, <1>9 DEF IsEvent, UniqueIds
    <3>4. TextRank(e.at) = TextRank(f.at)
      <4> HIDE DEF rank
      <4> QED BY <1>1, <1>8, <2>3
    <3>5. CASE e.id[1] < f.id[1]
      <4> HIDE DEF rank, A, high, B, low, C
      <4> QED BY <3>4, <3>5 DEF StoredBefore, IdBefore
    <3>6. CASE e.id[1] = f.id[1]
      <4>1. f \in B
        <5> HIDE DEF A, high
        <5> QED BY <1>3, <1>8, <3>1, <3>2, <3>6
      <4>2. low[e] <= low[f] /\ low[e] = e.id[2] /\ low[f] = f.id[2]
        <5> HIDE DEF B, low
        <5> QED BY <1>5, <1>8, <4>1
      <4> HIDE DEF rank, A, high, B, low, C
      <4>3. e.id[2] < f.id[2]
        BY <3>3, <3>6, <4>2
      <4> QED BY <3>4, <3>6, <4>3 DEF StoredBefore, IdBefore
    <3> HIDE DEF rank, A, high, B, low, C
    <3> QED BY <3>2, <3>3, <3>5, <3>6
  <2> HIDE DEF rank
  <2> QED BY <2>1, <2>2, <2>3
<1> HIDE DEF rank, A, high, B, low, C
<1> QED BY <1>8, <1>9 DEF FirstStored

(***************************************************************************)
(* The rows of a session's events are rows of the session.                 *)
(***************************************************************************)
LEMMA SignalsOfNothing == SignalsOf({}) = {}
<1>1. EventAccesses({}) = {}
  BY DEF EventAccesses
<1>2. ThinAccesses({}) = {}
  BY <1>1 DEF ThinAccesses
<1>3. SourceEvents({}) = {}
  BY DEF SourceEvents, Surfaces
<1> QED BY <1>2, <1>3 DEF SignalsOf

LEMMA ThinFields ==
    ASSUME NEW e, IsEvent(e)
    PROVE  Thin(e) = [id |-> e.id, session |-> e.session, surface |-> e.surface,
                      type |-> e.type, at |-> e.at,
                      attributes |-> Selected(e.attributes, KeptAttributes(e)),
                      extensions |-> KeptExtensions(e)]
<1> DEFINE d == [id |-> e.id, session |-> e.session, surface |-> e.surface, type |-> e.type,
                 at |-> e.at, attributes |-> e.attributes, extensions |-> e.extensions]
           a == Selected(e.attributes, KeptAttributes(e))
           x == KeptExtensions(e)
<1>1. e = d
  BY DEF IsEvent
<1>2. Thin(e) = [e EXCEPT !.attributes = a, !.extensions = x]
  BY DEF Thin
<1>3. Thin(e) = [d EXCEPT !.attributes = a, !.extensions = x]
  <2> HIDE DEF a, x, d
  <2> QED BY <1>1, <1>2
<1> HIDE DEF a, x
<1> QED BY <1>3 DEF a, x

LEMMA SignalsOfSession ==
    ASSUME NEW S, \A e \in S : IsEvent(e), UniqueIds(S), NEW session,
           \A e \in S : e.session = session, NEW row \in SignalsOf(S)
    PROVE  row.session = session
<1>1. CASE \E e \in S : row = Thin(e)
  BY <1>1, ThinFields
<1>2. CASE \E surface \in Surfaces(S) : row = MarkerOf(S, surface)
  <2>1. S # {}
    BY <1>2 DEF Surfaces
  <2>2. FirstStored(S) \in S
    BY <2>1, FirstStoredExists
  <2> QED BY <1>2, <2>2 DEF MarkerOf
<1>3. CASE \E p \in EventAccesses(S) : \E n : row = ThinAccess(p[1], p[2], n)
  <2>1. PICK p \in EventAccesses(S) : \E n : row = ThinAccess(p[1], p[2], n)
    BY <1>3
  <2>2. p[1] \in S
    BY DEF EventAccesses
  <2>3. row.session = p[1].session
    BY <2>1 DEF ThinAccess
  <2> QED BY <2>2, <2>3
<1>4. SourceEvents(S) = {Thin(e) : e \in {f \in S : IsSource(f)}}
                            \cup {MarkerOf(S, surface) : surface \in Surfaces(S)}
  BY DEF SourceEvents
<1>5. row \in SourceEvents(S) \/ row \in ThinAccesses(S)
  BY DEF SignalsOf
<1>6. ASSUME row \in ThinAccesses(S)
      PROVE  \E p \in EventAccesses(S) : \E n : row = ThinAccess(p[1], p[2], n)
  BY <1>6 DEF ThinAccesses
<1> QED BY <1>1, <1>2, <1>3, <1>4, <1>5, <1>6

(***************************************************************************)
(* The inductive invariant.                                                *)
(***************************************************************************)
\* INSERT OR IGNORE keeps what is stored and adds rows of the payload.
LEMMA InsertedRows ==
    ASSUME NEW rows, NEW table, UniqueIds(table)
    PROVE  /\ table \subseteq Inserted(rows, table)
           /\ \A r \in Inserted(rows, table) : r \in table \/ r \in rows
           /\ UniqueIds(Inserted(rows, table))
<1> DEFINE ids == {r.id : r \in rows} \ {r.id : r \in table}
           chosen(id) == CHOOSE r \in rows : r.id = id
<1>1. \A id \in ids : chosen(id) \in rows /\ chosen(id).id = id
  OBVIOUS
<1>2. \A r \in table : r.id \notin ids
  OBVIOUS
<1>3. Inserted(rows, table) = table \cup {chosen(id) : id \in ids}
  BY DEF Inserted
<1> HIDE DEF ids, chosen
<1>4. UniqueIds(Inserted(rows, table))
  <2> SUFFICES ASSUME NEW e \in Inserted(rows, table), NEW f \in Inserted(rows, table),
                      e.id = f.id
               PROVE  e = f
    BY DEF UniqueIds
  <2>1. CASE e \in table /\ f \in table
    BY <2>1 DEF UniqueIds
  <2>2. CASE e \in table /\ f \notin table
    BY <1>1, <1>2, <1>3, <2>2
  <2>3. CASE e \notin table /\ f \in table
    BY <1>1, <1>2, <1>3, <2>3
  <2>4. CASE e \notin table /\ f \notin table
    BY <1>1, <1>3, <2>4
  <2> QED BY <2>1, <2>2, <2>3, <2>4
<1> QED BY <1>1, <1>3, <1>4

\* Where no event of a session comes or goes its rows are what they were.
LEMMA SignalsBySession ==
    ASSUME NEW S, \A e \in S : IsEvent(e), UniqueIds(S), NEW row
    PROVE  row \in SignalsOfAll(S) <=> row \in SignalsOf(OfSession(S, row.session))
<1> DEFINE own(session) == OfSession(S, session)
<1>1. \A session : /\ own(session) \subseteq S
                   /\ \A e \in own(session) : e.session = session /\ IsEvent(e)
                   /\ UniqueIds(own(session))
  BY DEF OfSession, UniqueIds
<1> HIDE DEF own
<1>2. ASSUME NEW session, row \in SignalsOf(own(session)) PROVE row.session = session
  BY <1>1, <1>2, SignalsOfSession
<1>3. ASSUME row \in SignalsOfAll(S) PROVE row \in SignalsOf(own(row.session))
  BY <1>2, <1>3 DEF SignalsOfAll, own
<1>4. ASSUME row \in SignalsOf(own(row.session)) PROVE row \in SignalsOfAll(S)
  <2>1. own(row.session) # {}
    BY <1>4, SignalsOfNothing
  <2>2. row.session \in {e.session : e \in S}
    BY <1>1, <2>1
  <2> QED BY <1>4, <2>2 DEF SignalsOfAll, own
<1> QED BY <1>3, <1>4 DEF own

LEMMA InitSignals == Init => SignalsInvariant
<1> SUFFICES ASSUME Init PROVE SignalsInvariant
  OBVIOUS
<1>1. world \in Worlds /\ events = {} /\ signals = {}
  BY DEF Init
<1>2. SignalsOfAll({}) = {}
  BY DEF SignalsOfAll
<1> QED BY <1>1, <1>2 DEF SignalsInvariant, UniqueIds

\* The sessions of the payload are rebuilt; no other session gets an event.
LEMMA IngestSignals ==
    ASSUME SignalsInvariant, NEW i \in DOMAIN Received[world], Ingest(Received[world][i])
    PROVE  SignalsInvariant'
<1> DEFINE payload == Received[world][i]
           touched == {e.session : e \in payload.events}
<1>1. /\ world' = world /\ world \in Worlds
      /\ events' = Inserted(payload.events, events)
      /\ signals' = Rebuilt(touched, events')
  BY DEF SignalsInvariant, Ingest
<1>2. \A e \in payload.events : IsEvent(e)
  BY <1>1, EventsAssumption
<1>3. (\A e \in events : IsEvent(e)) /\ UniqueIds(events) /\ signals = SignalsOfAll(events)
  BY DEF SignalsInvariant
<1> HIDE DEF payload
<1>4. /\ events \subseteq events'
      /\ \A e \in events' : e \in events \/ e \in payload.events
      /\ UniqueIds(events')
  BY <1>1, <1>3, InsertedRows
<1>5. \A e \in events' : IsEvent(e)
  BY <1>2, <1>3, <1>4
<1>6. ASSUME NEW session, session \notin touched
      PROVE  OfSession(events', session) = OfSession(events, session)
  BY <1>4, <1>6 DEF OfSession
<1>7. \A row : row \in signals' <=>
                \/ row \in signals /\ row.session \notin touched
                \/ \E session \in touched : row \in SignalsOf(OfSession(events', session))
  <2> HIDE DEF touched
  <2> QED BY <1>1 DEF Rebuilt
<1>8. ASSUME NEW row PROVE row \in signals' <=> row \in SignalsOfAll(events')
  <2> HIDE DEF touched
  <2>1. row \in SignalsOfAll(events') <=> row \in SignalsOf(OfSession(events', row.session))
    BY <1>4, <1>5, SignalsBySession
  <2>2. row \in signals <=> row \in SignalsOf(OfSession(events, row.session))
    BY <1>3, SignalsBySession
  <2>3. CASE row.session \notin touched
    <3>1. \A session \in touched : row \notin SignalsOf(OfSession(events', session))
      <4> SUFFICES ASSUME NEW session \in touched,
                          row \in SignalsOf(OfSession(events', session))
                   PROVE  FALSE
        OBVIOUS
      <4>1. /\ \A e \in OfSession(events', session) : IsEvent(e) /\ e.session = session
            /\ UniqueIds(OfSession(events', session))
        BY <1>4, <1>5 DEF OfSession, UniqueIds
      <4>2. row.session = session
        BY <4>1, SignalsOfSession
      <4> QED BY <2>3, <4>2
    <3> QED BY <1>6, <1>7, <2>1, <2>2, <2>3, <3>1
  <2>4. CASE row.session \in touched
    <3>1. ASSUME NEW session \in touched, row \in SignalsOf(OfSession(events', session))
          PROVE  session = row.session
      <4>1. /\ \A e \in OfSession(events', session) : IsEvent(e) /\ e.session = session
            /\ UniqueIds(OfSession(events', session))
        BY <1>4, <1>5 DEF OfSession, UniqueIds
      <4> QED BY <3>1, <4>1, SignalsOfSession
    <3> QED BY <1>7, <2>1, <2>4, <3>1
  <2> QED BY <2>3, <2>4
<1>9. signals' = SignalsOfAll(events')
  <2>1. signals' \subseteq SignalsOfAll(events') /\ SignalsOfAll(events') \subseteq signals'
    BY <1>8
  <2> QED BY <2>1
<1> QED BY <1>1, <1>4, <1>5, <1>9 DEF SignalsInvariant

LEMMA DeleteSignals ==
    ASSUME SignalsInvariant, NEW session, Delete(session)
    PROVE  SignalsInvariant'
<1>1. /\ world' = world /\ world \in Worlds
      /\ events' = events \ OfSession(events, session)
      /\ signals' = signals \ OfSession(signals, session)
  BY DEF SignalsInvariant, Delete
<1>2. (\A e \in events : IsEvent(e)) /\ UniqueIds(events) /\ signals = SignalsOfAll(events)
  BY DEF SignalsInvariant
<1>3. (\A e \in events' : IsEvent(e)) /\ UniqueIds(events')
  BY <1>1, <1>2 DEF UniqueIds
<1>4. ASSUME NEW row PROVE row \in signals' <=> row \in SignalsOfAll(events')
  <2>1. row \in SignalsOfAll(events') <=> row \in SignalsOf(OfSession(events', row.session))
    BY <1>3, SignalsBySession
  <2>2. row \in signals <=> row \in SignalsOf(OfSession(events, row.session))
    BY <1>2, SignalsBySession
  <2>3. row \in signals' <=> row \in signals /\ row.session # session
    BY <1>1 DEF OfSession
  <2>4. CASE row.session = session
    <3>1. OfSession(events', row.session) = {}
      BY <1>1, <2>4 DEF OfSession
    <3> QED BY <2>1, <2>3, <2>4, <3>1, SignalsOfNothing
  <2>5. CASE row.session # session
    <3>1. OfSession(events', row.session) = OfSession(events, row.session)
      BY <1>1, <2>5 DEF OfSession
    <3> QED BY <2>1, <2>2, <2>3, <2>5, <3>1
  <2> QED BY <2>4, <2>5
<1>5. signals' = SignalsOfAll(events')
  <2>1. signals' \subseteq SignalsOfAll(events') /\ SignalsOfAll(events') \subseteq signals'
    BY <1>4
  <2> QED BY <2>1
<1> QED BY <1>1, <1>3, <1>5 DEF SignalsInvariant

LEMMA StepSignals == SignalsInvariant /\ [Next]_vars => SignalsInvariant'
<1> SUFFICES ASSUME SignalsInvariant, [Next]_vars PROVE SignalsInvariant'
  OBVIOUS
<1>1. ASSUME NEW i \in DOMAIN Received[world], Ingest(Received[world][i])
      PROVE  SignalsInvariant'
  BY <1>1, IngestSignals
<1>2. ASSUME NEW session, Delete(session) PROVE SignalsInvariant'
  BY <1>2, DeleteSignals
<1>3. CASE UNCHANGED vars
  <2>1. world' = world /\ events' = events /\ signals' = signals
    BY <1>3 DEF vars
  <2> QED BY <2>1 DEF SignalsInvariant
<1> QED BY <1>1, <1>2, <1>3 DEF Next

\* The insights never read the events table: whatever was ingested, repeated or
\* deleted, in whichever order, insight_signals holds exactly the rows that the
\* stored events of each session give.
THEOREM SignalsCorrect == Spec => []SignalsInvariant
<1> QED BY InitSignals, StepSignals, PTL DEF Spec

\* INSERT OR IGNORE and deletions keep the identifiers of events and of operations
\* keys of their tables.
THEOREM TypeCorrect == Spec => []TypeOK
<1>1. Init => TypeOK
  BY DEF Init, TypeOK
<1>2. TypeOK /\ [Next]_vars => TypeOK'
  <2> SUFFICES ASSUME TypeOK, [Next]_vars PROVE TypeOK'
    OBVIOUS
  <2>1. world \in Worlds /\ UniqueIds(events) /\ UniqueIds(operations)
    BY DEF TypeOK, UniqueIds
  <2> SUFFICES world' \in Worlds /\ UniqueIds(events') /\ UniqueIds(operations')
    BY DEF TypeOK, UniqueIds
  <2>2. ASSUME NEW i \in DOMAIN Received[world], Ingest(Received[world][i])
        PROVE  world' \in Worlds /\ UniqueIds(events') /\ UniqueIds(operations')
    <3> DEFINE payload == Received[world][i]
    <3>1. /\ world' = world
          /\ events' = Inserted(payload.events, events)
          /\ operations' = Inserted(payload.operations, operations)
      BY <2>2 DEF Ingest
    <3> HIDE DEF payload
    <3> QED BY <2>1, <3>1, InsertedRows
  <2>3. ASSUME NEW session, Delete(session)
        PROVE  world' \in Worlds /\ UniqueIds(events') /\ UniqueIds(operations')
    BY <2>1, <2>3 DEF Delete, UniqueIds
  <2>4. CASE UNCHANGED vars
    BY <2>1, <2>4 DEF vars
  <2> QED BY <2>2, <2>3, <2>4 DEF Next
<1> QED BY <1>1, <1>2, PTL DEF Spec

(***************************************************************************)
(* What a row says, whatever its identifier and its time.  A row of more   *)
(* events may have another number, and a marker another state; nothing     *)
(* else of a row changes while its event is stored.                        *)
(***************************************************************************)
SameEvidence(q, r) ==
    /\ q.type = r.type /\ q.surface = r.surface
    /\ q.attributes = r.attributes /\ q.extensions = r.extensions

IsMarker(r) ==
    /\ r.type = "skill_coverage" /\ r.attributes = NoValues
    /\ DOMAIN r.extensions = {"skill_detection"}

LEMMA RowsOfMore ==
    ASSUME NEW S, NEW T, S \subseteq T, NEW r \in SignalsOf(S)
    PROVE  IsMarker(r) \/ \E q \in SignalsOf(T) : SameEvidence(q, r)
<1>1. CASE \E e \in S : IsSource(e) /\ r = Thin(e)
  <2>1. r \in SourceEvents(T)
    BY <1>1 DEF SourceEvents
  <2> QED BY <2>1 DEF SignalsOf, SameEvidence
<1>2. CASE \E surface \in Surfaces(S) : r = MarkerOf(S, surface)
  BY <1>2 DEF MarkerOf, IsMarker
<1>3. CASE \E p \in EventAccesses(S) : \E n : r = ThinAccess(p[1], p[2], n)
  <2>0. PICK p \in EventAccesses(S) : \E n : r = ThinAccess(p[1], p[2], n)
    BY <1>3
  <2>1. PICK n : r = ThinAccess(p[1], p[2], n)
    BY <2>0
  <2>2. p \in EventAccesses(T)
    BY DEF EventAccesses
  <2>3. \E m : ThinAccess(p[1], p[2], m) \in ThinAccesses(T)
    BY <2>2 DEF ThinAccesses
  <2>4. PICK m : ThinAccess(p[1], p[2], m) \in ThinAccesses(T)
    BY <2>3
  <2>5. SameEvidence(ThinAccess(p[1], p[2], m), r)
    BY <2>1 DEF ThinAccess, SameEvidence
  <2> QED BY <2>4, <2>5 DEF SignalsOf
<1>4. SourceEvents(S) = {Thin(e) : e \in {f \in S : IsSource(f)}}
                            \cup {MarkerOf(S, surface) : surface \in Surfaces(S)}
  BY DEF SourceEvents
<1>5. r \in SourceEvents(S) \/ r \in ThinAccesses(S)
  BY DEF SignalsOf
<1>6. ASSUME r \in ThinAccesses(S)
      PROVE  \E p \in EventAccesses(S) : \E n : r = ThinAccess(p[1], p[2], n)
  BY <1>6 DEF ThinAccesses
<1> QED BY <1>1, <1>2, <1>3, <1>4, <1>5, <1>6

LEMMA RowsStay ==
    ASSUME NEW S, NEW T, S \subseteq T, NEW r \in SignalsOfAll(S)
    PROVE  IsMarker(r) \/ \E q \in SignalsOfAll(T) : SameEvidence(q, r)
<1>1. PICK session \in {e.session : e \in S} : r \in SignalsOf(OfSession(S, session))
  BY DEF SignalsOfAll
<1>2. OfSession(S, session) \subseteq OfSession(T, session)
  BY DEF OfSession
<1>3. IsMarker(r) \/ \E q \in SignalsOf(OfSession(T, session)) : SameEvidence(q, r)
  BY <1>1, <1>2, RowsOfMore
<1>4. session \in {e.session : e \in T}
  BY <1>1
<1> QED BY <1>3, <1>4 DEF SignalsOfAll

(***************************************************************************)
(* Each policy reports a violation exactly if some row has evidence of it. *)
(***************************************************************************)
ShowsAccess(r) == \E access \in Accesses(r) : AccessFindings(r, access) # {}

ShowsPath(r, rules) ==
    \E access \in Accesses(r) :
        access.method = "filesystem_read" /\ PathReason(access.value, rules) # {}

ShowsPrompt(r, rules) ==
    /\ IsConversationEvent(r) /\ Role(r) = "user" /\ ContentAvailability(r) = "available"
    /\ \E rule \in rules : rule.enabled /\ Text(r) \in rule.texts

ShowsServer(r, name) ==
    \/ IsUse(r) /\ UseKey(r)[1] = name
    \/ IsConnection(r) /\ ConnectionKey(r)[1] = name

ShowsSkill(r, allowlist) == IsNamedSkill(r) /\ Extension(r, "skill")["name"] \notin allowlist

LEMMA AccessViolated ==
    ASSUME NEW S
    PROVE  RiskyAccess(S).outcome = "violation" <=> \E r \in S : ShowsAccess(r)
<1> DEFINE of(p) == {<<<<p[1].id, p[2].where>>, finding>> :
                        finding \in AccessFindings(p[1], p[2])}
           found == UNION {of(p) : p \in EventAccesses(S)}
<1>1. found # {} <=> \E r \in S : ShowsAccess(r)
  <2>1. \A p : p \in EventAccesses(S) <=> \E r \in S : \E a \in Accesses(r) : p = <<r, a>>
    BY DEF EventAccesses
  <2>2. found # {} <=> \E p \in EventAccesses(S) : AccessFindings(p[1], p[2]) # {}
    <3>1. \A p : of(p) # {} <=> AccessFindings(p[1], p[2]) # {}
      OBVIOUS
    <3> HIDE DEF of
    <3>2. found # {} <=> \E p \in EventAccesses(S) : of(p) # {}
      OBVIOUS
    <3> QED BY <3>1, <3>2
  <2>3. ASSUME NEW p \in EventAccesses(S), AccessFindings(p[1], p[2]) # {}
        PROVE  \E r \in S : ShowsAccess(r)
    <3>0. PICK r \in S : \E a \in Accesses(r) : p = <<r, a>>
      BY <2>1
    <3>1. PICK a \in Accesses(r) : p = <<r, a>>
      BY <3>0
    <3>2. AccessFindings(r, a) # {}
      BY <2>3, <3>1
    <3> QED BY <3>2 DEF ShowsAccess
  <2>4. ASSUME NEW r \in S, NEW a \in Accesses(r), AccessFindings(r, a) # {}
        PROVE  \E p \in EventAccesses(S) : AccessFindings(p[1], p[2]) # {}
    <3>1. <<r, a>> \in EventAccesses(S) /\ <<r, a>>[1] = r /\ <<r, a>>[2] = a
      BY <2>1
    <3> QED BY <2>4, <3>1
  <2> HIDE DEF found
  <2> QED BY <2>2, <2>3, <2>4 DEF ShowsAccess
<1>2. RiskyAccess(S) = IF found # {} THEN Report(Counted(found), "violation", "observed")
                       ELSE IF EventAccesses(S) # {}
                       THEN Report({}, "not_violation", "observed")
                       ELSE Unavailable
  BY DEF RiskyAccess
<1> HIDE DEF found
<1>3. RiskyAccess(S).outcome = "violation" <=> found # {}
  BY <1>2 DEF Report, Unavailable
<1> QED BY <1>1, <1>3

LEMMA SkillViolated ==
    ASSUME NEW S, NEW allowlist
    PROVE  UnapprovedSkills(S, allowlist).outcome = "violation"
            <=> allowlist # {} /\ \E r \in S : ShowsSkill(r, allowlist)
<1> DEFINE named == {e \in S : IsNamedSkill(e)}
           name(e) == Extension(e, "skill")["name"]
           flagged == {e \in named : name(e) \notin allowlist}
           findings == {[skill |-> <<e.surface, name(e)>>,
                         events |-> {f.id : f \in {g \in flagged :
                            <<g.surface, name(g)>> = <<e.surface, name(e)>>}}] : e \in flagged}
           incomplete == \E e \in S : IsIncompleteSkill(e)
<1>1. findings # {} <=> \E r \in S : ShowsSkill(r, allowlist)
  BY DEF ShowsSkill
<1>2. UnapprovedSkills(S, allowlist) =
        IF allowlist = {} THEN Unconfigured
        ELSE IF findings # {} THEN Report(findings, "violation", "observed")
        ELSE IF incomplete THEN Report({}, "indeterminate", "partial")
        ELSE IF named = {} THEN Unavailable
        ELSE Report({}, "not_violation", "observed")
  BY DEF UnapprovedSkills
<1> HIDE DEF findings, incomplete, named
<1> QED BY <1>1, <1>2 DEF Report, Unavailable, Unconfigured

LEMMA PathViolated ==
    ASSUME NEW S, NEW rules
    PROVE  PathRules(S, rules).outcome = "violation"
            <=> rules.mode # "" /\ \E r \in S : ShowsPath(r, rules)
<1> DEFINE of(p) == {<<<<p[1].id, p[2].where>>,
                       [path |-> p[2].value, reason |-> reason, event |-> SourceEvent(p[1]),
                        session |-> p[1].session]>> : reason \in PathReason(p[2].value, rules)}
           found == UNION {of(p) : p \in PathAccesses(S)}
<1>1. \A p : p \in PathAccesses(S) <=>
        \E r \in S : \E a \in Accesses(r) : p = <<r, a>> /\ a.method = "filesystem_read"
  BY DEF PathAccesses, EventAccesses
<1>2. \A p : of(p) # {} <=> PathReason(p[2].value, rules) # {}
  OBVIOUS
<1>3. PathRules(S, rules) =
        IF rules.mode = "" THEN Unconfigured
        ELSE IF PathAccesses(S) = {} THEN Unavailable
        ELSE IF found # {} THEN Report(Counted(found), "violation", "observed")
        ELSE Report({}, "not_violation", "observed")
  BY DEF PathRules
<1> HIDE DEF of
<1>4. found # {} <=> \E r \in S : ShowsPath(r, rules)
  <2>1. found # {} <=> \E p \in PathAccesses(S) : of(p) # {}
    OBVIOUS
  <2>2. ASSUME NEW p \in PathAccesses(S), of(p) # {} PROVE \E r \in S : ShowsPath(r, rules)
    <3>1. PICK r \in S : \E a \in Accesses(r) : p = <<r, a>> /\ a.method = "filesystem_read"
      BY <1>1
    <3>2. PICK a \in Accesses(r) : p = <<r, a>> /\ a.method = "filesystem_read"
      BY <3>1
    <3> QED BY <1>2, <2>2, <3>2 DEF ShowsPath
  <2>3. ASSUME NEW r \in S, NEW a \in Accesses(r), a.method = "filesystem_read",
               PathReason(a.value, rules) # {}
        PROVE  \E p \in PathAccesses(S) : of(p) # {}
    <3>1. <<r, a>> \in PathAccesses(S) /\ <<r, a>>[2] = a
      BY <1>1, <2>3
    <3> QED BY <1>2, <2>3, <3>1
  <2> HIDE DEF found
  <2> QED BY <2>1, <2>2, <2>3 DEF ShowsPath
<1>5. found # {} => PathAccesses(S) # {}
  OBVIOUS
<1> HIDE DEF found
<1> DEFINE configured == rules.mode # ""
<1>6. PathRules(S, rules) =
        IF ~configured THEN Unconfigured
        ELSE IF PathAccesses(S) = {} THEN Unavailable
        ELSE IF found # {} THEN Report(Counted(found), "violation", "observed")
        ELSE Report({}, "not_violation", "observed")
  BY <1>3, Zenon
<1> HIDE DEF configured
<1>7. PathRules(S, rules).outcome = "violation" <=> configured /\ found # {}
  BY <1>5, <1>6 DEF Report, Unavailable, Unconfigured
<1> QED BY <1>4, <1>7, Zenon DEF configured

LEMMA PromptViolated ==
    ASSUME NEW S, NEW rules
    PROVE  PromptKeywords(S, rules).outcome = "violation" <=> \E r \in S : ShowsPrompt(r, rules)
<1> DEFINE enabled == {r \in rules : r.enabled}
           prompt(key) == {e \in UserPrompts(S) : PromptIdentity(e) = key}
           prompts == {prompt(key) : key \in {PromptIdentity(e) : e \in UserPrompts(S)}}
           sources(p) == {e \in p : ContentAvailability(e) = "available"}
           of(pair) == PromptFinding(sources(pair[1]), pair[2])
           findings == UNION {of(pair) : pair \in prompts \X enabled}
           complete == {p \in prompts : sources(p) # {}}
<1>1. \A sources_, rule : PromptFinding(sources_, rule) # {}
                            <=> \E e \in sources_ : Text(e) \in rule.texts
  BY DEF PromptFinding
<1>2. PromptKeywords(S, rules) =
        IF enabled = {} THEN Unconfigured
        ELSE IF findings # {} THEN Report(findings, "violation", "observed")
        ELSE IF complete = {} THEN Unavailable
        ELSE IF complete # prompts THEN Report({}, "indeterminate", "partial")
        ELSE Report({}, "not_violation", "observed")
  BY DEF PromptKeywords
<1>3. findings # {} <=> \E r \in S : ShowsPrompt(r, rules)
  <2>1. findings # {} <=> \E p \in prompts, rule \in enabled :
                                PromptFinding(sources(p), rule) # {}
    <3>1. \A p, rule : of(<<p, rule>>) = PromptFinding(sources(p), rule)
      BY Zenon
    <3> HIDE DEF of, prompts, enabled
    <3>2. findings # {} <=> \E pair \in prompts \X enabled : of(pair) # {}
      OBVIOUS
    <3> HIDE DEF findings
    <3>3. \A pair \in prompts \X enabled : \E p \in prompts, rule \in enabled : pair = <<p, rule>>
      OBVIOUS
    <3>4. \A p \in prompts, rule \in enabled : <<p, rule>> \in prompts \X enabled
      OBVIOUS
    <3>5. ASSUME NEW p \in prompts, NEW rule \in enabled, PromptFinding(sources(p), rule) # {}
          PROVE  findings # {}
      <4>1. of(<<p, rule>>) # {}
        BY <3>1, <3>5, Zenon
      <4> QED BY <3>2, <3>4, <4>1
    <3>6. ASSUME NEW pair \in prompts \X enabled, of(pair) # {}
          PROVE  \E p \in prompts, rule \in enabled : PromptFinding(sources(p), rule) # {}
      <4>1. PICK p \in prompts, rule \in enabled : pair = <<p, rule>>
        BY <3>3
      <4>2. of(<<p, rule>>) # {}
        BY <3>6, <4>1, Zenon
      <4>3. PromptFinding(sources(p), rule) # {}
        BY <3>1, <4>2, Zenon
      <4> HIDE DEF sources
      <4> QED BY <4>3
    <3> HIDE DEF sources
    <3> QED BY <3>2, <3>5, <3>6
  <2>2. \A e : ShowsPrompt(e, rules) <=>
            /\ IsConversationEvent(e) /\ Role(e) = "user"
            /\ ContentAvailability(e) = "available"
            /\ \E rule \in enabled : Text(e) \in rule.texts
    BY DEF ShowsPrompt
  <2>3. \A e : e \in UserPrompts(S) <=>
                    e \in S /\ IsConversationEvent(e) /\ Role(e) = "user"
    BY DEF UserPrompts, ConversationRecords
  <2>4. ASSUME NEW p \in prompts, NEW rule \in enabled, PromptFinding(sources(p), rule) # {}
        PROVE  \E r \in S : ShowsPrompt(r, rules)
    <3>1. PICK e \in sources(p) : Text(e) \in rule.texts
      BY <1>1, <2>4
    <3>2. e \in UserPrompts(S) /\ ContentAvailability(e) = "available"
      OBVIOUS
    <3> QED BY <2>2, <2>3, <3>1, <3>2
  <2>5. ASSUME NEW e \in S, ShowsPrompt(e, rules)
        PROVE  \E p \in prompts, rule \in enabled : PromptFinding(sources(p), rule) # {}
    <3>1. PICK rule \in enabled : Text(e) \in rule.texts
      BY <2>2, <2>5
    <3>2. e \in UserPrompts(S) /\ ContentAvailability(e) = "available"
      BY <2>2, <2>3, <2>5
    <3>3. prompt(PromptIdentity(e)) \in prompts /\ e \in sources(prompt(PromptIdentity(e)))
      BY <3>2
    <3> HIDE DEF prompts, prompt, enabled, sources
    <3> QED BY <1>1, <3>1, <3>3
  <2> HIDE DEF findings, prompts, enabled, sources
  <2> QED BY <2>1, <2>4, <2>5
<1>4. findings # {} => enabled # {}
  OBVIOUS
<1> HIDE DEF findings, enabled, complete, prompts
<1> QED BY <1>2, <1>3, <1>4 DEF Report, Unavailable, Unconfigured

LEMMA ServersNamed ==
    ASSUME NEW S, NEW name
    PROVE  (\E key \in DOMAIN Servers(S) : key[1] = name) <=> \E r \in S : ShowsServer(r, name)
<1>1. DOMAIN Servers(S) = {UseKey(e) : e \in {f \in S : IsUse(f)}}
                            \cup {ConnectionKey(e) : e \in {f \in S : IsConnection(f)}}
  BY DEF Servers
<1> QED BY <1>1 DEF ShowsServer

LEMMA ServerViolated ==
    ASSUME NEW S, NEW allowlist
    PROVE  UnapprovedMCP(S, allowlist).outcome = "violation"
            <=> /\ allowlist # {}
                /\ \E name : /\ name \notin allowlist /\ name # ""
                             /\ \E r \in S : ShowsServer(r, name)
<1> DEFINE names == {key[1] : key \in DOMAIN Servers(S)}
           findings == {[server |-> k, state |-> IF k[1] = "" THEN "unidentified" ELSE "unapproved"]
                          : k \in {key \in DOMAIN Servers(S) : key[1] \notin allowlist}}
           nameless == names \ allowlist = {""}
           flagged == \E name : name \notin allowlist /\ name # "" /\ name \in names
<1>1. UnapprovedMCP(S, allowlist) =
        IF allowlist = {} THEN Unconfigured
        ELSE IF names = {} THEN Unavailable
        ELSE IF names \subseteq allowlist THEN Report({}, "not_violation", "observed")
        ELSE IF nameless THEN Report(findings, "indeterminate", "observed")
        ELSE Report(findings, "violation", "observed")
  BY Zenon DEF UnapprovedMCP
<1>2. flagged <=> ~(names \subseteq allowlist) /\ ~nameless
  <2> DEFINE blank == ""
  <2>1. flagged <=> \E name : name \notin allowlist /\ name # blank /\ name \in names
    BY Zenon
  <2>2. nameless <=> names \ allowlist = {blank}
    BY Zenon
  <2> HIDE DEF names, flagged, nameless, blank
  <2> QED BY <2>1, <2>2
<1>3. \A name : name \in names <=> \E r \in S : ShowsServer(r, name)
  BY ServersNamed
<1> HIDE DEF names, findings, nameless
<1>4. flagged <=> \E name : /\ name \notin allowlist /\ name # ""
                           /\ \E r \in S : ShowsServer(r, name)
  BY <1>3, Zenon
<1> HIDE DEF flagged
<1>5. UnapprovedMCP(S, allowlist).outcome = "violation" <=> allowlist # {} /\ flagged
  BY <1>1, <1>2 DEF Report, Unavailable, Unconfigured
<1> QED BY <1>4, <1>5, Zenon

(***************************************************************************)
(* The evidence is in what later rows keep, and markers have none.         *)
(***************************************************************************)
LEMMA AccessesOfEvidence ==
    ASSUME NEW q, NEW r, SameEvidence(q, r)
    PROVE  Accesses(q) = Accesses(r)
<1>1. q.attributes = r.attributes /\ q.extensions = r.extensions
  BY DEF SameEvidence
<1> QED BY <1>1 DEF Accesses

LEMMA SecretAccess ==
    ASSUME NEW q, NEW r, NEW access
    PROVE  AccessFindings(q, access) # {} <=> AccessFindings(r, access) # {}
<1> DEFINE values == IF access.method = "filesystem_read" THEN << access.value >> ELSE access.value
           secret == SelectSeq(values, IsSecret)
           finding(e) == [method |-> access.method, boundary |-> Boundary(secret[1]),
                          value |-> access.value, at |-> e.at, session |-> e.session]
<1>1. \A e : AccessFindings(e, access) = IF secret = << >> THEN {} ELSE {finding(e)}
  BY DEF AccessFindings
<1> HIDE DEF secret, finding
<1> QED BY <1>1

LEMMA AccessEvidence ==
    ASSUME NEW q, NEW r, SameEvidence(q, r), ShowsAccess(r)
    PROVE  ShowsAccess(q)
<1>1. PICK access \in Accesses(r) : AccessFindings(r, access) # {}
  BY DEF ShowsAccess
<1>2. access \in Accesses(q)
  BY AccessesOfEvidence
<1>3. AccessFindings(q, access) # {}
  BY <1>1, SecretAccess
<1> QED BY <1>2, <1>3 DEF ShowsAccess

LEMMA PathEvidence ==
    ASSUME NEW q, NEW r, SameEvidence(q, r), NEW rules, ShowsPath(r, rules)
    PROVE  ShowsPath(q, rules)
BY AccessesOfEvidence DEF ShowsPath

LEMMA PromptEvidence ==
    ASSUME NEW q, NEW r, SameEvidence(q, r), NEW rules, ShowsPrompt(r, rules)
    PROVE  ShowsPrompt(q, rules)
<1>1. \A namespace : Extension(q, namespace) = Extension(r, namespace)
  BY DEF SameEvidence, Extension
<1>2. q.type = r.type /\ q.surface = r.surface
  BY DEF SameEvidence
<1>3. /\ ContentNamespace(q) = ContentNamespace(r) /\ ContentKey(q) = ContentKey(r)
      /\ LengthKey(q) = LengthKey(r) /\ Role(q) = Role(r) /\ (IsBody(q) <=> IsBody(r))
  BY <1>2 DEF ContentNamespace, ContentKey, LengthKey, Role, IsBody
<1>4. Text(q) = Text(r)
  BY <1>1, <1>3 DEF Text
<1>5. ContentAvailability(q) = ContentAvailability(r)
  BY <1>1, <1>3 DEF ContentAvailability
<1>6. IsConversationEvent(q) <=> IsConversationEvent(r)
  BY <1>1, <1>2, <1>3, Zenon DEF IsConversationEvent
<1> QED BY <1>3, <1>4, <1>5, <1>6 DEF ShowsPrompt

LEMMA ServerEvidence ==
    ASSUME NEW q, NEW r, SameEvidence(q, r), NEW name, ShowsServer(r, name)
    PROVE  ShowsServer(q, name)
<1>1. \A namespace : Extension(q, namespace) = Extension(r, namespace)
  BY DEF SameEvidence, Extension
<1>2. q.type = r.type /\ q.attributes = r.attributes
  BY DEF SameEvidence
<1>3. (IsUse(q) <=> IsUse(r)) /\ (IsConnection(q) <=> IsConnection(r))
  BY <1>1, <1>2, Zenon DEF IsUse, IsConnection
<1>4. UseKey(q) = UseKey(r)
  BY <1>1 DEF UseKey
<1>5. ConnectionKey(q)[1] = ConnectionKey(r)[1]
  <2> DEFINE of(e) == StringAt(Extension(e, "event"), "server_name", "")
  <2>1. of(q) = of(r)
    BY <1>1, Zenon
  <2>2. \A e : \E rest : ConnectionKey(e) = <<of(e), rest>>
    BY Zenon DEF ConnectionKey
  <2> HIDE DEF of
  <2> QED BY <2>1, <2>2
<1> QED BY <1>3, <1>4, <1>5 DEF ShowsServer

LEMMA SkillEvidence ==
    ASSUME NEW q, NEW r, SameEvidence(q, r), NEW allowlist, ShowsSkill(r, allowlist)
    PROVE  ShowsSkill(q, allowlist)
<1>1. \A namespace : Extension(q, namespace) = Extension(r, namespace)
  BY DEF SameEvidence, Extension
<1>2. DetectionState(q) = DetectionState(r)
  BY Zenon DEF SameEvidence, DetectionState
<1>3. IsNamedSkill(q) <=> IsNamedSkill(r)
  BY <1>1, <1>2, Zenon DEF IsNamedSkill
<1> QED BY <1>1, <1>3 DEF ShowsSkill

LEMMA NoAccesses ==
    ASSUME NEW r, IsMarker(r)
    PROVE  Accesses(r) = {}
<1>1. DOMAIN r.attributes = {} /\ DOMAIN r.extensions = {"skill_detection"}
  BY DEF IsMarker, NoValues
<1>2. \A namespace : LeafAccesses(namespace, r.attributes) = {}
  BY <1>1 DEF LeafAccesses
<1>3. DOMAIN r.extensions \ {"skill_detection"} = {}
  BY <1>1
<1> QED BY <1>2, <1>3, Zenon DEF Accesses

LEMMA NothingInMarkers ==
    ASSUME NEW r, IsMarker(r)
    PROVE  /\ ~ShowsAccess(r)
           /\ \A rules : ~ShowsPath(r, rules) /\ ~ShowsPrompt(r, rules)
           /\ \A name : ~ShowsServer(r, name)
           /\ \A allowlist : ~ShowsSkill(r, allowlist)
<1>1. /\ r.type = "skill_coverage" /\ DOMAIN r.attributes = {}
      /\ DOMAIN r.extensions = {"skill_detection"}
  BY DEF IsMarker, NoValues
<1>2. Accesses(r) = {}
  BY NoAccesses
<1>3. Role(r) = "unknown"
  BY <1>1 DEF Role
<1>4. Extension(r, "mcp_call") = NoValues /\ Extension(r, "skill") = NoValues
  BY <1>1 DEF Extension
<1>5. DOMAIN NoValues = {}
  BY DEF NoValues
<1>6. \A key, fallback : StringAt(NoValues, key, fallback) = fallback
  BY <1>5, Zenon DEF StringAt
<1>7. ~IsUse(r)
  BY <1>4, <1>6, Zenon DEF IsUse
<1>8. ~IsNamedSkill(r)
  BY <1>4, <1>6, Zenon DEF IsNamedSkill
<1>9. ~IsConnection(r)
  BY <1>1 DEF IsConnection
<1> QED BY <1>2, <1>3, <1>7, <1>8, <1>9
        DEF ShowsAccess, ShowsPath, ShowsPrompt, ShowsServer, ShowsSkill

\* What the signals of some events violate the signals of more events violate.
LEMMA ViolationsOfMore ==
    ASSUME NEW S, NEW T, S \subseteq T
    PROVE  Violations(SignalsOfAll(S)) \subseteq Violations(SignalsOfAll(T))
<1> DEFINE A == SignalsOfAll(S)
           B == SignalsOfAll(T)
<1>1. \A r \in A : IsMarker(r) \/ \E q \in B : SameEvidence(q, r)
  BY RowsStay
<1> HIDE DEF A, B
<1>2. (\E r \in A : ShowsAccess(r)) => \E q \in B : ShowsAccess(q)
  BY <1>1, NothingInMarkers, AccessEvidence
<1>3. ASSUME NEW rules
      PROVE  /\ (\E r \in A : ShowsPath(r, rules)) => \E q \in B : ShowsPath(q, rules)
             /\ (\E r \in A : ShowsPrompt(r, rules)) => \E q \in B : ShowsPrompt(q, rules)
  BY <1>1, NothingInMarkers, PathEvidence, PromptEvidence
<1>4. ASSUME NEW name
      PROVE  (\E r \in A : ShowsServer(r, name)) => \E q \in B : ShowsServer(q, name)
  BY <1>1, NothingInMarkers, ServerEvidence
<1>5. ASSUME NEW allowlist
      PROVE  (\E r \in A : ShowsSkill(r, allowlist)) => \E q \in B : ShowsSkill(q, allowlist)
  BY <1>1, NothingInMarkers, SkillEvidence
<1>6. RiskyAccess(A).outcome = "violation" => RiskyAccess(B).outcome = "violation"
  BY <1>2, AccessViolated
<1>7. \A rules : PathRules(A, rules).outcome = "violation"
                    => PathRules(B, rules).outcome = "violation"
  BY <1>3, PathViolated, Zenon
<1>8. \A rules : PromptKeywords(A, rules).outcome = "violation"
                    => PromptKeywords(B, rules).outcome = "violation"
  BY <1>3, PromptViolated
<1>9. \A list : UnapprovedMCP(A, list).outcome = "violation"
                    => UnapprovedMCP(B, list).outcome = "violation"
  BY <1>4, ServerViolated, Zenon
<1>10. \A list : UnapprovedSkills(A, list).outcome = "violation"
                    => UnapprovedSkills(B, list).outcome = "violation"
  BY <1>5, SkillViolated
<1>11. Violations(A) \subseteq Violations(B)
  BY <1>6, <1>7, <1>8, <1>9, <1>10 DEF Violations
<1> QED BY <1>11 DEF A, B

\* A violation stands while its telemetry is kept, whatever comes after it.
THEOREM ViolationsStandCorrect == Spec => ViolationsStand
<1>1. ASSUME SignalsInvariant, SignalsInvariant', [Next]_vars
      PROVE  [events \subseteq events' => Violations(signals) \subseteq Violations(signals')]_vars
  <2>1. signals = SignalsOfAll(events) /\ signals' = SignalsOfAll(events')
    BY <1>1 DEF SignalsInvariant
  <2>2. events \subseteq events' => Violations(signals) \subseteq Violations(signals')
    BY <2>1, ViolationsOfMore
  <2> QED BY <2>2
<1>2. Spec => [][Next]_vars
  BY DEF Spec
<1> QED BY <1>1, <1>2, SignalsCorrect, PTL DEF ViolationsStand

-----------------------------------------------------------------------------
(***************************************************************************)
(* The recursive functions of the matcher and of the pieces.               *)
(***************************************************************************)
IsPlaces(f, pattern, path) ==
    f = [i \in 1 .. Len(pattern) + 1 |-> PlacesFrom(f, pattern, path, i)]

LEMMA PlacesExist ==
    ASSUME NEW pattern, Len(pattern) \in Nat, NEW path, Len(path) \in Nat
    PROVE  \E f : IsPlaces(f, pattern, path)
<1> DEFINE n == Len(pattern) + 1
           V == SUBSET (1 .. Len(path) + 1)
           step(f) == [i \in 1 .. n |-> PlacesFrom(f, pattern, path, i)]
           F == [f \in [1 .. n -> V] |-> step(f)]
<1>1. n \in Nat /\ {} \in V
  OBVIOUS
<1>2. ASSUME NEW f \in [1 .. n -> V], NEW i \in 1 .. n
      PROVE  PlacesFrom(f, pattern, path, i) \in V
  <2>1. i + 3 \in 1 .. n => f[i + 3] \in V
    BY <1>1
  <2>2. CASE i > Len(pattern)
    BY <2>2 DEF PlacesFrom
  <2>3. CASE i <= Len(pattern) /\ pattern[i] = "*"
    <3>1. IsAt(pattern, i + 1, "*") /\ IsAt(pattern, i + 2, "/") => i + 3 \in 1 .. n
      BY DEF IsAt
    <3>2. i + 2 + 1 = i + 3
      BY <1>1
    <3> HIDE DEF n
    <3> QED BY <2>1, <2>3, <3>1, <3>2 DEF PlacesFrom
  <2>4. CASE i <= Len(pattern) /\ pattern[i] # "*"
    BY <2>4 DEF PlacesFrom
  <2> QED BY <1>1, <2>2, <2>3, <2>4
<1>3. F \in [[1 .. n -> V] -> [1 .. n -> V]]
  <2> HIDE DEF n, V
  <2> QED BY <1>2
<1>4. ASSUME NEW f \in [1 .. n -> V], NEW g \in [1 .. n -> V], NEW i \in 1 .. n,
             \A k \in i + 1 .. n : f[k] = g[k]
      PROVE  F[f][i] = F[g][i]
  <2>1. PlacesFrom(f, pattern, path, i) = PlacesFrom(g, pattern, path, i)
    <3>1. CASE i > Len(pattern)
      BY <3>1 DEF PlacesFrom
    <3>2. CASE i <= Len(pattern)
      <4>1. f[i + 1] = g[i + 1]
        BY <1>4, <3>2
      <4>2. IsAt(pattern, i + 1, "*") => f[i + 2] = g[i + 2]
        BY <1>4, <3>2 DEF IsAt
      <4>3. IsAt(pattern, i + 1, "*") /\ IsAt(pattern, i + 2, "/") => f[i + 3] = g[i + 3]
        BY <1>4, <3>2 DEF IsAt
      <4>4. i + 2 + 1 = i + 3
        OBVIOUS
      <4> QED BY <3>2, <4>1, <4>2, <4>3, <4>4 DEF PlacesFrom
    <3> QED BY <1>1, <3>1, <3>2
  <2>2. F[f][i] = PlacesFrom(f, pattern, path, i) /\ F[g][i] = PlacesFrom(g, pattern, path, i)
    <3> HIDE DEF n, V
    <3> QED OBVIOUS
  <2> QED BY <2>1, <2>2
<1>5. PICK f \in [1 .. n -> V] : f = F[f]
  <2> HIDE DEF n, V, F
  <2>1. IsBackward(F, n, V)
    BY <1>3, <1>4 DEF IsBackward
  <2> QED BY <1>1, <2>1, FixedPoint
<1>6. f = step(f)
  <2> HIDE DEF n, V, step
  <2> QED BY <1>5
<1> QED BY <1>6 DEF IsPlaces

LEMMA PlacesSteps ==
    ASSUME NEW pattern, Len(pattern) \in Nat, NEW path, Len(path) \in Nat
    PROVE  \A i \in 1 .. Len(pattern) + 1 :
                GlobPlaces(pattern, path)[i]
                    = PlacesFrom(GlobPlaces(pattern, path), pattern, path, i)
<1> DEFINE places == GlobPlaces(pattern, path)
<1>1. places = CHOOSE f : IsPlaces(f, pattern, path)
  BY DEF GlobPlaces, IsPlaces
<1>2. IsPlaces(places, pattern, path)
  <2> HIDE DEF places
  <2> QED BY <1>1, PlacesExist
<1> HIDE DEF places
<1>3. \A i \in 1 .. Len(pattern) + 1 : places[i] = PlacesFrom(places, pattern, path, i)
  BY <1>2 DEF IsPlaces
<1> QED BY <1>3 DEF places

IsRestPieces(f, pattern) ==
    f = [i \in 1 .. Len(pattern) + 1 |-> PiecesFrom(f, pattern, i)]

LEMMA LongerSequence ==
    ASSUME NEW V, NEW v \in V, NEW s \in Seq(V)
    PROVE  <<v>> \o s \in Seq(V)
OBVIOUS

LEMMA PiecesExist ==
    ASSUME NEW C, NEW pattern \in Seq(C)
    PROVE  \E f : IsRestPieces(f, pattern)
<1> DEFINE n == Len(pattern) + 1
           V == Seq(C \cup {"**", "**/"})
           step(f) == [i \in 1 .. n |-> PiecesFrom(f, pattern, i)]
           F == [f \in [1 .. n -> V] |-> step(f)]
<1>1. n \in Nat /\ Len(pattern) \in Nat
  OBVIOUS
<1>0. << >> \in V
  OBVIOUS
<1>2. ASSUME NEW f \in [1 .. n -> V], NEW i \in 1 .. n
      PROVE  PiecesFrom(f, pattern, i) \in V
  <2>1. CASE i > Len(pattern)
    BY <1>0, <2>1 DEF PiecesFrom
  <2>2. CASE i <= Len(pattern)
    <3>1. pattern[i] \in C \cup {"**", "**/"}
      BY <1>1, <2>2
    <3>2. \A k \in 1 .. n : f[k] \in V
      OBVIOUS
    <3>3. i + 1 \in 1 .. n
      BY <1>1, <2>2
    <3>4. IsAt(pattern, i + 1, "*") => i + 2 \in 1 .. n
      BY <1>1, <2>2 DEF IsAt
    <3>5. IsAt(pattern, i + 2, "/") => i + 3 \in 1 .. n
      BY <1>1, <2>2 DEF IsAt
    <3>6. \A piece \in C \cup {"**", "**/"}, rest \in V : <<piece>> \o rest \in V
      BY LongerSequence
    <3> HIDE DEF V, n
    <3>7. /\ <<pattern[i]>> \o f[i + 1] \in V
          /\ IsAt(pattern, i + 1, "*") => <<"**">> \o f[i + 2] \in V
          /\ IsAt(pattern, i + 2, "/") => <<"**/">> \o f[i + 3] \in V
      BY <3>1, <3>2, <3>3, <3>4, <3>5, <3>6
    <3> QED BY <2>2, <3>7 DEF PiecesFrom
  <2> QED BY <1>1, <2>1, <2>2
<1>3. F \in [[1 .. n -> V] -> [1 .. n -> V]]
  <2> HIDE DEF n, V
  <2> QED BY <1>2
<1>4. ASSUME NEW f \in [1 .. n -> V], NEW g \in [1 .. n -> V], NEW i \in 1 .. n,
             \A k \in i + 1 .. n : f[k] = g[k]
      PROVE  F[f][i] = F[g][i]
  <2>1. PiecesFrom(f, pattern, i) = PiecesFrom(g, pattern, i)
    <3>1. CASE i > Len(pattern)
      BY <3>1 DEF PiecesFrom
    <3>2. CASE i <= Len(pattern)
      <4>1. f[i + 1] = g[i + 1]
        BY <1>1, <1>4, <3>2
      <4>2. IsAt(pattern, i + 1, "*") => f[i + 2] = g[i + 2]
        BY <1>1, <1>4, <3>2 DEF IsAt
      <4>3. IsAt(pattern, i + 2, "/") => f[i + 3] = g[i + 3]
        BY <1>1, <1>4, <3>2 DEF IsAt
      <4> QED BY <3>2, <4>1, <4>2, <4>3 DEF PiecesFrom
    <3> QED BY <1>1, <3>1, <3>2
  <2>2. F[f][i] = PiecesFrom(f, pattern, i) /\ F[g][i] = PiecesFrom(g, pattern, i)
    <3> HIDE DEF n, V
    <3> QED OBVIOUS
  <2> QED BY <2>1, <2>2
<1>5. PICK f \in [1 .. n -> V] : f = F[f]
  <2> HIDE DEF n, V, F
  <2>1. IsBackward(F, n, V)
    BY <1>3, <1>4 DEF IsBackward
  <2> QED BY <1>0, <1>1, <2>1, FixedPoint
<1>6. f = step(f)
  <2> HIDE DEF n, V, step
  <2> QED BY <1>5
<1> QED BY <1>6 DEF IsRestPieces

LEMMA PiecesSteps ==
    ASSUME NEW C, NEW pattern \in Seq(C)
    PROVE  \A i \in 1 .. Len(pattern) + 1 :
                RestPieces(pattern)[i] = PiecesFrom(RestPieces(pattern), pattern, i)
<1> DEFINE pieces == RestPieces(pattern)
<1>1. pieces = CHOOSE f : IsRestPieces(f, pattern)
  BY DEF RestPieces, IsRestPieces
<1>2. IsRestPieces(pieces, pattern)
  <2> HIDE DEF pieces
  <2> QED BY <1>1, PiecesExist
<1> HIDE DEF pieces
<1>3. \A i \in 1 .. Len(pattern) + 1 : pieces[i] = PiecesFrom(pieces, pattern, i)
  BY <1>2 DEF IsRestPieces
<1> QED BY <1>3 DEF pieces

(***************************************************************************)
(* Cutting a path into texts for a sequence of pieces, from a position on. *)
(***************************************************************************)
Covers(pieces, path, j) ==
    \E cut \in [0 .. Len(pieces) -> 0 .. Len(path)] :
        /\ cut[0] = j - 1 /\ cut[Len(pieces)] = Len(path)
        /\ \A i \in 1 .. Len(pieces) :
                /\ cut[i - 1] <= cut[i]
                /\ PieceMatches(pieces[i], SubSeq(path, cut[i - 1] + 1, cut[i]))

LEMMA CoversNothing ==
    ASSUME NEW path, Len(path) \in Nat, NEW j \in 1 .. Len(path) + 1
    PROVE  Covers(<< >>, path, j) <=> j = Len(path) + 1
<1>1. Len(<< >>) = 0
  OBVIOUS
<1>2. ASSUME Covers(<< >>, path, j) PROVE j = Len(path) + 1
  <2>1. PICK cut \in [0 .. 0 -> 0 .. Len(path)] : cut[0] = j - 1 /\ cut[0] = Len(path)
    BY <1>1, <1>2 DEF Covers
  <2> QED BY <2>1
<1>3. ASSUME j = Len(path) + 1 PROVE Covers(<< >>, path, j)
  <2> DEFINE cut == [i \in 0 .. 0 |-> Len(path)]
  <2>1. cut \in [0 .. 0 -> 0 .. Len(path)] /\ cut[0] = j - 1 /\ cut[0] = Len(path)
    BY <1>3
  <2>2. 1 .. 0 = {}
    OBVIOUS
  <2> HIDE DEF cut
  <2> QED BY <1>1, <2>1, <2>2 DEF Covers
<1> QED BY <1>2, <1>3

LEMMA CoversOneMore ==
    ASSUME NEW V, NEW piece \in V, NEW rest \in Seq(V), NEW path, Len(path) \in Nat,
           NEW j \in 1 .. Len(path) + 1
    PROVE  Covers(<<piece>> \o rest, path, j)
            <=> \E k \in j .. Len(path) + 1 :
                    PieceMatches(piece, SubSeq(path, j, k - 1)) /\ Covers(rest, path, k)
<1> DEFINE pieces == <<piece>> \o rest
           n == Len(rest)
           l == Len(path)
<1>1. /\ n \in Nat /\ l \in Nat /\ Len(pieces) = n + 1 /\ pieces[1] = piece
      /\ \A i \in 1 .. n : pieces[i + 1] = rest[i]
  OBVIOUS
<1> HIDE DEF pieces, n
<1>2. ASSUME Covers(pieces, path, j)
      PROVE  \E k \in j .. l + 1 :
                PieceMatches(piece, SubSeq(path, j, k - 1)) /\ Covers(rest, path, k)
  <2>1. PICK cut \in [0 .. n + 1 -> 0 .. l] :
            /\ cut[0] = j - 1 /\ cut[n + 1] = l
            /\ \A i \in 1 .. n + 1 :
                    /\ cut[i - 1] <= cut[i]
                    /\ PieceMatches(pieces[i], SubSeq(path, cut[i - 1] + 1, cut[i]))
    BY <1>1, <1>2 DEF Covers
  <2> DEFINE k == cut[1] + 1
             tail == [i \in 0 .. n |-> cut[i + 1]]
  <2>2. 1 \in 1 .. n + 1 /\ 1 \in 0 .. n + 1 /\ 1 - 1 = 0
    BY <1>1
  <2>3. /\ cut[0] <= cut[1] /\ cut[1] \in 0 .. l
        /\ PieceMatches(piece, SubSeq(path, cut[0] + 1, cut[1]))
    BY <1>1, <2>1, <2>2
  <2>4. k \in j .. l + 1 /\ k - 1 = cut[1] /\ cut[0] + 1 = j
    BY <1>1, <2>1, <2>3
  <2>5. tail \in [0 .. n -> 0 .. l] /\ tail[0] = k - 1 /\ tail[n] = l
    BY <1>1, <2>1, <2>4
  <2>6. ASSUME NEW i \in 1 .. n
        PROVE  /\ tail[i - 1] <= tail[i]
               /\ PieceMatches(rest[i], SubSeq(path, tail[i - 1] + 1, tail[i]))
    <3>1. /\ i + 1 \in 1 .. n + 1 /\ i + 1 - 1 = i /\ i - 1 + 1 = i
          /\ i \in 0 .. n /\ i - 1 \in 0 .. n
      BY <1>1
    <3>2. tail[i] = cut[i + 1] /\ tail[i - 1] = cut[i]
      BY <3>1
    <3>3. /\ cut[i] <= cut[i + 1]
          /\ PieceMatches(pieces[i + 1], SubSeq(path, cut[i] + 1, cut[i + 1]))
      BY <2>1, <3>1
    <3> HIDE DEF tail
    <3> QED BY <1>1, <3>2, <3>3
  <2>7. Covers(rest, path, k)
    <3> HIDE DEF tail, k
    <3> QED BY <2>5, <2>6 DEF Covers, n
  <2>8. PieceMatches(piece, SubSeq(path, j, k - 1))
    BY <2>3, <2>4
  <2> HIDE DEF k
  <2> QED BY <2>4, <2>7, <2>8
<1>3. ASSUME NEW k \in j .. l + 1, PieceMatches(piece, SubSeq(path, j, k - 1)),
             Covers(rest, path, k)
      PROVE  Covers(pieces, path, j)
  <2>1. PICK cut \in [0 .. n -> 0 .. l] :
            /\ cut[0] = k - 1 /\ cut[n] = l
            /\ \A i \in 1 .. n :
                    /\ cut[i - 1] <= cut[i]
                    /\ PieceMatches(rest[i], SubSeq(path, cut[i - 1] + 1, cut[i]))
    BY <1>3 DEF Covers, n
  <2> DEFINE whole == [i \in 0 .. n + 1 |-> IF i = 0 THEN j - 1 ELSE cut[i - 1]]
  <2>2. j \in Nat /\ k \in Nat /\ j <= k /\ j >= 1 /\ j - 1 \in 0 .. l
    BY <1>1
  <2>3. /\ whole \in [0 .. n + 1 -> 0 .. l]
        /\ whole[0] = j - 1 /\ whole[n + 1] = l
        /\ \A i \in 1 .. n + 1 : whole[i] = cut[i - 1]
    <3>1. \A i \in 0 .. n + 1 : i # 0 => i - 1 \in 0 .. n
      BY <1>1
    <3>2. n + 1 \in 0 .. n + 1 /\ n + 1 # 0 /\ 0 \in 0 .. n + 1 /\ n + 1 - 1 = n
      BY <1>1
    <3>3. \A i \in 1 .. n + 1 : i \in 0 .. n + 1 /\ i # 0
      BY <1>1
    <3>4. cut[n] = l /\ \A i \in 0 .. n : cut[i] \in 0 .. l
      BY <2>1
    <3>5. whole \in [0 .. n + 1 -> 0 .. l]
      BY <2>2, <3>1, <3>4
    <3>6. whole[0] = j - 1 /\ \A i \in 1 .. n + 1 : whole[i] = cut[i - 1]
      BY <3>2, <3>3
    <3>7. n + 1 \in 1 .. n + 1
      BY <1>1
    <3>8. whole[n + 1] = cut[n]
      BY <1>1, <3>2
    <3> HIDE DEF whole
    <3> QED BY <3>4, <3>5, <3>6, <3>8
  <2>4. ASSUME NEW i \in 1 .. n + 1
        PROVE  /\ whole[i - 1] <= whole[i]
               /\ PieceMatches(pieces[i], SubSeq(path, whole[i - 1] + 1, whole[i]))
    <3> HIDE DEF whole
    <3>1. CASE i = 1
      <4>1. whole[i - 1] = j - 1 /\ whole[i] = k - 1 /\ pieces[i] = piece /\ j - 1 + 1 = j
        BY <1>1, <2>1, <2>2, <2>3, <3>1
      <4> QED BY <1>3, <2>2, <4>1
    <3>2. CASE i # 1
      <4>1. i - 1 \in 1 .. n /\ i - 1 \in 1 .. n + 1 /\ i - 1 + 1 = i
        BY <1>1, <3>2
      <4>2. whole[i - 1] = cut[i - 1 - 1] /\ whole[i] = cut[i - 1] /\ pieces[i] = rest[i - 1]
        BY <1>1, <2>3, <4>1
      <4> QED BY <2>1, <4>1, <4>2
    <3> QED BY <3>1, <3>2
  <2> HIDE DEF whole
  <2> QED BY <1>1, <2>3, <2>4 DEF Covers
<1> QED BY <1>2, <1>3 DEF pieces

(***************************************************************************)
(* The text of one piece.                                                  *)
(***************************************************************************)
LEMMA TextOfPath ==
    ASSUME NEW D, NEW path \in Seq(D), NEW j \in 1 .. Len(path) + 1, NEW k \in j .. Len(path) + 1
    PROVE  LET text == SubSeq(path, j, k - 1)
           IN  /\ text \in Seq(D) /\ Len(text) = k - j /\ DOMAIN text = 1 .. k - j
               /\ \A m \in 1 .. k - j : text[m] = path[j + m - 1]
<1>1. j \in Nat /\ k \in Nat /\ Len(path) \in Nat /\ j >= 1 /\ j <= k /\ k <= Len(path) + 1
  OBVIOUS
<1>2. \A i \in j .. k - 1 : i \in 1 .. Len(path)
  BY <1>1
<1> QED BY <1>1, <1>2

LEMMA PiecesOfText ==
    ASSUME NEW D, NEW path \in Seq(D), NEW j \in 1 .. Len(path) + 1, NEW k \in j .. Len(path) + 1
    PROVE  LET text == SubSeq(path, j, k - 1)
           IN  /\ PieceMatches("**/", text) <=> (k = j \/ path[k - 1] = "/")
               /\ PieceMatches("**", text)
               /\ PieceMatches("*", text) <=> \A m \in j .. k - 1 : path[m] # "/"
               /\ PieceMatches("?", text) <=> (k = j + 1 /\ path[j] # "/")
               /\ \A c : c \notin {"**/", "**", "*", "?"} =>
                    (PieceMatches(c, text) <=> (k = j + 1 /\ path[j] = c))
<1> DEFINE text == SubSeq(path, j, k - 1)
<1>1. /\ text \in Seq(D) /\ Len(text) = k - j /\ DOMAIN text = 1 .. k - j
      /\ \A m \in 1 .. k - j : text[m] = path[j + m - 1]
  BY TextOfPath
<1>2. j \in Nat /\ k \in Nat /\ j <= k
  OBVIOUS
<1> HIDE DEF text
<1>3. PieceMatches("**/", text) <=> (k = j \/ path[k - 1] = "/")
  <2>1. PieceMatches("**/", text) <=> (text = << >> \/ text[Len(text)] = "/")
    BY DEF PieceMatches
  <2>2. text = << >> <=> k = j
    BY <1>1, <1>2
  <2>3. k # j => text[Len(text)] = path[k - 1]
    BY <1>1, <1>2
  <2> QED BY <2>1, <2>2, <2>3
<1>4. PieceMatches("**", text)
  BY DEF PieceMatches
<1>5. PieceMatches("*", text) <=> \A m \in j .. k - 1 : path[m] # "/"
  <2>1. PieceMatches("*", text) <=> \A m \in DOMAIN text : text[m] # "/"
    BY DEF PieceMatches
  <2>2. ASSUME NEW m \in j .. k - 1
        PROVE  m - j + 1 \in DOMAIN text /\ text[m - j + 1] = path[m]
    <3>1. m - j + 1 \in 1 .. k - j /\ j + (m - j + 1) - 1 = m
      BY <1>2
    <3> QED BY <1>1, <3>1
  <2>3. ASSUME NEW m \in DOMAIN text
        PROVE  j + m - 1 \in j .. k - 1 /\ text[m] = path[j + m - 1]
    BY <1>1, <1>2
  <2> QED BY <2>1, <2>2, <2>3
<1>6. PieceMatches("?", text) <=> (k = j + 1 /\ path[j] # "/")
  <2>1. PieceMatches("?", text) <=> (Len(text) = 1 /\ text[1] # "/")
    BY DEF PieceMatches
  <2>2. k = j + 1 => text[1] = path[j]
    BY <1>1, <1>2
  <2> QED BY <1>1, <1>2, <2>1, <2>2
<1>7. ASSUME NEW c, c \notin {"**/", "**", "*", "?"}
      PROVE  PieceMatches(c, text) <=> (k = j + 1 /\ path[j] = c)
  <2>1. PieceMatches(c, text) <=> text = <<c>>
    BY <1>7 DEF PieceMatches
  <2>2. text = <<c>> <=> Len(text) = 1 /\ text[1] = c
    <3>1. ASSUME Len(text) = 1, text[1] = c PROVE text = <<c>>
      <4>1. 1 \in 1 .. Len(text)
        BY <3>1
      <4>2. text[1] \in D
        BY <1>1, <4>1, ElementOfSeq
      <4>3. c \in D
        BY <3>1, <4>2
      <4>4. <<c>> \in Seq(D) /\ Len(<<c>>) = 1 /\ <<c>>[1] = c
        BY <4>3
      <4>5. \A i \in 1 .. Len(text) : text[i] = <<c>>[i]
        BY <3>1, <4>4
      <4> QED BY <1>1, <3>1, <4>4, <4>5, SeqEqual
    <3>2. Len(<<c>>) = 1 /\ <<c>>[1] = c
      OBVIOUS
    <3> QED BY <3>1, <3>2
  <2>3. k = j + 1 => text[1] = path[j]
    BY <1>1, <1>2
  <2> QED BY <1>1, <1>2, <2>1, <2>2, <2>3
<1> QED BY <1>3, <1>4, <1>5, <1>6, <1>7 DEF text

LEMMA CharacterCovers ==
    ASSUME NEW V, NEW c \in V, c \notin {"**/", "**", "*"}, NEW rest \in Seq(V),
           NEW D, NEW path \in Seq(D), NEW j \in 1 .. Len(path) + 1
    PROVE  Covers(<<c>> \o rest, path, j)
            <=> /\ j \in 1 .. Len(path)
                /\ IF c = "?" THEN path[j] # "/" ELSE path[j] = c
                /\ Covers(rest, path, j + 1)
<1> DEFINE fits == IF c = "?" THEN path[j] # "/" ELSE path[j] = c
<1>1. Len(path) \in Nat
  OBVIOUS
<1>2. Covers(<<c>> \o rest, path, j)
        <=> \E k \in j .. Len(path) + 1 :
                PieceMatches(c, SubSeq(path, j, k - 1)) /\ Covers(rest, path, k)
  BY <1>1, CoversOneMore
<1>3. \A k \in j .. Len(path) + 1 :
        PieceMatches(c, SubSeq(path, j, k - 1)) <=> k = j + 1 /\ fits
  BY PiecesOfText
<1> HIDE DEF fits
<1>4. j + 1 \in j .. Len(path) + 1 <=> j \in 1 .. Len(path)
  BY <1>1
<1> QED BY <1>2, <1>3, <1>4 DEF fits

LEMMA SegmentCovers ==
    ASSUME NEW V, "*" \in V, NEW rest \in Seq(V),
           NEW D, NEW path \in Seq(D), NEW j \in 1 .. Len(path) + 1
    PROVE  Covers(<<"*">> \o rest, path, j)
            <=> \E k \in j .. Len(path) + 1 :
                    (\A m \in j .. k - 1 : path[m] # "/") /\ Covers(rest, path, k)
<1>1. Len(path) \in Nat
  OBVIOUS
<1>2. Covers(<<"*">> \o rest, path, j)
        <=> \E k \in j .. Len(path) + 1 :
                PieceMatches("*", SubSeq(path, j, k - 1)) /\ Covers(rest, path, k)
  BY <1>1, CoversOneMore
<1>3. \A k \in j .. Len(path) + 1 :
        PieceMatches("*", SubSeq(path, j, k - 1)) <=> \A m \in j .. k - 1 : path[m] # "/"
  BY PiecesOfText
<1> QED BY <1>2, <1>3

LEMMA AcrossCovers ==
    ASSUME NEW V, "**" \in V, NEW rest \in Seq(V),
           NEW D, NEW path \in Seq(D), NEW j \in 1 .. Len(path) + 1
    PROVE  Covers(<<"**">> \o rest, path, j)
            <=> \E k \in j .. Len(path) + 1 : Covers(rest, path, k)
<1>1. Len(path) \in Nat
  OBVIOUS
<1>2. Covers(<<"**">> \o rest, path, j)
        <=> \E k \in j .. Len(path) + 1 :
                PieceMatches("**", SubSeq(path, j, k - 1)) /\ Covers(rest, path, k)
  BY <1>1, CoversOneMore
<1>3. \A k \in j .. Len(path) + 1 : PieceMatches("**", SubSeq(path, j, k - 1))
  BY PiecesOfText
<1> QED BY <1>2, <1>3

LEMMA DirectoriesCovers ==
    ASSUME NEW V, "**/" \in V, NEW rest \in Seq(V),
           NEW D, NEW path \in Seq(D), NEW j \in 1 .. Len(path) + 1
    PROVE  Covers(<<"**/">> \o rest, path, j)
            <=> \/ Covers(rest, path, j)
                \/ \E k \in j .. Len(path) + 1 :
                        /\ k \in 1 .. Len(path) /\ path[k] = "/"
                        /\ Covers(rest, path, k + 1)
<1>1. Len(path) \in Nat
  OBVIOUS
<1>2. Covers(<<"**/">> \o rest, path, j)
        <=> \E k \in j .. Len(path) + 1 :
                PieceMatches("**/", SubSeq(path, j, k - 1)) /\ Covers(rest, path, k)
  BY <1>1, CoversOneMore
<1>3. \A k \in j .. Len(path) + 1 :
        PieceMatches("**/", SubSeq(path, j, k - 1)) <=> (k = j \/ path[k - 1] = "/")
  BY PiecesOfText
<1>4. j \in j .. Len(path) + 1
  BY <1>1
<1>5. ASSUME NEW k \in j .. Len(path) + 1, k # j, path[k - 1] = "/", Covers(rest, path, k)
      PROVE  \E p \in j .. Len(path) + 1 :
                p \in 1 .. Len(path) /\ path[p] = "/" /\ Covers(rest, path, p + 1)
  <2>1. k - 1 \in j .. Len(path) + 1 /\ k - 1 \in 1 .. Len(path) /\ k - 1 + 1 = k
    BY <1>1, <1>5
  <2> QED BY <1>5, <2>1
<1>6. ASSUME NEW k \in j .. Len(path) + 1, k \in 1 .. Len(path), path[k] = "/",
             Covers(rest, path, k + 1)
      PROVE  \E p \in j .. Len(path) + 1 :
                (p = j \/ path[p - 1] = "/") /\ Covers(rest, path, p)
  <2>1. k + 1 \in j .. Len(path) + 1 /\ k + 1 - 1 = k
    BY <1>1, <1>6
  <2> QED BY <1>6, <2>1
<1> QED BY <1>2, <1>3, <1>4, <1>5, <1>6

(***************************************************************************)
(* The matcher finds the positions from which the pieces cover the path.   *)
(***************************************************************************)
IsMatched(pattern, path, i, V) ==
    /\ RestPieces(pattern)[i] \in Seq(V)
    /\ \A j : j \in GlobPlaces(pattern, path)[i]
                <=> j \in 1 .. Len(path) + 1 /\ Covers(RestPieces(pattern)[i], path, j)

LEMMA MatchedFromHere ==
    ASSUME NEW C, "**" \notin C, "**/" \notin C, NEW pattern \in Seq(C),
           NEW D, NEW path \in Seq(D), NEW i \in 1 .. Len(pattern) + 1,
           \A k \in i + 1 .. Len(pattern) + 1 :
                IsMatched(pattern, path, k, C \cup {"**", "**/"})
    PROVE  IsMatched(pattern, path, i, C \cup {"**", "**/"})
<1> DEFINE n == Len(pattern)
           l == Len(path)
           V == C \cup {"**", "**/"}
           places == GlobPlaces(pattern, path)
           pieces == RestPieces(pattern)
<1>1. n \in Nat /\ l \in Nat
  OBVIOUS
<1>2. places[i] = PlacesFrom(places, pattern, path, i)
  BY <1>1, PlacesSteps
<1>3. pieces[i] = PiecesFrom(pieces, pattern, i)
  BY PiecesSteps
<1>4. \A k \in i + 1 .. n + 1 :
        /\ pieces[k] \in Seq(V)
        /\ \A j : j \in places[k] <=> j \in 1 .. l + 1 /\ Covers(pieces[k], path, j)
  BY DEF IsMatched
<1> SUFFICES /\ pieces[i] \in Seq(V)
             /\ \A j : j \in places[i] <=> j \in 1 .. l + 1 /\ Covers(pieces[i], path, j)
  BY DEF IsMatched
<1> HIDE DEF places, pieces
<1>5. CASE i > n
  <2>1. places[i] = {l + 1} /\ pieces[i] = << >>
    BY <1>2, <1>3, <1>5 DEF PlacesFrom, PiecesFrom
  <2>2. << >> \in Seq(V)
    OBVIOUS
  <2>3. \A j \in 1 .. l + 1 : Covers(<< >>, path, j) <=> j = l + 1
    BY <1>1, CoversNothing
  <2>4. l + 1 \in 1 .. l + 1
    BY <1>1
  <2> HIDE DEF V, l, n
  <2> QED BY <2>1, <2>2, <2>3, <2>4
<1>6. CASE i <= n /\ pattern[i] # "*"
  <2>1. pattern[i] \in C
    BY <1>1, <1>6, ElementOfSeq
  <2>2. i + 1 \in i + 1 .. n + 1
    BY <1>1, <1>6
  <2>3. /\ pattern[i] \in V /\ pattern[i] \notin {"**/", "**", "*"}
    BY <1>6, <2>1
  <2>4. pieces[i] = << pattern[i] >> \o pieces[i + 1]
    BY <1>1, <1>3, <1>6 DEF PiecesFrom
  <2>5. places[i] = {j \in 1 .. l : /\ IF pattern[i] = "?" THEN path[j] # "/" ELSE path[j] = pattern[i]
                                    /\ j + 1 \in places[i + 1]}
    BY <1>1, <1>2, <1>6 DEF PlacesFrom
  <2> DEFINE fits(j) == IF pattern[i] = "?" THEN path[j] # "/" ELSE path[j] = pattern[i]
  <2>6. \A j \in 1 .. l + 1 : Covers(pieces[i], path, j)
                <=> j \in 1 .. l /\ fits(j) /\ Covers(pieces[i + 1], path, j + 1)
    <3> HIDE DEF V, n, l
    <3>1. pieces[i + 1] \in Seq(V)
      BY <1>4, <2>2
    <3> QED BY <2>3, <2>4, <3>1, CharacterCovers DEF l
  <2>7. \A j \in 1 .. l : j \in 1 .. l + 1 /\ j + 1 \in 1 .. l + 1
    BY <1>1
  <2>8. pieces[i] \in Seq(V)
    <3> HIDE DEF V
    <3> QED BY <1>4, <2>2, <2>3, <2>4, LongerSequence
  <2>9. \A j : j \in places[i] <=> j \in 1 .. l /\ fits(j) /\ j + 1 \in places[i + 1]
    BY <2>5
  <2> HIDE DEF V, n, l, fits
  <2> QED BY <1>4, <2>2, <2>6, <2>7, <2>8, <2>9
<1>7. CASE i <= n /\ pattern[i] = "*" /\ ~IsAt(pattern, i + 1, "*")
  <2>1. "*" \in V
    BY <1>1, <1>7, ElementOfSeq
  <2>2. i + 1 \in i + 1 .. n + 1
    BY <1>1, <1>7
  <2>4. pieces[i] = << "*" >> \o pieces[i + 1]
    BY <1>1, <1>3, <1>7 DEF PiecesFrom
  <2>5. places[i] = {j \in 1 .. l + 1 : \E k \in j .. l + 1 :
                        (\A m \in j .. k - 1 : path[m] # "/") /\ k \in places[i + 1]}
    BY <1>1, <1>2, <1>7 DEF PlacesFrom
  <2>6. \A j \in 1 .. l + 1 : Covers(pieces[i], path, j)
            <=> \E k \in j .. l + 1 :
                    (\A m \in j .. k - 1 : path[m] # "/") /\ Covers(pieces[i + 1], path, k)
    <3> HIDE DEF V, n, l
    <3>1. pieces[i + 1] \in Seq(V)
      BY <1>4, <2>2
    <3> QED BY <2>1, <2>4, <3>1, SegmentCovers DEF l
  <2>7. \A j \in 1 .. l + 1 : \A k \in j .. l + 1 : k \in 1 .. l + 1
    BY <1>1
  <2>8. pieces[i] \in Seq(V)
    <3> HIDE DEF V
    <3> QED BY <1>4, <2>1, <2>2, <2>4, LongerSequence
  <2> HIDE DEF V, n, l
  <2> QED BY <1>4, <2>2, <2>5, <2>6, <2>7, <2>8
<1>8. CASE /\ i <= n /\ pattern[i] = "*" /\ IsAt(pattern, i + 1, "*")
           /\ ~IsAt(pattern, i + 2, "/")
  <2>1. "**" \in V
    OBVIOUS
  <2>2. i + 2 \in i + 1 .. n + 1
    BY <1>1, <1>8 DEF IsAt
  <2>4. pieces[i] = << "**" >> \o pieces[i + 2]
    BY <1>1, <1>3, <1>8 DEF PiecesFrom
  <2>5. places[i] = {j \in 1 .. l + 1 : \E k \in j .. l + 1 : k \in places[i + 2]}
    BY <1>1, <1>2, <1>8 DEF PlacesFrom
  <2>6. \A j \in 1 .. l + 1 : Covers(pieces[i], path, j)
            <=> \E k \in j .. l + 1 : Covers(pieces[i + 2], path, k)
    <3> HIDE DEF V, n, l
    <3>1. pieces[i + 2] \in Seq(V)
      BY <1>4, <2>2
    <3> QED BY <2>1, <2>4, <3>1, AcrossCovers DEF l
  <2>7. \A j \in 1 .. l + 1 : \A k \in j .. l + 1 : k \in 1 .. l + 1
    BY <1>1
  <2>8. pieces[i] \in Seq(V)
    <3> HIDE DEF V
    <3> QED BY <1>4, <2>1, <2>2, <2>4, LongerSequence
  <2> HIDE DEF V, n, l
  <2> QED BY <1>4, <2>2, <2>5, <2>6, <2>7, <2>8
<1>9. CASE /\ i <= n /\ pattern[i] = "*" /\ IsAt(pattern, i + 1, "*")
           /\ IsAt(pattern, i + 2, "/")
  <2>1. "**/" \in V
    OBVIOUS
  <2>2. i + 3 \in i + 1 .. n + 1 /\ i + 2 \in 1 .. n + 1 /\ i + 2 <= n
    BY <1>1, <1>9 DEF IsAt
  <2>3. pattern[i + 2] = "/"
    BY <1>9 DEF IsAt
  <2>4. pieces[i] = << "**/" >> \o pieces[i + 3]
    BY <1>1, <1>3, <1>9 DEF PiecesFrom
  <2>5. places[i] = places[i + 3] \cup {j \in 1 .. l + 1 :
                        \E k \in j .. l + 1 : k \in places[i + 2]}
    <3>1. i + 2 + 1 = i + 3
      OBVIOUS
    <3> QED BY <1>1, <1>2, <1>9, <3>1 DEF PlacesFrom
  <2>6. places[i + 2] = {j \in 1 .. l : path[j] = "/" /\ j + 1 \in places[i + 3]}
    <3>1. places[i + 2] = PlacesFrom(places, pattern, path, i + 2)
      BY <1>1, <2>2, PlacesSteps DEF places
    <3>2. i + 2 + 1 = i + 3
      OBVIOUS
    <3> QED BY <1>1, <2>2, <2>3, <3>1, <3>2 DEF PlacesFrom
  <2>7. \A j \in 1 .. l + 1 : Covers(pieces[i], path, j)
            <=> \/ Covers(pieces[i + 3], path, j)
                \/ \E k \in j .. l + 1 : /\ k \in 1 .. l /\ path[k] = "/"
                                         /\ Covers(pieces[i + 3], path, k + 1)
    <3> HIDE DEF V, n, l
    <3>1. pieces[i + 3] \in Seq(V)
      BY <1>4, <2>2
    <3> QED BY <2>1, <2>4, <3>1, DirectoriesCovers DEF l
  <2>8. \A k \in 1 .. l : k + 1 \in 1 .. l + 1
    BY <1>1
  <2>9. pieces[i] \in Seq(V)
    <3> HIDE DEF V
    <3> QED BY <1>4, <2>1, <2>2, <2>4, LongerSequence
  <2> HIDE DEF V, n, l
  <2> QED BY <1>4, <2>2, <2>5, <2>6, <2>7, <2>8, <2>9
<1> QED BY <1>1, <1>5, <1>6, <1>7, <1>8, <1>9

LEMMA AllMatched ==
    ASSUME NEW C, "**" \notin C, "**/" \notin C, NEW pattern \in Seq(C), NEW D, NEW path \in Seq(D)
    PROVE  \A i \in 1 .. Len(pattern) + 1 :
                IsMatched(pattern, path, i, C \cup {"**", "**/"})
<1> DEFINE n == Len(pattern) + 1
           matched(i) == IsMatched(pattern, path, i, C \cup {"**", "**/"})
           Failing == {m \in 0 .. n - 1 : ~matched(n - m)}
<1>1. n \in Nat /\ Failing \in SUBSET Nat
  OBVIOUS
<1>2. \A i \in 1 .. n : (\A k \in i + 1 .. n : matched(k)) => matched(i)
  BY MatchedFromHere
<1> HIDE DEF n, matched
<1>3. ASSUME Failing # {} PROVE FALSE
  <2>1. PICK m \in Failing : \A k \in Failing : m <= k
    <3> HIDE DEF Failing
    <3> QED BY <1>1, <1>3, Least
  <2>2. ASSUME NEW k \in n - m + 1 .. n PROVE matched(k)
    <3>1. n - k \in 0 .. n - 1 /\ ~ (m <= n - k) /\ n - (n - k) = k
      BY <1>1, <2>1
    <3> QED BY <2>1, <3>1
  <2>3. n - m \in 1 .. n /\ ~matched(n - m)
    BY <1>1, <2>1
  <2> QED BY <1>2, <2>2, <2>3
<1>4. ASSUME NEW i \in 1 .. n PROVE matched(i)
  <2>1. n - i \in 0 .. n - 1 /\ n - (n - i) = i
    BY <1>1
  <2> QED BY <1>3, <2>1
<1> QED BY <1>4 DEF n, matched

\* The recursive matcher accepts what the pattern means.
LEMMA GlobMeans ==
    ASSUME NEW C, "**" \notin C, "**/" \notin C, NEW pattern \in Seq(C), NEW D, NEW path \in Seq(D)
    PROVE  GlobMatches(pattern, path) <=> Means(pattern, path)
<1>1. Len(pattern) \in Nat /\ Len(path) \in Nat /\ 1 - 1 = 0
  OBVIOUS
<1>2. 1 \in 1 .. Len(pattern) + 1 /\ 1 \in 1 .. Len(path) + 1
  BY <1>1
<1>3. 1 \in GlobPlaces(pattern, path)[1] <=> Covers(RestPieces(pattern)[1], path, 1)
  BY <1>2, AllMatched DEF IsMatched
<1>4. Means(pattern, path) <=> Covers(RestPieces(pattern)[1], path, 1)
  BY <1>1 DEF Means, Pieces, Covers
<1> QED BY <1>3, <1>4 DEF GlobMatches

-----------------------------------------------------------------------------
(***************************************************************************)
(* The paths in the rows are those in the events.                          *)
(***************************************************************************)
Reads(r, path) ==
    \E access \in Accesses(r) : access.method = "filesystem_read" /\ access.value = path

LEMMA SelectedLeaves ==
    ASSUME NEW namespace, NEW values, NEW keys
    PROVE  LeafAccesses(namespace, Selected(values, keys)) \subseteq LeafAccesses(namespace, values)
<1>1. /\ DOMAIN Selected(values, keys) = keys \cap DOMAIN values
      /\ \A key \in keys \cap DOMAIN values : Selected(values, keys)[key] = values[key]
  BY DEF Selected
<1> QED BY <1>1 DEF LeafAccesses

LEMMA ThinReads ==
    ASSUME NEW e, IsEvent(e), NEW path, Reads(Thin(e), path)
    PROVE  Reads(e, path)
<1> DEFINE kept == KeptExtensions(e)
           leaves(extensions, namespace) == LeafAccesses(namespace, extensions[namespace])
<1>1. /\ Thin(e).attributes = Selected(e.attributes, KeptAttributes(e))
      /\ Thin(e).extensions = kept
  BY ThinFields
<1>2. /\ DOMAIN kept \subseteq DOMAIN e.extensions
      /\ \A namespace \in DOMAIN kept \ {"skill_detection"} :
            kept[namespace] = Selected(e.extensions[namespace], KeptFields(e, namespace))
  BY DEF KeptExtensions
<1> HIDE DEF kept
<1>3. \A x : Accesses(x) = LeafAccesses("", x.attributes)
                            \cup UNION {leaves(x.extensions, namespace) :
                                    namespace \in DOMAIN x.extensions \ {"skill_detection"}}
  BY Zenon DEF Accesses
<1>4. LeafAccesses("", Thin(e).attributes) \subseteq LeafAccesses("", e.attributes)
  BY <1>1, SelectedLeaves, Zenon
<1>5. \A namespace \in DOMAIN kept \ {"skill_detection"} :
        leaves(kept, namespace) \subseteq leaves(e.extensions, namespace)
  BY <1>2, SelectedLeaves
<1> DEFINE blank == ""
<1>6. LeafAccesses(blank, Thin(e).attributes) \subseteq LeafAccesses(blank, e.attributes)
  BY <1>4, Zenon
<1>7. \A x : Accesses(x) = LeafAccesses(blank, x.attributes)
                            \cup UNION {leaves(x.extensions, namespace) :
                                    namespace \in DOMAIN x.extensions \ {"skill_detection"}}
  BY <1>3, Zenon
<1> HIDE DEF blank, leaves
<1>8. ASSUME NEW access \in Accesses(Thin(e)) PROVE access \in Accesses(e)
  <2>1. \/ access \in LeafAccesses(blank, Thin(e).attributes)
        \/ \E namespace \in DOMAIN kept \ {"skill_detection"} : access \in leaves(kept, namespace)
    BY <1>1, <1>7
  <2>2. ASSUME NEW namespace \in DOMAIN kept \ {"skill_detection"}, access \in leaves(kept, namespace)
        PROVE  access \in Accesses(e)
    <3>1. access \in leaves(e.extensions, namespace)
      BY <1>5, <2>2
    <3> QED BY <1>2, <1>7, <3>1
  <2> QED BY <1>6, <1>7, <2>1, <2>2
<1> QED BY <1>8 DEF Reads

LEMMA ThinAccessReads ==
    ASSUME NEW e, NEW access, NEW n, NEW path
    PROVE  Reads(ThinAccess(e, access, n), path)
            <=> access.method = "filesystem_read" /\ access.value = path
<1> DEFINE row == ThinAccess(e, access, n)
           read == access.method = "filesystem_read"
<1>1. /\ row.attributes = IF read THEN [source_event_id |-> e.id, file_path |-> access.value]
                          ELSE [source_event_id |-> e.id, command |-> access.value]
      /\ row.extensions = NoValues
  BY DEF ThinAccess
<1>2. Accesses(row) = LeafAccesses("", row.attributes)
  <2>1. DOMAIN row.extensions \ {"skill_detection"} = {}
    BY <1>1 DEF NoValues
  <2> QED BY <2>1, Zenon DEF Accesses
<1> HIDE DEF row
<1>3. ASSUME read
      PROVE  \A x : x \in Accesses(row) <=>
                x = [where |-> <<"", "file_path">>, method |-> "filesystem_read",
                     value |-> access.value]
  <2> DEFINE blank == ""
  <2>1. Accesses(row) = LeafAccesses(blank, row.attributes)
    BY <1>2, Zenon
  <2> SUFFICES \A x : x \in Accesses(row) <=>
                x = [where |-> <<blank, "file_path">>, method |-> "filesystem_read",
                     value |-> access.value]
    BY Zenon
  <2> HIDE DEF blank
  <2>2. row.attributes = [source_event_id |-> e.id, file_path |-> access.value]
    BY <1>1, <1>3
  <2>3. (PathKeys \cup CommandKeys) \cap DOMAIN row.attributes = {"file_path"}
    BY <2>2 DEF PathKeys, CommandKeys
  <2>4. "file_path" \in PathKeys /\ row.attributes["file_path"] = access.value
    BY <2>2 DEF PathKeys
  <2> QED BY <2>1, <2>3, <2>4 DEF LeafAccesses
<1>4. ASSUME ~read PROVE \A x \in Accesses(row) : x.method = "shell_command"
  <2> DEFINE blank == ""
  <2>1. Accesses(row) = LeafAccesses(blank, row.attributes)
    BY <1>2, Zenon
  <2> HIDE DEF blank
  <2>2. row.attributes = [source_event_id |-> e.id, command |-> access.value]
    BY <1>1, <1>4
  <2>3. (PathKeys \cup CommandKeys) \cap DOMAIN row.attributes = {"command"}
    BY <2>2 DEF PathKeys, CommandKeys
  <2>4. "command" \notin PathKeys
    BY DEF PathKeys
  <2> QED BY <2>1, <2>3, <2>4 DEF LeafAccesses
<1>5. ASSUME read PROVE Reads(row, path) <=> access.value = path
  <2> DEFINE place == <<"", "file_path">>
  <2>1. \A x : x \in Accesses(row) <=>
            x = [where |-> place, method |-> "filesystem_read", value |-> access.value]
    BY <1>3, <1>5, Zenon
  <2> DEFINE one == [where |-> place, method |-> "filesystem_read", value |-> access.value]
  <2>2. one.method = "filesystem_read" /\ one.value = access.value
    BY Zenon
  <2> HIDE DEF one
  <2>3. Accesses(row) = {one}
    BY <2>1, Zenon DEF one
  <2> QED BY <2>2, <2>3 DEF Reads
<1>6. ASSUME ~read PROVE ~Reads(row, path)
  BY <1>4, <1>6 DEF Reads
<1> QED BY <1>5, <1>6 DEF row

LEMMA NothingRead ==
    ASSUME NEW r, IsMarker(r)
    PROVE  \A path : ~Reads(r, path)
BY NoAccesses DEF Reads

LEMMA SignalsRead ==
    ASSUME NEW S, \A e \in S : IsEvent(e), NEW path
    PROVE  (\E r \in SignalsOfAll(S) : Reads(r, path)) <=> \E e \in S : Reads(e, path)
<1>1. ASSUME NEW r \in SignalsOfAll(S), Reads(r, path) PROVE \E e \in S : Reads(e, path)
  <2>1. PICK session : r \in SignalsOf(OfSession(S, session))
    BY DEF SignalsOfAll
  <2> DEFINE T == OfSession(S, session)
  <2>2. T \subseteq S
    BY DEF OfSession
  <2> HIDE DEF T
  <2>3. r \in SignalsOf(T)
    BY <2>1 DEF T
  <2>4. CASE \E e \in T : r = Thin(e)
    BY <1>1, <2>2, <2>4, ThinReads
  <2>5. CASE \E surface : r = MarkerOf(T, surface)
    <3>1. IsMarker(r)
      BY <2>5 DEF MarkerOf, IsMarker
    <3> QED BY <1>1, <3>1, NothingRead
  <2>6. CASE \E p \in EventAccesses(T) : \E n : r = ThinAccess(p[1], p[2], n)
    <3>0. PICK p \in EventAccesses(T) : \E n : r = ThinAccess(p[1], p[2], n)
      BY <2>6
    <3>1. PICK n : r = ThinAccess(p[1], p[2], n)
      BY <3>0
    <3>2. p[2].method = "filesystem_read" /\ p[2].value = path
      BY <1>1, <3>1, ThinAccessReads
    <3>3. p[1] \in T /\ p[2] \in Accesses(p[1])
      BY DEF EventAccesses
    <3> QED BY <2>2, <3>2, <3>3 DEF Reads
  <2>7. \/ r \in SourceEvents(T)
        \/ \E p \in EventAccesses(T) : \E n : r = ThinAccess(p[1], p[2], n)
    BY <2>3 DEF SignalsOf, ThinAccesses
  <2>8. r \in SourceEvents(T) => \/ \E e \in T : r = Thin(e)
                                 \/ \E surface : r = MarkerOf(T, surface)
    BY DEF SourceEvents
  <2> QED BY <2>4, <2>5, <2>6, <2>7, <2>8
<1>2. ASSUME NEW e \in S, Reads(e, path) PROVE \E r \in SignalsOfAll(S) : Reads(r, path)
  <2>1. PICK access \in Accesses(e) : access.method = "filesystem_read" /\ access.value = path
    BY <1>2 DEF Reads
  <2> DEFINE T == OfSession(S, e.session)
             pair == <<e, access>>
  <2>2. pair \in EventAccesses(T) /\ pair[1] = e /\ pair[2] = access
    BY DEF EventAccesses, OfSession
  <2> HIDE DEF T, pair
  <2>3. \E n : ThinAccess(pair[1], pair[2], n) \in ThinAccesses(T)
    BY <2>2 DEF ThinAccesses
  <2>4. PICK n : ThinAccess(e, access, n) \in ThinAccesses(T)
    BY <2>2, <2>3
  <2>5. ThinAccess(e, access, n) \in SignalsOfAll(S)
    BY <2>4 DEF SignalsOfAll, SignalsOf, T
  <2> QED BY <2>1, <2>5, ThinAccessReads
<1> QED BY <1>1, <1>2

LEMMA PathsRead ==
    ASSUME NEW S, NEW path
    PROVE  (\E p \in PathAccesses(S) : p[2].value = path) <=> \E r \in S : Reads(r, path)
<1>1. \A p : p \in PathAccesses(S) <=>
          \E r \in S : \E a \in Accesses(r) : p = <<r, a>> /\ a.method = "filesystem_read"
  BY DEF PathAccesses, EventAccesses
<1>2. ASSUME NEW p \in PathAccesses(S), p[2].value = path PROVE \E r \in S : Reads(r, path)
  <2>1. PICK r \in S : \E a \in Accesses(r) : p = <<r, a>> /\ a.method = "filesystem_read"
    BY <1>1
  <2>2. PICK a \in Accesses(r) : p = <<r, a>> /\ a.method = "filesystem_read"
    BY <2>1
  <2> QED BY <1>2, <2>2 DEF Reads
<1>3. ASSUME NEW r \in S, Reads(r, path)
      PROVE  \E p \in PathAccesses(S) : p[2].value = path
  <2>1. PICK a \in Accesses(r) : a.method = "filesystem_read" /\ a.value = path
    BY <1>3 DEF Reads
  <2>2. <<r, a>> \in PathAccesses(S) /\ <<r, a>>[2] = a
    BY <1>1, <2>1
  <2> QED BY <2>1, <2>2
<1> QED BY <1>2, <1>3

IsConfigured(rules) == rules.mode # ""

Times(found, x) == Cardinality({pair \in found : pair[2] = x})

LEMMA FlaggedPaths ==
    ASSUME NEW S, NEW rules, IsConfigured(rules)
    PROVE  \A path : path \in {f.finding.path : f \in PathRules(S, rules).findings}
                <=> (\E r \in S : Reads(r, path)) /\ PathReason(path, rules) # {}
<1> DEFINE made(p, reason) == [path |-> p[2].value, reason |-> reason,
                               event |-> SourceEvent(p[1]), session |-> p[1].session]
           of(p) == {<<<<p[1].id, p[2].where>>, made(p, reason)>> :
                        reason \in PathReason(p[2].value, rules)}
           found == UNION {of(p) : p \in PathAccesses(S)}
<1>1. PathRules(S, rules) =
        IF rules.mode = "" THEN Unconfigured
        ELSE IF PathAccesses(S) = {} THEN Unavailable
        ELSE IF found # {} THEN Report(Counted(found), "violation", "observed")
        ELSE Report({}, "not_violation", "observed")
  BY Zenon DEF PathRules
<1>2. PathRules(S, rules) =
        IF PathAccesses(S) = {} THEN Unavailable
        ELSE IF found # {} THEN Report(Counted(found), "violation", "observed")
        ELSE Report({}, "not_violation", "observed")
  <2> HIDE DEF found
  <2> QED BY <1>1, Zenon DEF IsConfigured
<1>3. \A p : \A pair : pair \in of(p) <=>
            \E reason \in PathReason(p[2].value, rules) :
                pair = <<<<p[1].id, p[2].where>>, made(p, reason)>>
  OBVIOUS
<1>4. \A p, reason : made(p, reason).path = p[2].value
  OBVIOUS
<1> HIDE DEF of, made
<1>5. \A pair : pair \in found <=> \E p \in PathAccesses(S) : pair \in of(p)
  OBVIOUS
<1>6. PathAccesses(S) = {} => found = {}
  OBVIOUS
<1> HIDE DEF found
<1>7. \A path : path \in {f.finding.path : f \in Counted(found)}
                    <=> \E pair \in found : path = pair[2].path
  <2>1. \A x : (\E f \in Counted(found) : f.finding = x) <=> \E pair \in found : pair[2] = x
    <3> DEFINE row(x) == [finding |-> x, times |-> Times(found, x)]
    <3>1. Counted(found) = {row(x) : x \in {pair[2] : pair \in found}}
      BY Zenon DEF Counted, Times
    <3>2. \A x : row(x).finding = x
      OBVIOUS
    <3> HIDE DEF row
    <3> QED BY <3>1, <3>2
  <2> QED BY <2>1, Zenon
<1>8. \A path : path \in {f.finding.path : f \in PathRules(S, rules).findings}
                    <=> \E pair \in found : path = pair[2].path
  <2>1. CASE found = {}
    <3>1. PathRules(S, rules).findings = {}
      BY <1>2, <2>1 DEF Report, Unavailable
    <3> QED BY <2>1, <3>1
  <2>2. CASE found # {}
    <3>1. PathRules(S, rules).findings = Counted(found)
      BY <1>2, <1>6, <2>2 DEF Report
    <3> QED BY <1>7, <3>1
  <2> QED BY <2>1, <2>2
<1>9. ASSUME NEW path
      PROVE  (\E pair \in found : path = pair[2].path)
                <=> \E p \in PathAccesses(S) : p[2].value = path /\ PathReason(path, rules) # {}
  <2>1. ASSUME NEW pair \in found, path = pair[2].path
        PROVE  \E p \in PathAccesses(S) : p[2].value = path /\ PathReason(path, rules) # {}
    <3>1. PICK p \in PathAccesses(S) : pair \in of(p)
      BY <1>5
    <3>2. PICK reason \in PathReason(p[2].value, rules) :
                pair = <<<<p[1].id, p[2].where>>, made(p, reason)>>
      BY <1>3, <3>1
    <3>3. pair[2] = made(p, reason)
      BY <3>2
    <3>4. p[2].value = path
      BY <1>4, <2>1, <3>3
    <3> QED BY <3>2, <3>4
  <2>2. ASSUME NEW p \in PathAccesses(S), p[2].value = path, PathReason(path, rules) # {}
        PROVE  \E pair \in found : path = pair[2].path
    <3>1. PICK reason \in PathReason(p[2].value, rules) : TRUE
      BY <2>2
    <3> DEFINE pair == <<<<p[1].id, p[2].where>>, made(p, reason)>>
    <3>2. pair \in of(p) /\ pair[2] = made(p, reason)
      BY <1>3
    <3> HIDE DEF pair
    <3> QED BY <1>4, <1>5, <2>2, <3>2
  <2> QED BY <2>1, <2>2
<1>10. \A path : (\E p \in PathAccesses(S) : p[2].value = path) <=> \E r \in S : Reads(r, path)
  BY PathsRead
<1> QED BY <1>8, <1>9, <1>10

(***************************************************************************)
(* The decision on a path, by the meaning of the patterns.                 *)
(***************************************************************************)
LEMMA ReasonToFlag ==
    ASSUME NEW path, NEW rules
    PROVE  PathReason(path, rules) # {}
            <=> \/ MatchesAny(path, rules.blocked)
                \/ rules.mode = "approved_only" /\ ~MatchesAny(path, rules.allowed)
                \/ rules.mode = "flag_all"
BY DEF PathReason

LEMMA MatchesAreMeant ==
    ASSUME NEW rules \in PathRuleSets, NEW path \in Seq(STRING)
    PROVE  /\ MatchesAny(path, rules.blocked) <=> MeansAny(path, rules.blocked)
           /\ MatchesAny(path, rules.allowed) <=> MeansAny(path, rules.allowed)
<1>1. ASSUME NEW p \in rules.blocked \cup rules.allowed, p.kind # "exact"
      PROVE  GlobMatches(p.value, path) <=> Means(p.value, path)
  <2> DEFINE C == STRING \ {"**", "**/"}
  <2>1. p.value \in Seq(C)
    BY <1>1, PatternsAssumption
  <2>2. "**" \notin C /\ "**/" \notin C
    OBVIOUS
  <2> HIDE DEF C
  <2> QED BY <2>1, <2>2, GlobMeans
<1> QED BY <1>1 DEF MatchesAny, MeansAny

\* For any patterns, modes and paths, and after any payloads and deletions, the
\* paths that the recursive matcher of path_rules.go flags over the rows of
\* insight_signals are those the rules mean of the paths in the stored events.
THEOREM RulesFlagExactlyCorrect == Spec => []RulesFlagExactly
<1>1. SignalsInvariant => RulesFlagExactly
  <2> SUFFICES ASSUME SignalsInvariant, NEW rules \in PathRuleSets, IsConfigured(rules)
               PROVE  {f.finding.path : f \in PathRules(signals, rules).findings}
                        = {pair[2].value : pair \in {p \in PathAccesses(events) :
                            LET path == p[2].value
                            IN  \/ MeansAny(path, rules.blocked)
                                \/ rules.mode = "approved_only" /\ ~MeansAny(path, rules.allowed)
                                \/ rules.mode = "flag_all"}}
    BY Zenon DEF RulesFlagExactly, IsConfigured
  <2> DEFINE flag(path) == \/ MeansAny(path, rules.blocked)
                           \/ rules.mode = "approved_only" /\ ~MeansAny(path, rules.allowed)
                           \/ rules.mode = "flag_all"
  <2>1. (\A e \in events : IsEvent(e)) /\ signals = SignalsOfAll(events)
    BY DEF SignalsInvariant
  <2>2. ASSUME NEW e \in events, NEW path, Reads(e, path)
        PROVE  PathReason(path, rules) # {} <=> flag(path)
    <3>1. path \in Seq(STRING)
      BY <2>1, <2>2 DEF IsEvent, Reads
    <3> QED BY <3>1, ReasonToFlag, MatchesAreMeant
  <2> HIDE DEF flag
  <2>3. \A path : path \in {f.finding.path : f \in PathRules(signals, rules).findings}
                    <=> (\E e \in events : Reads(e, path)) /\ flag(path)
    <3>1. \A path : path \in {f.finding.path : f \in PathRules(signals, rules).findings}
                    <=> (\E r \in signals : Reads(r, path)) /\ PathReason(path, rules) # {}
      BY FlaggedPaths, Zenon
    <3>2. \A path : (\E r \in signals : Reads(r, path)) <=> \E e \in events : Reads(e, path)
      BY <2>1, SignalsRead
    <3> QED BY <2>2, <3>1, <3>2, Zenon
  <2>4. \A path : path \in {pair[2].value : pair \in {p \in PathAccesses(events) : flag(p[2].value)}}
                    <=> (\E e \in events : Reads(e, path)) /\ flag(path)
    <3>1. \A path : (\E p \in PathAccesses(events) : p[2].value = path)
                        <=> \E e \in events : Reads(e, path)
      BY PathsRead
    <3> QED BY <3>1
  <2>5. {f.finding.path : f \in PathRules(signals, rules).findings}
            = {pair[2].value : pair \in {p \in PathAccesses(events) : flag(p[2].value)}}
    BY <2>3, <2>4, Zenon
  <2> QED BY <2>5, Zenon DEF flag
<1> QED BY <1>1, SignalsCorrect, PTL

-----------------------------------------------------------------------------
(***************************************************************************)
(* What is stored is what adapters make, and finite.                       *)
(***************************************************************************)
StoredInvariant ==
    /\ SignalsInvariant
    /\ IsFiniteSet(events)
    /\ \A e \in events : IsIngested(e)

LEMMA InsertedFinite ==
    ASSUME NEW rows, NEW table, UniqueIds(table), IsFiniteSet(rows), IsFiniteSet(table)
    PROVE  IsFiniteSet(Inserted(rows, table))
<1>1. IsFiniteSet(table \cup rows)
  BY TogetherFinite
<1>2. Inserted(rows, table) \subseteq table \cup rows
  BY InsertedRows
<1> QED BY <1>1, <1>2, PartIsFinite

LEMMA StepStored == StoredInvariant /\ [Next]_vars => StoredInvariant'
<1> SUFFICES ASSUME StoredInvariant, [Next]_vars PROVE StoredInvariant'
  OBVIOUS
<1>1. /\ SignalsInvariant /\ SignalsInvariant' /\ UniqueIds(events)
      /\ IsFiniteSet(events) /\ \A e \in events : IsIngested(e)
  BY StepSignals DEF StoredInvariant, SignalsInvariant
<1> SUFFICES IsFiniteSet(events') /\ \A e \in events' : IsIngested(e)
  BY <1>1 DEF StoredInvariant
<1>2. ASSUME NEW i \in DOMAIN Received[world], Ingest(Received[world][i])
      PROVE  IsFiniteSet(events') /\ \A e \in events' : IsIngested(e)
  <2> DEFINE payload == Received[world][i]
  <2>1. events' = Inserted(payload.events, events) /\ world \in Worlds
    BY <1>1, <1>2 DEF Ingest, SignalsInvariant
  <2>2. IsFiniteSet(payload.events) /\ \A e \in payload.events : IsIngested(e)
    BY <2>1, AdaptersAssumption
  <2> HIDE DEF payload
  <2>3. \A e \in events' : e \in events \/ e \in payload.events
    BY <1>1, <2>1, InsertedRows
  <2> QED BY <1>1, <2>1, <2>2, <2>3, InsertedFinite
<1>3. ASSUME NEW session, Delete(session)
      PROVE  IsFiniteSet(events') /\ \A e \in events' : IsIngested(e)
  <2>1. events' \subseteq events
    BY <1>3 DEF Delete
  <2> QED BY <1>1, <2>1, PartIsFinite
<1>4. CASE UNCHANGED vars
  BY <1>1, <1>4 DEF vars
<1> QED BY <1>2, <1>3, <1>4 DEF Next

LEMMA StoredCorrect == Spec => []StoredInvariant
<1>1. Init => StoredInvariant
  BY InitSignals, NoneAndOne DEF StoredInvariant, Init
<1> QED BY <1>1, StepStored, PTL DEF Spec

(***************************************************************************)
(* The rows of the accesses: one for each, with an identifier of its own.  *)
(***************************************************************************)
Within(e) ==
    CHOOSE place \in [Accesses(e) -> 1 .. Cardinality(Accesses(e))] :
        \A a, b \in Accesses(e) : place[a] = place[b] => a = b

AccessesBefore(S, e) ==
    {q \in EventAccesses(OfSession(S, e.session)) : StoredBefore(q[1], e)}

RowOf(S, p) ==
    ThinAccess(p[1], p[2], Cardinality(AccessesBefore(S, p[1])) + Within(p[1])[p[2]])

LEMMA WithinPlaces ==
    ASSUME NEW e, IsFiniteSet(Accesses(e))
    PROVE  /\ Within(e) \in [Accesses(e) -> 1 .. Cardinality(Accesses(e))]
           /\ \A a, b \in Accesses(e) : Within(e)[a] = Within(e)[b] => a = b
           /\ Cardinality(Accesses(e)) \in Nat
<1> DEFINE A == Accesses(e)
           n == Cardinality(A)
<1>1. /\ n \in Nat
      /\ \E f \in [1 .. n -> A] : \A a \in A : \E k \in 1 .. n : f[k] = a
  BY Enumeration
<1> HIDE DEF A, n
<1>3. PICK f \in [1 .. n -> A] : \A a \in A : \E k \in 1 .. n : f[k] = a
  BY <1>1
<1> DEFINE g == [a \in A |-> CHOOSE k \in 1 .. n : f[k] = a]
<1>4. \A a \in A : g[a] \in 1 .. n /\ f[g[a]] = a
  BY <1>3
<1>5. g \in [A -> 1 .. n]
  BY <1>4
<1>6. \A a, b \in A : g[a] = g[b] => a = b
  <2> HIDE DEF g
  <2> QED BY <1>4
<1> HIDE DEF g
<1>7. \E place \in [A -> 1 .. n] : \A a, b \in A : place[a] = place[b] => a = b
  BY <1>5, <1>6
<1>8. Within(e) = CHOOSE place \in [A -> 1 .. n] : \A a, b \in A : place[a] = place[b] => a = b
  BY DEF Within, A, n
<1>9. Within(e) \in [A -> 1 .. n] /\ \A a, b \in A : Within(e)[a] = Within(e)[b] => a = b
  BY <1>7, <1>8
<1> QED BY <1>1, <1>9 DEF A, n

LEMMA AccessesFinite ==
    ASSUME NEW S, IsFiniteSet(S), \A e \in S : IsFiniteSet(Accesses(e))
    PROVE  IsFiniteSet(EventAccesses(S))
<1> DEFINE of(e) == {e} \X Accesses(e)
           sets == {of(e) : e \in S}
           f == [e \in S |-> of(e)]
<1>1. IsFiniteSet(sets)
  <2>1. sets = {f[e] : e \in S}
    OBVIOUS
  <2> HIDE DEF f, sets
  <2> QED BY <2>1, ImagesFinite
<1>2. \A T \in sets : IsFiniteSet(T)
  <2> SUFFICES ASSUME NEW e \in S PROVE IsFiniteSet(of(e))
    OBVIOUS
  <2>1. IsFiniteSet({e})
    BY NoneAndOne
  <2> QED BY <2>1, TogetherFinite
<1>3. EventAccesses(S) = UNION sets
  BY DEF EventAccesses
<1> HIDE DEF sets
<1> QED BY <1>1, <1>2, <1>3, AllTogetherFinite

\* A table that the adapters' events make.
IsTable(S) ==
    /\ IsFiniteSet(S) /\ UniqueIds(S)
    /\ \A e \in S : IsEvent(e) /\ IsIngested(e)

LEMMA BeforeIsNumber ==
    ASSUME NEW S, IsTable(S), NEW e
    PROVE  Cardinality(AccessesBefore(S, e)) \in Nat
<1>1. IsFiniteSet(OfSession(S, e.session)) /\ \A f \in OfSession(S, e.session) : IsFiniteSet(Accesses(f))
  <2>1. OfSession(S, e.session) \subseteq S
    BY DEF OfSession
  <2>2. IsFiniteSet(S) /\ \A f \in S : IsFiniteSet(Accesses(f))
    BY DEF IsTable, IsIngested
  <2> QED BY <2>1, <2>2, PartIsFinite
<1>2. IsFiniteSet(EventAccesses(OfSession(S, e.session)))
  BY <1>1, AccessesFinite
<1>3. AccessesBefore(S, e) \subseteq EventAccesses(OfSession(S, e.session))
  BY DEF AccessesBefore
<1>4. IsFiniteSet(AccessesBefore(S, e))
  BY <1>2, <1>3, PartIsFinite
<1> QED BY <1>4, SizeIsNumber

LEMMA RowsDiffer ==
    ASSUME NEW S, IsTable(S), NEW p \in EventAccesses(S), NEW q \in EventAccesses(S),
           RowOf(S, p).id = RowOf(S, q).id
    PROVE  p = q
<1>0. PICK e \in S : p \in {e} \X Accesses(e)
  BY DEF EventAccesses
<1>1. PICK f \in S : q \in {f} \X Accesses(f)
  BY DEF EventAccesses
<1>2. /\ p = <<e, p[2]>> /\ p[1] = e /\ p[2] \in Accesses(e)
      /\ q = <<f, q[2]>> /\ q[1] = f /\ q[2] \in Accesses(f)
  BY <1>0, <1>1
<1> DEFINE number(g, a) == Cardinality(AccessesBefore(S, g)) + Within(g)[a]
<1>3. RowOf(S, p).id = <<e.id[1], number(e, p[2])>> /\ RowOf(S, q).id = <<f.id[1], number(f, q[2])>>
  BY <1>2 DEF RowOf, ThinAccess
<1> HIDE DEF number
<1>4. e.id[1] = f.id[1] /\ number(e, p[2]) = number(f, q[2])
  <2>1. <<e.id[1], number(e, p[2])>> = <<f.id[1], number(f, q[2])>>
    BY <1>3
  <2> QED BY <2>1
<1>5. e.id \in Nat \X Nat /\ f.id \in Nat \X Nat /\ e.id[2] = 0 /\ f.id[2] = 0
  BY DEF IsTable, IsEvent, IsIngested
<1>6. e.id = f.id
  BY <1>4, <1>5
<1>7. e = f
  BY <1>6 DEF IsTable, UniqueIds
<1>8. IsFiniteSet(Accesses(e))
  BY DEF IsTable, IsIngested
<1>9. Cardinality(AccessesBefore(S, e)) \in Nat
  BY BeforeIsNumber
<1>10. Within(e)[p[2]] \in Nat /\ Within(e)[q[2]] \in Nat
  <2>1. Within(e) \in [Accesses(e) -> 1 .. Cardinality(Accesses(e))]
        /\ Cardinality(Accesses(e)) \in Nat
    BY <1>8, WithinPlaces
  <2>2. p[2] \in Accesses(e) /\ q[2] \in Accesses(e)
    BY <1>2, <1>7
  <2> QED BY <2>1, <2>2
<1>11. Within(e)[p[2]] = Within(e)[q[2]]
  BY <1>4, <1>7, <1>9, <1>10 DEF number
<1>12. p[2] = q[2]
  BY <1>2, <1>7, <1>8, <1>11, WithinPlaces
<1> QED BY <1>2, <1>7, <1>12

\* The rows of the signals: events as an insight reads them, the markers of each
\* tool of a session, accesses.
LEMMA RowsAndMarkers ==
    ASSUME NEW S
    PROVE  /\ \A row \in SignalsOfAll(S) :
                    \/ \E e \in S : IsSource(e) /\ row = Thin(e)
                    \/ \E e \in S : row = MarkerOf(OfSession(S, e.session), e.surface)
                    \/ \E p \in EventAccesses(S) : row = RowOf(S, p)
           /\ \A e \in S : IsSource(e) => Thin(e) \in SignalsOfAll(S)
           /\ \A e \in S : MarkerOf(OfSession(S, e.session), e.surface) \in SignalsOfAll(S)
           /\ \A p \in EventAccesses(S) : RowOf(S, p) \in SignalsOfAll(S)
<1> DEFINE own(session) == OfSession(S, session)
<1>1. \A session : \A e : e \in own(session) <=> e \in S /\ e.session = session
  BY DEF OfSession
<1>2. \A p : p \in EventAccesses(S) => p[1] \in S /\ p \in EventAccesses(own(p[1].session))
  BY <1>1 DEF EventAccesses
<1>3. \A session : \A p \in EventAccesses(own(session)) :
            p \in EventAccesses(S) /\ p[1].session = session
  BY <1>1 DEF EventAccesses
<1>4. ASSUME NEW session
      PROVE  ThinAccesses(own(session)) = {RowOf(S, p) : p \in EventAccesses(own(session))}
  <2> DEFINE before(e) == Cardinality({p \in EventAccesses(own(session)) : StoredBefore(p[1], e)})
             row(p) == ThinAccess(p[1], p[2], before(p[1]) + Within(p[1])[p[2]])
  <2>1. ThinAccesses(own(session)) = {row(p) : p \in EventAccesses(own(session))}
    BY DEF ThinAccesses, Within
  <2>2. ASSUME NEW p \in EventAccesses(own(session)) PROVE row(p) = RowOf(S, p)
    <3>1. AccessesBefore(S, p[1]) = {q \in EventAccesses(own(session)) : StoredBefore(q[1], p[1])}
      BY <1>3 DEF AccessesBefore
    <3> QED BY <3>1 DEF RowOf
  <2> HIDE DEF row
  <2> QED BY <2>1, <2>2
<1>5. \A session : \A r : r \in SourceEvents(own(session)) <=>
            \/ \E e \in own(session) : IsSource(e) /\ r = Thin(e)
            \/ \E surface \in Surfaces(own(session)) : r = MarkerOf(own(session), surface)
  BY DEF SourceEvents
<1>6. \A session, surface : surface \in Surfaces(own(session)) <=>
            \E e \in S : e.session = session /\ e.surface = surface
  BY <1>1 DEF Surfaces
<1>7. \A r : r \in SignalsOfAll(S) <=> \E session \in {e.session : e \in S} :
            r \in SourceEvents(own(session)) \/ r \in ThinAccesses(own(session))
  BY DEF SignalsOfAll, SignalsOf
<1> HIDE DEF own
<1>8. ASSUME NEW row \in SignalsOfAll(S)
      PROVE  \/ \E e \in S : IsSource(e) /\ row = Thin(e)
             \/ \E e \in S : row = MarkerOf(own(e.session), e.surface)
             \/ \E p \in EventAccesses(S) : row = RowOf(S, p)
  <2>1. PICK session : row \in SourceEvents(own(session)) \/ row \in ThinAccesses(own(session))
    BY <1>7
  <2>2. CASE row \in SourceEvents(own(session))
    BY <1>1, <1>5, <1>6, <2>2
  <2>3. CASE row \in ThinAccesses(own(session))
    BY <1>3, <1>4, <2>3
  <2> QED BY <2>1, <2>2, <2>3
<1>9. ASSUME NEW e \in S, IsSource(e) PROVE Thin(e) \in SignalsOfAll(S)
  BY <1>1, <1>5, <1>7, <1>9
<1>10. ASSUME NEW p \in EventAccesses(S) PROVE RowOf(S, p) \in SignalsOfAll(S)
  BY <1>2, <1>4, <1>7
<1>11. ASSUME NEW e \in S PROVE MarkerOf(own(e.session), e.surface) \in SignalsOfAll(S)
  BY <1>5, <1>6, <1>7
<1> QED BY <1>8, <1>9, <1>10, <1>11 DEF own

LEMMA RowsOfAll ==
    ASSUME NEW S
    PROVE  /\ \A row \in SignalsOfAll(S) :
                    \/ \E e \in S : IsSource(e) /\ row = Thin(e)
                    \/ IsMarker(row)
                    \/ \E p \in EventAccesses(S) : row = RowOf(S, p)
           /\ \A e \in S : IsSource(e) => Thin(e) \in SignalsOfAll(S)
           /\ \A p \in EventAccesses(S) : RowOf(S, p) \in SignalsOfAll(S)
<1>1. \A stored, surface : IsMarker(MarkerOf(stored, surface))
  BY DEF MarkerOf, IsMarker
<1> QED BY <1>1, RowsAndMarkers

(***************************************************************************)
(* What the access of a row is.                                            *)
(***************************************************************************)
Moved(access) ==
    [where |-> <<"", IF access.method = "filesystem_read" THEN "file_path" ELSE "command">>,
     method |-> access.method, value |-> access.value]

IsAccess(access) == access.method \in {"filesystem_read", "shell_command"}

LEMMA AccessesAre ==
    ASSUME NEW e
    PROVE  \A access \in Accesses(e) : IsAccess(access)
<1>1. ASSUME NEW namespace, NEW values
      PROVE  \A access \in LeafAccesses(namespace, values) : IsAccess(access)
  BY DEF LeafAccesses, IsAccess
<1>2. \A access \in Accesses(e) : \E namespace, values : access \in LeafAccesses(namespace, values)
  BY Zenon DEF Accesses
<1> QED BY <1>1, <1>2, Zenon

LEMMA AccessesOfRow ==
    ASSUME NEW e, NEW access, IsAccess(access), NEW n
    PROVE  Accesses(ThinAccess(e, access, n)) = {Moved(access)}
<1> DEFINE row == ThinAccess(e, access, n)
           read == access.method = "filesystem_read"
           blank == ""
<1>1. /\ row.attributes = IF read THEN [source_event_id |-> e.id, file_path |-> access.value]
                          ELSE [source_event_id |-> e.id, command |-> access.value]
      /\ row.extensions = NoValues
  BY DEF ThinAccess
<1>2. Accesses(row) = LeafAccesses(blank, row.attributes)
  <2>1. DOMAIN row.extensions \ {"skill_detection"} = {}
    BY <1>1 DEF NoValues
  <2> QED BY <2>1, Zenon DEF Accesses
<1>3. Moved(access) = [where |-> <<blank, IF read THEN "file_path" ELSE "command">>,
                       method |-> access.method, value |-> access.value]
  BY Zenon DEF Moved
<1> HIDE DEF row, blank
<1>4. CASE read
  <2>1. row.attributes = [source_event_id |-> e.id, file_path |-> access.value]
    BY <1>1, <1>4
  <2>2. (PathKeys \cup CommandKeys) \cap DOMAIN row.attributes = {"file_path"}
    BY <2>1 DEF PathKeys, CommandKeys
  <2>3. "file_path" \in PathKeys /\ row.attributes["file_path"] = access.value
    BY <2>1 DEF PathKeys
  <2>4. LeafAccesses(blank, row.attributes)
            = {[where |-> <<blank, "file_path">>, method |-> "filesystem_read",
                value |-> access.value]}
    BY <2>2, <2>3 DEF LeafAccesses
  <2> QED BY <1>2, <1>3, <1>4, <2>4 DEF row
<1>5. CASE ~read
  <2>1. row.attributes = [source_event_id |-> e.id, command |-> access.value]
    BY <1>1, <1>5
  <2>2. (PathKeys \cup CommandKeys) \cap DOMAIN row.attributes = {"command"}
    BY <2>1 DEF PathKeys, CommandKeys
  <2>3. "command" \notin PathKeys /\ row.attributes["command"] = access.value
    BY <2>1 DEF PathKeys
  <2>4. LeafAccesses(blank, row.attributes)
            = {[where |-> <<blank, "command">>, method |-> "shell_command",
                value |-> access.value]}
    BY <2>2, <2>3 DEF LeafAccesses
  <2>5. access.method = "shell_command"
    BY <1>5 DEF IsAccess
  <2> QED BY <1>2, <1>3, <1>5, <2>4, <2>5 DEF row
<1> QED BY <1>4, <1>5

\* An event has one access at each place.
LEMMA PlacesDiffer ==
    ASSUME NEW e, IsIngested(e), NEW a \in Accesses(e), NEW b \in Accesses(e),
           a.where = b.where
    PROVE  a = b
<1> DEFINE blank == ""
           values(namespace) == IF namespace = blank THEN e.attributes ELSE e.extensions[namespace]
<1>1. blank \notin DOMAIN e.extensions
  BY Zenon DEF IsIngested
<1>2. Accesses(e) = LeafAccesses(blank, e.attributes)
        \cup UNION {LeafAccesses(namespace, e.extensions[namespace]) :
                        namespace \in DOMAIN e.extensions \ {"skill_detection"}}
  BY Zenon DEF Accesses
<1> HIDE DEF blank
<1>3. \A x \in Accesses(e) : \E namespace : x \in LeafAccesses(namespace, values(namespace))
  BY <1>1, <1>2
<1> HIDE DEF values
<1>4. \A x \in Accesses(e) : \E namespace, key :
        x = [where |-> <<namespace, key>>,
             method |-> IF key \in PathKeys THEN "filesystem_read" ELSE "shell_command",
             value |-> values(namespace)[key]]
  BY <1>3 DEF LeafAccesses
<1>5. \A x \in Accesses(e) :
        x = [where |-> x.where,
             method |-> IF x.where[2] \in PathKeys THEN "filesystem_read" ELSE "shell_command",
             value |-> values(x.where[1])[x.where[2]]]
  BY <1>4
<1> QED BY <1>5

\* Each access of the stored events is one access of the signals.
LEMMA SignalAccesses ==
    ASSUME NEW S, IsTable(S)
    PROVE  EventAccesses(SignalsOfAll(S))
            = {<<RowOf(S, p), Moved(p[2])>> : p \in EventAccesses(S)}
<1> DEFINE moved(p) == <<RowOf(S, p), Moved(p[2])>>
<1>1. \A T, x : x \in EventAccesses(T) <=> \E r \in T : \E a \in Accesses(r) : x = <<r, a>>
  BY DEF EventAccesses
<1>2. ASSUME NEW p \in EventAccesses(S) PROVE Accesses(RowOf(S, p)) = {Moved(p[2])}
  <2>1. IsAccess(p[2])
    BY <1>1, AccessesAre
  <2> QED BY <2>1, AccessesOfRow DEF RowOf
<1>3. ASSUME NEW x \in EventAccesses(SignalsOfAll(S))
      PROVE  \E p \in EventAccesses(S) : x = moved(p)
  <2>1. PICK r \in SignalsOfAll(S) : \E a \in Accesses(r) : x = <<r, a>>
    BY <1>1
  <2>2. PICK a \in Accesses(r) : x = <<r, a>>
    BY <2>1
  <2>3. ~ \E e \in S : IsSource(e) /\ r = Thin(e)
    BY <2>2 DEF IsTable, IsIngested
  <2>4. ~IsMarker(r)
    BY <2>2, NoAccesses
  <2>5. PICK p \in EventAccesses(S) : r = RowOf(S, p)
    BY <2>3, <2>4, RowsOfAll
  <2>6. a = Moved(p[2])
    BY <1>2, <2>2, <2>5
  <2> QED BY <2>2, <2>5, <2>6
<1>4. ASSUME NEW p \in EventAccesses(S) PROVE moved(p) \in EventAccesses(SignalsOfAll(S))
  <2>1. RowOf(S, p) \in SignalsOfAll(S)
    BY RowsOfAll
  <2>2. Moved(p[2]) \in Accesses(RowOf(S, p))
    BY <1>2
  <2> QED BY <1>1, <2>1, <2>2
<1> HIDE DEF moved
<1>5. EventAccesses(SignalsOfAll(S)) = {moved(p) : p \in EventAccesses(S)}
  BY <1>3, <1>4
<1> QED BY <1>5 DEF moved

\* Findings are counted alike whatever their places are called, if each place has
\* a name of its own.
FoundAt(P, place, v) == UNION {{<<place[p], x>> : x \in v[p]} : p \in P}

LEMMA TimesFound ==
    ASSUME NEW P, IsFiniteSet(P), NEW place, NEW v, NEW x,
           \A p, q \in P : place[p] = place[q] => p = q
    PROVE  Times(FoundAt(P, place, v), x) = Cardinality({p \in P : x \in v[p]})
<1> DEFINE Q == {p \in P : x \in v[p]}
           g == [p \in P |-> <<place[p], x>>]
<1>1. IsFiniteSet(Q)
  BY PartIsFinite
<1>2. \A p, q \in Q : g[p] = g[q] => p = q
  OBVIOUS
<1>3. {pair \in FoundAt(P, place, v) : pair[2] = x} = {g[p] : p \in Q}
  <2>1. \A pair : pair \in FoundAt(P, place, v)
                    <=> \E p \in P : \E y \in v[p] : pair = <<place[p], y>>
    BY DEF FoundAt
  <2>2. \A p \in Q : g[p] = <<place[p], x>> /\ g[p] \in FoundAt(P, place, v) /\ g[p][2] = x
    BY <2>1
  <2>3. ASSUME NEW pair \in FoundAt(P, place, v), pair[2] = x PROVE \E p \in Q : pair = g[p]
    BY <2>1, <2>3
  <2> HIDE DEF g, Q
  <2> QED BY <2>2, <2>3
<1> HIDE DEF Q, g
<1>4. Cardinality({g[p] : p \in Q}) = Cardinality(Q)
  BY <1>1, <1>2, SameNumber
<1> QED BY <1>3, <1>4 DEF Times, Q

LEMMA CountedAlike ==
    ASSUME NEW P, IsFiniteSet(P), NEW a, NEW b, NEW v,
           \A p, q \in P : a[p] = a[q] => p = q,
           \A p, q \in P : b[p] = b[q] => p = q
    PROVE  /\ Counted(FoundAt(P, a, v)) = Counted(FoundAt(P, b, v))
           /\ FoundAt(P, a, v) = {} <=> FoundAt(P, b, v) = {}
<1> DEFINE row(found, x) == [finding |-> x, times |-> Times(found, x)]
           all == UNION {v[p] : p \in P}
<1>1. \A found : Counted(found) = {row(found, x) : x \in {pair[2] : pair \in found}}
  BY DEF Counted, Times
<1>2. ASSUME NEW place
      PROVE  /\ {pair[2] : pair \in FoundAt(P, place, v)} = all
             /\ FoundAt(P, place, v) = {} <=> all = {}
  <2>1. \A pair : pair \in FoundAt(P, place, v)
                    <=> \E p \in P : \E y \in v[p] : pair = <<place[p], y>>
    BY DEF FoundAt
  <2>2. ASSUME NEW x \in all PROVE \E pair \in FoundAt(P, place, v) : pair[2] = x
    <3>1. PICK p \in P : x \in v[p]
      OBVIOUS
    <3> DEFINE pair == <<place[p], x>>
    <3>2. pair \in FoundAt(P, place, v) /\ pair[2] = x
      BY <2>1, <3>1
    <3> QED BY <3>2
  <2>3. \A pair \in FoundAt(P, place, v) : pair[2] \in all
    BY <2>1
  <2> HIDE DEF all
  <2> QED BY <2>2, <2>3
<1>3. ASSUME NEW x PROVE Times(FoundAt(P, a, v), x) = Times(FoundAt(P, b, v), x)
  <2>1. Times(FoundAt(P, a, v), x) = Cardinality({p \in P : x \in v[p]})
    BY TimesFound
  <2>2. Times(FoundAt(P, b, v), x) = Cardinality({p \in P : x \in v[p]})
    BY TimesFound
  <2> QED BY <2>1, <2>2
<1>4. \A x : row(FoundAt(P, a, v), x) = row(FoundAt(P, b, v), x)
  BY <1>3
<1> HIDE DEF row, all
<1> QED BY <1>1, <1>2, <1>4

LEMMA EventPlacesDiffer ==
    ASSUME NEW S, IsTable(S), NEW p \in EventAccesses(S), NEW q \in EventAccesses(S),
           p[1].id = q[1].id, p[2].where = q[2].where
    PROVE  p = q
<1>1. /\ p = <<p[1], p[2]>> /\ p[1] \in S /\ p[2] \in Accesses(p[1])
      /\ q = <<q[1], q[2]>> /\ q[1] \in S /\ q[2] \in Accesses(q[1])
  BY DEF EventAccesses
<1>2. p[1] = q[1] /\ IsIngested(p[1])
  BY <1>1 DEF IsTable, UniqueIds
<1>3. p[2] = q[2]
  BY <1>1, <1>2, PlacesDiffer
<1> QED BY <1>1, <1>2, <1>3

LEMMA TableAccessesFinite ==
    ASSUME NEW S, IsTable(S)
    PROVE  IsFiniteSet(EventAccesses(S))
BY AccessesFinite DEF IsTable, IsIngested

LEMMA FindingsMoved ==
    ASSUME NEW e, NEW access, NEW n
    PROVE  AccessFindings(ThinAccess(e, access, n), Moved(access)) = AccessFindings(e, access)
<1> DEFINE row == ThinAccess(e, access, n)
           there == Moved(access)
<1>1. row.at = e.at /\ row.session = e.session
  BY DEF ThinAccess
<1>2. there.method = access.method /\ there.value = access.value
  BY Zenon DEF Moved
<1> HIDE DEF row, there
<1>3. AccessFindings(row, there) = AccessFindings(e, access)
  BY <1>1, <1>2 DEF AccessFindings
<1> QED BY <1>3 DEF row, there

LEMMA AccessAlike ==
    ASSUME NEW S, IsTable(S)
    PROVE  RiskyAccess(SignalsOfAll(S)) = RiskyAccess(S)
<1> DEFINE P == EventAccesses(S)
           R == EventAccesses(SignalsOfAll(S))
           moved(p) == <<RowOf(S, p), Moved(p[2])>>
           of(p) == {<<<<p[1].id, p[2].where>>, x>> : x \in AccessFindings(p[1], p[2])}
           a == [p \in P |-> <<RowOf(S, p).id, Moved(p[2]).where>>]
           b == [p \in P |-> <<p[1].id, p[2].where>>]
           v == [p \in P |-> AccessFindings(p[1], p[2])]
           report(found, any) ==
                IF found # {} THEN Report(Counted(found), "violation", "observed")
                ELSE IF any THEN Report({}, "not_violation", "observed")
                ELSE Unavailable
<1>1. /\ RiskyAccess(S) = report(UNION {of(p) : p \in P}, P # {})
      /\ RiskyAccess(SignalsOfAll(S)) = report(UNION {of(p) : p \in R}, R # {})
  BY Zenon DEF RiskyAccess
<1>2. R = {moved(p) : p \in P}
  BY SignalAccesses
<1>3. \A p \in P : of(p) = {<<b[p], x>> : x \in v[p]}
  OBVIOUS
<1>4. \A p \in P : of(moved(p)) = {<<a[p], x>> : x \in v[p]}
  <2>1. \A p \in P : AccessFindings(RowOf(S, p), Moved(p[2])) = v[p]
    BY FindingsMoved DEF RowOf
  <2> QED BY <2>1
<1>5. \A p, q \in P : a[p] = a[q] => p = q
  <2>1. \A p, q \in P : a[p] = a[q] => RowOf(S, p).id = RowOf(S, q).id
    OBVIOUS
  <2> QED BY <2>1, RowsDiffer
<1>6. \A p, q \in P : b[p] = b[q] => p = q
  <2>1. \A p, q \in P : b[p] = b[q] => p[1].id = q[1].id /\ p[2].where = q[2].where
    OBVIOUS
  <2> QED BY <2>1, EventPlacesDiffer
<1>7. IsFiniteSet(P)
  BY TableAccessesFinite
<1> HIDE DEF P, R, of, moved, a, b, v
<1>8. UNION {of(p) : p \in P} = FoundAt(P, b, v)
  BY <1>3 DEF FoundAt
<1>9. UNION {of(p) : p \in R} = FoundAt(P, a, v)
  <2>1. UNION {of(p) : p \in R} = UNION {of(moved(p)) : p \in P}
    BY <1>2
  <2> QED BY <1>4, <2>1 DEF FoundAt
<1>10. /\ Counted(FoundAt(P, a, v)) = Counted(FoundAt(P, b, v))
       /\ FoundAt(P, a, v) = {} <=> FoundAt(P, b, v) = {}
  BY <1>5, <1>6, <1>7, CountedAlike
<1>11. R # {} <=> P # {}
  BY <1>2
<1>12. report(FoundAt(P, a, v), R # {}) = report(FoundAt(P, b, v), P # {})
  BY <1>10, <1>11
<1> HIDE DEF report
<1> QED BY <1>1, <1>8, <1>9, <1>12

LEMMA PathAccessesMoved ==
    ASSUME NEW S, IsTable(S)
    PROVE  PathAccesses(SignalsOfAll(S))
            = {<<RowOf(S, p), Moved(p[2])>> : p \in PathAccesses(S)}
<1> DEFINE moved(p) == <<RowOf(S, p), Moved(p[2])>>
<1>1. \A access : Moved(access).method = access.method
  BY Zenon DEF Moved
<1>2. \A p : moved(p)[2].method = p[2].method
  BY <1>1
<1>3. EventAccesses(SignalsOfAll(S)) = {moved(p) : p \in EventAccesses(S)}
  BY SignalAccesses
<1> HIDE DEF moved
<1>4. PathAccesses(SignalsOfAll(S)) = {moved(p) : p \in PathAccesses(S)}
  BY <1>2, <1>3 DEF PathAccesses
<1> QED BY <1>4 DEF moved

LEMMA PathsAlike ==
    ASSUME NEW S, IsTable(S), NEW rules
    PROVE  PathRules(SignalsOfAll(S), rules) = PathRules(S, rules)
<1> DEFINE P == PathAccesses(S)
           R == PathAccesses(SignalsOfAll(S))
           moved(p) == <<RowOf(S, p), Moved(p[2])>>
           made(p, reason) == [path |-> p[2].value, reason |-> reason,
                               event |-> SourceEvent(p[1]), session |-> p[1].session]
           of(p) == {<<<<p[1].id, p[2].where>>, made(p, reason)>> :
                        reason \in PathReason(p[2].value, rules)}
           a == [p \in P |-> <<RowOf(S, p).id, Moved(p[2]).where>>]
           b == [p \in P |-> <<p[1].id, p[2].where>>]
           v == [p \in P |-> {made(p, reason) : reason \in PathReason(p[2].value, rules)}]
           configured == rules.mode # ""
           report(found, any) ==
                IF ~configured THEN Unconfigured
                ELSE IF ~any THEN Unavailable
                ELSE IF found # {} THEN Report(Counted(found), "violation", "observed")
                ELSE Report({}, "not_violation", "observed")
<1>1. /\ PathRules(S, rules) = report(UNION {of(p) : p \in P}, P # {})
      /\ PathRules(SignalsOfAll(S), rules) = report(UNION {of(p) : p \in R}, R # {})
  BY Zenon DEF PathRules
<1> HIDE DEF configured
<1>2. R = {moved(p) : p \in P}
  BY PathAccessesMoved
<1>3. \A p \in P : of(p) = {<<b[p], x>> : x \in v[p]}
  OBVIOUS
<1>4. ASSUME NEW p \in P PROVE of(moved(p)) = {<<a[p], x>> : x \in v[p]}
  <2> DEFINE row == RowOf(S, p)
             there == Moved(p[2])
  <2>1. p \in EventAccesses(S)
    BY DEF PathAccesses
  <2>2. p[1] \in S /\ p[2].method = "filesystem_read"
    BY <2>1 DEF EventAccesses, PathAccesses
  <2>3. row.session = p[1].session /\ SourceEvent(row) = p[1].id
    <3>1. /\ row.session = p[1].session
          /\ row.attributes = [source_event_id |-> p[1].id, file_path |-> p[2].value]
      BY <2>2 DEF RowOf, ThinAccess
    <3> HIDE DEF row
    <3> QED BY <3>1 DEF SourceEvent
  <2>4. SourceEvent(p[1]) = p[1].id
    BY <2>2 DEF SourceEvent, IsTable, IsIngested
  <2>5. there.value = p[2].value
    BY Zenon DEF Moved
  <2>6. moved(p)[1] = row /\ moved(p)[2] = there
    OBVIOUS
  <2> HIDE DEF row, there, moved
  <2>7. \A reason : made(moved(p), reason) = made(p, reason)
    BY <2>3, <2>4, <2>5, <2>6
  <2>8. of(moved(p)) = {<<<<row.id, there.where>>, made(p, reason)>> :
                            reason \in PathReason(p[2].value, rules)}
    BY <2>5, <2>6, <2>7
  <2>9. a[p] = <<row.id, there.where>>
    BY DEF row, there
  <2> HIDE DEF of, a, made
  <2> QED BY <2>8, <2>9
<1>5. \A p, q \in P : a[p] = a[q] => p = q
  <2>1. \A p, q \in P : a[p] = a[q] => RowOf(S, p).id = RowOf(S, q).id
    OBVIOUS
  <2> QED BY <2>1, RowsDiffer DEF PathAccesses
<1>6. \A p, q \in P : b[p] = b[q] => p = q
  <2>1. \A p, q \in P : b[p] = b[q] => p[1].id = q[1].id /\ p[2].where = q[2].where
    OBVIOUS
  <2> QED BY <2>1, EventPlacesDiffer DEF PathAccesses
<1>7. IsFiniteSet(P)
  <2>1. P \subseteq EventAccesses(S)
    BY DEF PathAccesses
  <2> QED BY <2>1, TableAccessesFinite, PartIsFinite
<1> HIDE DEF P, R, of, moved, a, b, v
<1>8. UNION {of(p) : p \in P} = FoundAt(P, b, v)
  BY <1>3 DEF FoundAt
<1>9. UNION {of(p) : p \in R} = FoundAt(P, a, v)
  <2>1. UNION {of(p) : p \in R} = UNION {of(moved(p)) : p \in P}
    BY <1>2
  <2> QED BY <1>4, <2>1 DEF FoundAt
<1>10. /\ Counted(FoundAt(P, a, v)) = Counted(FoundAt(P, b, v))
       /\ FoundAt(P, a, v) = {} <=> FoundAt(P, b, v) = {}
  BY <1>5, <1>6, <1>7, CountedAlike
<1>11. R # {} <=> P # {}
  BY <1>2
<1>12. report(FoundAt(P, a, v), R # {}) = report(FoundAt(P, b, v), P # {})
  BY <1>10, <1>11
<1> HIDE DEF report
<1> QED BY <1>1, <1>8, <1>9, <1>12

(***************************************************************************)
(* What an insight reads of an event, it reads of its row.                 *)
(***************************************************************************)
SameAt(u, v, key) ==
    /\ key \in DOMAIN u <=> key \in DOMAIN v
    /\ key \in DOMAIN u => u[key] = v[key]

HasName(values, key) == StringAt(values, key, "") # ""

LEMMA NameIsThere ==
    ASSUME NEW values, NEW key, HasName(values, key)
    PROVE  key \in DOMAIN values /\ StringAt(values, key, "") = values[key]
BY Zenon DEF HasName, StringAt

LEMMA SameString ==
    ASSUME NEW u, NEW v, NEW key, SameAt(u, v, key)
    PROVE  /\ \A fallback : StringAt(u, key, fallback) = StringAt(v, key, fallback)
           /\ HasName(u, key) <=> HasName(v, key)
<1>1. ASSUME NEW fallback PROVE StringAt(u, key, fallback) = StringAt(v, key, fallback)
  BY Zenon DEF StringAt, SameAt
<1> QED BY <1>1, Zenon DEF HasName

LEMMA ThinAttributes ==
    ASSUME NEW e, IsEvent(e), NEW key, key \in KeptAttributes(e)
    PROVE  SameAt(Thin(e).attributes, e.attributes, key)
<1>1. Thin(e).attributes = Selected(e.attributes, KeptAttributes(e))
  BY ThinFields
<1> QED BY <1>1 DEF Selected, SameAt

LEMMA ThinFewerAttributes ==
    ASSUME NEW e, IsEvent(e), NEW key, key \in DOMAIN Thin(e).attributes
    PROVE  SameAt(Thin(e).attributes, e.attributes, key)
<1>1. Thin(e).attributes = Selected(e.attributes, KeptAttributes(e))
  BY ThinFields
<1> QED BY <1>1 DEF Selected, SameAt

LEMMA ThinNamespace ==
    ASSUME NEW e, IsEvent(e), NEW namespace, namespace # "skill_detection"
    PROVE  Extension(Thin(e), namespace) =
                IF namespace \in DOMAIN e.extensions /\ KeepsNamespace(e, namespace)
                THEN Selected(e.extensions[namespace], KeptFields(e, namespace)) ELSE NoValues
<1>1. Thin(e).extensions = KeptExtensions(e)
  BY ThinFields
<1> QED BY <1>1 DEF Extension, KeptExtensions

LEMMA ThinKeeps ==
    ASSUME NEW e, IsEvent(e), NEW namespace, namespace # "skill_detection",
           KeepsNamespace(e, namespace) \/ namespace = "event",
           NEW key, key \in KeptFields(e, namespace) \/ key \notin DOMAIN Extension(e, namespace)
    PROVE  SameAt(Extension(Thin(e), namespace), Extension(e, namespace), key)
<1>0. DOMAIN NoValues = {}
  BY DEF NoValues
<1>1. CASE namespace \notin DOMAIN e.extensions
  BY <1>1, ThinNamespace DEF Extension, SameAt
<1>2. CASE namespace \in DOMAIN e.extensions /\ KeepsNamespace(e, namespace)
  <2>1. /\ Extension(Thin(e), namespace)
                = Selected(e.extensions[namespace], KeptFields(e, namespace))
        /\ Extension(e, namespace) = e.extensions[namespace]
    BY <1>2, ThinNamespace DEF Extension
  <2> QED BY <2>1 DEF Selected, SameAt
<1>3. CASE namespace \in DOMAIN e.extensions /\ ~KeepsNamespace(e, namespace)
  <2>1. namespace = "event" /\ KeptFields(e, "event") \cap DOMAIN e.extensions["event"] = {}
    BY <1>3 DEF KeepsNamespace
  <2>2. Extension(Thin(e), namespace) = NoValues /\ Extension(e, namespace) = e.extensions["event"]
    BY <1>3, <2>1, ThinNamespace DEF Extension
  <2>3. key \notin DOMAIN Extension(e, namespace)
    BY <2>1, <2>2
  <2> QED BY <1>0, <2>2, <2>3 DEF SameAt
<1> QED BY <1>1, <1>2, <1>3

LEMMA ThinFewer ==
    ASSUME NEW e, IsEvent(e), NEW namespace, namespace # "skill_detection",
           NEW key, key \in DOMAIN Extension(Thin(e), namespace)
    PROVE  /\ namespace \in DOMAIN e.extensions /\ KeepsNamespace(e, namespace)
           /\ SameAt(Extension(Thin(e), namespace), Extension(e, namespace), key)
<1>0. DOMAIN NoValues = {}
  BY DEF NoValues
<1>1. namespace \in DOMAIN e.extensions /\ KeepsNamespace(e, namespace)
  BY <1>0, ThinNamespace
<1>2. /\ Extension(Thin(e), namespace)
                = Selected(e.extensions[namespace], KeptFields(e, namespace))
      /\ Extension(e, namespace) = e.extensions[namespace]
  BY <1>1, ThinNamespace DEF Extension
<1> QED BY <1>1, <1>2 DEF Selected, SameAt

(***************************************************************************)
(* Servers: a call keeps its name, a connection all of its fields.         *)
(***************************************************************************)
IsCategory(values) == StringAt(values, "category", "") = "MCP call"

IsCall(e) == e.type \in {"mcp_call", "mcp.call"} \/ IsCategory(e.attributes)

LEMMA UseNamed == \A e : IsUse(e) <=> IsCall(e) /\ HasName(Extension(e, "mcp_call"), "server_name")
BY Zenon DEF IsUse, IsCall, IsCategory, HasName

LEMMA CategoryIsThere ==
    ASSUME NEW values, IsCategory(values)
    PROVE  "category" \in DOMAIN values
BY Zenon DEF StringAt, IsCategory

LEMMA SameCategory ==
    ASSUME NEW u, NEW v, SameAt(u, v, "category")
    PROVE  IsCategory(u) <=> IsCategory(v)
<1>1. \A fallback : StringAt(u, "category", fallback) = StringAt(v, "category", fallback)
  BY SameString
<1> QED BY <1>1, Zenon DEF IsCategory

LEMMA CallKept ==
    ASSUME NEW e, IsUse(e)
    PROVE  /\ KeepsNamespace(e, "mcp_call") /\ "category" \in KeptAttributes(e)
           /\ \A key : key \in KeptFields(e, "mcp_call") \/ key \notin DOMAIN Extension(e, "mcp_call")
<1>1. "mcp_call" \in DOMAIN e.extensions
  <2>1. "server_name" \in DOMAIN Extension(e, "mcp_call")
    BY UseNamed, NameIsThere
  <2>2. DOMAIN NoValues = {}
    BY DEF NoValues
  <2> QED BY <2>1, <2>2 DEF Extension
<1>2. KeepsNamespace(e, "mcp_call")
  BY DEF KeepsNamespace
<1>3. "category" \in KeptAttributes(e)
  BY DEF KeptAttributes
<1>4. KeptFields(e, "mcp_call") = DOMAIN e.extensions["mcp_call"]
  BY DEF KeptFields
<1> QED BY <1>1, <1>2, <1>3, <1>4 DEF Extension

LEMMA UseAlike ==
    ASSUME NEW e, IsEvent(e)
    PROVE  /\ IsUse(Thin(e)) <=> IsUse(e)
           /\ IsUse(e) => UseKey(Thin(e)) = UseKey(e)
<1>0. Thin(e).type = e.type
  BY ThinFields
<1>1. ASSUME IsUse(e)
      PROVE  IsUse(Thin(e)) /\ UseKey(Thin(e)) = UseKey(e)
  <2>1. SameAt(Extension(Thin(e), "mcp_call"), Extension(e, "mcp_call"), "server_name")
    BY <1>1, CallKept, ThinKeeps
  <2>2. SameAt(Thin(e).attributes, e.attributes, "category")
    BY <1>1, CallKept, ThinAttributes
  <2>3. IsCall(e) /\ HasName(Extension(e, "mcp_call"), "server_name")
    BY <1>1, UseNamed
  <2>4. IsCall(Thin(e))
    BY <1>0, <2>2, <2>3, SameCategory DEF IsCall
  <2>5. HasName(Extension(Thin(e), "mcp_call"), "server_name")
    BY <2>1, <2>3, SameString
  <2>6. UseKey(Thin(e)) = UseKey(e)
    BY <2>1, <2>3, NameIsThere DEF UseKey, SameAt
  <2> QED BY <2>4, <2>5, <2>6, UseNamed
<1>2. ASSUME IsUse(Thin(e)) PROVE IsUse(e)
  <2>1. IsCall(Thin(e)) /\ HasName(Extension(Thin(e), "mcp_call"), "server_name")
    BY <1>2, UseNamed
  <2>2. SameAt(Extension(Thin(e), "mcp_call"), Extension(e, "mcp_call"), "server_name")
    BY <2>1, NameIsThere, ThinFewer
  <2>3. HasName(Extension(e, "mcp_call"), "server_name")
    BY <2>1, <2>2, SameString
  <2>4. IsCategory(Thin(e).attributes) => IsCategory(e.attributes)
    BY CategoryIsThere, ThinFewerAttributes, SameCategory
  <2>5. IsCall(e)
    BY <1>0, <2>1, <2>4 DEF IsCall
  <2> QED BY <2>3, <2>5, UseNamed
<1> QED BY <1>1, <1>2

LEMMA ConnectionAlike ==
    ASSUME NEW e, IsEvent(e), IsConnection(e)
    PROVE  ConnectionKey(Thin(e)) = ConnectionKey(e)
<1>0. Thin(e).id = e.id
  BY ThinFields
<1>1. "server_name" \in KeptFields(e, "event") \/ "server_name" \notin DOMAIN Extension(e, "event")
  <2>1. CASE "event" \in DOMAIN e.extensions
    <3>1. DOMAIN e.extensions["event"] \subseteq KeptFields(e, "event")
      BY DEF KeptFields
    <3> QED BY <2>1, <3>1 DEF Extension
  <2>2. CASE "event" \notin DOMAIN e.extensions
    BY <2>2 DEF Extension, NoValues
  <2> QED BY <2>1, <2>2
<1>2. SameAt(Extension(Thin(e), "event"), Extension(e, "event"), "server_name")
  BY <1>1, ThinKeeps
<1>3. \A fallback : StringAt(Extension(Thin(e), "event"), "server_name", fallback)
                        = StringAt(Extension(e, "event"), "server_name", fallback)
  BY <1>2, SameString
<1> DEFINE blank == ""
           name(x) == StringAt(Extension(x, "event"), "server_name", blank)
<1>4. \A x : ConnectionKey(x) = <<name(x), IF name(x) = blank THEN x.id ELSE <<0, 0>>>>
  BY Zenon DEF ConnectionKey
<1> HIDE DEF blank
<1> QED BY <1>0, <1>3, <1>4

\* Neither the row of an access nor a marker names a server or a skill.
LEMMA NothingNamed ==
    ASSUME NEW r, IsMarker(r) \/ r.extensions = NoValues
    PROVE  ~IsUse(r) /\ ~IsNamedSkill(r)
<1>1. CASE IsMarker(r)
  <2>1. ~ShowsServer(r, UseKey(r)[1]) /\ ~ShowsSkill(r, {})
    BY <1>1, NothingInMarkers
  <2> QED BY <2>1 DEF ShowsServer, ShowsSkill
<1>2. CASE r.extensions = NoValues
  <2>0. DOMAIN NoValues = {}
    BY DEF NoValues
  <2>1. Extension(r, "mcp_call") = NoValues /\ Extension(r, "skill") = NoValues
    BY <1>2, <2>0 DEF Extension
  <2>2. \A key, fallback : StringAt(NoValues, key, fallback) = fallback
    BY <2>0, Zenon DEF StringAt
  <2> QED BY <2>1, <2>2, Zenon DEF IsUse, IsNamedSkill
<1> QED BY <1>1, <1>2

LEMMA RowsOfAccesses ==
    ASSUME NEW S, IsTable(S), NEW p \in EventAccesses(S)
    PROVE  /\ p[1] \in S /\ p[2] \in Accesses(p[1])
           /\ RowOf(S, p).extensions = NoValues
           /\ RowOf(S, p).type = p[1].type
           /\ ~IsConnection(RowOf(S, p)) /\ RowOf(S, p).type # "user_prompt"
<1>1. p[1] \in S /\ p[2] \in Accesses(p[1])
  BY DEF EventAccesses
<1>2. ~IsConnection(p[1]) /\ p[1].type # "user_prompt"
  BY <1>1 DEF IsTable, IsIngested
<1>3. RowOf(S, p).extensions = NoValues /\ RowOf(S, p).type = p[1].type
  BY DEF RowOf, ThinAccess
<1> QED BY <1>1, <1>2, <1>3 DEF IsConnection

LEMMA ServersAlike ==
    ASSUME NEW S, IsTable(S)
    PROVE  DOMAIN Servers(SignalsOfAll(S)) = DOMAIN Servers(S)
<1> DEFINE names(r, k) == \/ IsUse(r) /\ UseKey(r) = k
                          \/ IsConnection(r) /\ ConnectionKey(r) = k
<1>1. \A T, k : k \in DOMAIN Servers(T) <=> \E r \in T : names(r, k)
  <2> SUFFICES ASSUME NEW T, NEW k PROVE k \in DOMAIN Servers(T) <=> \E r \in T : names(r, k)
    OBVIOUS
  <2>1. DOMAIN Servers(T) = {UseKey(e) : e \in {f \in T : IsUse(f)}}
                                \cup {ConnectionKey(e) : e \in {f \in T : IsConnection(f)}}
    BY DEF Servers
  <2> QED BY <2>1
<1>2. \A e \in S : IsEvent(e)
  BY DEF IsTable
<1>3. ASSUME NEW e \in S, NEW k PROVE names(Thin(e), k) <=> names(e, k)
  <2>1. IsConnection(Thin(e)) <=> IsConnection(e)
    BY <1>2, ThinFields DEF IsConnection
  <2> QED BY <1>2, <2>1, UseAlike, ConnectionAlike
<1>4. \A e \in S : \A k : names(e, k) => IsSource(e)
  BY DEF IsSource
<1>5. \A r, k : IsMarker(r) => ~names(r, k)
  <2>1. \A r : IsMarker(r) => ~IsConnection(r)
    BY DEF IsMarker, IsConnection
  <2> QED BY <2>1, NothingNamed
<1>6. \A p \in EventAccesses(S) : \A k : ~names(RowOf(S, p), k)
  BY RowsOfAccesses, NothingNamed
<1> HIDE DEF names
<1>7. \A k : (\E r \in SignalsOfAll(S) : names(r, k)) <=> \E e \in S : names(e, k)
  BY <1>3, <1>4, <1>5, <1>6, RowsOfAll
<1>8. \A k : k \in DOMAIN Servers(SignalsOfAll(S)) <=> k \in DOMAIN Servers(S)
  BY <1>1, <1>7
<1> HIDE DEF IsTable
<1> QED
  <2>1. DOMAIN Servers(SignalsOfAll(S)) \subseteq DOMAIN Servers(S)
    BY <1>8
  <2>2. DOMAIN Servers(S) \subseteq DOMAIN Servers(SignalsOfAll(S))
    BY <1>8
  <2> QED BY <2>1, <2>2

LEMMA MCPAlike ==
    ASSUME NEW S, IsTable(S), NEW allowlist
    PROVE  UnapprovedMCP(SignalsOfAll(S), allowlist) = UnapprovedMCP(S, allowlist)
<1>1. DOMAIN Servers(SignalsOfAll(S)) = DOMAIN Servers(S)
  BY ServersAlike
<1> QED BY <1>1, Zenon DEF UnapprovedMCP

(***************************************************************************)
(* Skills: an event that names one is kept with its name.                  *)
(***************************************************************************)
LEMMA DetectionKept ==
    ASSUME NEW e, IsEvent(e)
    PROVE  DetectionState(Thin(e)) = DetectionState(e)
<1>1. Thin(e).extensions = KeptExtensions(e)
  BY ThinFields
<1>2. SameAt(Thin(e).extensions, e.extensions, "skill_detection")
  BY <1>1 DEF KeptExtensions, SameAt
<1>3. \A fallback : StringAt(Thin(e).extensions, "skill_detection", fallback)
                        = StringAt(e.extensions, "skill_detection", fallback)
  BY <1>2, SameString
<1> DEFINE blank == ""
           states == {"explicit", "inferred", "unavailable"}
<1>4. \A x : DetectionState(x) = IF StringAt(x.extensions, "skill_detection", blank) \in states
                                 THEN x.extensions["skill_detection"] ELSE "unknown"
  BY Zenon DEF DetectionState
<1>5. \A values : StringAt(values, "skill_detection", blank) \in states
                    => "skill_detection" \in DOMAIN values
  BY Zenon DEF StringAt
<1> HIDE DEF blank, states
<1> QED BY <1>2, <1>3, <1>4, <1>5 DEF SameAt

LEMMA SkillNamed ==
    \A e : IsNamedSkill(e) <=> DetectionState(e) = "explicit" /\ HasName(Extension(e, "skill"), "name")
BY Zenon DEF IsNamedSkill, HasName

LEMMA SkillKept ==
    ASSUME NEW e, IsEvent(e)
    PROVE  /\ IsNamedSkill(Thin(e)) <=> IsNamedSkill(e)
           /\ IsNamedSkill(e) => /\ IsSource(e)
                                 /\ Extension(Thin(e), "skill")["name"] = Extension(e, "skill")["name"]
<1>0. DetectionState(Thin(e)) = DetectionState(e)
  BY DetectionKept
<1>1. ASSUME IsNamedSkill(e)
      PROVE  /\ IsNamedSkill(Thin(e)) /\ IsSource(e)
             /\ Extension(Thin(e), "skill")["name"] = Extension(e, "skill")["name"]
  <2>1. DetectionState(e) = "explicit" /\ HasName(Extension(e, "skill"), "name")
    BY <1>1, SkillNamed
  <2>2. "skill_detection" \in DOMAIN e.extensions
    <3> DEFINE blank == ""
    <3>1. StringAt(e.extensions, "skill_detection", blank) \in {"explicit", "inferred", "unavailable"}
      BY <2>1, Zenon DEF DetectionState
    <3> QED BY <3>1, Zenon DEF StringAt
  <2>3. KeepsNamespace(e, "skill")
    BY <2>1 DEF KeepsNamespace
  <2>4. "name" \in KeptFields(e, "skill")
    <3>1. "name" \in DOMAIN Extension(e, "skill")
      BY <2>1, NameIsThere
    <3>2. DOMAIN NoValues = {}
      BY DEF NoValues
    <3> QED BY <3>1, <3>2 DEF Extension, KeptFields
  <2>5. SameAt(Extension(Thin(e), "skill"), Extension(e, "skill"), "name")
    BY <2>3, <2>4, ThinKeeps
  <2>6. HasName(Extension(Thin(e), "skill"), "name")
    BY <2>1, <2>5, SameString
  <2>7. Extension(Thin(e), "skill")["name"] = Extension(e, "skill")["name"]
    BY <2>1, <2>5, NameIsThere DEF SameAt
  <2>8. IsSource(e)
    BY <2>2 DEF IsSource
  <2> QED BY <1>0, <2>1, <2>6, <2>7, <2>8, SkillNamed
<1>2. ASSUME IsNamedSkill(Thin(e)) PROVE IsNamedSkill(e)
  <2>1. DetectionState(e) = "explicit" /\ HasName(Extension(Thin(e), "skill"), "name")
    BY <1>0, <1>2, SkillNamed
  <2>2. SameAt(Extension(Thin(e), "skill"), Extension(e, "skill"), "name")
    BY <2>1, NameIsThere, ThinFewer
  <2>3. HasName(Extension(e, "skill"), "name")
    BY <2>1, <2>2, SameString
  <2> QED BY <2>1, <2>3, SkillNamed
<1> QED BY <1>1, <1>2

\* An event with a word on skills that names none is kept as one.
LEMMA IncompleteKept ==
    ASSUME NEW e, IsEvent(e)
    PROVE  /\ IsIncompleteSkill(Thin(e)) <=> IsIncompleteSkill(e)
           /\ IsIncompleteSkill(e) => IsSource(e)
<1>1. Thin(e).type = e.type /\ Thin(e).extensions = KeptExtensions(e)
  BY ThinFields
<1>2. SameAt(Thin(e).extensions, e.extensions, "skill_detection")
  BY <1>1 DEF KeptExtensions, SameAt
<1>3. IsNamedSkill(Thin(e)) <=> IsNamedSkill(e)
  BY SkillKept
<1>4. IsIncompleteSkill(Thin(e)) <=> IsIncompleteSkill(e)
  BY <1>1, <1>2, <1>3 DEF IsIncompleteSkill, SameAt
<1>5. IsIncompleteSkill(e) => IsSource(e)
  BY DEF IsIncompleteSkill, IsSource
<1> QED BY <1>4, <1>5

\* The best state of a surface is the explicit one where any of its events has it.
LEMMA StrongestIsExplicit ==
    ASSUME NEW S, NEW surface \in Surfaces(S)
    PROVE  StrongestDetection(S, surface) = "explicit"
            <=> \E e \in S : e.surface = surface /\ DetectionState(e) = "explicit"
<1> DEFINE states == {DetectionState(e) : e \in {f \in S : f.surface = surface}}
           D == DetectionStates
           Best(i) == /\ D[i] \in states
                      /\ \A j \in i + 1 .. Len(D) : D[j] \notin states
           best == CHOOSE i \in DOMAIN D : Best(i)
<1>1. StrongestDetection(S, surface) = D[best]
  BY DEF StrongestDetection
<1>2. /\ Len(D) = 4 /\ DOMAIN D = 1 .. 4
      /\ D[1] = "unknown" /\ D[2] = "unavailable" /\ D[3] = "inferred" /\ D[4] = "explicit"
  BY DEF DetectionStates
<1>3. "explicit" \in states
        <=> \E e \in S : e.surface = surface /\ DetectionState(e) = "explicit"
  OBVIOUS
<1>4. states # {} /\ \A state \in states : state \in {D[1], D[2], D[3], D[4]}
  <2>1. PICK e \in S : e.surface = surface
    BY DEF Surfaces
  <2>2. \A x : DetectionState(x) \in {"explicit", "inferred", "unavailable", "unknown"}
    <3> DEFINE blank == ""
    <3>1. \A x : DetectionState(x) =
                    IF StringAt(x.extensions, "skill_detection", blank)
                        \in {"explicit", "inferred", "unavailable"}
                    THEN x.extensions["skill_detection"] ELSE "unknown"
      BY Zenon DEF DetectionState
    <3>2. \A values : StringAt(values, "skill_detection", blank) = values["skill_detection"]
                        \/ StringAt(values, "skill_detection", blank) = blank
      BY Zenon DEF StringAt
    <3>3. blank \notin {"explicit", "inferred", "unavailable"}
      BY Zenon
    <3> HIDE DEF blank
    <3> QED BY <3>1, <3>2, <3>3
  <2> QED BY <1>2, <2>1, <2>2
<1> HIDE DEF states, D
<1>5. \E i \in DOMAIN D : Best(i)
  <2>1. CASE D[4] \in states
    BY <1>2, <2>1
  <2>2. CASE D[4] \notin states /\ D[3] \in states
    BY <1>2, <2>2
  <2>3. CASE D[4] \notin states /\ D[3] \notin states /\ D[2] \in states
    BY <1>2, <2>3
  <2>4. CASE D[4] \notin states /\ D[3] \notin states /\ D[2] \notin states
    <3>1. D[1] \in states
      BY <1>4, <2>4
    <3> QED BY <1>2, <2>4, <3>1
  <2> QED BY <2>1, <2>2, <2>3, <2>4
<1>6. best \in 1 .. 4 /\ Best(best)
  BY <1>2, <1>5
<1>7. D[best] = "explicit" <=> "explicit" \in states
  <2>1. ASSUME "explicit" \in states PROVE best = 4
    <3> HIDE DEF best
    <3> QED BY <1>2, <1>6, <2>1
  <2> HIDE DEF best
  <2> QED BY <1>2, <1>6, <2>1
<1> QED BY <1>1, <1>3, <1>7

LEMMA MarkerIncomplete ==
    ASSUME NEW S, NEW surface
    PROVE  IsIncompleteSkill(MarkerOf(S, surface)) <=> StrongestDetection(S, surface) # "explicit"
<1> DEFINE marker == MarkerOf(S, surface)
<1>1. /\ marker.type = "skill_coverage"
      /\ marker.extensions = [skill_detection |-> StrongestDetection(S, surface)]
  BY DEF MarkerOf
<1>2. IsMarker(marker)
  BY DEF MarkerOf, IsMarker
<1>3. ~IsNamedSkill(marker)
  BY <1>2, NothingNamed
<1> HIDE DEF marker
<1>4. IsIncompleteSkill(marker) <=> StrongestDetection(S, surface) # "explicit"
  BY <1>1, <1>3 DEF IsIncompleteSkill
<1> QED BY <1>4 DEF marker

\* Over the signals a skill has no name where it has none over the events, or
\* where the marker of a silent tool counts as one.
LEMMA IncompleteOfSignals ==
    ASSUME NEW S, IsTable(S)
    PROVE  (\E r \in SignalsOfAll(S) : IsIncompleteSkill(r))
            <=> (\E e \in S : IsIncompleteSkill(e)) \/ SilentTools(S) # {}
<1> DEFINE T == SignalsOfAll(S)
           own(session) == OfSession(S, session)
           marker(e) == MarkerOf(own(e.session), e.surface)
           place(e) == <<e.session, e.surface>>
<1>1. \A session : \A e : e \in own(session) <=> e \in S /\ e.session = session
  BY DEF OfSession
<1>2. ASSUME NEW e \in S
      PROVE  IsIncompleteSkill(marker(e)) <=> place(e) \in SilentTools(S)
  <2>1. e.surface \in Surfaces(own(e.session))
    BY <1>1 DEF Surfaces
  <2>2. IsIncompleteSkill(marker(e))
            <=> ~\E f \in own(e.session) : f.surface = e.surface /\ DetectionState(f) = "explicit"
    BY <2>1, MarkerIncomplete, StrongestIsExplicit
  <2>3. place(e) \in SilentTools(S)
            <=> ~\E f \in S : DetectionState(f) = "explicit" /\ place(f) = place(e)
    BY DEF SilentTools
  <2> QED BY <1>1, <2>2, <2>3
<1>3. \A pair \in SilentTools(S) : \E e \in S : pair = place(e)
  BY DEF SilentTools
<1>4. \A r \in T : \/ \E e \in S : IsSource(e) /\ r = Thin(e)
                   \/ \E e \in S : r = marker(e)
                   \/ r.extensions = NoValues
  BY RowsAndMarkers, RowsOfAccesses
<1>5. \A e \in S : marker(e) \in T /\ (IsSource(e) => Thin(e) \in T)
  BY RowsAndMarkers
<1>6. \A e \in S : /\ IsIncompleteSkill(Thin(e)) <=> IsIncompleteSkill(e)
                   /\ IsIncompleteSkill(e) => IsSource(e)
  BY IncompleteKept DEF IsTable
<1>7. \A r : r.extensions = NoValues => ~IsIncompleteSkill(r)
  BY DEF IsIncompleteSkill, NoValues
<1> HIDE DEF T, marker, place
<1>8. (\E r \in T : IsIncompleteSkill(r))
            <=> (\E e \in S : IsIncompleteSkill(e)) \/ SilentTools(S) # {}
  BY <1>2, <1>3, <1>4, <1>5, <1>6, <1>7
<1> QED BY <1>8 DEF T

LEMMA SkillsAlike ==
    ASSUME NEW S, IsTable(S), NEW allowlist
    PROVE  UnapprovedSkills(SignalsOfAll(S), allowlist) = SkillReport(S, allowlist)
<1> DEFINE T == SignalsOfAll(S)
           name(e) == Extension(e, "skill")["name"]
           skill(e) == <<e.surface, name(e)>>
           flagged(X) == {e \in {f \in X : IsNamedSkill(f)} : name(e) \notin allowlist}
           finding(X, k) == [skill |-> k, events |-> {f.id : f \in {g \in flagged(X) : skill(g) = k}}]
           findings(X) == {finding(X, skill(e)) : e \in flagged(X)}
           incomplete(X) == \E e \in X : IsIncompleteSkill(e)
           none(X) == {e \in X : IsNamedSkill(e)} = {}
<1>1. \A X : UnapprovedSkills(X, allowlist) =
                IF allowlist = {} THEN Unconfigured
                ELSE IF findings(X) # {} THEN Report(findings(X), "violation", "observed")
                ELSE IF incomplete(X) THEN Report({}, "indeterminate", "partial")
                ELSE IF none(X) THEN Unavailable
                ELSE Report({}, "not_violation", "observed")
  BY DEF UnapprovedSkills
<1>2. \A e \in S : IsEvent(e)
  BY DEF IsTable
<1>3. \A r \in T : IsNamedSkill(r) => \E e \in S : IsSource(e) /\ r = Thin(e)
  BY RowsOfAll, RowsOfAccesses, NothingNamed
<1>4. \A e \in S : /\ Thin(e).id = e.id
                   /\ IsNamedSkill(Thin(e)) <=> IsNamedSkill(e)
                   /\ IsNamedSkill(e) => Thin(e) \in T /\ skill(Thin(e)) = skill(e)
                                            /\ name(Thin(e)) = name(e)
  BY <1>2, RowsOfAll, ThinFields, SkillKept
<1> HIDE DEF name, skill, T
<1>5. \A r \in flagged(T) : \E e \in flagged(S) : r = Thin(e)
  BY <1>3, <1>4
<1>6. \A e \in flagged(S) : /\ Thin(e) \in flagged(T) /\ skill(Thin(e)) = skill(e)
                            /\ Thin(e).id = e.id
  BY <1>4
<1> HIDE DEF flagged
<1>7. \A k : finding(T, k) = finding(S, k)
  <2> SUFFICES ASSUME NEW k PROVE {f.id : f \in {g \in flagged(T) : skill(g) = k}}
                                    = {f.id : f \in {g \in flagged(S) : skill(g) = k}}
    OBVIOUS
  <2> QED BY <1>5, <1>6
<1> HIDE DEF finding
<1>8. findings(T) = findings(S)
  BY <1>5, <1>6, <1>7
<1>9. none(T) <=> none(S)
  BY <1>3, <1>4
<1>10. incomplete(T) <=> incomplete(S) \/ SilentTools(S) # {}
  BY IncompleteOfSignals DEF T
<1>11. UnapprovedSkills(S, allowlist).outcome = "violation" <=> allowlist # {} /\ findings(S) # {}
  <2> HIDE DEF findings, incomplete, none
  <2> QED BY <1>1 DEF Report, Unavailable, Unconfigured
<1> HIDE DEF findings, incomplete, none
<1>12. UnapprovedSkills(T, allowlist) = SkillReport(S, allowlist)
  BY <1>1, <1>8, <1>9, <1>10, <1>11 DEF SkillReport
<1> QED BY <1>12 DEF T

(***************************************************************************)
(* Prompts: the rows of Claude Code's records, joined as their events are. *)
(***************************************************************************)
LEMMA FirstIdExists ==
    ASSUME NEW S, S # {}, \A e \in S : e.id \in Nat \X Nat, UniqueIds(S)
    PROVE  \E e \in S : \A f \in S \ {e} : IdBefore(e.id, f.id)
<1> DEFINE high == [e \in S |-> e.id[1]]
           A == {e \in S : \A d \in S : high[e] <= high[d]}
           low == [e \in A |-> e.id[2]]
<1>1. \A e \in S : high[e] \in Nat /\ high[e] = e.id[1]
  OBVIOUS
<1>2. PICK a \in S : \A d \in S : high[a] <= high[d]
  <2> HIDE DEF high
  <2> QED BY <1>1, LeastBy
<1>3. A # {} /\ \A e \in A : low[e] \in Nat /\ low[e] = e.id[2]
  <2> HIDE DEF high
  <2> QED BY <1>2
<1>4. PICK e \in A : \A d \in A : low[e] <= low[d]
  <2> HIDE DEF A, low
  <2> QED BY <1>3, LeastBy
<1>5. e \in S /\ \A d \in S : high[e] <= high[d]
  OBVIOUS
<1>6. ASSUME NEW f \in S \ {e} PROVE IdBefore(e.id, f.id)
  <2>1. high[e] <= high[f] /\ high[e] = e.id[1] /\ high[f] = f.id[1]
    BY <1>1, <1>5, <1>6
  <2>2. e.id \in Nat \X Nat /\ f.id \in Nat \X Nat /\ e.id # f.id
    BY <1>5, <1>6 DEF UniqueIds
  <2>3. CASE e.id[1] < f.id[1]
    <3> HIDE DEF high, A, low
    <3> QED BY <2>3 DEF IdBefore
  <2>4. CASE e.id[1] = f.id[1]
    <3>1. f \in A
      <4> HIDE DEF high
      <4> QED BY <1>5, <1>6, <2>1, <2>4
    <3>2. low[e] <= low[f] /\ low[e] = e.id[2] /\ low[f] = f.id[2]
      <4> HIDE DEF A, low
      <4> QED BY <1>3, <1>4, <3>1
    <3> HIDE DEF high, A, low
    <3>3. e.id[2] < f.id[2]
      BY <2>2, <2>4, <3>2
    <3> QED BY <2>4, <3>3 DEF IdBefore
  <2> HIDE DEF high, A, low
  <2> QED BY <2>1, <2>2, <2>3, <2>4
<1> HIDE DEF high, A, low
<1> QED BY <1>5, <1>6

LEMMA FirstIdUnique ==
    ASSUME NEW S, \A e \in S : e.id \in Nat \X Nat,
           NEW e \in S, \A f \in S \ {e} : IdBefore(e.id, f.id),
           NEW d \in S, \A f \in S \ {d} : IdBefore(d.id, f.id)
    PROVE  d = e
<1> SUFFICES ASSUME d # e PROVE FALSE
  OBVIOUS
<1>1. IdBefore(e.id, d.id) /\ IdBefore(d.id, e.id)
  OBVIOUS
<1> QED BY <1>1 DEF IdBefore

\* A prompt of Claude Code in one of its two telemetries, as the policies use it.
LEMMA ClaudePromptKept ==
    ASSUME NEW e, IsEvent(e), IsClaudePrompt(e)
    PROVE  /\ IsSource(e)
           /\ SameAt(Extension(Thin(e), ContentNamespace(e)), Extension(e, ContentNamespace(e)),
                     ContentKey(e))
           /\ ContentNamespace(e) = "event" =>
                SameAt(Extension(Thin(e), "event"), Extension(e, "event"), LengthKey(e))
           /\ LET key == IF e.type = "user_prompt" THEN "message_uuid" ELSE "uuid"
              IN  SameAt(Extension(Thin(e), "correlation"), Extension(e, "correlation"), key)
<1>1. IsSource(e)
  BY DEF IsSource
<1>2. e.type \in {"user_prompt", "user_message"}
  BY DEF IsClaudePrompt
<1>3. KeepsNamespace(e, "correlation")
  BY DEF KeepsNamespace
<1>4. CASE e.type = "user_prompt"
  <2>1. /\ ContentNamespace(e) = "event" /\ ContentKey(e) = "prompt"
        /\ LengthKey(e) = "prompt_length"
    BY <1>4 DEF ContentNamespace, ContentKey, LengthKey
  <2>2. {"prompt", "prompt_length"} \subseteq KeptFields(e, "event")
    BY <1>4 DEF KeptFields
  <2>3. "message_uuid" \in KeptFields(e, "correlation")
    BY <1>4 DEF KeptFields
  <2> QED BY <1>1, <1>3, <1>4, <2>1, <2>2, <2>3, ThinKeeps
<1>5. CASE e.type = "user_message"
  <2>1. ContentNamespace(e) = "transcript" /\ ContentKey(e) = "prompt_content"
    BY <1>5 DEF ContentNamespace, ContentKey
  <2>2. KeepsNamespace(e, "transcript") /\ "prompt_content" \in KeptFields(e, "transcript")
    BY <1>5 DEF KeepsNamespace, KeptFields
  <2>3. "uuid" \in KeptFields(e, "correlation")
    BY <1>5 DEF KeptFields
  <2> QED BY <1>1, <1>3, <1>5, <2>1, <2>2, <2>3, ThinKeeps
<1> QED BY <1>2, <1>4, <1>5

\* Shows of a prompt what a policy reads of it.
SamePrompt(r, e) ==
    /\ r.id = e.id /\ r.session = e.session /\ r.type = e.type
    /\ PromptIdentity(r) = PromptIdentity(e)
    /\ ContentAvailability(r) = ContentAvailability(e)
    /\ ContentAvailability(e) = "available" => Text(r) = Text(e)

LEMMA PromptAlike ==
    ASSUME NEW e, IsEvent(e), IsClaudePrompt(e)
    PROVE  SamePrompt(Thin(e), e)
<1> DEFINE r == Thin(e)
           namespace == ContentNamespace(e)
           content(x) == Extension(x, namespace)
           key == IF e.type = "user_prompt" THEN "message_uuid" ELSE "uuid"
           blank == ""
           uuid(x) == StringAt(Extension(x, "correlation"), key, blank)
<1>1. r.id = e.id /\ r.session = e.session /\ r.type = e.type /\ r.surface = e.surface
  BY ThinFields
<1>2. e.type \in {"user_prompt", "user_message"}
  BY DEF IsClaudePrompt
<1>3. /\ SameAt(content(r), content(e), ContentKey(e))
      /\ namespace = "event" => SameAt(content(r), content(e), LengthKey(e))
      /\ SameAt(Extension(r, "correlation"), Extension(e, "correlation"), key)
  BY ClaudePromptKept
<1> HIDE DEF r, key
<1>4. PromptIdentity(r) = PromptIdentity(e)
  <2>1. \A fallback : StringAt(Extension(r, "correlation"), key, fallback)
                        = StringAt(Extension(e, "correlation"), key, fallback)
    BY <1>3, SameString
  <2>2. /\ PromptIdentity(e) = IF e.surface = ClaudeCode /\ uuid(e) # blank
                               THEN <<"claude", e.session, uuid(e)>> ELSE <<"event", e.id>>
        /\ PromptIdentity(r) = IF r.surface = ClaudeCode /\ uuid(r) # blank
                               THEN <<"claude", r.session, uuid(r)>> ELSE <<"event", r.id>>
    BY <1>1, Zenon DEF PromptIdentity, key
  <2> HIDE DEF blank
  <2>3. uuid(r) = uuid(e)
    BY <2>1
  <2> HIDE DEF uuid
  <2> QED BY <1>1, <2>2, <2>3
<1>5. /\ ContentNamespace(r) = namespace /\ ContentKey(r) = ContentKey(e)
      /\ LengthKey(r) = LengthKey(e) /\ ~IsBody(r) /\ ~IsBody(e)
  BY <1>1, <1>2 DEF ContentNamespace, ContentKey, LengthKey, IsBody
<1> HIDE DEF namespace
<1>6. ContentAvailability(r) = ContentAvailability(e)
  <2>1. \A x : ContentNamespace(x) = namespace /\ ~IsBody(x) =>
            ContentAvailability(x) =
                IF ContentKey(x) \in DOMAIN content(x) THEN
                    IF content(x)[ContentKey(x)] = Redacted THEN "provider_redacted" ELSE "available"
                ELSE IF namespace = "event" /\ LengthKey(x) \in DOMAIN content(x) THEN "length_only"
                ELSE "unavailable"
    BY DEF ContentAvailability
  <2>2. ContentNamespace(e) = namespace
    BY DEF namespace
  <2> HIDE DEF content
  <2> QED BY <1>3, <1>5, <2>1, <2>2 DEF SameAt
<1>7. ContentAvailability(e) = "available" => Text(r) = Text(e)
  <2>1. ContentAvailability(e) = "available" => ContentKey(e) \in DOMAIN content(e)
    BY <1>5 DEF ContentAvailability, namespace
  <2>2. Text(r) = content(r)[ContentKey(e)] /\ Text(e) = content(e)[ContentKey(e)]
    BY <1>5 DEF Text, namespace
  <2> HIDE DEF content
  <2> QED BY <1>3, <2>1, <2>2 DEF SameAt
<1> QED BY <1>1, <1>4, <1>6, <1>7 DEF SamePrompt, r

IsUserRecord(e) ==
    \/ e.surface \in {ClaudeCode, Codex} /\ e.type = "user_prompt"
    \/ /\ e.surface = ClaudeCode /\ e.type = "user_message"
       /\ HasName(Extension(e, "transcript"), "prompt_content")

LEMMA UserRecords == \A X, e : e \in UserPrompts(X) <=> e \in X /\ IsUserRecord(e)
<1> SUFFICES ASSUME NEW e PROVE IsConversationEvent(e) /\ Role(e) = "user" <=> IsUserRecord(e)
  BY DEF UserPrompts, ConversationRecords
<1>1. IsConversationEvent(e) <=>
        \/ /\ e.surface \in {ClaudeCode, Codex}
           /\ e.type \in {"user_prompt", "assistant_response"} \/ IsBody(e)
        \/ /\ e.surface = ClaudeCode
           /\ \/ e.type \in {"user_message", "assistant_message"}
                 /\ HasName(Extension(e, "transcript"), ContentKey(e))
              \/ e.type = "assistant_message" /\ HasName(Extension(e, "transcript"), "thinking")
  BY Zenon DEF IsConversationEvent, HasName
<1>2. Role(e) = "user" <=> e.type \in {"user_prompt", "user_message"}
  BY DEF Role
<1>3. e.type = "user_message" => ContentKey(e) = "prompt_content"
  BY DEF ContentKey
<1>4. e.type \in {"user_prompt", "user_message"} => ~IsBody(e)
  BY DEF IsBody
<1> QED BY <1>1, <1>2, <1>3, <1>4 DEF IsUserRecord

LEMMA PromptsOfSignals ==
    ASSUME NEW S, IsTable(S)
    PROVE  LET scanned == {e \in S : ~IsCodexPrompt(e)}
           IN  /\ UserPrompts(SignalsOfAll(S)) = {Thin(e) : e \in UserPrompts(scanned)}
               /\ \A e \in UserPrompts(scanned) : e \in S /\ IsClaudePrompt(e)
<1> DEFINE scanned == {e \in S : ~IsCodexPrompt(e)}
           T == SignalsOfAll(S)
<1>1. \A e \in S : IsEvent(e) /\ IsIngested(e)
  BY DEF IsTable
<1>2. ASSUME NEW e \in S, IsUserRecord(e), ~IsCodexPrompt(e) PROVE IsClaudePrompt(e)
  BY <1>2 DEF IsUserRecord, IsCodexPrompt, IsClaudePrompt
<1>3. ASSUME NEW e \in S, IsUserRecord(e), ~IsCodexPrompt(e)
      PROVE  Thin(e) \in T /\ IsUserRecord(Thin(e))
  <2>1. IsClaudePrompt(e)
    BY <1>2, <1>3
  <2>2. Thin(e) \in T
    BY <1>1, <2>1, ClaudePromptKept, RowsOfAll
  <2>3. Thin(e).surface = e.surface /\ Thin(e).type = e.type
    BY <1>1, ThinFields
  <2>4. ASSUME e.type = "user_message"
        PROVE  SameAt(Extension(Thin(e), "transcript"), Extension(e, "transcript"), "prompt_content")
    <3>1. ContentNamespace(e) = "transcript" /\ ContentKey(e) = "prompt_content"
      BY <2>4 DEF ContentNamespace, ContentKey
    <3>2. SameAt(Extension(Thin(e), ContentNamespace(e)), Extension(e, ContentNamespace(e)),
                 ContentKey(e))
      BY <1>1, <2>1, ClaudePromptKept
    <3> QED BY <3>1, <3>2
  <2>5. e.type = "user_message" =>
            (HasName(Extension(Thin(e), "transcript"), "prompt_content")
                <=> HasName(Extension(e, "transcript"), "prompt_content"))
    BY <2>4, SameString
  <2> QED BY <1>3, <2>2, <2>3, <2>5 DEF IsUserRecord
<1>4. ASSUME NEW e \in S, IsSource(e), IsUserRecord(Thin(e))
      PROVE  IsUserRecord(e) /\ ~IsCodexPrompt(e)
  <2>1. Thin(e).surface = e.surface /\ Thin(e).type = e.type
    BY <1>1, ThinFields
  <2>2. ~IsCodexPrompt(e)
    BY <1>1, <1>4 DEF IsIngested
  <2>3. HasName(Extension(Thin(e), "transcript"), "prompt_content")
            => HasName(Extension(e, "transcript"), "prompt_content")
    BY <1>1, NameIsThere, ThinFewer, SameString
  <2> QED BY <1>4, <2>1, <2>2, <2>3 DEF IsUserRecord
<1>5. \A r : IsMarker(r) => ~IsUserRecord(r)
  BY DEF IsMarker, IsUserRecord
<1>6. ASSUME NEW p \in EventAccesses(S) PROVE ~IsUserRecord(RowOf(S, p))
  <2>1. /\ RowOf(S, p).extensions = NoValues /\ RowOf(S, p).type # "user_prompt"
        /\ DOMAIN NoValues = {}
    BY RowsOfAccesses DEF NoValues
  <2>2. Extension(RowOf(S, p), "transcript") = NoValues
    BY <2>1 DEF Extension
  <2>3. ~HasName(Extension(RowOf(S, p), "transcript"), "prompt_content")
    BY <2>1, <2>2, NameIsThere
  <2> QED BY <2>1, <2>3 DEF IsUserRecord
<1>7. \A r \in T : IsUserRecord(r) =>
            \E e \in S : r = Thin(e) /\ IsUserRecord(e) /\ ~IsCodexPrompt(e)
  BY <1>4, <1>5, <1>6, RowsOfAll
<1> HIDE DEF T
<1>8. UserPrompts(T) = {Thin(e) : e \in UserPrompts(scanned)}
  <2>1. \A r : r \in UserPrompts(T) <=> r \in T /\ IsUserRecord(r)
    BY UserRecords
  <2>2. \A e : e \in UserPrompts(scanned) <=> e \in S /\ ~IsCodexPrompt(e) /\ IsUserRecord(e)
    BY UserRecords
  <2> HIDE DEF scanned
  <2>3. \A r \in UserPrompts(T) : \E e \in UserPrompts(scanned) : r = Thin(e)
    BY <1>7, <2>1, <2>2
  <2>4. \A e \in UserPrompts(scanned) : Thin(e) \in UserPrompts(T)
    BY <1>3, <2>1, <2>2
  <2> QED BY <2>3, <2>4
<1>9. \A e \in UserPrompts(scanned) : e \in S /\ IsClaudePrompt(e)
  BY <1>2, UserRecords
<1> QED BY <1>8, <1>9 DEF T

\* The prompts of two sources that show the same of each.
SamePrompts(h, U) ==
    \A e \in U : SamePrompt(h[e], e) /\ e.id \in Nat \X Nat

Images(h, X) == {h[e] : e \in X}

FirstId(X) == CHOOSE e \in X : \A f \in X \ {e} : IdBefore(e.id, f.id)

LEMMA FirstIdAlike ==
    ASSUME NEW X, NEW h, SamePrompts(h, X), UniqueIds(X), X # {}
    PROVE  FirstId(X) \in X /\ FirstId(Images(h, X)) = h[FirstId(X)]
<1>1. \A e \in X : h[e].id = e.id /\ e.id \in Nat \X Nat
  BY DEF SamePrompts, SamePrompt
<1>2. \E e \in X : \A f \in X \ {e} : IdBefore(e.id, f.id)
  BY <1>1, FirstIdExists
<1>3. FirstId(X) \in X /\ \A f \in X \ {FirstId(X)} : IdBefore(FirstId(X).id, f.id)
  BY <1>2 DEF FirstId
<1> DEFINE T == Images(h, X)
           d == h[FirstId(X)]
<1>4. d \in T
  BY <1>3 DEF Images
<1>5. \A f \in T \ {d} : IdBefore(d.id, f.id)
  BY <1>1, <1>3 DEF Images
<1>6. \A f \in T : f.id \in Nat \X Nat
  BY <1>1 DEF Images
<1> HIDE DEF T, d
<1>7. FirstId(T) \in T /\ \A f \in T \ {FirstId(T)} : IdBefore(FirstId(T).id, f.id)
  BY <1>4, <1>5 DEF FirstId
<1>8. FirstId(T) = d
  BY <1>4, <1>5, <1>6, <1>7, FirstIdUnique
<1> QED BY <1>3, <1>8 DEF T, d

LEMMA FindingAlike ==
    ASSUME NEW X, NEW h, SamePrompts(h, X), UniqueIds(X), NEW rule,
           \A e \in X : ContentAvailability(e) = "available"
    PROVE  PromptFinding(Images(h, X), rule) = PromptFinding(X, rule)
<1> DEFINE T == Images(h, X)
           matched(Y) == {e \in Y : Text(e) \in rule.texts}
           logged(Y) == {e \in matched(Y) : e.type = "user_prompt"}
           among(Y) == IF logged(Y) # {} THEN logged(Y) ELSE matched(Y)
           others(Y) == {e.id : e \in matched(Y) \ {FirstId(among(Y))}}
           finding(Y) == [rule |-> rule.id, event |-> FirstId(among(Y)).id,
                          session |-> FirstId(among(Y)).session, corroborating |-> others(Y)]
<1>1. \A Y : PromptFinding(Y, rule) = IF matched(Y) = {} THEN {} ELSE {finding(Y)}
  BY DEF PromptFinding, FirstId
<1>2. \A e \in X : /\ h[e].id = e.id /\ h[e].session = e.session /\ h[e].type = e.type
                   /\ Text(h[e]) = Text(e)
  BY DEF SamePrompts, SamePrompt
<1>3. matched(T) = Images(h, matched(X))
  BY <1>2 DEF Images
<1>4. logged(T) = Images(h, logged(X))
  BY <1>2 DEF Images
<1>5. matched(X) \subseteq X /\ logged(X) \subseteq matched(X)
  OBVIOUS
<1>6. \A Y : Images(h, Y) = {} <=> Y = {}
  BY DEF Images
<1> HIDE DEF matched, logged, T
<1>7. /\ among(T) = Images(h, among(X)) /\ among(X) \subseteq matched(X)
      /\ matched(X) # {} => among(X) # {}
  BY <1>3, <1>4, <1>5, <1>6
<1> HIDE DEF among
<1>8. ASSUME matched(X) # {} PROVE finding(T) = finding(X)
  <2> DEFINE first == FirstId(among(X))
  <2>1. first \in among(X) /\ FirstId(among(T)) = h[first]
    <3>1. SamePrompts(h, among(X)) /\ UniqueIds(among(X))
      BY <1>5, <1>7 DEF SamePrompts, UniqueIds
    <3> QED BY <1>7, <1>8, <3>1, FirstIdAlike
  <2>2. first \in X /\ first \in matched(X)
    BY <1>5, <1>7, <2>1
  <2> HIDE DEF first
  <2>3. others(T) = {e.id : e \in Images(h, matched(X)) \ {h[first]}}
    BY <1>3, <2>1
  <2>4. \A e \in matched(X) : h[e] = h[first] <=> e = first
    BY <1>2, <1>5, <2>2 DEF UniqueIds
  <2>5. {e.id : e \in Images(h, matched(X)) \ {h[first]}} = {e.id : e \in matched(X) \ {first}}
    BY <1>2, <1>5, <2>4 DEF Images
  <2>6. others(X) = {e.id : e \in matched(X) \ {first}}
    BY DEF first
  <2>7. others(T) = others(X)
    BY <2>3, <2>5, <2>6
  <2> HIDE DEF others
  <2>8. FirstId(among(T)).id = first.id /\ FirstId(among(T)).session = first.session
    BY <1>2, <2>1, <2>2
  <2> QED BY <2>7, <2>8 DEF first
<1>9. matched(T) = {} <=> matched(X) = {}
  BY <1>3, <1>6
<1> HIDE DEF finding
<1>10. PromptFinding(T, rule) = PromptFinding(X, rule)
  BY <1>1, <1>8, <1>9
<1> QED BY <1>10 DEF T

LEMMA KeywordsAlike ==
    ASSUME NEW A, NEW B, NEW h, SamePrompts(h, UserPrompts(B)), UniqueIds(UserPrompts(B)),
           UserPrompts(A) = Images(h, UserPrompts(B)), NEW rules
    PROVE  PromptKeywords(A, rules) = PromptKeywords(B, rules)
<1> DEFINE enabled == {r \in rules : r.enabled}
           prompt(U, key) == {e \in U : PromptIdentity(e) = key}
           prompts(U) == {prompt(U, key) : key \in {PromptIdentity(e) : e \in U}}
           sources(p) == {e \in p : ContentAvailability(e) = "available"}
           of(pair) == PromptFinding(sources(pair[1]), pair[2])
           findings(U) == UNION {of(pair) : pair \in prompts(U) \X enabled}
           complete(U) == {p \in prompts(U) : sources(p) # {}}
           U == UserPrompts(B)
           T == UserPrompts(A)
<1>1. \A X : PromptKeywords(X, rules) =
            IF enabled = {} THEN Unconfigured
            ELSE IF findings(UserPrompts(X)) # {}
            THEN Report(findings(UserPrompts(X)), "violation", "observed")
            ELSE IF complete(UserPrompts(X)) = {} THEN Unavailable
            ELSE IF complete(UserPrompts(X)) # prompts(UserPrompts(X))
            THEN Report({}, "indeterminate", "partial")
            ELSE Report({}, "not_violation", "observed")
  BY DEF PromptKeywords
<1>2. /\ SamePrompts(h, U) /\ UniqueIds(U) /\ T = Images(h, U)
      /\ \A e \in U : /\ PromptIdentity(h[e]) = PromptIdentity(e)
                      /\ ContentAvailability(h[e]) = ContentAvailability(e)
  BY DEF SamePrompts, SamePrompt
<1> HIDE DEF U, T
<1>3. \A key : prompt(T, key) = Images(h, prompt(U, key))
  BY <1>2 DEF Images
<1>4. {PromptIdentity(e) : e \in T} = {PromptIdentity(e) : e \in U}
  BY <1>2 DEF Images
<1>5. \A key : prompt(U, key) \subseteq U
  OBVIOUS
<1> HIDE DEF prompt
<1>6. prompts(T) = {Images(h, p) : p \in prompts(U)}
  <2>1. prompts(T) = {Images(h, prompt(U, key)) : key \in {PromptIdentity(e) : e \in U}}
    BY <1>3, <1>4
  <2> QED BY <2>1
<1>7. \A p \in prompts(U) : p \subseteq U
  BY <1>5
<1>8. \A p \in prompts(U) : sources(Images(h, p)) = Images(h, sources(p))
  BY <1>2, <1>7 DEF Images
<1>9. ASSUME NEW p \in prompts(U), NEW rule
      PROVE  PromptFinding(sources(Images(h, p)), rule) = PromptFinding(sources(p), rule)
  <2> DEFINE X == sources(p)
  <2>1. X \subseteq U /\ \A e \in X : ContentAvailability(e) = "available"
    BY <1>7
  <2> HIDE DEF X
  <2>2. SamePrompts(h, X) /\ UniqueIds(X)
    BY <1>2, <2>1 DEF SamePrompts, UniqueIds
  <2>3. PromptFinding(Images(h, X), rule) = PromptFinding(X, rule)
    BY <2>1, <2>2, FindingAlike
  <2> HIDE DEF sources
  <2> QED BY <1>8, <2>3 DEF X
<1>10. \A p \in prompts(U) : sources(Images(h, p)) = {} <=> sources(p) = {}
  <2>1. \A X : Images(h, X) = {} <=> X = {}
    BY DEF Images
  <2> HIDE DEF sources
  <2> QED BY <1>8, <2>1
<1> HIDE DEF prompts, sources
<1>11. findings(T) = findings(U)
  <2>1. \A p, rule : of(<<p, rule>>) = PromptFinding(sources(p), rule)
    OBVIOUS
  <2> HIDE DEF of
  <2>2. \A V, x : x \in findings(V)
            <=> \E p \in prompts(V), rule \in enabled : x \in PromptFinding(sources(p), rule)
    <3> SUFFICES ASSUME NEW V, NEW x
                 PROVE  x \in findings(V)
                         <=> \E p \in prompts(V), rule \in enabled : x \in of(<<p, rule>>)
      BY <2>1
    <3> HIDE DEF enabled
    <3>1. x \in findings(V) <=> \E pair \in prompts(V) \X enabled : x \in of(pair)
      OBVIOUS
    <3>2. \A pair \in prompts(V) \X enabled : \E p \in prompts(V), rule \in enabled : pair = <<p, rule>>
      OBVIOUS
    <3>3. \A p \in prompts(V), rule \in enabled : <<p, rule>> \in prompts(V) \X enabled
      OBVIOUS
    <3> HIDE DEF findings
    <3> QED BY <3>1, <3>2, <3>3
  <2> HIDE DEF findings, enabled
  <2>3. \A x : x \in findings(T) <=> x \in findings(U)
    BY <1>6, <1>9, <2>2
  <2>4. findings(T) \subseteq findings(U) /\ findings(U) \subseteq findings(T)
    BY <2>3
  <2> QED BY <2>4
<1>12. /\ complete(T) = {} <=> complete(U) = {}
       /\ complete(T) = prompts(T) <=> complete(U) = prompts(U)
  <2>1. \A V : /\ complete(V) = {} <=> \A p \in prompts(V) : sources(p) = {}
               /\ complete(V) = prompts(V) <=> \A p \in prompts(V) : sources(p) # {}
    OBVIOUS
  <2> HIDE DEF complete
  <2>2. \A q \in prompts(T) : \E p \in prompts(U) : q = Images(h, p)
    BY <1>6
  <2>3. \A p \in prompts(U) : Images(h, p) \in prompts(T)
    BY <1>6
  <2>4. (\A q \in prompts(T) : sources(q) = {}) <=> \A p \in prompts(U) : sources(p) = {}
    BY <1>10, <2>2, <2>3
  <2>5. (\A q \in prompts(T) : sources(q) # {}) <=> \A p \in prompts(U) : sources(p) # {}
    BY <1>10, <2>2, <2>3
  <2> QED BY <2>1, <2>4, <2>5
<1> HIDE DEF findings, complete, enabled
<1> QED BY <1>1, <1>11, <1>12 DEF U, T

LEMMA PromptsAlike ==
    ASSUME NEW S, IsTable(S), NEW rules
    PROVE  PromptKeywords(SignalsOfAll(S), rules)
            = PromptKeywords({e \in S : ~IsCodexPrompt(e)}, rules)
<1> DEFINE scanned == {e \in S : ~IsCodexPrompt(e)}
           U == UserPrompts(scanned)
           h == [e \in U |-> Thin(e)]
<1>1. /\ UserPrompts(SignalsOfAll(S)) = {Thin(e) : e \in U}
      /\ \A e \in U : e \in S /\ IsClaudePrompt(e)
  BY PromptsOfSignals
<1>2. \A e \in U : IsEvent(e)
  BY <1>1 DEF IsTable
<1>3. \A e \in U : SamePrompt(Thin(e), e) /\ e.id \in Nat \X Nat
  BY <1>1, <1>2, PromptAlike DEF IsEvent
<1>4. UniqueIds(U)
  BY <1>1 DEF IsTable, UniqueIds
<1> HIDE DEF U
<1>5. SamePrompts(h, U)
  BY <1>3 DEF SamePrompts
<1>6. UserPrompts(SignalsOfAll(S)) = Images(h, U)
  BY <1>1 DEF Images
<1> HIDE DEF h, scanned
<1>7. PromptKeywords(SignalsOfAll(S), rules) = PromptKeywords(scanned, rules)
  BY <1>4, <1>5, <1>6, KeywordsAlike DEF U
<1> QED BY <1>7 DEF scanned

\* After any payloads and deletions the policies of internal/governance decide over
\* the rows of insight_signals as over the stored events: the outcome and visibility
\* are those, and each finding is made as often and names the same event, although
\* accesses and prompts are kept as rows of their own that are numbered, thinned and
\* joined again.  The prompts of Codex are not scanned, and a report of unapproved
\* skills that is no violation is indeterminate as soon as one tool of one session
\* names no skill, whose marker the rebuild adds.
THEOREM PoliciesFromSignalsCorrect == Spec => []PoliciesFromSignals
<1>1. StoredInvariant => PoliciesFromSignals
  <2> SUFFICES ASSUME StoredInvariant PROVE PoliciesFromSignals
    OBVIOUS
  <2>1. IsTable(events) /\ signals = SignalsOfAll(events)
    BY DEF StoredInvariant, SignalsInvariant, IsTable
  <2>2. Decisions(signals) = Decisions(events)
    <3>1. RiskyAccess(signals) = RiskyAccess(events)
      BY <2>1, AccessAlike
    <3>2. \A rules : PathRules(signals, rules) = PathRules(events, rules)
      BY <2>1, PathsAlike
    <3>3. \A allowed : UnapprovedMCP(signals, allowed) = UnapprovedMCP(events, allowed)
      BY <2>1, MCPAlike
    <3> QED BY <3>1, <3>2, <3>3 DEF Decisions
  <2>3. \A allowed : UnapprovedSkills(signals, allowed) = SkillReport(events, allowed)
    BY <2>1, SkillsAlike
  <2>4. \A rules : PromptKeywords(signals, rules)
                    = PromptKeywords({e \in events : ~IsCodexPrompt(e)}, rules)
    BY <2>1, PromptsAlike
  <2> QED BY <2>2, <2>3, <2>4 DEF PoliciesFromSignals
<1> QED BY <1>1, StoredCorrect, PTL

(***************************************************************************)
(* The tree of a session's agents: the folds of markCycles and of nest     *)
(* over the graph that the parents of its relations make.                  *)
(***************************************************************************)
\* A set as a list: each element once.
LEMMA ListedAll ==
    ASSUME NEW S, IsFiniteSet(S)
    PROVE  /\ Listed(S) \in Seq(S) /\ Len(Listed(S)) = Cardinality(S)
           /\ Visited(Listed(S)) = S
<1> DEFINE F(g) == [s \in SUBSET S |->
                        IF s = {} THEN << >>
                        ELSE Append(g[s \ {CHOOSE x \in s : TRUE}], CHOOSE x \in s : TRUE)]
           list == CHOOSE g : g = F(g)
           pick == [s \in SUBSET S |-> CHOOSE x \in s : TRUE]
           step == [x \in S |-> [v \in Seq(S) |-> Append(v, x)]]
           Good == {s \in SUBSET S : /\ list[s] \in Seq(S) /\ Len(list[s]) = Cardinality(s)
                                     /\ Visited(list[s]) = s}
<1>1. Listed(S) = list[S]
  BY DEF Listed, FoldSet, MapThenFoldSet
<1>2. Picks(pick, S) /\ \A s \in SUBSET S : s # {} => pick[s] \in s /\ pick[s] \in S
  BY DEF Picks
<1>3. list = F(list)
  <2> DEFINE V == Seq(S)
             none == << >>
  <2>1. IsStep(step, S, V)
    BY DEF IsStep
  <2>2. none \in V
    OBVIOUS
  <2>3. PICK f : IsFold(f, S, pick, V, none, step)
    <3> HIDE DEF step, pick, F, V, none, list, Good
    <3> QED BY <1>2, <2>1, <2>2, FoldExists
  <2>4. \A s \in SUBSET S : s # {} => step[pick[s]][f[s \ {pick[s]}]]
                                        = Append(f[s \ {pick[s]}], pick[s])
    BY <1>2, <2>3 DEF IsFold
  <2>5. f = F(f)
    BY <2>3, <2>4 DEF IsFold
  <2> HIDE DEF F
  <2> QED BY <2>5
<1> HIDE DEF list
<1>4. {} \in Good
  <2>1. list[{}] = << >>
    BY <1>3
  <2>2. list[{}] \in Seq(S) /\ Len(list[{}]) = Cardinality({}) /\ Visited(list[{}]) = {}
    BY <2>1, NoneAndOne, EmptyWalk
  <2> QED BY <2>2
<1>5. ASSUME NEW s \in SUBSET S, s # {}, s \ {pick[s]} \in Good PROVE s \in Good
  <2> DEFINE x == pick[s]
             before == list[s \ {x}]
  <2>1. x \in s /\ x \in S
    BY <1>2, <1>5
  <2>2. list[s] = Append(before, x)
    BY <1>3, <1>5
  <2>3. before \in Seq(S) /\ Len(before) = Cardinality(s \ {x}) /\ Visited(before) = s \ {x}
    BY <1>5
  <2>4. IsFiniteSet(s) /\ Cardinality(s) \in Nat /\ Cardinality(s \ {x}) = Cardinality(s) - 1
    BY <2>1, PartIsFinite, SizeIsNumber, WithoutOne
  <2>7. s \in SUBSET S
    BY <1>5
  <2> HIDE DEF x, before, Good, F, pick, step
  <2>5. /\ list[s] \in Seq(S) /\ Len(list[s]) = Len(before) + 1
        /\ Visited(list[s]) = Visited(before) \cup {x}
    BY <2>1, <2>2, <2>3, Appended
  <2>6. Visited(list[s]) = s /\ Len(list[s]) = Cardinality(s)
    BY <2>1, <2>3, <2>4, <2>5
  <2> QED BY <2>5, <2>6, <2>7 DEF Good
<1>6. S \in Good
  <2> HIDE DEF Good, pick
  <2> QED BY <1>2, <1>4, <1>5, FoldInduction
<1> QED BY <1>1, <1>6

\* A set of at most one element as a list.
LEMMA ListedAlone ==
    ASSUME NEW S, \A a, b \in S : a = b
    PROVE  /\ S = {} => Listed(S) = << >>
           /\ \A x \in S : Listed(S) = << x >>
<1>1. CASE S = {}
  <2>1. IsFiniteSet(S) /\ Cardinality(S) = 0
    BY <1>1, NoneAndOne
  <2>2. Listed(S) \in Seq(S) /\ Len(Listed(S)) = 0
    BY <2>1, ListedAll
  <2> QED BY <1>1, <2>2
<1>2. CASE S # {}
  <2>1. PICK x \in S : S = {x}
    BY <1>2
  <2>2. IsFiniteSet(S) /\ Cardinality(S) = 1
    BY <2>1, NoneAndOne
  <2>3. Listed(S) \in Seq(S) /\ Len(Listed(S)) = 1
    BY <2>2, ListedAll
  <2>4. Listed(S) = << x >>
    BY <2>1, <2>3
  <2> QED BY <1>2, <2>1, <2>4
<1> QED BY <1>1, <1>2

\* A fold over a list takes its places from the last one.
LEMMA MaxPicks ==
    ASSUME NEW n \in Nat
    PROVE  Picks([s \in SUBSET (1 .. n) |-> Max(s)], 1 .. n)
<1>1. ASSUME NEW s \in SUBSET (1 .. n), s # {} PROVE Max(s) \in s
  <2>1. s \in SUBSET (0 .. n)
    OBVIOUS
  <2>2. PICK m \in s : \A k \in s : m >= k
    BY <1>1, <2>1, Greatest
  <2> QED BY <2>2 DEF Max
<1> QED BY <1>1 DEF Picks

\* The walk after one more step of WalkFrom.
Longer(next, settled, walk) == walk \o Listed(next[Last(walk)] \ (settled \cup Range(walk)))

\* A walk goes one step on, or has ended and stays as it is.
LEMMA WalkExtended ==
    ASSUME NEW D, NEW next, IsPath(next, D), NEW settled \in SUBSET D,
           NEW walk, IsWalk(next, D, settled, walk)
    PROVE  /\ IsWalk(next, D, settled, Longer(next, settled, walk))
           /\ Longer(next, settled, walk)[1] = walk[1]
           /\ IF IsEnded(next, settled, walk) THEN Longer(next, settled, walk) = walk
              ELSE Len(Longer(next, settled, walk)) = Len(walk) + 1
<1> DEFINE rest == next[Last(walk)] \ (settled \cup Range(walk))
           longer == walk \o Listed(rest)
<1>1. walk \in Seq(D) /\ Len(walk) \in Nat /\ Len(walk) >= 1 /\ walk[Len(walk)] \in D
  BY DEF IsWalk
<1>2. Last(walk) = walk[Len(walk)] /\ Range(walk) = Visited(walk)
  BY <1>1 DEF Last, Range, Visited
<1>3. \A a, b \in rest : a = b
  BY <1>1, <1>2 DEF IsPath
<1>4. rest \in SUBSET D
  BY <1>1, <1>2 DEF IsPath
<1>5. IsEnded(next, settled, walk) <=> rest = {}
  BY <1>2 DEF IsEnded
<1>8. Longer(next, settled, walk) = longer
  BY DEF Longer
<1> HIDE DEF longer
<1>6. CASE rest = {}
  <2>1. Listed(rest) = << >>
    BY <1>3, <1>6, ListedAlone
  <2>2. longer = walk
    BY <1>1, <2>1, ConcatEmptySeq DEF longer
  <2> QED BY <1>5, <1>6, <1>8, <2>2
<1>7. CASE rest # {}
  <2>1. PICK x \in rest : TRUE
    BY <1>7
  <2>2. x \in D /\ x \in next[walk[Len(walk)]] /\ x \notin settled /\ x \notin Visited(walk)
    BY <1>2, <1>4, <2>1
  <2>3. Listed(rest) = << x >>
    BY <1>3, <2>1, ListedAlone
  <2>4. longer = Append(walk, x)
    BY <1>1, <2>2, <2>3, AppendIsConcat DEF longer
  <2>5. IsWalk(next, D, settled, Append(walk, x))
    BY <2>2, WalkGoesOn
  <2>6. Len(Append(walk, x)) = Len(walk) + 1 /\ Append(walk, x)[1] = walk[1]
    BY <1>1, <2>2, Appended
  <2> QED BY <1>5, <1>7, <1>8, <2>4, <2>5, <2>6
<1> QED BY <1>6, <1>7

\* WalkFrom walks from the node given to the end.
LEMMA WalkFromStart ==
    ASSUME NEW D, NEW next, IsPath(next, D), DOMAIN next = D, NEW settled \in SUBSET D,
           NEW start \in D, start \notin settled
    PROVE  LET walk == WalkFrom(start, next, settled)
           IN  IsWalk(next, D, settled, walk) /\ IsEnded(next, settled, walk) /\ walk[1] = start
<1> DEFINE n == Cardinality(D)
           S == 1 .. n
           longer(w) == Longer(next, settled, w)
           F(g) == [s \in SUBSET S |-> IF s = {} THEN << start >> ELSE longer(g[s \ {Max(s)}])]
           walk == CHOOSE g : g = F(g)
           pick == [s \in SUBSET S |-> Max(s)]
           V == {w \in Seq(D) : IsWalk(next, D, settled, w)}
           first == << start >>
           step == [i \in S |-> [w \in V |-> longer(w)]]
           Good == {s \in SUBSET S : /\ IsWalk(next, D, settled, walk[s]) /\ walk[s][1] = start
                                     /\ \/ IsEnded(next, settled, walk[s])
                                        \/ Len(walk[s]) >= Cardinality(s) + 1}
<1>0. ASSUME NEW w, IsWalk(next, D, settled, w)
      PROVE  /\ IsWalk(next, D, settled, longer(w)) /\ longer(w)[1] = w[1]
             /\ IF IsEnded(next, settled, w) THEN longer(w) = w ELSE Len(longer(w)) = Len(w) + 1
  BY <1>0, WalkExtended
<1>1. /\ IsFiniteSet(D) /\ n \in Nat /\ IsFiniteSet(S) /\ Cardinality(S) = n
      /\ Listed(D) \in Seq(D) /\ DOMAIN Listed(D) = S
  <2>1. IsFiniteSet(D) /\ n \in Nat
    BY SizeIsNumber DEF IsPath
  <2>2. Listed(D) \in Seq(D) /\ Len(Listed(D)) = n
    BY <2>1, ListedAll
  <2> QED BY <2>1, <2>2, NumbersUpTo
<1>2. WalkFrom(start, next, settled) = walk[S]
  BY <1>1 DEF WalkFrom, FoldLeft, MapThenFoldSet, Longer
<1>3. Picks(pick, S)
  BY <1>1, MaxPicks
<1>4. walk = F(walk)
  <2>1. first \in V
    BY WalkStarts
  <2>2. IsStep(step, S, V)
    <3>1. ASSUME NEW w \in V PROVE longer(w) \in V
      <4>1. IsWalk(next, D, settled, w)
        OBVIOUS
      <4>2. IsWalk(next, D, settled, longer(w))
        BY <1>0, <4>1
      <4> HIDE DEF longer
      <4>3. longer(w) \in Seq(D)
        BY <4>2 DEF IsWalk
      <4> QED BY <4>2, <4>3
    <3> HIDE DEF longer, V
    <3> QED BY <3>1 DEF IsStep
  <2>3. PICK f : IsFold(f, S, pick, V, first, step)
    <3> HIDE DEF step, pick, F, V, first, walk, Good, S
    <3> QED BY <1>1, <1>3, <2>1, <2>2, FoldExists
  <2>4. ASSUME NEW s \in SUBSET S, s # {} PROVE f[s] = longer(f[s \ {Max(s)}])
    <3>1. pick[s] \in S /\ s \ {pick[s]} \in SUBSET S /\ pick[s] = Max(s)
      BY <1>3, <2>4 DEF Picks
    <3>2. f[s \ {pick[s]}] \in V /\ f[s] = step[pick[s]][f[s \ {pick[s]}]]
      BY <2>3, <2>4, <3>1 DEF IsFold
    <3> HIDE DEF longer, V, pick
    <3> QED BY <3>1, <3>2
  <2>5. f \in [SUBSET S -> V] /\ f[{}] = << start >>
    BY <2>3 DEF IsFold
  <2>6. f = F(f)
    <3> HIDE DEF longer, V
    <3> QED BY <2>4, <2>5
  <2> HIDE DEF F
  <2> QED BY <2>6
<1>5. walk[{}] = << start >> /\ \A s \in SUBSET S : s # {} => walk[s] = longer(walk[s \ {Max(s)}])
  <2> HIDE DEF walk, longer
  <2> QED BY <1>4
<1> HIDE DEF walk
<1>6. {} \in Good
  <2>1. Len(<< start >>) = 1 /\ << start >>[1] = start /\ Cardinality({}) = 0
    BY NoneAndOne
  <2>2. IsWalk(next, D, settled, << start >>)
    BY WalkStarts
  <2> HIDE DEF longer
  <2>3. /\ IsWalk(next, D, settled, walk[{}]) /\ walk[{}][1] = start
        /\ Len(walk[{}]) >= Cardinality({}) + 1
    BY <1>5, <2>1, <2>2
  <2> QED BY <2>3
<1>7. ASSUME NEW s \in SUBSET S, s # {}, s \ {pick[s]} \in Good PROVE s \in Good
  <2> DEFINE before == walk[s \ {Max(s)}]
  <2>1. Max(s) \in s /\ pick[s] = Max(s)
    BY <1>3, <1>7 DEF Picks
  <2>2. /\ IsWalk(next, D, settled, before) /\ before[1] = start
        /\ IsEnded(next, settled, before) \/ Len(before) >= Cardinality(s \ {Max(s)}) + 1
    BY <1>7, <2>1
  <2>3. walk[s] = longer(before)
    BY <1>5, <1>7
  <2> HIDE DEF before, longer
  <2>4. /\ IsWalk(next, D, settled, walk[s]) /\ walk[s][1] = start
        /\ IF IsEnded(next, settled, before) THEN walk[s] = before
           ELSE Len(walk[s]) = Len(before) + 1
    BY <1>0, <2>2, <2>3
  <2>5. IsFiniteSet(s) /\ Cardinality(s) \in Nat /\ Cardinality(s \ {Max(s)}) = Cardinality(s) - 1
    <3> HIDE DEF S
    <3>1. IsFiniteSet(s)
      BY <1>1, PartIsFinite
    <3> QED BY <2>1, <3>1, SizeIsNumber, WithoutOne
  <2>6. IsEnded(next, settled, walk[s]) \/ Len(walk[s]) >= Cardinality(s) + 1
    <3>1. Len(before) \in Nat
      BY <2>2 DEF IsWalk
    <3> QED BY <2>2, <2>4, <2>5, <3>1
  <2> QED BY <1>7, <2>4, <2>6
<1>8. S \in Good
  <2> HIDE DEF Good, pick, S
  <2> QED BY <1>1, <1>3, <1>6, <1>7, FoldInduction
<1>9. Len(walk[S]) <= n /\ Len(walk[S]) \in Nat
  <2>1. IsWalk(next, D, settled, walk[S])
    BY <1>8
  <2> HIDE DEF S
  <2>2. Len(walk[S]) \in Nat
    BY <2>1 DEF IsWalk
  <2> QED BY <2>1, <2>2, WalkIsShort
<1> QED BY <1>1, <1>2, <1>8, <1>9

\* LoopOf has the nodes of the walk that lead back to themselves.
LEMMA LoopOfIs ==
    ASSUME NEW D, NEW next, IsPath(next, D), NEW settled \in SUBSET D, IsClosed(next, settled),
           NEW walk, IsWalk(next, D, settled, walk), IsEnded(next, settled, walk)
    PROVE  LoopOf(walk, next) = {r \in Visited(walk) : IsCyclic(next, D, r)}
<1> DEFINE m == Len(walk)
           loop == {walk[i] : i \in {j \in 1 .. m : \E k \in 1 .. j : walk[k] \in next[walk[m]]}}
<1>1. walk \in Seq(D) /\ walk # << >> /\ m \in Nat /\ DOMAIN walk = 1 .. m /\ Last(walk) = walk[m]
  BY DEF IsWalk, Last
<1>2. LoopOf(walk, next) = loop
  BY <1>1 DEF LoopOf
<1>3. \A i \in 1 .. m : IsCyclic(next, D, walk[i]) <=> \E k \in 1 .. i : walk[k] \in next[walk[m]]
  BY LoopOfWalk
<1>4. loop = {r \in Visited(walk) : IsCyclic(next, D, r)}
  BY <1>3 DEF Visited
<1> QED BY <1>2, <1>4

\* What is known of the elements that are settled.
IsMarked(next, D, marked) ==
    /\ marked = [settled |-> marked.settled, loops |-> marked.loops]
    /\ marked.settled \in SUBSET D /\ IsClosed(next, marked.settled)
    /\ marked.loops = {r \in marked.settled : IsCyclic(next, D, r)}

\* One step of the fold of Loops.
MarkedOn(next, marked, start) ==
    LET path == WalkFrom(start, next, marked.settled)
    IN  [settled |-> marked.settled \cup Range(path),
         loops |-> marked.loops \cup LoopOf(path, next)]

\* One walk more settles what it visits, and flags what of it is on a loop.
LEMMA MarkedFrom ==
    ASSUME NEW D, NEW next, IsPath(next, D), DOMAIN next = D, NEW start \in D,
           NEW marked, IsMarked(next, D, marked)
    PROVE  /\ IsMarked(next, D, MarkedOn(next, marked, start))
           /\ start \in MarkedOn(next, marked, start).settled
           /\ marked.settled \subseteq MarkedOn(next, marked, start).settled
<1> DEFINE settled == marked.settled
           loops == marked.loops
           path == WalkFrom(start, next, settled)
           later == MarkedOn(next, marked, start)
<1>1. /\ settled \in SUBSET D /\ IsClosed(next, settled)
      /\ loops = {r \in settled : IsCyclic(next, D, r)}
  BY DEF IsMarked
<1>2. later = [settled |-> settled \cup Range(path), loops |-> loops \cup LoopOf(path, next)]
  BY DEF MarkedOn
<1> HIDE DEF settled, loops, later
<1>3. CASE start \in settled
  <2>1. path = << >>
    BY <1>3 DEF WalkFrom
  <2>2. Range(path) = {} /\ LoopOf(path, next) = {}
    BY <2>1 DEF Range, LoopOf
  <2> HIDE DEF path
  <2>3. later = [settled |-> settled, loops |-> loops]
    BY <1>2, <2>2
  <2>4. later.settled = settled /\ later.loops = loops
    BY <2>3
  <2>5. IsMarked(next, D, later)
    BY <1>1, <2>3, <2>4 DEF IsMarked
  <2> QED BY <1>3, <2>4, <2>5 DEF later, settled
<1>4. CASE start \notin settled
  <2>1. IsWalk(next, D, settled, path) /\ IsEnded(next, settled, path) /\ path[1] = start
    BY <1>1, <1>4, WalkFromStart
  <2> HIDE DEF path
  <2>2. LoopOf(path, next) = {r \in Visited(path) : IsCyclic(next, D, r)}
    BY <1>1, <2>1, LoopOfIs
  <2>3. settled \cup Visited(path) \in SUBSET D /\ IsClosed(next, settled \cup Visited(path))
    BY <1>1, <2>1, WalkSettles
  <2>4. path \in Seq(D) /\ path # << >>
    BY <2>1 DEF IsWalk
  <2>5. Range(path) = Visited(path)
    BY <2>4 DEF Range, Visited
  <2>6. /\ later.settled = settled \cup Visited(path)
        /\ later.loops = loops \cup LoopOf(path, next)
        /\ later = [settled |-> later.settled, loops |-> later.loops]
    BY <1>2, <2>5
  <2>7. later.loops = {r \in later.settled : IsCyclic(next, D, r)}
    BY <1>1, <2>2, <2>6
  <2>8. IsMarked(next, D, later)
    BY <2>3, <2>6, <2>7 DEF IsMarked
  <2>9. start \in Visited(path)
    <3>1. 1 \in 1 .. Len(path)
      BY <2>4
    <3> QED BY <2>1, <3>1 DEF Visited
  <2> QED BY <2>6, <2>8, <2>9 DEF later, settled
<1> QED BY <1>3, <1>4

\* markCycles flags the nodes that lead back to themselves, and no other.
LEMMA LoopsAre ==
    ASSUME NEW D, NEW next, IsPath(next, D), DOMAIN next = D
    PROVE  Loops(next) = {r \in D : IsCyclic(next, D, r)}
<1> DEFINE n == Cardinality(D)
           S == 1 .. n
           L == Listed(D)
           on(marked, i) == MarkedOn(next, marked, L[i])
           none == [settled |-> {}, loops |-> {}]
           F(g) == [s \in SUBSET S |-> IF s = {} THEN none ELSE on(g[s \ {Max(s)}], Max(s))]
           marks == CHOOSE g : g = F(g)
           pick == [s \in SUBSET S |-> Max(s)]
           V == {m \in [settled : SUBSET D, loops : SUBSET D] : IsMarked(next, D, m)}
           step == [i \in S |-> [m \in V |-> on(m, i)]]
           Good == {s \in SUBSET S : /\ IsMarked(next, D, marks[s])
                                     /\ \A i \in s : L[i] \in marks[s].settled}
<1>1. /\ IsFiniteSet(D) /\ n \in Nat /\ IsFiniteSet(S) /\ Cardinality(S) = n
      /\ L \in Seq(D) /\ DOMAIN L = S /\ Visited(L) = D /\ \A i \in S : L[i] \in D
  <2>1. IsFiniteSet(D) /\ n \in Nat
    BY SizeIsNumber DEF IsPath
  <2>2. L \in Seq(D) /\ Len(L) = n /\ Visited(L) = D
    BY <2>1, ListedAll
  <2> HIDE DEF L
  <2>3. DOMAIN L = S /\ \A i \in S : L[i] \in D
    BY <2>1, <2>2
  <2> QED BY <2>1, <2>2, <2>3, NumbersUpTo
<1>2. Loops(next) = marks[S].loops
  BY <1>1 DEF Loops, FoldLeft, MapThenFoldSet, MarkedOn
<1>3. Picks(pick, S)
  BY <1>1, MaxPicks
<1>4. ASSUME NEW m, IsMarked(next, D, m), NEW i \in S
      PROVE  /\ IsMarked(next, D, on(m, i)) /\ L[i] \in on(m, i).settled
             /\ m.settled \subseteq on(m, i).settled
  <2>1. L[i] \in D
    BY <1>1
  <2> HIDE DEF L
  <2> QED BY <1>4, <2>1, MarkedFrom
<1>5. IsMarked(next, D, none)
  <2>1. none.settled = {} /\ none.loops = {}
    OBVIOUS
  <2> QED BY <2>1 DEF IsMarked, IsClosed
<1>6. \A m : IsMarked(next, D, m) => m \in V
  <2>1. ASSUME NEW m, IsMarked(next, D, m) PROVE m \in [settled : SUBSET D, loops : SUBSET D]
    BY <2>1 DEF IsMarked
  <2> QED BY <2>1
<1>7. marks = F(marks)
  <2>1. none \in V
    <3> HIDE DEF none, V
    <3> QED BY <1>5, <1>6
  <2>2. IsStep(step, S, V)
    <3>1. ASSUME NEW m \in V, NEW i \in S PROVE on(m, i) \in V
      <4>1. IsMarked(next, D, m)
        OBVIOUS
      <4> HIDE DEF V, on, S
      <4> QED BY <1>4, <1>6, <4>1
    <3> HIDE DEF on, V, S
    <3> QED BY <3>1 DEF IsStep
  <2>3. PICK f : IsFold(f, S, pick, V, none, step)
    <3> HIDE DEF step, pick, F, V, none, marks, Good, S
    <3> QED BY <1>1, <1>3, <2>1, <2>2, FoldExists
  <2>4. ASSUME NEW s \in SUBSET S, s # {} PROVE f[s] = on(f[s \ {Max(s)}], Max(s))
    <3>1. pick[s] \in S /\ s \ {pick[s]} \in SUBSET S /\ pick[s] = Max(s)
      BY <1>3, <2>4 DEF Picks
    <3>2. f[s \ {pick[s]}] \in V /\ f[s] = step[pick[s]][f[s \ {pick[s]}]]
      BY <2>3, <2>4, <3>1 DEF IsFold
    <3> HIDE DEF on, V, pick, S
    <3> QED BY <3>1, <3>2
  <2>5. f \in [SUBSET S -> V] /\ f[{}] = none
    BY <2>3 DEF IsFold
  <2>6. f = F(f)
    <3> HIDE DEF on, V, none
    <3> QED BY <2>4, <2>5
  <2> HIDE DEF F
  <2> QED BY <2>6
<1>8. marks[{}] = none /\ \A s \in SUBSET S : s # {} => marks[s] = on(marks[s \ {Max(s)}], Max(s))
  <2> HIDE DEF marks, on, none
  <2> QED BY <1>7
<1> HIDE DEF marks
<1>9. {} \in Good
  <2> HIDE DEF none
  <2> QED BY <1>5, <1>8
<1>10. ASSUME NEW s \in SUBSET S, s # {}, s \ {pick[s]} \in Good PROVE s \in Good
  <2> DEFINE before == marks[s \ {Max(s)}]
  <2>1. Max(s) \in s /\ pick[s] = Max(s)
    BY <1>3, <1>10 DEF Picks
  <2>2. IsMarked(next, D, before) /\ \A i \in s \ {Max(s)} : L[i] \in before.settled
    BY <1>10, <2>1
  <2>3. marks[s] = on(before, Max(s))
    BY <1>8, <1>10
  <2> HIDE DEF before, on, L
  <2>4. /\ IsMarked(next, D, marks[s]) /\ L[Max(s)] \in marks[s].settled
        /\ before.settled \subseteq marks[s].settled
    BY <1>4, <2>1, <2>2, <2>3
  <2>5. \A i \in s : L[i] \in marks[s].settled
    BY <2>2, <2>4
  <2> QED BY <1>10, <2>4, <2>5
<1>11. S \in Good
  <2> HIDE DEF Good, pick, S
  <2> QED BY <1>1, <1>3, <1>9, <1>10, FoldInduction
<1>12. IsMarked(next, D, marks[S]) /\ \A i \in S : L[i] \in marks[S].settled
  BY <1>11
<1>13. marks[S].settled = D
  <2> HIDE DEF L
  <2>1. D \subseteq marks[S].settled
    BY <1>1, <1>12 DEF Visited
  <2> QED BY <1>12, <2>1 DEF IsMarked
<1> QED BY <1>2, <1>12, <1>13 DEF IsMarked

\* What OnLoop reaches is the least closed set with the successor.
LEMMA OnLoopIs ==
    ASSUME NEW D, NEW next, IsPath(next, D), DOMAIN next = D, NEW r \in D
    PROVE  OnLoop(r, next) <=> IsCyclic(next, D, r)
<1> DEFINE up(X) == X \cup UNION {next[q] : q \in X}
           F(g) == [s \in SUBSET D |-> IF s = {} THEN next[r]
                               ELSE up(g[s \ {CHOOSE x \in s : TRUE}])]
           reached == CHOOSE g : g = F(g)
           pick == [s \in SUBSET D |-> CHOOSE x \in s : TRUE]
           V == SUBSET D
           base == next[r]
           step == [x \in D |-> [v \in V |-> up(v)]]
           grow == [X \in SUBSET D |-> up(X)]
<1>1. OnLoop(r, next) <=> r \in reached[D]
  BY DEF OnLoop, FoldSet, MapThenFoldSet
<1>2. Picks(pick, D) /\ \A s \in SUBSET D : s # {} => pick[s] \in s /\ pick[s] \in D
  BY DEF Picks
<1>3. \A X \in SUBSET D : X \subseteq grow[X] /\ grow[X] \in SUBSET D
  <2>1. ASSUME NEW X \in SUBSET D PROVE up(X) \in SUBSET D
    BY DEF IsPath
  <2> QED BY <2>1
<1>4. base \in V /\ IsFiniteSet(D)
  BY DEF IsPath
<1>5. reached = F(reached)
  <2>1. IsStep(step, D, V)
    BY <1>3 DEF IsStep
  <2>2. PICK f : IsFold(f, D, pick, V, base, step)
    <3> HIDE DEF step, pick, F, V, base, reached
    <3> QED BY <1>2, <1>4, <2>1, FoldExists
  <2>3. ASSUME NEW s \in SUBSET D, s # {} PROVE f[s] = up(f[s \ {CHOOSE x \in s : TRUE}])
    <3>1. pick[s] \in D /\ s \ {pick[s]} \in SUBSET D /\ pick[s] = CHOOSE x \in s : TRUE
      BY <1>2, <2>3
    <3>2. f[s \ {pick[s]}] \in V /\ f[s] = step[pick[s]][f[s \ {pick[s]}]]
      BY <2>2, <2>3, <3>1 DEF IsFold
    <3> HIDE DEF up, pick
    <3> QED BY <3>1, <3>2
  <2>4. f \in [SUBSET D -> V] /\ f[{}] = base
    BY <2>2 DEF IsFold
  <2>5. f = F(f)
    <3> HIDE DEF up, V
    <3> QED BY <2>3, <2>4
  <2> HIDE DEF F
  <2> QED BY <2>5
<1>6. /\ reached[{}] = base
      /\ \A s \in SUBSET D : s # {} => reached[s] = up(reached[s \ {pick[s]}])
  <2> HIDE DEF reached, up
  <2> QED BY <1>5
<1> HIDE DEF reached
<1>8. \A s \in SUBSET D : s # {} /\ reached[s \ {pick[s]}] \in SUBSET D
                            => reached[s] = grow[reached[s \ {pick[s]}]]
  <2> HIDE DEF up, pick
  <2> QED BY <1>6
<1>9. IsClosure(reached[D], reached[{}], grow, D)
  <2>1. IsAsBig(D, D) /\ IsGrowing(grow, D)
    <3> HIDE DEF grow
    <3> QED BY <1>3, <1>4, SameSize DEF IsGrowing
  <2>2. IsGrowth(reached, D, pick, grow, D)
    <3>1. reached[{}] \in SUBSET D
      BY <1>4, <1>6
    <3> HIDE DEF grow, pick
    <3> QED BY <1>8, <3>1 DEF IsGrowth
  <2>3. Picks(pick, D)
    BY <1>2
  <2> HIDE DEF grow, pick, up, V, base, step, F
  <2> QED BY <2>1, <2>2, <2>3, FoldCloses
<1>10. IsClosed(next, reached[D])
  BY <1>9 DEF IsClosed, IsClosure
<1>11. ASSUME NEW C \in SUBSET D, IsClosed(next, C), next[r] \subseteq C
       PROVE  reached[D] \subseteq C
  <2>1. \A X \in SUBSET C : grow[X] \subseteq C
    BY <1>11 DEF IsClosed
  <2> HIDE DEF grow
  <2> QED BY <1>6, <1>9, <1>11, <2>1 DEF IsClosure
<1>12. next[r] \subseteq reached[D]
  BY <1>6, <1>9 DEF IsClosure
<1> QED BY <1>1, <1>9, <1>10, <1>11, <1>12 DEF IsCyclic, IsClosure

\* Each element of D has one node, below its successor unless it leads back to itself.
IsTreeOf(nodes, next, D) ==
    /\ IsFiniteSet(nodes) /\ D = {m.relation : m \in nodes}
    /\ \A m, n \in nodes : m.relation = n.relation => m = n
    /\ \A m \in nodes : m.parent = IF IsCyclic(next, D, m.relation) THEN {} ELSE next[m.relation]

\* One step of the fold of ShownAgents.
Descended(nodes, shown) ==
    shown \cup {m.relation : m \in {n \in nodes : n.parent # {} /\ n.parent \subseteq shown}}

\* As many nodes as relations.
LEMMA TreeIsAsBig ==
    ASSUME NEW D, NEW next, NEW nodes, IsTreeOf(nodes, next, D)
    PROVE  /\ IsFiniteSet(D) /\ Cardinality(D) \in Nat /\ Cardinality(nodes) = Cardinality(D)
           /\ IsAsBig(1 .. Cardinality(nodes), D)
<1> DEFINE f == [m \in nodes |-> m.relation]
<1>1. /\ IsFiniteSet(nodes) /\ D = {m.relation : m \in nodes}
      /\ \A m, n \in nodes : m.relation = n.relation => m = n
  BY DEF IsTreeOf
<1>2. \A m, n \in nodes : f[m] = f[n] => m = n
  BY <1>1
<1>3. D = {f[m] : m \in nodes}
  BY <1>1
<1> HIDE DEF f
<1>4. IsFiniteSet(D) /\ Cardinality(D) = Cardinality(nodes)
  <2>1. IsFiniteSet({f[m] : m \in nodes}) /\ Cardinality({f[m] : m \in nodes}) = Cardinality(nodes)
    BY <1>1, <1>2, SameNumber
  <2> QED BY <1>3, <2>1
<1>5. Cardinality(nodes) \in Nat
  BY <1>1, SizeIsNumber
<1> DEFINE k == Cardinality(nodes)
           S == 1 .. k
<1>6. IsFiniteSet(S) /\ Cardinality(S) = k
  <2> HIDE DEF k
  <2> QED BY <1>5, NumbersUpTo DEF k
<1>7. IsAsBig(S, D)
  <2> HIDE DEF S
  <2> QED BY <1>4, <1>6 DEF IsAsBig
<1> QED BY <1>4, <1>5, <1>7

\* A reader of the tree meets the roots and what is below them, and nothing else.
LEMMA ShownIsClosure ==
    ASSUME NEW D, NEW next, IsPath(next, D), NEW nodes, IsTreeOf(nodes, next, D)
    PROVE  IsClosure(ShownAgents(nodes), {m.relation : m \in {n \in nodes : n.parent = {}}},
                     [X \in SUBSET D |-> Descended(nodes, X)], D)
<1> DEFINE k == Cardinality(nodes)
           S == 1 .. k
           base == {m.relation : m \in {n \in nodes : n.parent = {}}}
           down(X) == Descended(nodes, X)
           F(g) == [s \in SUBSET S |-> IF s = {} THEN base ELSE down(g[s \ {Max(s)}])]
           shown == CHOOSE g : g = F(g)
           pick == [s \in SUBSET S |-> Max(s)]
           V == SUBSET D
           step == [x \in S |-> [v \in V |-> down(v)]]
           grow == [X \in SUBSET D |-> Descended(nodes, X)]
<1>1. /\ IsFiniteSet(nodes) /\ D = {m.relation : m \in nodes} /\ IsAsBig(S, D)
      /\ k \in Nat /\ IsFiniteSet(S)
  <2>1. IsFiniteSet(nodes) /\ D = {m.relation : m \in nodes}
    BY DEF IsTreeOf
  <2>2. IsAsBig(S, D) /\ k \in Nat
    BY TreeIsAsBig
  <2> HIDE DEF S
  <2>3. IsFiniteSet(S)
    BY <2>2 DEF IsAsBig
  <2> QED BY <2>1, <2>2, <2>3
<1>2. DOMAIN Listed(nodes) = S
  <2>1. Listed(nodes) \in Seq(nodes) /\ Len(Listed(nodes)) = k
    BY <1>1, ListedAll
  <2> QED BY <2>1
<1>3. ShownAgents(nodes) = shown[S]
  BY <1>2 DEF ShownAgents, FoldLeft, MapThenFoldSet, Descended
<1>4. Picks(pick, S)
  BY <1>1, MaxPicks
<1>5. base \in V /\ IsGrowing(grow, D)
  BY <1>1 DEF IsGrowing, Descended
<1>6. shown = F(shown)
  <2>1. IsStep(step, S, V)
    BY <1>5 DEF IsStep, IsGrowing
  <2>2. PICK f : IsFold(f, S, pick, V, base, step)
    <3> HIDE DEF step, pick, F, V, base, shown, S
    <3> QED BY <1>1, <1>4, <1>5, <2>1, FoldExists
  <2>3. ASSUME NEW s \in SUBSET S, s # {} PROVE f[s] = down(f[s \ {Max(s)}])
    <3>1. pick[s] \in S /\ s \ {pick[s]} \in SUBSET S /\ pick[s] = Max(s)
      BY <1>4, <2>3 DEF Picks
    <3>2. f[s \ {pick[s]}] \in V /\ f[s] = step[pick[s]][f[s \ {pick[s]}]]
      BY <2>2, <2>3, <3>1 DEF IsFold
    <3> HIDE DEF down, pick, S
    <3> QED BY <3>1, <3>2
  <2>4. f \in [SUBSET S -> V] /\ f[{}] = base
    BY <2>2 DEF IsFold
  <2>5. f = F(f)
    <3> HIDE DEF down, V, base, S
    <3> QED BY <2>3, <2>4
  <2> HIDE DEF F
  <2> QED BY <2>5
<1>7. /\ shown[{}] = base
      /\ \A s \in SUBSET S : s # {} => shown[s] = down(shown[s \ {pick[s]}])
  <2> HIDE DEF shown, down, base, S
  <2> QED BY <1>6
<1> HIDE DEF shown
<1>8. IsGrowth(shown, S, pick, grow, D)
  <2>1. \A s \in SUBSET S : s # {} /\ shown[s \ {pick[s]}] \in SUBSET D
                              => shown[s] = grow[shown[s \ {pick[s]}]]
    <3> HIDE DEF pick, S
    <3> QED BY <1>7
  <2>2. shown[{}] \in SUBSET D
    <3> HIDE DEF base
    <3> QED BY <1>5, <1>7
  <2> HIDE DEF pick, grow, S
  <2> QED BY <2>1, <2>2 DEF IsGrowth
<1>9. IsClosure(shown[S], shown[{}], grow, D)
  <2> HIDE DEF pick, grow, S, V, base, down, step, F
  <2> QED BY <1>1, <1>4, <1>5, <1>8, FoldCloses
<1> HIDE DEF S, grow, base
<1> QED BY <1>3, <1>7, <1>9 DEF grow, base

\* What is not shown has a parent that is not shown, so one of it would lead back
\* to itself; but that is a root.
LEMMA TreeShowsAll ==
    ASSUME NEW D, NEW next, IsPath(next, D), NEW nodes, IsTreeOf(nodes, next, D)
    PROVE  ShownAgents(nodes) = D
<1> DEFINE X == ShownAgents(nodes)
           U == D \ X
           grow == [Y \in SUBSET D |-> Descended(nodes, Y)]
           base == {m.relation : m \in {n \in nodes : n.parent = {}}}
<1>1. IsClosure(X, base, grow, D)
  BY ShownIsClosure
<1>2. X \in SUBSET D /\ base \subseteq X /\ Descended(nodes, X) \subseteq X
  <2> HIDE DEF X, base
  <2> QED BY <1>1 DEF IsClosure
<1> HIDE DEF X
<1>3. ASSUME NEW r \in U PROVE ~IsCyclic(next, D, r) /\ next[r] # {} /\ next[r] \subseteq U
  <2>1. PICK m \in nodes : m.relation = r
    BY DEF IsTreeOf
  <2>2. m.parent # {}
    BY <1>2, <2>1
  <2>3. ~(m.parent \subseteq X)
    BY <1>2, <2>1, <2>2 DEF Descended
  <2>4. ~IsCyclic(next, D, r) /\ m.parent = next[r]
    BY <2>1, <2>2 DEF IsTreeOf
  <2>5. next[r] \in SUBSET D /\ \A a, b \in next[r] : a = b
    BY DEF IsPath
  <2> QED BY <2>2, <2>3, <2>4, <2>5
<1>4. ASSUME U # {} PROVE FALSE
  <2>1. U \in SUBSET D
    OBVIOUS
  <2> HIDE DEF U
  <2>2. PICK r \in U : IsCyclic(next, D, r)
    BY <1>3, <1>4, <2>1, CycleInside
  <2> QED BY <1>3, <2>2
<1> QED BY <1>2, <1>4 DEF X

\* What orders the spans of an agent: their instants and their identifiers.
IsSpans(spans) ==
    /\ \A x \in spans : x.id \in Nat /\ x.at \in Nat /\ x.body.order = x.at
    /\ \A x, y \in spans : x.id = y.id => x = y

\* An agent has an earliest span.
LEMMA EarliestIs ==
    ASSUME NEW G, G # {}, IsSpans(G)
    PROVE  Lineage!EarliestSpan(G) \in G
<1>1. /\ \A x \in G : x.id \in Nat /\ x.at \in Nat /\ x.body.order = x.at
      /\ \A x, y \in G : x.id = y.id => x = y
  BY DEF IsSpans
<1> DEFINE Instants == {x.at : x \in G}
<1>2. PICK t \in Instants : \A u \in Instants : t <= u
  <2>1. Instants \in SUBSET Nat /\ Instants # {}
    BY <1>1
  <2> HIDE DEF Instants
  <2> QED BY <2>1, Least
<1> DEFINE Ids == {x.id : x \in {y \in G : y.at = t}}
<1>3. PICK i \in Ids : \A j \in Ids : i <= j
  <2>1. Ids \in SUBSET Nat /\ Ids # {}
    BY <1>1, <1>2
  <2> HIDE DEF Ids
  <2> QED BY <2>1, Least
<1>4. PICK x \in G : x.at = t /\ x.id = i
  BY <1>3
<1>5. ASSUME NEW y \in G \ {x} PROVE Lineage!SpanBefore(x, y)
  <2>1. y.id # x.id /\ x.at <= y.at /\ (x.at = y.at => x.id <= y.id)
    BY <1>1, <1>2, <1>3, <1>4
  <2>2. /\ x.body.order = x.at /\ y.body.order = y.at
        /\ x.id \in Nat /\ y.id \in Nat /\ x.at \in Nat /\ y.at \in Nat
    BY <1>1
  <2>3. CASE x.at < y.at
    BY <2>2, <2>3 DEF Lineage!SpanBefore
  <2>4. CASE x.at = y.at
    <3>1. x.id < y.id
      BY <2>1, <2>2, <2>4
    <3>2. Lineage!StoreBefore(x, y)
      BY <2>4, <3>1 DEF Lineage!StoreBefore
    <3> QED BY <2>2, <2>4, <3>2 DEF Lineage!SpanBefore
  <2> QED BY <2>1, <2>2, <2>3, <2>4
<1> QED BY <1>4, <1>5 DEF Lineage!EarliestSpan

\* The fields of a span that order it.
LEMMA SpanFields ==
    ASSUME NEW e
    PROVE  /\ SubAgentSpan(e).id = e.id[1] /\ SubAgentSpan(e).at = e.at
           /\ SubAgentSpan(e).body.order = e.at
BY Zenon DEF SubAgentSpan

\* The spans of stored events are finitely many, each with an identifier of its own.
LEMMA SpansAre ==
    ASSUME NEW evs, IsFiniteSet(evs), \A e \in evs : IsEvent(e) /\ IsIngested(e),
           \A e, f \in evs : e.id = f.id => e = f
    PROVE  IsFiniteSet(SubAgentSpans(evs)) /\ IsSpans(SubAgentSpans(evs))
<1> DEFINE S == {f \in evs : f.surface = ClaudeCode /\ "span" \in DOMAIN f.extensions}
           span == [e \in S |-> SubAgentSpan(e)]
<1>1. IsFiniteSet(S)
  <2>1. S \in SUBSET evs
    OBVIOUS
  <2> HIDE DEF S
  <2> QED BY <2>1, PartIsFinite
<1>2. SubAgentSpans(evs) = {span[e] : e \in S}
  BY DEF SubAgentSpans
<1>3. \A e \in S : span[e] = SubAgentSpan(e)
  OBVIOUS
<1>4. \A e \in S : e.id \in Nat \X Nat /\ e.at \in Nat /\ e.id[2] = 0
  BY DEF IsEvent, IsIngested
<1>5. \A e, f \in S : e.id = f.id => e = f
  OBVIOUS
<1> HIDE DEF S, span
<1>6. \A e, f \in S : e.id[1] = f.id[1] => e = f
  <2> SUFFICES ASSUME NEW e \in S, NEW f \in S, e.id[1] = f.id[1] PROVE e = f
    OBVIOUS
  <2>1. e.id = <<e.id[1], e.id[2]>> /\ f.id = <<f.id[1], f.id[2]>>
    BY <1>4
  <2> QED BY <1>4, <1>5, <2>1
<1>7. IsFiniteSet({span[e] : e \in S})
  BY <1>1, ImagesFinite
<1>8. IsSpans({span[e] : e \in S})
  <2>1. \A e \in S : span[e].id = e.id[1] /\ span[e].at = e.at /\ span[e].body.order = e.at
    BY <1>3, SpanFields
  <2>2. \A e \in S : e.id[1] \in Nat
    BY <1>4
  <2> QED BY <1>4, <1>6, <2>1, <2>2 DEF IsSpans
<1> QED BY <1>2, <1>7, <1>8

\* A session has one relation for each agent of a trace.
LEMMA RelationsAlone ==
    ASSUME NEW session, NEW evs, IsFiniteSet(SubAgentSpans(evs)), IsSpans(SubAgentSpans(evs))
    PROVE  /\ IsFiniteSet(Relations(session, evs))
           /\ \A q, r \in Relations(session, evs) : q.trace = r.trace /\ q.agent = r.agent => q = r
<1> DEFINE stored == SubAgentSpans(evs)
           spans == Lineage!SubAgentSpans(stored)
           agents == {e \in spans : e.body.agent # Lineage!None}
           group(e) == {f \in agents : f.body.trace = e.body.trace /\ f.body.agent = e.body.agent}
           relation == [e \in agents |-> Lineage!SubAgentRelation(session, spans, group(e))]
<1>1. Relations(session, evs) = {relation[e] : e \in agents}
  BY DEF Relations, Lineage!ClaudeRelations
<1>2. agents \in SUBSET stored
  BY DEF Lineage!SubAgentSpans
<1>3. IsFiniteSet(agents)
  <2> HIDE DEF agents, stored
  <2> QED BY <1>2, PartIsFinite DEF stored
<1>4. ASSUME NEW e \in agents
      PROVE  relation[e].trace = e.body.trace /\ relation[e].agent = e.body.agent
  <2> DEFINE first == Lineage!EarliestSpan(group(e))
  <2>1. group(e) # {} /\ IsSpans(group(e))
    <3>1. e \in group(e) /\ group(e) \subseteq stored
      BY <1>2
    <3> HIDE DEF group, stored
    <3> QED BY <3>1 DEF IsSpans, stored
  <2>2. first \in group(e)
    <3> HIDE DEF group
    <3> QED BY <2>1, EarliestIs
  <2>3. first.body.trace = e.body.trace /\ first.body.agent = e.body.agent
    BY <2>2
  <2>4. relation[e].trace = first.body.trace /\ relation[e].agent = first.body.agent
    <3> HIDE DEF group, spans, agents
    <3> QED BY Zenon DEF Lineage!SubAgentRelation
  <2> QED BY <2>3, <2>4
<1>5. ASSUME NEW e \in agents, NEW f \in agents,
             e.body.trace = f.body.trace /\ e.body.agent = f.body.agent
      PROVE  relation[e] = relation[f]
  <2>1. group(e) = group(f)
    BY <1>5
  <2> HIDE DEF group, agents, spans
  <2> QED BY <2>1
<1> HIDE DEF relation, agents
<1>6. IsFiniteSet({relation[e] : e \in agents})
  BY <1>3, ImagesFinite
<1> QED BY <1>1, <1>4, <1>5, <1>6

\* The relations that a named parent may be.
Retained(r, relations) == {q \in relations : q.trace = r.trace /\ q.agent = r.parent}

\* A position is of the relation given, is no cycle, and has its parent or none.
LEMMA PositionIs ==
    ASSUME NEW r, NEW relations, NEW spans
    PROVE  /\ \E state, candidates, parent :
                    Position(r, relations, spans) = [relation |-> r, state |-> state,
                                                     candidates |-> candidates, parent |-> parent]
           /\ Position(r, relations, spans).relation = r
           /\ Position(r, relations, spans).state # "cycle"
           /\ Position(r, relations, spans).parent \in {{}, Retained(r, relations)}
BY Zenon DEF Position, Retained

\* The parents of the relations make a graph in which each has at most one.
LEMMA ParentsArePath ==
    ASSUME NEW session, NEW evs, IsFiniteSet(SubAgentSpans(evs)), IsSpans(SubAgentSpans(evs))
    PROVE  LET D == Relations(session, evs)
               next == ParentOf(Positions(session, evs))
           IN  /\ IsPath(next, D) /\ DOMAIN next = D
               /\ \A r \in D : next[r] = Position(r, D, SubAgentSpans(evs)).parent
<1> DEFINE D == Relations(session, evs)
           spans == SubAgentSpans(evs)
           positions == Positions(session, evs)
           at(r) == Position(r, D, spans)
           next == ParentOf(positions)
<1>1. positions = {at(r) : r \in D}
  BY DEF Positions
<1>2. \A r \in D : at(r).relation = r /\ at(r).parent \in {{}, Retained(r, D)}
  BY PositionIs
<1> HIDE DEF positions, at
<1>3. DOMAIN next = D
  <2>1. {p.relation : p \in positions} = D
    BY <1>1, <1>2
  <2> QED BY <2>1 DEF ParentOf
<1>4. ASSUME NEW r \in D PROVE next[r] = at(r).parent
  <2>1. {q \in positions : q.relation = r} = {at(r)}
    BY <1>1, <1>2
  <2>2. {p.parent : p \in {q \in positions : q.relation = r}} = {at(r).parent}
    BY <2>1
  <2>3. next[r] = UNION {p.parent : p \in {q \in positions : q.relation = r}}
    <3>1. r \in {p.relation : p \in positions}
      BY <1>1, <1>2
    <3> HIDE DEF D
    <3> QED BY <3>1 DEF ParentOf
  <2> QED BY <2>2, <2>3
<1>5. IsFiniteSet(D) /\ \A q, r \in D : q.trace = r.trace /\ q.agent = r.agent => q = r
  BY RelationsAlone
<1>6. ASSUME NEW r \in D PROVE next[r] \in SUBSET D /\ \A a, b \in next[r] : a = b
  <2>1. Retained(r, D) \in SUBSET D /\ \A a, b \in Retained(r, D) : a = b
    <3> HIDE DEF D
    <3> QED BY <1>5 DEF Retained
  <2> HIDE DEF D, next
  <2> QED BY <1>2, <1>4, <2>1
<1>7. IsPath(next, D)
  <2> HIDE DEF D, next
  <2> QED BY <1>5, <1>6 DEF IsPath
<1> QED BY <1>3, <1>4, <1>7 DEF at, positions

\* Build makes of the relations a tree in the sense of IsTreeOf.
LEMMA NodesAreTree ==
    ASSUME NEW session, NEW evs, IsFiniteSet(SubAgentSpans(evs)), IsSpans(SubAgentSpans(evs))
    PROVE  LET D == Relations(session, evs)
               next == ParentOf(Positions(session, evs))
           IN  /\ IsTreeOf(AgentNodes(session, evs), next, D)
               /\ \A m \in AgentNodes(session, evs) :
                        m.relation \in D /\ (m.state = "cycle" <=> IsCyclic(next, D, m.relation))
<1> DEFINE D == Relations(session, evs)
           spans == SubAgentSpans(evs)
           positions == Positions(session, evs)
           at(r) == Position(r, D, spans)
           next == ParentOf(positions)
           loops == Loops(next)
           cut(p) == [p EXCEPT !.state = "cycle", !.parent = {}]
           node == [r \in D |-> IF r \in loops THEN cut(at(r)) ELSE at(r)]
           nodes == AgentNodes(session, evs)
<1>1. positions = {at(r) : r \in D}
  BY DEF Positions
<1>2. /\ IsPath(next, D) /\ DOMAIN next = D
      /\ \A r \in D : next[r] = at(r).parent
  BY ParentsArePath
<1>3. loops = {r \in D : IsCyclic(next, D, r)}
  <2> HIDE DEF D, next
  <2> QED BY <1>2, LoopsAre
<1>4. nodes = {IF p.relation \in loops THEN cut(p) ELSE p : p \in positions}
  BY DEF AgentNodes
<1>5. \A r \in D : /\ at(r).relation = r /\ at(r).state # "cycle"
                   /\ cut(at(r)).relation = r /\ cut(at(r)).state = "cycle"
                   /\ cut(at(r)).parent = {}
  <2> SUFFICES ASSUME NEW r \in D
               PROVE  /\ at(r).relation = r /\ at(r).state # "cycle"
                      /\ cut(at(r)).relation = r /\ cut(at(r)).state = "cycle"
                      /\ cut(at(r)).parent = {}
    OBVIOUS
  <2>1. at(r).relation = r /\ at(r).state # "cycle"
    BY PositionIs
  <2>2. PICK state, candidates, parent :
                at(r) = [relation |-> r, state |-> state, candidates |-> candidates, parent |-> parent]
    BY PositionIs
  <2> DEFINE whole == [relation |-> r, state |-> state, candidates |-> candidates, parent |-> parent]
  <2>3. cut(whole).relation = r /\ cut(whole).state = "cycle" /\ cut(whole).parent = {}
    OBVIOUS
  <2> HIDE DEF at, cut, whole
  <2>4. at(r) = whole
    BY <2>2 DEF whole
  <2> QED BY <2>1, <2>3, <2>4
<1> HIDE DEF at, cut, positions
<1>6. nodes = {node[r] : r \in D}
  <2>1. nodes = {IF at(r).relation \in loops THEN cut(at(r)) ELSE at(r) : r \in D}
    BY <1>1, <1>4
  <2> HIDE DEF loops, D
  <2> QED BY <1>5, <2>1
<1>7. \A r \in D : node[r].relation = r /\ (node[r].state = "cycle" <=> r \in loops)
                   /\ node[r].parent = IF r \in loops THEN {} ELSE next[r]
  <2> HIDE DEF loops, D, next
  <2> QED BY <1>2, <1>5
<1>8. IsFiniteSet(D)
  BY <1>2 DEF IsPath
<1> HIDE DEF node, D, next, loops, nodes
<1>9. IsFiniteSet({node[r] : r \in D})
  BY <1>8, ImagesFinite
<1>10. IsTreeOf(nodes, next, D)
  BY <1>3, <1>6, <1>7, <1>9 DEF IsTreeOf
<1>11. \A m \in nodes : m.relation \in D /\ (m.state = "cycle" <=> IsCyclic(next, D, m.relation))
  BY <1>3, <1>6, <1>7
<1> QED BY <1>10, <1>11 DEF D, next, nodes, positions

\* What the repository keeps of its events is enough for the tree.
LEMMA TreeOfStored ==
    ASSUME IsFiniteSet(events), \A e \in events : IsEvent(e) /\ IsIngested(e),
           \A e, f \in events : e.id = f.id => e = f
    PROVE  TreeShowsEveryAgent
<1> SUFFICES ASSUME NEW session \in StoredSessions
             PROVE  LET relations == Relations(session, OfSession(events, session))
                        nodes == AgentNodes(session, OfSession(events, session))
                        parentOf == ParentOf(Positions(session, OfSession(events, session)))
                    IN  /\ ShownAgents(nodes) = relations
                        /\ Cardinality(nodes) = Cardinality(relations)
                        /\ \A node \in nodes :
                                (node.state = "cycle") <=> OnLoop(node.relation, parentOf)
  BY DEF TreeShowsEveryAgent
<1> DEFINE own == OfSession(events, session)
           D == Relations(session, own)
           next == ParentOf(Positions(session, own))
           nodes == AgentNodes(session, own)
<1>1. own \in SUBSET events
  BY DEF OfSession
<1> HIDE DEF own
<1>2. IsFiniteSet(SubAgentSpans(own)) /\ IsSpans(SubAgentSpans(own))
  <2>1. IsFiniteSet(own)
    BY <1>1, PartIsFinite
  <2> QED BY <1>1, <2>1, SpansAre
<1>3. IsPath(next, D) /\ DOMAIN next = D
  BY <1>2, ParentsArePath
<1>4. /\ IsTreeOf(nodes, next, D)
      /\ \A m \in nodes : m.relation \in D /\ (m.state = "cycle" <=> IsCyclic(next, D, m.relation))
  BY <1>2, NodesAreTree
<1> HIDE DEF D, next, nodes
<1>5. ShownAgents(nodes) = D
  BY <1>3, <1>4, TreeShowsAll
<1>6. Cardinality(nodes) = Cardinality(D)
  BY <1>4, TreeIsAsBig
<1>7. \A m \in nodes : m.state = "cycle" <=> OnLoop(m.relation, next)
  BY <1>3, <1>4, OnLoopIs
<1> QED BY <1>5, <1>6, <1>7 DEF D, next, nodes, own

\* Whatever spans claim of their parents, the tree of the agents of a session of
\* the store shows each relation once, below a root, and flags as a cycle those
\* that lead back to themselves and no other (agenttree/tree.go).
THEOREM TreeShowsEveryAgentCorrect == Spec => []TreeShowsEveryAgent
<1>1. StoredInvariant => TreeShowsEveryAgent
  BY TreeOfStored DEF StoredInvariant, SignalsInvariant, UniqueIds
<1> QED BY <1>1, StoredCorrect, PTL
=============================================================================
