----------------------------- MODULE IngestProofs -----------------------------
(***************************************************************************)
(* The ingest routes, for all sources, texts and requests that meet the    *)
(* assumptions of Ingest.                                                  *)
(***************************************************************************)
EXTENDS Ingest, OperationEvidenceProofs, FiniteSetTheorems

(***************************************************************************)
(* Facts about bodies, constant all.                                       *)
(***************************************************************************)
\* The order in which a body's operations are stored leaves none out.
LEMMA Sequenced ==
    ASSUME NEW S, IsFiniteSet(S)
    PROVE  /\ Len(SetToSeq(S)) \in Nat
           /\ {SetToSeq(S)[n] : n \in 1 .. Len(SetToSeq(S))} = S
<1> DEFINE size == Cardinality(S)
           places == 1 .. size
           f == SetToSeq(S)
<1>1. size \in Nat /\ \E g : g \in Bijection(places, S)
  BY FS_CardinalityType DEF ExistsBijection
<1>2. \E g \in [places -> S] : IsInjective(g)
  BY <1>1 DEF Bijection, Injection
<1>3. f \in [places -> S] /\ IsInjective(f)
  BY <1>2 DEF SetToSeq
<1> HIDE DEF f
<1>4. f \in Surjection(places, S)
  <2>1. f \in Injection(places, S)
    BY <1>3 DEF Injection
  <2>2. Cardinality(places) = size
    BY <1>1, FS_Interval
  <2> HIDE DEF places
  <2> QED BY <2>1, <2>2, FS_Injection
<1>5. Len(f) = size
  BY <1>1, <1>3
<1>6. {f[n] : n \in places} = S
  BY <1>3, <1>4 DEF Surjection
<1> HIDE DEF size
<1> QED BY <1>1, <1>5, <1>6 DEF f

LEMMA EvidenceOf ==
    ASSUME NEW body \in Bodies
    PROVE  Evidence[body] = Normalised(body)
<1>1. Evidence \in {[b \in Bodies |-> Normalised(b)]}
  BY Zenon DEF Evidence
<1>2. Evidence = [b \in Bodies |-> Normalised(b)]
  BY <1>1
<1> QED BY <1>2

-----------------------------------------------------------------------------
(***************************************************************************)
(* Requests: what every other invariant needs to know of them.             *)
(***************************************************************************)
IsUnderWay(x) ==
    \E step \in {"reading", "saving", "saved"}, body \in Bodies :
        x = [step |-> step, body |-> body]

RequestsInvariant ==
    /\ DOMAIN request = Request
    /\ \A r \in Request : request[r] = Idle \/ IsUnderWay(request[r])

LEMMA UnderWay ==
    ASSUME NEW step \in {"reading", "saving", "saved"}, NEW body \in Bodies
    PROVE  LET x == [step |-> step, body |-> body]
           IN  /\ IsUnderWay(x) /\ x # Idle /\ x.step = step /\ x.body = body
               /\ \A later : [x EXCEPT !.step = later] = [step |-> later, body |-> body]
BY DEF IsUnderWay, Idle

\* What handling a request does to it, whichever way it goes.
LEMMA Handling ==
    ASSUME RequestsInvariant, NEW r \in Request, Handle(r)
    PROVE  /\ \E step \in {"reading", "saving", "saved"}, body \in Bodies :
                request[r] = [step |-> step, body |-> body]
           /\ \/ request' = [request EXCEPT ![r] = Idle]
              \/ \E step \in {"saving", "saved"} :
                    request' = [request EXCEPT ![r] =
                                    [step |-> step, body |-> request[r].body]]
<1>1. request[r] # Idle /\ DOMAIN request = Request
  BY DEF Handle, Normalise, Refuse, Save, FailSave, Accept, Idle, RequestsInvariant
<1>2. PICK step \in {"reading", "saving", "saved"}, body \in Bodies :
          request[r] = [step |-> step, body |-> body]
  BY <1>1 DEF RequestsInvariant, IsUnderWay
<1>3. \A later : [request EXCEPT ![r].step = later]
                    = [request EXCEPT ![r] = [step |-> later, body |-> request[r].body]]
  <2> TAKE later
  <2>1. [request[r] EXCEPT !.step = later] = [step |-> later, body |-> body]
    BY <1>2
  <2>2. request[r].body = body
    BY <1>2
  <2>3. [request EXCEPT ![r].step = later]
          = [request EXCEPT ![r] = [request[r] EXCEPT !.step = later]]
    BY Zenon
  <2> QED BY <2>1, <2>2, <2>3
<1>4. \/ request' = [request EXCEPT ![r] = Idle]
      \/ \E later \in {"saving", "saved"} : request' = [request EXCEPT ![r].step = later]
  BY DEF Handle, Normalise, Refuse, Save, FailSave, Accept, Rejected
<1> QED BY <1>2, <1>3, <1>4

LEMMA RequestsStep ==
    ASSUME RequestsInvariant, [Next]_vars
    PROVE  RequestsInvariant'
<1> USE DEF RequestsInvariant
<1>1. ASSUME NEW r \in Request, Handle(r) PROVE RequestsInvariant'
  <2>1. PICK step \in {"reading", "saving", "saved"}, body \in Bodies :
            request[r] = [step |-> step, body |-> body]
    BY <1>1, Handling
  <2>2. request[r].body \in Bodies
    BY <2>1
  <2>3. \A later \in {"saving", "saved"} : IsUnderWay([step |-> later, body |-> request[r].body])
    BY <2>2 DEF IsUnderWay
  <2>4. \/ request' = [request EXCEPT ![r] = Idle]
        \/ \E later \in {"saving", "saved"} :
              request' = [request EXCEPT ![r] = [step |-> later, body |-> request[r].body]]
    BY <1>1, Handling
  <2> QED BY <2>3, <2>4
<1>2. ASSUME NEW r \in Request, Arrive(r) PROVE RequestsInvariant'
  <2>1. PICK body \in Bodies :
          request' = [request EXCEPT ![r] = [step |-> "reading", body |-> body]]
    BY <1>2 DEF Arrive, Sendable
  <2>2. IsUnderWay([step |-> "reading", body |-> body])
    BY DEF IsUnderWay
  <2> QED BY <2>1, <2>2
<1>3. CASE \E f \in Files : Write(f)
  BY <1>3 DEF Write
<1>4. CASE Crash
  BY <1>4 DEF Crash
<1>5. CASE \E session \in {x.session : x \in events \cup rows} : Delete(session)
  BY <1>5 DEF Delete
<1>6. CASE UNCHANGED vars
  BY <1>6 DEF vars
<1> QED BY <1>1, <1>2, <1>3, <1>4, <1>5, <1>6 DEF Next

LEMMA RequestsInitially == Init => RequestsInvariant
BY DEF Init, RequestsInvariant

-----------------------------------------------------------------------------
(***************************************************************************)
(* The counters.                                                           *)
(***************************************************************************)
Counting(requests) == {r \in Request : requests[r] # Idle /\ Counted(requests[r].body)}

TallyInvariant ==
    /\ RequestsInvariant
    /\ accepted \in Nat /\ rejected \in Nat /\ arrived \in Nat
    /\ TallyIsExact

LEMMA CountingIsFinite ==
    ASSUME NEW requests
    PROVE  IsFiniteSet(Counting(requests)) /\ Cardinality(Counting(requests)) \in Nat
<1>1. Counting(requests) \subseteq Request
  BY DEF Counting
<1> QED BY <1>1, RequestAssumption, FS_Subset, FS_CardinalityType

\* One request changes.
LEMMA CountingOne ==
    ASSUME NEW before, NEW later, NEW r \in Request,
           \A q \in Request : q # r => later[q] = before[q]
    PROVE  /\ r \notin Counting(before) /\ r \in Counting(later)
                => Cardinality(Counting(later)) = Cardinality(Counting(before)) + 1
           /\ r \in Counting(before) /\ r \notin Counting(later)
                => Cardinality(Counting(later)) = Cardinality(Counting(before)) - 1
           /\ (r \in Counting(before) <=> r \in Counting(later))
                => Cardinality(Counting(later)) = Cardinality(Counting(before))
<1>1. \A q \in Request : q # r => (q \in Counting(before) <=> q \in Counting(later))
  BY DEF Counting
<1>2. Counting(before) \subseteq Request /\ Counting(later) \subseteq Request
  BY DEF Counting
<1>3. IsFiniteSet(Counting(before))
  BY CountingIsFinite
<1>4. ASSUME r \notin Counting(before), r \in Counting(later)
      PROVE  Cardinality(Counting(later)) = Cardinality(Counting(before)) + 1
  <2>1. Counting(later) = Counting(before) \cup {r}
    BY <1>1, <1>2, <1>4
  <2> QED BY <2>1, <1>3, <1>4, FS_AddElement
<1>5. ASSUME r \in Counting(before), r \notin Counting(later)
      PROVE  Cardinality(Counting(later)) = Cardinality(Counting(before)) - 1
  <2>1. Counting(later) = Counting(before) \ {r}
    BY <1>1, <1>2, <1>5
  <2> QED BY <2>1, <1>3, <1>5, FS_RemoveElement
<1>6. ASSUME r \in Counting(before) <=> r \in Counting(later)
      PROVE  Counting(later) = Counting(before)
  <2>1. \A q \in Request : q \in Counting(before) <=> q \in Counting(later)
    BY <1>1, <1>6
  <2> QED BY <1>2, <2>1
<1> QED BY <1>4, <1>5, <1>6

\* A request that is counted goes on, or ends and is counted in one counter.
LEMMA TallyHandles ==
    ASSUME TallyInvariant, NEW r \in Request, Handle(r)
    PROVE  /\ accepted' \in Nat /\ rejected' \in Nat /\ arrived' = arrived
           /\ accepted' + rejected' + Cardinality(Counting(request'))
                = accepted + rejected + Cardinality(Counting(request))
<1>1. DOMAIN request = Request /\ accepted \in Nat /\ rejected \in Nat
  BY DEF TallyInvariant, RequestsInvariant
<1>2. PICK step \in {"reading", "saving", "saved"}, body \in Bodies :
          request[r] = [step |-> step, body |-> body]
  BY Handling DEF TallyInvariant
<1>3. /\ Cardinality(Counting(request)) \in Nat
      /\ Cardinality(Counting(request')) \in Nat
  BY CountingIsFinite
<1>4. r \in Counting(request) <=> Counted(request[r].body)
  BY <1>2, UnderWay DEF Counting
<1>5. ASSUME request' = [request EXCEPT ![r] = Idle]
      PROVE  Cardinality(Counting(request'))
                = Cardinality(Counting(request)) - IF Counted(request[r].body) THEN 1 ELSE 0
  <2>1. r \notin Counting(request')
    BY <1>1, <1>5 DEF Counting
  <2>2. \A q \in Request : q # r => request'[q] = request[q]
    BY <1>1, <1>5
  <2> QED BY <1>3, <1>4, <2>1, <2>2, CountingOne
<1>6. ASSUME NEW later \in {"saving", "saved"},
             request' = [request EXCEPT ![r].step = later]
      PROVE  Cardinality(Counting(request')) = Cardinality(Counting(request))
  <2>1. request'[r] = [request[r] EXCEPT !.step = later]
    BY <1>1, <1>6
  <2>2. request'[r] = [step |-> later, body |-> body]
    BY <1>2, <2>1
  <2>5. request'[r] # Idle /\ request'[r].body = request[r].body
    BY <1>2, <2>2 DEF Idle
  <2>3. \A q \in Request : q # r => request'[q] = request[q]
    BY <1>1, <1>6
  <2>4. r \in Counting(request) <=> r \in Counting(request')
    BY <1>4, <2>5 DEF Counting
  <2> QED BY <2>3, <2>4, CountingOne
<1>7. CASE Rejected(r)
  BY <1>1, <1>3, <1>5, <1>7 DEF Rejected
<1>8. CASE Accept(r)
  BY <1>1, <1>3, <1>5, <1>8 DEF Accept
<1>9. CASE Normalise(r) /\ ~Rejected(r)
  BY <1>1, <1>3, <1>6, <1>9 DEF Normalise, counters
<1>10. CASE Save(r)
  BY <1>1, <1>3, <1>6, <1>10 DEF Save, counters
<1> QED BY <1>7, <1>8, <1>9, <1>10 DEF Handle, Refuse, FailSave

LEMMA TallyStep ==
    ASSUME TallyInvariant, [Next]_vars
    PROVE  TallyInvariant'
<1>1. RequestsInvariant'
  BY RequestsStep DEF TallyInvariant
<1>2. /\ DOMAIN request = Request
      /\ accepted \in Nat /\ rejected \in Nat /\ arrived \in Nat
      /\ accepted + rejected + Cardinality(Counting(request)) = arrived
  BY DEF TallyInvariant, RequestsInvariant, TallyIsExact, Counting
<1>3. SUFFICES /\ accepted' \in Nat /\ rejected' \in Nat /\ arrived' \in Nat
               /\ accepted' + rejected' + Cardinality(Counting(request')) = arrived'
  BY <1>1 DEF TallyInvariant, TallyIsExact, Counting
<1>4. ASSUME NEW r \in Request, Arrive(r)
      PROVE  /\ accepted' \in Nat /\ rejected' \in Nat /\ arrived' \in Nat
             /\ accepted' + rejected' + Cardinality(Counting(request')) = arrived'
  <2>1. PICK body \in Bodies :
          /\ request' = [request EXCEPT ![r] = [step |-> "reading", body |-> body]]
          /\ arrived' = IF Counted(body) THEN arrived + 1 ELSE arrived
    BY <1>4 DEF Arrive, Sendable
  <2>2. r \notin Counting(request)
    BY <1>4 DEF Arrive, Counting
  <2>3. request'[r] = [step |-> "reading", body |-> body]
    BY <1>2, <2>1
  <2>4. request'[r] # Idle /\ request'[r].body = body
    BY <2>3 DEF Idle
  <2>5. r \in Counting(request') <=> Counted(body)
    BY <2>4 DEF Counting
  <2>6. Cardinality(Counting(request')) =
            Cardinality(Counting(request)) + IF Counted(body) THEN 1 ELSE 0
    <3>1. \A q \in Request : q # r => request'[q] = request[q]
      BY <1>2, <2>1
    <3> QED BY <2>2, <2>5, <3>1, CountingOne, CountingIsFinite
  <2>7. accepted' = accepted /\ rejected' = rejected
    BY <1>4 DEF Arrive
  <2>8. Cardinality(Counting(request)) \in Nat
    BY CountingIsFinite
  <2> QED BY <1>2, <2>1, <2>6, <2>7, <2>8
<1>5. ASSUME NEW r \in Request, Handle(r)
      PROVE  /\ accepted' \in Nat /\ rejected' \in Nat /\ arrived' \in Nat
             /\ accepted' + rejected' + Cardinality(Counting(request')) = arrived'
  BY <1>2, <1>5, TallyHandles
<1>6. ASSUME Crash
      PROVE  /\ accepted' \in Nat /\ rejected' \in Nat /\ arrived' \in Nat
             /\ accepted' + rejected' + Cardinality(Counting(request')) = arrived'
  <2>1. Counting(request') = {}
    BY <1>6 DEF Crash, Counting
  <2>2. Cardinality(Counting(request')) = 0
    BY <2>1, FS_EmptySet
  <2>3. accepted' = 0 /\ rejected' = 0 /\ arrived' = 0
    BY <1>6 DEF Crash
  <2> QED BY <2>2, <2>3
<1>7. ASSUME \/ \E f \in Files : Write(f)
             \/ \E session \in {x.session : x \in events \cup rows} : Delete(session)
             \/ UNCHANGED vars
      PROVE  UNCHANGED <<request, accepted, rejected, arrived>>
  BY <1>7 DEF Write, Delete, vars, counters
<1> QED BY <1>2, <1>4, <1>5, <1>6, <1>7 DEF Next

\* The counters are one consistent tally of the routes that share them: whatever
\* becomes of a request, it is counted once, and not before it ends.
THEOREM TallyCorrect == Spec => []TallyIsExact
<1>1. Init => TallyInvariant
  <2>1. Init => Counting(request) = {}
    BY DEF Init, Counting
  <2>2. Init => TallyIsExact
    BY <2>1, FS_EmptySet DEF Init, TallyIsExact, Counting
  <2> QED BY <2>2, RequestsInitially DEF Init, TallyInvariant
<1>2. TallyInvariant /\ [Next]_vars => TallyInvariant'
  BY TallyStep
<1>3. TallyInvariant => TallyIsExact
  BY DEF TallyInvariant
<1> QED BY <1>1, <1>2, <1>3, PTL DEF Spec

-----------------------------------------------------------------------------
(***************************************************************************)
(* The tables.  The invariant relates them to the bodies that are kept;    *)
(* every event is one of some body, so that a known identifier means a     *)
(* known event.                                                            *)
(***************************************************************************)
EventsAreKept(stored, pairs) ==
    /\ \A e \in stored : \E body \in Bodies : e \in EventsOf(body)
    /\ \A e, f \in stored : e.id = f.id => e = f
    /\ \A pair \in pairs : \A e \in EventsOf(pair[1]) : e.session = pair[2] =>
            IF IsCall(e) THEN \E f \in stored : f.id = e.id ELSE e \in stored

ObservedIn(pairs) ==
    UNION {{o \in OperationsOf(pair[1]) : o.session = pair[2]} : pair \in pairs}

StoreInvariant ==
    /\ RequestsInvariant
    /\ \A pair \in kept : pair[1] \in Bodies
    /\ EventsAreKept(events, kept)
    /\ AreRows(rows)
    /\ AreUnions(rows, ObservedIn(kept))

\* What is left when a session is deleted.
Without(table, session) == {x \in table : x.session # session}
PairsWithout(pairs, session) == {pair \in pairs : pair[2] # session}

LEMMA EventsSaved ==
    ASSUME NEW stored, NEW pairs, EventsAreKept(stored, pairs), NEW body \in Bodies
    PROVE  EventsAreKept(
                stored \cup {n \in EventsOf(body) : \A e \in stored : e.id # n.id},
                pairs \cup ({body} \X SessionsOf(body)))
<1> DEFINE later == stored \cup {n \in EventsOf(body) : \A e \in stored : e.id # n.id}
           all == pairs \cup ({body} \X SessionsOf(body))
<1>1. \A e \in later : \E b \in Bodies : e \in EventsOf(b)
  BY DEF EventsAreKept
<1>2. \A e, f \in later : e.id = f.id => e = f
  <2>1. \A e, f \in EventsOf(body) : e.id = f.id => e = f
    BY IdentifiersAssumption
  <2> QED BY <2>1 DEF EventsAreKept
<1>3. ASSUME NEW e \in EventsOf(body)
      PROVE  IF IsCall(e) THEN \E f \in later : f.id = e.id ELSE e \in later
  <2>1. CASE \A f \in stored : f.id # e.id
    BY <1>3, <2>1
  <2>2. CASE \E f \in stored : f.id = e.id
    <3>1. PICK f \in stored : f.id = e.id
      BY <2>2
    <3>2. PICK b \in Bodies : f \in EventsOf(b)
      BY <3>1 DEF EventsAreKept
    <3>3. e = f \/ IsCall(e)
      BY <1>3, <3>1, <3>2, IdentifiersAssumption
    <3> QED BY <3>1, <3>3
  <2> QED BY <2>1, <2>2
<1>4. ASSUME NEW pair \in all, NEW e \in EventsOf(pair[1]), e.session = pair[2]
      PROVE  IF IsCall(e) THEN \E f \in later : f.id = e.id ELSE e \in later
  <2>1. CASE pair \in pairs
    BY <1>4, <2>1 DEF EventsAreKept
  <2>2. CASE pair \in {body} \X SessionsOf(body)
    <3>1. pair[1] = body
      BY <2>2
    <3> HIDE DEF later, all
    <3> QED BY <1>3, <1>4, <3>1
  <2> QED BY <1>4, <2>1, <2>2
<1> HIDE DEF later, all
<1>5. EventsAreKept(later, all)
  BY <1>1, <1>2, <1>4 DEF EventsAreKept
<1> QED BY <1>5 DEF later, all

LEMMA EventsDeleted ==
    ASSUME NEW stored, NEW pairs, EventsAreKept(stored, pairs),
           \A pair \in pairs : pair[1] \in Bodies, NEW session
    PROVE  EventsAreKept(Without(stored, session), PairsWithout(pairs, session))
<1> DEFINE later == Without(stored, session)
           rest == PairsWithout(pairs, session)
<1> USE DEF Without, PairsWithout
<1>1. ASSUME NEW pair \in rest, NEW e \in EventsOf(pair[1]), e.session = pair[2]
      PROVE  IF IsCall(e) THEN \E f \in later : f.id = e.id ELSE e \in later
  <2>1. CASE IsCall(e)
    <3>1. PICK f \in stored : f.id = e.id
      BY <1>1, <2>1 DEF EventsAreKept
    <3>2. PICK b \in Bodies : f \in EventsOf(b)
      BY <3>1 DEF EventsAreKept
    <3>3. f.session = e.session
      BY <1>1, <3>1, <3>2, IdentifiersAssumption
    <3> QED BY <1>1, <2>1, <3>1, <3>3
  <2>2. CASE ~IsCall(e)
    BY <1>1, <2>2 DEF EventsAreKept
  <2> QED BY <2>1, <2>2
<1>2. \A e \in later : \E b \in Bodies : e \in EventsOf(b)
  BY DEF EventsAreKept
<1>3. \A e, f \in later : e.id = f.id => e = f
  BY DEF EventsAreKept
<1> HIDE DEF later, rest
<1>4. EventsAreKept(later, rest)
  BY <1>1, <1>2, <1>3 DEF EventsAreKept
<1> QED BY <1>4 DEF later, rest

LEMMA ObservedSaved ==
    ASSUME NEW pairs, NEW body \in Bodies
    PROVE  ObservedIn(pairs \cup ({body} \X SessionsOf(body)))
            = ObservedIn(pairs) \cup OperationsOf(body)
<1> DEFINE all == pairs \cup ({body} \X SessionsOf(body))
<1>1. \A o : o \in ObservedIn(pairs) => o \in ObservedIn(all)
  BY DEF ObservedIn
<1>2. ASSUME NEW o \in OperationsOf(body) PROVE o \in ObservedIn(all)
  <2>1. o.session \in SessionsOf(body)
    BY <1>2 DEF SessionsOf
  <2> DEFINE pair == <<body, o.session>>
  <2>2. pair \in all /\ pair[1] = body /\ pair[2] = o.session
    BY <2>1
  <2> HIDE DEF pair, all
  <2> QED BY <1>2, <2>2 DEF ObservedIn
<1>3. ASSUME NEW o \in ObservedIn(all), o \notin ObservedIn(pairs)
      PROVE  o \in OperationsOf(body)
  <2>1. PICK pair \in all : o \in OperationsOf(pair[1]) /\ o.session = pair[2]
    BY <1>3 DEF ObservedIn
  <2>2. pair \notin pairs
    BY <1>3, <2>1 DEF ObservedIn
  <2> QED BY <2>1, <2>2
<1> QED BY <1>1, <1>2, <1>3

LEMMA ObservedRest ==
    ASSUME NEW pairs, NEW session
    PROVE  ObservedIn(PairsWithout(pairs, session)) = Without(ObservedIn(pairs), session)
BY DEF ObservedIn, Without, PairsWithout

LEMMA UnionsDeleted ==
    ASSUME NEW tab, AreRows(tab), NEW seen, AreUnions(tab, seen), NEW session
    PROVE  /\ AreRows(Without(tab, session))
           /\ AreUnions(Without(tab, session), Without(seen, session))
<1> DEFINE later == Without(tab, session)
           rest == Without(seen, session)
<1> USE DEF Without
<1>1. AreRows(later)
  BY DEF AreRows
<1>2. \A p \in later : Of(p, rest) = Of(p, seen)
  BY DEF Of, SameOperation
<1>3. \A p \in later : IsUnionOf(p, Of(p, seen))
  BY DEF AreUnions
<1>4. \A o \in rest : \E p \in later : SameOperation(o, p)
  BY DEF AreUnions, SameOperation
<1> HIDE DEF later, rest
<1>5. AreUnions(later, rest)
  BY <1>2, <1>3, <1>4 DEF AreUnions
<1> QED BY <1>1, <1>5 DEF later, rest

LEMMA StoreStep ==
    ASSUME StoreInvariant, [Next]_vars
    PROVE  StoreInvariant'
<1>1. RequestsInvariant'
  BY RequestsStep DEF StoreInvariant
<1>2. ASSUME NEW r \in Request, Save(r) PROVE StoreInvariant'
  <2>1. PICK step \in {"reading", "saving", "saved"}, body \in Bodies :
            request[r] = [step |-> step, body |-> body]
    BY <1>2, Handling DEF StoreInvariant, Handle
  <2>2. request[r].body = body
    BY <2>1
  <2>3. /\ events' = events \cup {n \in EventsOf(body) : \A e \in events : e.id # n.id}
        /\ rows' = StoredOperations(rows, SetToSeq(OperationsOf(body)))
        /\ kept' = kept \cup ({body} \X SessionsOf(body))
    BY <1>2, <2>2 DEF Save, StoreEvents, StoreOperations
  <2>4. EventsAreKept(events', kept')
    BY <2>3, EventsSaved DEF StoreInvariant
  <2>5. \A pair \in kept' : pair[1] \in Bodies
    BY <2>3 DEF StoreInvariant
  <2> DEFINE operations == SetToSeq(OperationsOf(body))
  <2>6. /\ Len(operations) \in Nat
        /\ {operations[n] : n \in 1 .. Len(operations)} = OperationsOf(body)
    BY OperationsAssumption, Sequenced
  <2> HIDE DEF operations
  <2>7. \A n \in 1 .. Len(operations) : IsOperation(operations[n])
    BY <2>6, OperationsAssumption
  <2>8. rows' = StoredOperations(rows, operations)
    BY <2>3 DEF operations
  <2>9. AreRows(rows')
    BY <2>6, <2>7, <2>8, StoredOperationsKept DEF StoreInvariant
  <2>10. AreUnions(rows', ObservedIn(kept) \cup OperationsOf(body))
    BY <2>6, <2>7, <2>8, StoredOperationsAreUnions DEF StoreInvariant
  <2>11. ObservedIn(kept') = ObservedIn(kept) \cup OperationsOf(body)
    BY <2>3, ObservedSaved
  <2>12. AreUnions(rows', ObservedIn(kept'))
    BY <2>10, <2>11
  <2>13. EventsAreKept(events, kept)' /\ AreRows(rows)' /\ AreUnions(rows, ObservedIn(kept))'
    BY <2>4, <2>9, <2>12
  <2> QED BY <1>1, <2>5, <2>13 DEF StoreInvariant
<1>3. ASSUME NEW session, Delete(session) PROVE StoreInvariant'
  <2>1. /\ events' = Without(events, session)
        /\ rows' = Without(rows, session)
        /\ kept' = PairsWithout(kept, session)
    BY <1>3 DEF Delete, Without, PairsWithout
  <2>2. EventsAreKept(events', kept')
    BY <2>1, EventsDeleted DEF StoreInvariant
  <2>3. ObservedIn(kept') = Without(ObservedIn(kept), session)
    BY <2>1, ObservedRest
  <2>4. AreRows(rows') /\ AreUnions(rows', ObservedIn(kept'))
    BY <2>1, <2>3, UnionsDeleted DEF StoreInvariant
  <2>5. \A pair \in kept' : pair[1] \in Bodies
    BY <2>1 DEF StoreInvariant, PairsWithout
  <2>6. EventsAreKept(events, kept)' /\ AreRows(rows)' /\ AreUnions(rows, ObservedIn(kept))'
    BY <2>2, <2>4
  <2> QED BY <1>1, <2>5, <2>6 DEF StoreInvariant
<1>4. ASSUME UNCHANGED store PROVE StoreInvariant'
  <2>1. events' = events /\ rows' = rows /\ kept' = kept
    BY <1>4 DEF store
  <2> QED BY <1>1, <2>1 DEF StoreInvariant
<1>5. ASSUME NEW r \in Request, Arrive(r) \/ Normalise(r) \/ Refuse(r) \/ FailSave(r) \/ Accept(r)
      PROVE  UNCHANGED store
  BY <1>5 DEF Arrive, Normalise, Refuse, FailSave, Accept, Rejected
<1>6. ASSUME (\E f \in Files : Write(f)) \/ Crash \/ UNCHANGED vars
      PROVE  UNCHANGED store
  BY <1>6 DEF Write, Crash, vars
<1> QED BY <1>2, <1>3, <1>4, <1>5, <1>6 DEF Next, Handle

LEMMA StoreInitially == Init => StoreInvariant
<1> SUFFICES ASSUME Init PROVE StoreInvariant
  OBVIOUS
<1>1. events = {} /\ rows = {} /\ kept = {}
  BY DEF Init
<1>2. ObservedIn(kept) = {}
  BY <1>1 DEF ObservedIn
<1>3. EventsAreKept(events, kept) /\ AreRows(rows) /\ AreUnions(rows, ObservedIn(kept))
  BY <1>1, <1>2 DEF EventsAreKept, AreRows, AreUnions
<1> QED BY <1>1, <1>3, RequestsInitially DEF StoreInvariant

LEMMA StoreCorrect == Spec => []StoreInvariant
BY StoreInitially, StoreStep, PTL DEF Spec

\* What a saved body proves stays until its session is deleted, whichever other
\* bodies of the same identifiers come before and after it.
THEOREM SavedIsKeptCorrect == Spec => []SavedIsKept
<1>1. StoreInvariant => SavedIsKept
  <2> SUFFICES ASSUME StoreInvariant, NEW pair \in kept
               PROVE  /\ \A e \in EventsOf(pair[1]) : e.session = pair[2] =>
                            IF IsCall(e) THEN \E f \in events : f.id = e.id ELSE e \in events
                      /\ \A o \in OperationsOf(pair[1]) : o.session = pair[2] =>
                            \E p \in rows : SameOperation(p, o)
    BY DEF SavedIsKept
  <2>1. \A o \in OperationsOf(pair[1]) : o.session = pair[2] => o \in ObservedIn(kept)
    BY DEF ObservedIn
  <2>2. \A o \in ObservedIn(kept) : \E p \in rows : SameOperation(p, o)
    BY DEF StoreInvariant, AreUnions, SameOperation
  <2> QED BY <2>1, <2>2 DEF StoreInvariant, EventsAreKept
<1> QED BY <1>1, StoreCorrect, PTL

\* One row for each operation, the union of its observations and of nothing
\* else, whichever routes they came by and in whatever order.
THEOREM EvidenceIsUnionCorrect == Spec => []EvidenceIsUnion
<1>1. StoreInvariant => EvidenceIsUnion
  <2> SUFFICES ASSUME StoreInvariant PROVE EvidenceIsUnion
    OBVIOUS
  <2>1. \A p \in rows : SeenOf(p) = Of(p, ObservedIn(kept))
    BY DEF SeenOf, Seen, Of, ObservedIn
  <2>2. \A p \in rows : IsUnionOf(p, Of(p, ObservedIn(kept)))
    BY DEF StoreInvariant, AreUnions
  <2> QED BY <2>1, <2>2 DEF StoreInvariant, AreRows, EvidenceIsUnion
<1> QED BY <1>1, StoreCorrect, PTL

-----------------------------------------------------------------------------
(***************************************************************************)
(* The type invariant follows from the two above.                          *)
(***************************************************************************)
THEOREM TypeCorrect == Spec => []TypeOK
<1> DEFINE Rest == written \in [Files -> Nat] /\ crashes \in Nat
           All == Rest /\ TallyInvariant /\ StoreInvariant
<1>1. Init => All
  <2>1. Init => TallyIsExact
    <3>1. Init => Counting(request) = {}
      BY DEF Init, Counting
    <3> QED BY <3>1, FS_EmptySet DEF Init, TallyIsExact, Counting
  <2>2. Init => TallyInvariant
    BY <2>1, RequestsInitially DEF Init, TallyInvariant
  <2>3. Init => Rest
    BY DEF Init
  <2> QED BY <2>2, <2>3, StoreInitially
<1>2. ASSUME All, [Next]_vars PROVE All'
  <2>1. Rest'
    <3>1. ASSUME NEW f \in Files, Write(f) PROVE Rest'
      BY <1>2, <3>1 DEF Write
    <3>2. CASE Crash
      BY <1>2, <3>2 DEF Crash
    <3>3. ASSUME NEW r \in Request, Arrive(r) \/ Handle(r) PROVE UNCHANGED <<written, crashes>>
      BY <3>3 DEF Arrive, Handle, Normalise, Refuse, Save, FailSave, Accept, Rejected
    <3>4. ASSUME NEW session, Delete(session) PROVE UNCHANGED <<written, crashes>>
      BY <3>4 DEF Delete
    <3>5. CASE UNCHANGED vars
      BY <1>2, <3>5 DEF vars
    <3> QED BY <1>2, <3>1, <3>2, <3>3, <3>4, <3>5 DEF Next
  <2>2. TallyInvariant'
    BY <1>2, TallyStep
  <2>3. StoreInvariant'
    BY <1>2, StoreStep
  <2> QED BY <2>1, <2>2, <2>3
<1>3. ASSUME All PROVE TypeOK
  <2>1. \A r \in Request :
          \/ request[r] = Idle
          \/ /\ request[r].step \in {"reading", "saving", "saved"}
             /\ request[r].body \in Bodies
    BY <1>3 DEF TallyInvariant, RequestsInvariant, IsUnderWay
  <2>2. /\ \A e, f \in events : e.id = f.id => e = f
        /\ \A p, q \in rows : SameOperation(p, q) => p = q
        /\ \A pair \in kept : pair[1] \in Bodies
    BY <1>3 DEF StoreInvariant, EventsAreKept, AreRows
  <2>3. accepted \in Nat /\ rejected \in Nat /\ arrived \in Nat
    BY <1>3 DEF TallyInvariant
  <2> QED BY <1>3, <2>1, <2>2, <2>3 DEF TypeOK
<1> HIDE DEF All
<1> QED BY <1>1, <1>2, <1>3, PTL DEF Spec

-----------------------------------------------------------------------------
(***************************************************************************)
(* A body is stored as a whole.                                            *)
(***************************************************************************)
\* The end of a body that was cut off is what no file decoder gets past.
LEMMA TornLine ==
    ASSUME NEW body \in Bodies, body.torn
    PROVE  \E i \in DOMAIN Lines(body) : Lines(body)[i] = [type |-> "torn"]
<1>1. PICK source \in Source : body \in [source : {source}, count : 0 .. Len(Text[source]),
                                       torn : BOOLEAN]
  BY DEF Bodies
<1> DEFINE text == Text[source]
           first == SubSeq(text, 1, body.count)
           last == << [type |-> "torn"] >>
<1>2. text \in Seq(Range(text)) /\ body.count \in 0 .. Len(text)
  BY <1>1, SourceAssumption
<1>3. Lines(body) = first \o last
  BY <1>1 DEF Lines
<1> HIDE DEF text
<1>4. first \in Seq(Range(text))
  BY <1>2
<1> HIDE DEF first
<1>5. Len(first) + 1 \in DOMAIN (first \o last) /\ (first \o last)[Len(first) + 1] = last[1]
  BY <1>4
<1> QED BY <1>3, <1>5

LEMMA SoundIsWhole ==
    ASSUME NEW body \in Bodies, Sound(body)
    PROVE  ~body.torn /\ Said(body) = EventsOf(body)
<1>1. /\ body.source \in Source /\ body.torn \in BOOLEAN
      /\ EventsOf(body) = Normalised(body).events
  BY EvidenceOf DEF EventsOf, Bodies
<1>2. CASE Route[body.source] \in {"transcript", "rollout"}
  <2>1. Said(body) = EventsOf(body)
    BY <1>1, <1>2 DEF Said, Files
  <2>2. ASSUME body.torn PROVE FALSE
    <3>1. PICK i \in DOMAIN Lines(body) : Lines(body)[i] = [type |-> "torn"]
      BY <2>2, TornLine
    <3>2. Fatal(Lines(body)[i]) /\ CR!Fatal(Lines(body), i)
      BY <3>1 DEF Fatal, CR!Fatal
    <3> QED BY <1>2, <3>1, <3>2 DEF Sound, TranscriptSound, CR!RolloutSound
  <2> QED BY <2>1, <2>2
<1>3. CASE Route[body.source] \notin {"transcript", "rollout"}
  <2> DEFINE adapters == EventAdapters(Route[body.source])
  <2>1. PayloadSound(body)
    BY <1>3 DEF Sound
  <2>2. MadeOf(adapters, body) = TakenBy(adapters, body)
    BY <2>1 DEF PayloadSound, MadeOf
  <2>3. Normalised(body).events = UNION {resource.events : resource \in MadeOf(adapters, body)}
    BY <1>3 DEF Normalised
  <2>4. Said(body) = UNION {resource.events : resource \in TakenBy(adapters, body)}
    BY <1>3 DEF Said, Files
  <2> QED BY <1>1, <2>1, <2>2, <2>3, <2>4 DEF PayloadSound
<1> QED BY <1>2, <1>3

SoundInvariant ==
    /\ RequestsInvariant
    /\ \A r \in Request : request[r].step \in {"saving", "saved"} => Sound(request[r].body)

\* How a request gets on the way to the answer "accepted".
LEMMA OnTheWay ==
    ASSUME RequestsInvariant, [Next]_vars, NEW r \in Request,
           request'[r].step \in {"saving", "saved"}
    PROVE  \/ request'[r] = request[r]
           \/ /\ request[r].body \in Bodies /\ request'[r].body = request[r].body
              /\ Save(r) \/ (Normalise(r) /\ Sound(request[r].body))
<1>1. CASE request'[r] = request[r]
  BY <1>1
<1>2. CASE request'[r] # request[r]
  <2>1. DOMAIN request = Request /\ request'[r].step \notin {"idle", "reading"}
    BY DEF RequestsInvariant
  <2>2. ASSUME NEW q \in Request, Handle(q) PROVE q = r /\ Handle(r)
    <3>1. ASSUME q # r PROVE FALSE
      BY <1>2, <2>1, <2>2, <3>1, Handling
    <3> QED BY <2>2, <3>1
  <2>3. ASSUME NEW q \in Request, Arrive(q) PROVE FALSE
    <3>1. PICK body \in Bodies :
            request' = [request EXCEPT ![q] = [step |-> "reading", body |-> body]]
      BY <2>3 DEF Arrive, Sendable
    <3> QED BY <1>2, <2>1, <3>1
  <2>4. ~Crash
    BY <2>1 DEF Crash, Idle
  <2>5. ~UNCHANGED request
    BY <1>2
  <2>6. Handle(r)
    BY <2>2, <2>3, <2>4, <2>5 DEF Next, Write, Delete, vars
  <2>7. request' # [request EXCEPT ![r] = Idle]
    BY <2>1 DEF Idle
  <2>8. PICK step \in {"saving", "saved"} :
          request' = [request EXCEPT ![r] = [step |-> step, body |-> request[r].body]]
    BY <2>6, <2>7, Handling
  <2>9. request'[r].body = request[r].body
    BY <2>1, <2>8
  <2>10. request[r].body \in Bodies
    <3>1. PICK old \in {"reading", "saving", "saved"}, body \in Bodies :
              request[r] = [step |-> old, body |-> body]
      BY <2>6, Handling
    <3> QED BY <3>1
  <2>11. Save(r) \/ (Normalise(r) /\ Sound(request[r].body))
    BY <2>6, <2>7 DEF Handle, Normalise, Refuse, FailSave, Accept, Rejected
  <2> QED BY <2>9, <2>10, <2>11
<1> QED BY <1>1, <1>2

LEMMA SoundStep ==
    ASSUME SoundInvariant, [Next]_vars
    PROVE  SoundInvariant'
<1>1. RequestsInvariant'
  BY RequestsStep DEF SoundInvariant
<1>2. ASSUME NEW r \in Request, request'[r].step \in {"saving", "saved"}
      PROVE  Sound(request'[r].body)
  <2>1. Save(r) => request[r].step = "saving"
    BY DEF Save
  <2> QED BY <1>2, <2>1, OnTheWay DEF SoundInvariant
<1> QED BY <1>1, <1>2 DEF SoundInvariant

\* A request that will be answered with success has stored all its body says,
\* and its body was not cut off.
THEOREM StoredAsAWholeCorrect == Spec => StoredAsAWhole
<1> DEFINE Stored(r) ==
        /\ ~request[r].body.torn
        /\ {e.id : e \in Said(request[r].body)} \subseteq {e.id : e \in events'}
<1>1. ASSUME SoundInvariant, [Next]_vars, NEW r \in Request,
             request[r].step # "saved", request'[r].step = "saved"
      PROVE  Stored(r)
  <2>1. /\ request[r].body \in Bodies
        /\ Save(r) \/ (Normalise(r) /\ Sound(request[r].body))
    BY <1>1, OnTheWay DEF SoundInvariant
  <2> DEFINE body == request[r].body
  <2>2. Save(r) => request[r].step = "saving"
    BY DEF Save
  <2>3. Sound(body)
    BY <1>1, <2>1, <2>2 DEF SoundInvariant
  <2>4. ~body.torn /\ Said(body) = EventsOf(body)
    BY <2>1, <2>3, SoundIsWhole
  <2>5. CASE Save(r)
    <3>1. events' = events \cup {n \in EventsOf(body) : \A e \in events : e.id # n.id}
      BY <2>5 DEF Save, StoreEvents
    <3>2. \A n \in EventsOf(body) : \E e \in events' : e.id = n.id
      BY <3>1
    <3> QED BY <2>4, <3>2
  <2>6. CASE Normalise(r)
    <3>1. PICK step \in {"reading", "saving", "saved"}, b \in Bodies :
            request[r] = [step |-> step, body |-> b]
      BY <1>1, <2>6, Handling DEF SoundInvariant, Handle
    <3>2. request' = [request EXCEPT ![r].step =
                                IF NothingToSave(body) THEN "saved" ELSE "saving"]
      BY <2>3, <2>6 DEF Normalise
    <3>3. NothingToSave(body)
      BY <1>1, <3>1, <3>2 DEF SoundInvariant, RequestsInvariant
    <3> QED BY <2>4, <3>3 DEF NothingToSave
  <2> QED BY <2>1, <2>5, <2>6
<1>2. Init => SoundInvariant
  BY RequestsInitially DEF Init, SoundInvariant, Idle
<1>3. SoundInvariant /\ [Next]_vars => SoundInvariant'
  BY SoundStep
<1>4. SoundInvariant /\ [Next]_vars =>
        [\A r \in Request :
            (request[r].step # "saved" /\ request'[r].step = "saved") => Stored(r)]_vars
  BY <1>1
<1> QED BY <1>2, <1>3, <1>4, PTL DEF Spec, StoredAsAWhole

-----------------------------------------------------------------------------
(***************************************************************************)
(* Late shipments.  First what the transcript adapter makes of a file that *)
(* has grown: every event of the shorter one under its identifier, and     *)
(* every operation with at least as much evidence.                         *)
(***************************************************************************)
IsCollection(f, lines, n) ==
    f = [k \in 0 .. n |-> IF k = 0 THEN << >> ELSE Collect(f[k - 1], lines[k])]

LEMMA LongerCollection ==
    ASSUME NEW lines, NEW n \in Nat, NEW f, IsCollection(f, lines, n)
    PROVE  \E g : IsCollection(g, lines, n + 1)
<1> DEFINE next == Collect(f[n], lines[n + 1])
           g == [k \in 0 .. n + 1 |-> IF k = n + 1 THEN next ELSE f[k]]
           step(k) == Collect(g[k - 1], lines[k])
<1>1. \A k \in 0 .. n : f[k] = IF k = 0 THEN << >> ELSE Collect(f[k - 1], lines[k])
  BY DEF IsCollection
<1>2. g[n + 1] = next /\ \A k \in 0 .. n : g[k] = f[k]
  <2> HIDE DEF next
  <2> QED OBVIOUS
<1>3. \A k \in 0 .. n + 1 : g[k] = IF k = 0 THEN << >> ELSE step(k)
  <2> SUFFICES ASSUME NEW k \in 0 .. n + 1
               PROVE  g[k] = IF k = 0 THEN << >> ELSE step(k)
    OBVIOUS
  <2>1. CASE k = n + 1
    <3>1. k # 0 /\ k - 1 = n /\ n \in 0 .. n
      BY <2>1
    <3> HIDE DEF g
    <3> QED BY <2>1, <3>1, <1>2
  <2>2. CASE k = 0
    <3>1. 0 \in 0 .. n
      OBVIOUS
    <3> HIDE DEF g
    <3> QED BY <2>2, <3>1, <1>1, <1>2
  <2>3. CASE k \in 1 .. n
    <3>1. k \in 0 .. n /\ k - 1 \in 0 .. n /\ k # 0
      BY <2>3
    <3> HIDE DEF g
    <3> QED BY <3>1, <1>1, <1>2
  <2> QED BY <2>1, <2>2, <2>3
<1>4. g = [k \in 0 .. n + 1 |-> g[k]]
  <2> HIDE DEF next
  <2> QED OBVIOUS
<1>5. g = [k \in 0 .. n + 1 |-> IF k = 0 THEN << >> ELSE step(k)]
  <2> HIDE DEF g, step
  <2> QED BY <1>3, <1>4
<1> HIDE DEF g
<1> QED BY <1>5 DEF IsCollection

LEMMA CollectionExists ==
    ASSUME NEW lines, NEW N \in Nat
    PROVE  \E f : IsCollection(f, lines, N)
<1> DEFINE Lacks == {n \in Nat : ~ \E f : IsCollection(f, lines, n)}
<1> SUFFICES ASSUME Lacks # {} PROVE FALSE
  OBVIOUS
<1>1. Lacks \in SUBSET Nat
  OBVIOUS
<1>2. PICK n \in Lacks : \A k \in Lacks : n <= k
  <2> HIDE DEF Lacks
  <2> QED BY <1>1, Least
<1>3. n # 0
  <2> DEFINE f == [k \in 0 .. 0 |-> << >>]
  <2>1. f = [k \in 0 .. 0 |-> IF k = 0 THEN << >> ELSE Collect(f[k - 1], lines[k])]
    OBVIOUS
  <2> HIDE DEF f
  <2>2. \E g : IsCollection(g, lines, 0)
    BY <2>1 DEF IsCollection
  <2> QED BY <1>2, <2>2
<1>4. n - 1 \in Nat /\ n - 1 \notin Lacks
  <2>1. n \in Nat /\ n - 1 \in Nat /\ ~ (n <= n - 1)
    BY <1>2, <1>3
  <2> HIDE DEF Lacks
  <2> QED BY <1>2, <2>1
<1>5. \E f : IsCollection(f, lines, (n - 1) + 1)
  BY <1>4, LongerCollection
<1>6. (n - 1) + 1 = n
  BY <1>4
<1> QED BY <1>2, <1>5, <1>6

\* The calls after no line, and after one more.
LEMMA CallsAfterSteps ==
    ASSUME NEW lines, Len(lines) \in Nat
    PROVE  /\ CallsAfter(lines)[0] = << >>
           /\ \A n \in 1 .. Len(lines) :
                CallsAfter(lines)[n] = Collect(CallsAfter(lines)[n - 1], lines[n])
<1> DEFINE after == CallsAfter(lines)
<1>1. after = CHOOSE f : IsCollection(f, lines, Len(lines))
  BY DEF CallsAfter, IsCollection
<1>2. IsCollection(after, lines, Len(lines))
  <2> HIDE DEF after
  <2> QED BY <1>1, CollectionExists
<1> HIDE DEF after
<1>3. \A k \in 0 .. Len(lines) :
        after[k] = IF k = 0 THEN << >> ELSE Collect(after[k - 1], lines[k])
  BY <1>2 DEF IsCollection
<1>4. 0 \in 0 .. Len(lines) /\ \A n \in 1 .. Len(lines) : n \in 0 .. Len(lines) /\ n # 0
  OBVIOUS
<1> QED BY <1>3, <1>4 DEF after

\* The calls of the first lines of a file are those it has after these lines.
LEMMA CallsOfPrefix ==
    ASSUME NEW T, NEW text \in Seq(T), NEW size \in 0 .. Len(text)
    PROVE  ToolCalls(SubSeq(text, 1, size)) = CallsAfter(text)[size]
<1> DEFINE first == SubSeq(text, 1, size)
           Differs == {n \in 0 .. size : CallsAfter(first)[n] # CallsAfter(text)[n]}
<1>1. Len(text) \in Nat /\ size \in Nat /\ size <= Len(text)
  OBVIOUS
<1>2. Len(first) = size /\ \A n \in 1 .. size : first[n] = text[n]
  BY <1>1
<1> HIDE DEF first
<1>3. Differs = {}
  <2> SUFFICES ASSUME Differs # {} PROVE FALSE
    OBVIOUS
  <2>1. Differs \in SUBSET Nat
    BY <1>1
  <2>2. PICK n \in Differs : \A k \in Differs : n <= k
    <3> HIDE DEF Differs
    <3> QED BY <2>1, Least
  <2>3. n # 0
    BY <1>1, <1>2, <2>2, CallsAfterSteps
  <2>4. /\ n \in 1 .. size /\ n \in 1 .. Len(text)
        /\ n - 1 \in 0 .. size /\ ~ (n <= n - 1)
    BY <1>1, <2>2, <2>3
  <2>5. CallsAfter(first)[n - 1] = CallsAfter(text)[n - 1]
    BY <2>2, <2>4
  <2>6. CallsAfter(first)[n] = Collect(CallsAfter(first)[n - 1], first[n])
    BY <1>1, <1>2, <2>4, CallsAfterSteps
  <2>7. CallsAfter(text)[n] = Collect(CallsAfter(text)[n - 1], text[n])
    BY <1>1, <2>4, CallsAfterSteps
  <2> QED BY <1>2, <2>2, <2>4, <2>5, <2>6, <2>7
<1>4. size \in 0 .. size
  BY <1>1
<1> HIDE DEF Differs
<1>5. CallsAfter(first)[size] = CallsAfter(text)[size]
  BY <1>3, <1>4 DEF Differs
<1> QED BY <1>2, <1>5 DEF ToolCalls, first

\* A call, one of the first n lines that uses it and, if its outcome is known,
\* one that has its result.
IsCollected(call, id, lines, n) ==
    /\ call = [session |-> call.session, at |-> call.at, category |-> call.category,
               outcome |-> call.outcome, body |-> call.body, facts |-> call.facts]
    /\ \E i \in 1 .. n :
        lines[i].type = "assistant" /\ \E use \in Range(lines[i].uses) : use.id = id
    /\ call.outcome # "unknown" => \E i \in 1 .. n :
        lines[i].type = "user" /\ \E result \in Range(lines[i].results) : result.id = id

AreCollected(calls, lines, n) ==
    \A id \in DOMAIN calls : IsCollected(calls[id], id, lines, n)

\* A call as it is later: the same one, with at least what was known of it.
GrownCall(call, later) ==
    /\ later.session = call.session /\ later.category = call.category
    /\ call.outcome # "unknown" => later.outcome # "unknown"
    /\ DOMAIN call.body \subseteq DOMAIN later.body

GrownCalls(calls, later) ==
    \A id \in DOMAIN calls : id \in DOMAIN later /\ GrownCall(calls[id], later[id])

LEMMA AnsweredCall ==
    ASSUME NEW call, NEW line, NEW result, NEW meta, NEW id, NEW lines, NEW n,
           IsCollected(call, id, lines, n)
    PROVE  LET later == Answered(call, line, result, meta)
           IN  /\ later = [session |-> later.session, at |-> later.at,
                           category |-> later.category, outcome |-> later.outcome,
                           body |-> later.body, facts |-> later.facts]
               /\ later.session = call.session /\ later.category = call.category
               /\ later.outcome = result.outcome
               /\ DOMAIN call.body \subseteq DOMAIN later.body
<1> DEFINE body == Over(meta, Over([part \in {"result"} |-> result.links], call.body))
           outcome == result.outcome
           facts == ResultFacts(line)
           with == [session |-> call.session, at |-> call.at, category |-> call.category,
                    outcome |-> outcome, body |-> body, facts |-> facts]
<1>1. call = [session |-> call.session, at |-> call.at, category |-> call.category,
              outcome |-> call.outcome, body |-> call.body, facts |-> call.facts]
  BY DEF IsCollected
<1>2. DOMAIN call.body \subseteq DOMAIN body
  BY DEF Over
<1>3. Answered(call, line, result, meta) = with
  <2> DEFINE one == [call EXCEPT !.outcome = outcome]
             two == [one EXCEPT !.body = body]
             three == [two EXCEPT !.facts = facts]
  <2>1. one.body = call.body
    BY <1>1
  <2>2. Answered(call, line, result, meta) = three
    BY <2>1, Zenon DEF Answered
  <2> HIDE DEF body, facts, outcome
  <2>3. one = [session |-> call.session, at |-> call.at, category |-> call.category,
               outcome |-> outcome, body |-> call.body, facts |-> call.facts]
    BY <1>1
  <2> HIDE DEF one
  <2>4. two = [session |-> call.session, at |-> call.at, category |-> call.category,
               outcome |-> outcome, body |-> body, facts |-> call.facts]
    BY <2>3
  <2> HIDE DEF two
  <2>5. three = with
    BY <2>4
  <2> QED BY <2>2, <2>5
<1> HIDE DEF body, facts
<1> QED BY <1>2, <1>3

LEMMA CollectStep ==
    ASSUME NEW lines, UsedOnce(lines), Len(lines) \in Nat, DOMAIN lines = 1 .. Len(lines),
           NEW n \in 1 .. Len(lines), NEW calls, AreCollected(calls, lines, n - 1)
    PROVE  /\ AreCollected(Collect(calls, lines[n]), lines, n)
           /\ GrownCalls(calls, Collect(calls, lines[n]))
<1> DEFINE line == lines[n]
           later == Collect(calls, line)
<1>0. n \in Nat /\ n \in 1 .. n /\ \A i \in 1 .. n - 1 : i \in 1 .. n /\ i # n /\ i \in DOMAIN lines
  OBVIOUS
<1>1. ASSUME NEW id \in DOMAIN calls PROVE IsCollected(calls[id], id, lines, n)
  BY <1>0 DEF AreCollected, IsCollected
<1>2. CASE line.type = "assistant"
  <2> DEFINE ids == {use.id : use \in Range(line.uses)}
  <2>1. later = CollectToolUses(calls, line)
    BY <1>2 DEF Collect
  <2>2. DOMAIN later = ids \cup DOMAIN calls
    BY <2>1 DEF CollectToolUses, Over
  <2>3. ASSUME NEW id \in ids PROVE IsCollected(later[id], id, lines, n)
    <3> DEFINE use == CHOOSE u \in Range(line.uses) : u.id = id
    <3>1. later[id] = NewCall(line, use)
      BY <2>1, <2>3 DEF CollectToolUses, Over
    <3>2. PICK u \in Range(line.uses) : u.id = id
      BY <2>3
    <3> HIDE DEF use
    <3> QED BY <1>0, <1>2, <3>1, <3>2 DEF NewCall, IsCollected
  <2>4. ASSUME NEW id \in DOMAIN calls PROVE id \notin ids
    <3>1. PICK i \in 1 .. n - 1 :
            lines[i].type = "assistant" /\ \E use \in Range(lines[i].uses) : use.id = id
      BY <2>4 DEF AreCollected, IsCollected
    <3> QED BY <1>0, <1>2, <3>1 DEF UsedOnce
  <2>5. ASSUME NEW id \in DOMAIN calls PROVE later[id] = calls[id]
    BY <2>1, <2>4, <2>5 DEF CollectToolUses, Over
  <2> HIDE DEF later, ids
  <2>6. AreCollected(later, lines, n)
    BY <1>1, <2>2, <2>3, <2>5 DEF AreCollected
  <2>7. GrownCalls(calls, later)
    BY <2>2, <2>5 DEF GrownCalls, GrownCall
  <2> QED BY <2>6, <2>7 DEF later
<1>3. CASE line.type = "user"
  <2> DEFINE matched == {i \in DOMAIN line.results : line.results[i].id \in DOMAIN calls}
             IsFirst(i) == \A j \in matched : i <= j
             ResultOf(id) == CHOOSE i \in matched : line.results[i].id = id
             HasResult(id) == \E i \in matched : line.results[i].id = id
  <2>1. later = CollectToolResults(calls, line)
    BY <1>3 DEF Collect
  <2>2. DOMAIN later = DOMAIN calls
    BY <2>1 DEF CollectToolResults
  <2>3. ASSUME NEW id \in DOMAIN calls, HasResult(id)
        PROVE  IsCollected(later[id], id, lines, n) /\ GrownCall(calls[id], later[id])
    <3>1. /\ ResultOf(id) \in matched
          /\ line.results[ResultOf(id)].id = id
      BY <2>3
    <3> DEFINE result == line.results[ResultOf(id)]
               meta == IF IsFirst(ResultOf(id)) THEN line.meta ELSE << >>
    <3>2. later[id] = Answered(calls[id], line, result, meta)
      BY <2>1, <2>3 DEF CollectToolResults
    <3>3. result \in Range(line.results) /\ result.id = id
      BY <3>1 DEF Range
    <3>4. calls[id].outcome = "unknown"
      <4> SUFFICES ASSUME calls[id].outcome # "unknown" PROVE FALSE
        OBVIOUS
      <4>1. PICK i \in 1 .. n - 1 :
              lines[i].type = "user" /\ \E r \in Range(lines[i].results) : r.id = id
        BY <2>3 DEF AreCollected, IsCollected
      <4> HIDE DEF result
      <4> QED BY <1>0, <1>3, <3>3, <4>1 DEF UsedOnce
    <3> HIDE DEF result, meta, matched, IsFirst, ResultOf, HasResult, later
    <3>5. IsCollected(calls[id], id, lines, n)
      BY <1>1, <2>3
    <3> DEFINE new == Answered(calls[id], line, result, meta)
    <3>6. /\ new = [session |-> new.session, at |-> new.at, category |-> new.category,
                    outcome |-> new.outcome, body |-> new.body, facts |-> new.facts]
          /\ new.session = calls[id].session /\ new.category = calls[id].category
          /\ DOMAIN calls[id].body \subseteq DOMAIN new.body
      BY <3>5, AnsweredCall
    <3> HIDE DEF new
    <3>7. later[id] = new
      BY <3>2 DEF new
    <3>8. GrownCall(calls[id], new)
      BY <3>4, <3>6 DEF GrownCall
    <3>9. IsCollected(new, id, lines, n)
      BY <1>0, <1>3, <3>3, <3>5, <3>6 DEF IsCollected
    <3> QED BY <3>7, <3>8, <3>9
  <2>4. ASSUME NEW id \in DOMAIN calls, ~HasResult(id)
        PROVE  later[id] = calls[id]
    BY <2>1, <2>4 DEF CollectToolResults
  <2>5. \A c : GrownCall(c, c)
    BY DEF GrownCall
  <2> HIDE DEF later, HasResult
  <2>6. AreCollected(later, lines, n)
    BY <1>1, <2>2, <2>3, <2>4 DEF AreCollected
  <2>7. GrownCalls(calls, later)
    BY <2>2, <2>3, <2>4, <2>5 DEF GrownCalls
  <2> QED BY <2>6, <2>7 DEF later
<1>4. CASE line.type \notin {"assistant", "user"}
  <2>1. later = calls
    BY <1>4 DEF Collect
  <2> HIDE DEF later
  <2> QED BY <1>1, <2>1 DEF AreCollected, GrownCalls, GrownCall, later
<1> QED BY <1>2, <1>3, <1>4

LEMMA AllCollected ==
    ASSUME NEW lines, UsedOnce(lines), Len(lines) \in Nat, DOMAIN lines = 1 .. Len(lines)
    PROVE  \A n \in 0 .. Len(lines) : AreCollected(CallsAfter(lines)[n], lines, n)
<1> DEFINE C(n) == CallsAfter(lines)[n]
           Lacks == {n \in 0 .. Len(lines) : ~AreCollected(C(n), lines, n)}
<1> SUFFICES ASSUME Lacks # {} PROVE FALSE
  OBVIOUS
<1>1. PICK n \in Lacks : \A k \in Lacks : n <= k
  <2>1. Lacks \in SUBSET Nat
    OBVIOUS
  <2> HIDE DEF Lacks
  <2> QED BY <2>1, Least
<1>2. n # 0
  <2>1. C(0) = << >>
    BY CallsAfterSteps
  <2>2. DOMAIN << >> = {}
    OBVIOUS
  <2>3. AreCollected(C(0), lines, 0)
    <3> HIDE DEF C
    <3> QED BY <2>1, <2>2 DEF AreCollected
  <2> QED BY <1>1, <2>3
<1>3. n \in 1 .. Len(lines) /\ n - 1 \in 0 .. Len(lines) /\ ~ (n <= n - 1)
  BY <1>1, <1>2
<1>4. AreCollected(C(n - 1), lines, n - 1)
  BY <1>1, <1>3
<1>5. C(n) = Collect(C(n - 1), lines[n])
  BY <1>3, CallsAfterSteps
<1> HIDE DEF C
<1>6. AreCollected(C(n), lines, n)
  BY <1>3, <1>4, <1>5, CollectStep
<1> QED BY <1>1, <1>6

\* Calls only grow with the file.
LEMMA CallsGrow ==
    ASSUME NEW lines, UsedOnce(lines), Len(lines) \in Nat, DOMAIN lines = 1 .. Len(lines),
           NEW size \in 0 .. Len(lines), NEW more \in size .. Len(lines)
    PROVE  GrownCalls(CallsAfter(lines)[size], CallsAfter(lines)[more])
<1> DEFINE C(n) == CallsAfter(lines)[n]
           Lacks == {n \in size .. Len(lines) : ~GrownCalls(C(size), C(n))}
<1> SUFFICES ASSUME Lacks # {} PROVE FALSE
  OBVIOUS
<1>1. PICK n \in Lacks : \A k \in Lacks : n <= k
  <2>1. Lacks \in SUBSET Nat
    OBVIOUS
  <2> HIDE DEF Lacks
  <2> QED BY <2>1, Least
<1>2. n # size
  <2>1. GrownCalls(C(size), C(size))
    <3> HIDE DEF C
    <3> QED BY DEF GrownCalls, GrownCall
  <2> QED BY <1>1, <2>1
<1>3. /\ n \in 1 .. Len(lines) /\ n - 1 \in 0 .. Len(lines)
      /\ n - 1 \in size .. Len(lines) /\ ~ (n <= n - 1)
  BY <1>1, <1>2
<1>4. GrownCalls(C(size), C(n - 1)) /\ AreCollected(C(n - 1), lines, n - 1)
  BY <1>1, <1>3, AllCollected
<1>5. C(n) = Collect(C(n - 1), lines[n])
  BY <1>3, CallsAfterSteps
<1> HIDE DEF C
<1>6. GrownCalls(C(n - 1), C(n))
  BY <1>3, <1>4, <1>5, CollectStep
<1>7. GrownCalls(C(size), C(n))
  BY <1>4, <1>6 DEF GrownCalls, GrownCall
<1> QED BY <1>1, <1>7

\* Of the events made with one identifier one is kept.
LEMMA OneIsKept ==
    ASSUME NEW made, DOMAIN made \subseteq Nat, \A j \in DOMAIN made : made[j].at \in Nat,
           NEW i \in DOMAIN made
    PROVE  \E e \in CorrelateEvents(made) : e.id = made[i].id
<1> DEFINE same == {j \in DOMAIN made : made[j].id = made[i].id}
           times == {made[j].at : j \in same}
<1>1. PICK t \in times : \A u \in times : t <= u
  <2>1. times \in SUBSET Nat /\ times # {}
    OBVIOUS
  <2> HIDE DEF times
  <2> QED BY <2>1, Least
<1> DEFINE places == {j \in same : made[j].at = t}
<1>2. PICK k \in places : \A j \in places : k <= j
  <2>1. places \in SUBSET Nat /\ places # {}
    BY <1>1
  <2> HIDE DEF places
  <2> QED BY <2>1, Least
<1>3. ASSUME NEW j \in same
      PROVE  made[k].at < made[j].at \/ (made[k].at = made[j].at /\ k <= j)
  <2>1. made[k].at = t /\ made[j].at \in times /\ made[j].at \in Nat /\ t \in Nat
    BY <1>1, <1>2
  <2>2. made[j].at = t => k <= j
    BY <1>2
  <2> HIDE DEF times
  <2> QED BY <1>1, <2>1, <2>2
<1>4. FirstOfItsId(made, k)
  BY <1>2, <1>3 DEF FirstOfItsId
<1>5. k \in DOMAIN made /\ made[k].id = made[i].id
  BY <1>2
<1> QED BY <1>4, <1>5 DEF CorrelateEvents

\* A sound body is the first lines of its file.
LEMMA SoundLines ==
    ASSUME NEW body \in Bodies, Sound(body), Route[body.source] = "transcript"
    PROVE  /\ body.source \in Source /\ body.count \in 0 .. Len(Text[body.source])
           /\ Text[body.source] \in Seq(Range(Text[body.source]))
           /\ Lines(body) = SubSeq(Text[body.source], 1, body.count)
           /\ EventsOf(body) = TranscriptEvents(Lines(body))
           /\ OperationsOf(body) = TranscriptOperations(Lines(body))
<1>1. PICK source \in Source : body \in [source : {source}, count : 0 .. Len(Text[source]),
                                       torn : BOOLEAN]
  BY DEF Bodies
<1>2. body.source = source /\ body.count \in 0 .. Len(Text[source])
  BY <1>1
<1>3. Text[source] \in Seq(Range(Text[source]))
  BY SourceAssumption
<1> DEFINE first == SubSeq(Text[source], 1, body.count)
<1>4. first \in Seq(Range(Text[source]))
  BY <1>2, <1>3
<1>5. Lines(body) = first \o << >>
  BY <1>2, SoundIsWhole DEF Lines
<1>6. first \o << >> = first
  <2> HIDE DEF first
  <2> QED BY <1>4
<1>7. Normalised(body) = [events |-> TranscriptEvents(Lines(body)),
                          operations |-> TranscriptOperations(Lines(body))]
  BY DEF Normalised
<1>8. /\ EventsOf(body) = TranscriptEvents(Lines(body))
      /\ OperationsOf(body) = TranscriptOperations(Lines(body))
  BY <1>7, EvidenceOf DEF EventsOf, OperationsOf
<1> QED BY <1>2, <1>3, <1>5, <1>6, <1>8

LEMMA UnknownIsUnset == "unknown" \in Unset
BY Zenon DEF Unset

LEMMA Columns ==
    ASSUME NEW body \in Bodies, NEW o \in OperationsOf(body)
    PROVE  /\ IsOperation(o)
           /\ o.outcome \in Unset => o.outcome = "unknown"
           /\ o.category \in Unset => o.category = "unknown"
<1>1. /\ IsOperation(o)
      /\ \A column \in {"outcome", "category"} : o[column] \in Unset => o[column] = "unknown"
  BY OperationsAssumption
<1>2. o["outcome"] = o.outcome /\ o["category"] = o.category
  OBVIOUS
<1> QED BY <1>1, <1>2

LEMMA CallEventId ==
    ASSUME NEW id, NEW call, NEW later,
           later.session = call.session, later.category = call.category
    PROVE  CallEvent(id, later).id = CallEvent(id, call).id
<1> DEFINE Kind(c) == IF c.category = "MCP call" THEN "mcp" ELSE "toolcall"
           Type(c) == IF Kind(c) = "mcp" THEN "mcp_call" ELSE "tool_call"
           Facts(c) == c.facts \cup {<<"link", link>> : link \in UNION Range(c.body)}
<1>1. ASSUME NEW c PROVE CallEvent(id, c).id = <<c.session, Kind(c), id>>
  <2>1. CallEvent(id, c) = [id |-> <<c.session, Kind(c), id>>, session |-> c.session,
                            type |-> Type(c), at |-> c.at, facts |-> Facts(c)]
    BY Zenon DEF CallEvent
  <2> HIDE DEF Kind, Type, Facts
  <2> QED BY <2>1
<1>2. Kind(later) = Kind(call)
  OBVIOUS
<1> HIDE DEF Kind
<1> QED BY <1>1, <1>2

LEMMA TranscriptGrows ==
    ASSUME NEW body \in Bodies, NEW longer \in Bodies, Sound(body), Sound(longer),
           longer.source = body.source, Route[body.source] = "transcript",
           body.count <= longer.count
    PROVE  /\ \A e \in EventsOf(body) : \E f \in EventsOf(longer) : f.id = e.id
           /\ \A o \in OperationsOf(body) : \E q \in OperationsOf(longer) :
                SameOperation(q, o) /\ Covers(q, o)
<1> DEFINE text == Text[body.source]
           size == body.count
           more == longer.count
           first == SubSeq(text, 1, size)
           all == SubSeq(text, 1, more)
<1>1. /\ size \in 0 .. Len(text) /\ more \in 0 .. Len(text) /\ text \in Seq(Range(text))
      /\ EventsOf(body) = TranscriptEvents(first)
      /\ EventsOf(longer) = TranscriptEvents(all)
      /\ OperationsOf(body) = TranscriptOperations(first)
      /\ OperationsOf(longer) = TranscriptOperations(all)
      /\ body.source \in Source
  BY SoundLines
<1>2. UsedOnce(text) /\ \A i \in DOMAIN text : text[i].at \in Nat
  BY <1>1, TranscriptAssumption
<1> HIDE DEF text, size, more
<1>3. /\ Len(text) \in Nat /\ DOMAIN text = 1 .. Len(text)
      /\ more \in size .. Len(text)
  BY <1>1 DEF size, more
<1> DEFINE calls == CallsAfter(text)[size]
           later == CallsAfter(text)[more]
<1>4. ToolCalls(first) = calls /\ ToolCalls(all) = later
  BY <1>1, CallsOfPrefix
<1>5. GrownCalls(calls, later)
  BY <1>1, <1>2, <1>3, CallsGrow
<1>6. /\ DOMAIN first = 1 .. size /\ DOMAIN all = 1 .. more
      /\ \A i \in 1 .. size : first[i] = text[i]
      /\ \A i \in 1 .. more : all[i] = text[i]
      /\ \A i \in 1 .. size : i \in 1 .. more
      /\ \A i \in 1 .. more : i \in Nat /\ i \in DOMAIN text
  BY <1>1, <1>3
<1> HIDE DEF first, all, calls, later
<1>7. \A e \in EventsOf(body) : \E f \in EventsOf(longer) : f.id = e.id
  <2> SUFFICES ASSUME NEW e \in TranscriptEvents(first)
               PROVE  \E f \in TranscriptEvents(all) : f.id = e.id
    BY <1>1
  <2> DEFINE Messages(lines) == {i \in DOMAIN lines : HasMessage(lines[i])}
             Made(lines) == [i \in Messages(lines) |-> MessageEvent(lines[i])]
  <2>1. CASE e \in CorrelateEvents(Made(first))
    <3>1. PICK i \in Messages(first) : e = MessageEvent(first[i])
      BY <2>1 DEF CorrelateEvents
    <3>2. i \in Messages(all) /\ Made(all)[i] = e
      BY <1>6, <3>1
    <3>3. \A j \in Messages(all) : Made(all)[j].at \in Nat
      BY <1>2, <1>6 DEF MessageEvent
    <3>4. DOMAIN Made(all) = Messages(all) /\ Messages(all) \subseteq Nat
      BY <1>6
    <3> HIDE DEF Made, Messages
    <3>5. \E f \in CorrelateEvents(Made(all)) : f.id = e.id
      BY <3>2, <3>3, <3>4, OneIsKept
    <3> QED BY <3>5 DEF TranscriptEvents, Made, Messages
  <2>2. CASE e \in {CallEvent(id, calls[id]) : id \in DOMAIN calls}
    <3>1. PICK id \in DOMAIN calls : e = CallEvent(id, calls[id])
      BY <2>2
    <3>2. id \in DOMAIN later /\ GrownCall(calls[id], later[id])
      BY <1>5 DEF GrownCalls
    <3>3. later[id].session = calls[id].session /\ later[id].category = calls[id].category
      BY <3>2 DEF GrownCall
    <3>4. CallEvent(id, later[id]).id = e.id
      BY <3>1, <3>3, CallEventId
    <3> QED BY <1>4, <3>2, <3>4 DEF TranscriptEvents
  <2> QED BY <1>4, <2>1, <2>2 DEF TranscriptEvents
<1>8. \A o \in OperationsOf(body) : \E q \in OperationsOf(longer) :
        SameOperation(q, o) /\ Covers(q, o)
  <2> SUFFICES ASSUME NEW o \in TranscriptOperations(first)
               PROVE  \E q \in TranscriptOperations(all) : SameOperation(q, o) /\ Covers(q, o)
    BY <1>1
  <2>1. PICK id \in DOMAIN calls : o = CallOperation(id, calls[id])
    BY <1>4 DEF TranscriptOperations
  <2>2. id \in DOMAIN later /\ GrownCall(calls[id], later[id])
    BY <1>5 DEF GrownCalls
  <2> DEFINE q == CallOperation(id, later[id])
  <2>3. q \in TranscriptOperations(all)
    BY <1>4, <2>2 DEF TranscriptOperations
  <2>4. q.outcome \in Unset => q.outcome = "unknown"
    <3>1. q \in OperationsOf(longer)
      BY <1>1, <2>3
    <3> HIDE DEF q
    <3> QED BY <3>1, Columns
  <2>5. SameOperation(q, o)
    BY <2>1, <2>2 DEF GrownCall, CallOperation, SameOperation
  <2>6. /\ q.outcome = later[id].outcome /\ o.outcome = calls[id].outcome
        /\ q.category = o.category /\ q.provenance = o.provenance
        /\ q.extensions = later[id].body /\ o.extensions = calls[id].body
    BY <2>1, <2>2 DEF GrownCall, CallOperation
  <2>7. provenanceRank(q.provenance) \in 0 .. 2
    BY DEF provenanceRank
  <2> HIDE DEF q
  <2>8. Covers(q, o)
    BY <2>2, <2>4, <2>6, <2>7, UnknownIsUnset DEF GrownCall, Covers
  <2> QED BY <2>3, <2>5, <2>8 DEF q
<1> QED BY <1>7, <1>8

-----------------------------------------------------------------------------
(***************************************************************************)
(* Then what a covered observation does to the table: nothing.             *)
(***************************************************************************)
\* What is not known is "unknown", and not left empty.
IsPlain(o) ==
    /\ o.outcome \in Unset => o.outcome = "unknown"
    /\ o.category \in Unset => o.category = "unknown"

LEMMA CoveredObservation ==
    ASSUME NEW tab, AreRows(tab), NEW p \in tab, NEW o, SameOperation(p, o), Covers(p, o),
           IsPlain(p), IsPlain(o)
    PROVE  StoreOperation(tab, o) = tab
<1> DEFINE m == mergeOperationEvidence(p, o)
<1>1. IsOperation(p)
  BY DEF AreRows
<1>2. /\ FillUnset(p.outcome, o.outcome) = p.outcome
      /\ FillUnset(p.category, o.category) = p.category
  BY UnknownIsUnset DEF FillUnset, IsPlain, Covers
<1>3. higherProvenance(p.provenance, o.provenance) = p.provenance
  <2>1. provenanceRank(p.provenance) \in 0 .. 2 /\ provenanceRank(o.provenance) \in 0 .. 2
    BY DEF provenanceRank
  <2> QED BY <2>1 DEF higherProvenance, Covers
<1>4. deepMergeMaps(p.extensions, o.extensions) = p.extensions
  BY <1>1 DEF deepMergeMaps, IsOperation, Covers
<1>5. /\ IsOperation(m)
      /\ m.session = p.session /\ m.operation = p.operation /\ m.outcome = p.outcome
      /\ m.category = p.category /\ m.provenance = p.provenance
      /\ m.extensions = p.extensions
  BY <1>1, <1>2, <1>3, <1>4, MergedFields
<1> HIDE DEF m
<1>6. m = p
  BY <1>1, <1>5 DEF IsOperation
<1>7. \A q \in tab : SameOperation(o, q) => q = p
  BY DEF AreRows, SameOperation
<1>8. \A q \in tab : (IF SameOperation(o, q) THEN mergeOperationEvidence(q, o) ELSE q) = q
  BY <1>6, <1>7 DEF m
<1>9. StoreOperation(tab, o) =
        {IF SameOperation(o, q) THEN mergeOperationEvidence(q, o) ELSE q : q \in tab}
  BY DEF StoreOperation, SameOperation
<1>10. StoreOperation(tab, o) = {q : q \in tab}
  BY <1>8, <1>9
<1> QED BY <1>10

LEMMA SilentOperations ==
    ASSUME NEW tab, NEW operations, Len(operations) \in Nat,
           \A n \in 1 .. Len(operations) : StoreOperation(tab, operations[n]) = tab
    PROVE  StoredOperations(tab, operations) = tab
<1> DEFINE after == RowsAfter(tab, operations)
           Differs == {n \in 0 .. Len(operations) : after[n] # tab}
<1>1. Differs = {}
  <2> SUFFICES ASSUME Differs # {} PROVE FALSE
    OBVIOUS
  <2>1. PICK n \in Differs : \A k \in Differs : n <= k
    <3>1. Differs \in SUBSET Nat
      OBVIOUS
    <3> HIDE DEF Differs
    <3> QED BY <3>1, Least
  <2>2. after[0] = tab
    BY RowsAfterSteps
  <2>3. n \in 1 .. Len(operations) /\ n - 1 \in 0 .. Len(operations) /\ ~ (n <= n - 1)
    BY <2>1, <2>2
  <2>4. after[n - 1] = tab
    BY <2>1, <2>3
  <2>5. after[n] = StoreOperation(after[n - 1], operations[n])
    BY <2>3, RowsAfterSteps
  <2> QED BY <2>1, <2>3, <2>4, <2>5
<1>2. Len(operations) \in 0 .. Len(operations)
  OBVIOUS
<1> HIDE DEF after
<1>3. after[Len(operations)] = tab
  BY <1>1, <1>2
<1> QED BY <1>3 DEF StoredOperations, after

-----------------------------------------------------------------------------
(***************************************************************************)
(* The two together.                                                       *)
(***************************************************************************)
ShipmentInvariant ==
    /\ StoreInvariant
    /\ SoundInvariant
    /\ \A pair \in kept : pair[2] \in SessionsOf(pair[1])

LEMMA ShipmentStep ==
    ASSUME ShipmentInvariant, [Next]_vars
    PROVE  ShipmentInvariant'
<1>1. StoreInvariant' /\ SoundInvariant'
  BY StoreStep, SoundStep DEF ShipmentInvariant
<1>2. ASSUME NEW r \in Request, Save(r)
      PROVE  \A pair \in kept' : pair[2] \in SessionsOf(pair[1])
  <2>1. kept' = kept \cup ({request[r].body} \X SessionsOf(request[r].body))
    BY <1>2 DEF Save
  <2> QED BY <2>1 DEF ShipmentInvariant
<1>3. ASSUME NEW session, Delete(session) PROVE kept' \subseteq kept
  BY <1>3 DEF Delete
<1>4. ASSUME NEW r \in Request, Arrive(r) \/ Normalise(r) \/ Refuse(r) \/ FailSave(r) \/ Accept(r)
      PROVE  kept' = kept
  BY <1>4 DEF Arrive, Normalise, Refuse, FailSave, Accept, Rejected, store
<1>5. ASSUME (\E f \in Files : Write(f)) \/ Crash \/ UNCHANGED vars
      PROVE  kept' = kept
  BY <1>5 DEF Write, Crash, vars, store
<1>6. \A pair \in kept' : pair[2] \in SessionsOf(pair[1])
  BY <1>2, <1>3, <1>4, <1>5 DEF Next, Handle, ShipmentInvariant
<1> QED BY <1>1, <1>6 DEF ShipmentInvariant

\* A body of which anything is kept was sound.
LEMMA KeptIsSound ==
    ASSUME NEW body \in Bodies, SessionsOf(body) # {}
    PROVE  Sound(body)
<1> SUFFICES ASSUME ~Sound(body) PROVE FALSE
  OBVIOUS
<1>1. Normalised(body) = [events |-> {}, operations |-> {}]
  BY DEF Normalised
<1>2. EventsOf(body) = {} /\ OperationsOf(body) = {}
  BY <1>1, EvidenceOf DEF EventsOf, OperationsOf
<1> QED BY <1>2 DEF SessionsOf

\* A superseded body: for each of its sessions one is kept that says as much.
LEMMA SaidLater ==
    ASSUME ShipmentInvariant, NEW body \in Bodies, Sound(body), Superseded(body),
           NEW session \in SessionsOf(body)
    PROVE  \E later \in Bodies :
            /\ <<later, session>> \in kept
            /\ \A e \in EventsOf(body) : \E f \in EventsOf(later) : f.id = e.id
            /\ \A o \in OperationsOf(body) : \E q \in OperationsOf(later) :
                    SameOperation(q, o) /\ Covers(q, o)
<1>1. PICK later \in Bodies :
        /\ <<later, session>> \in kept /\ later.source = body.source
        /\ \/ later.count = body.count
           \/ later.count > body.count /\ Route[body.source] = "transcript"
  BY DEF Superseded
<1>2. session \in SessionsOf(later)
  BY <1>1 DEF ShipmentInvariant
<1>3. Sound(later)
  BY <1>2, KeptIsSound
<1>4. CASE later.count = body.count
  <2>1. ~later.torn /\ ~body.torn
    BY <1>3, SoundIsWhole
  <2>2. PICK s \in Source : body \in [source : {s}, count : 0 .. Len(Text[s]), torn : BOOLEAN]
    BY DEF Bodies
  <2>3. PICK t \in Source : later \in [source : {t}, count : 0 .. Len(Text[t]), torn : BOOLEAN]
    BY DEF Bodies
  <2>4. later = body
    BY <1>1, <1>4, <2>1, <2>2, <2>3
  <2> QED BY <1>1, <2>4, CoversItself DEF SameOperation
<1>5. CASE later.count > body.count /\ Route[body.source] = "transcript"
  <2>1. body.count \in Nat /\ later.count \in Nat
    BY DEF Bodies
  <2>2. body.count <= later.count
    BY <1>5, <2>1
  <2> QED BY <1>1, <1>3, <1>5, <2>2, TranscriptGrows
<1> QED BY <1>1, <1>4, <1>5

\* The row of an operation one of whose bodies is kept.
LEMMA KeptRow ==
    ASSUME ShipmentInvariant, NEW pair \in kept, NEW q \in OperationsOf(pair[1]),
           q.session = pair[2]
    PROVE  \E p \in rows : SameOperation(p, q) /\ Covers(p, q) /\ IsPlain(p)
<1> DEFINE seen == ObservedIn(kept)
<1>1. q \in seen
  BY DEF ObservedIn
<1>2. \A o \in seen : IsPlain(o)
  BY Columns DEF ObservedIn, ShipmentInvariant, StoreInvariant, IsPlain
<1>3. AreUnions(rows, seen)
  BY DEF ShipmentInvariant, StoreInvariant
<1> HIDE DEF seen
<1>4. PICK p \in rows : SameOperation(q, p)
  BY <1>1, <1>3 DEF AreUnions
<1>5. IsUnionOf(p, Of(p, seen))
  BY <1>3 DEF AreUnions
<1>6. Covers(p, q)
  BY <1>1, <1>4, <1>5 DEF IsUnionOf, Of
<1>7. PICK a \in Of(p, seen) : a["outcome"] = p["outcome"]
  BY <1>5 DEF IsUnionOf
<1>8. PICK b \in Of(p, seen) : b["category"] = p["category"]
  BY <1>5 DEF IsUnionOf
<1>9. a.outcome = p.outcome /\ b.category = p.category
  BY <1>7, <1>8
<1>10. IsPlain(p)
  BY <1>2, <1>9 DEF IsPlain, Of
<1> QED BY <1>4, <1>6, <1>10 DEF SameOperation

\* A transcript that was shipped early and arrives late, and any body that is
\* repeated, changes no event and no row, whatever other bodies have said of the
\* same calls and in whatever order they were saved.
THEOREM LateShipmentIsSilentCorrect == Spec => LateShipmentIsSilent
<1>1. ASSUME ShipmentInvariant, [Next]_vars, NEW r \in Request,
             request[r].step = "saving", request'[r].step = "saved",
             Superseded(request[r].body)
      PROVE  UNCHANGED <<events, rows>>
  <2> DEFINE body == request[r].body
  <2>1. body \in Bodies /\ Save(r)
    <3>1. request'[r] # request[r]
      BY <1>1
    <3>2. ~Normalise(r)
      BY <1>1 DEF Normalise
    <3> QED BY <1>1, <3>1, <3>2, OnTheWay DEF ShipmentInvariant, SoundInvariant
  <2>2. Sound(body) /\ Superseded(body)
    BY <1>1 DEF ShipmentInvariant, SoundInvariant
  <2>3. /\ events' = events \cup {n \in EventsOf(body) : \A e \in events : e.id # n.id}
        /\ rows' = StoredOperations(rows, SetToSeq(OperationsOf(body)))
    BY <2>1 DEF Save, StoreEvents, StoreOperations
  <2> HIDE DEF body
  <2>4. ASSUME NEW e \in EventsOf(body) PROVE \E g \in events : g.id = e.id
    <3>1. e.session \in SessionsOf(body)
      BY <2>4 DEF SessionsOf
    <3>2. PICK later \in Bodies :
            /\ <<later, e.session>> \in kept
            /\ \A x \in EventsOf(body) : \E f \in EventsOf(later) : f.id = x.id
      BY <1>1, <2>1, <2>2, <3>1, SaidLater
    <3>3. PICK f \in EventsOf(later) : f.id = e.id
      BY <2>4, <3>2
    <3>4. f.session = e.session
      BY <2>1, <2>4, <3>3, IdentifiersAssumption
    <3> DEFINE pair == <<later, e.session>>
    <3>5. pair \in kept /\ pair[1] = later /\ pair[2] = e.session
      BY <3>2
    <3> HIDE DEF pair
    <3>6. IF IsCall(f) THEN \E g \in events : g.id = f.id ELSE f \in events
      BY <1>1, <3>3, <3>4, <3>5 DEF ShipmentInvariant, StoreInvariant, EventsAreKept
    <3> QED BY <3>3, <3>6
  <2>5. ASSUME NEW o \in OperationsOf(body) PROVE StoreOperation(rows, o) = rows
    <3>1. o.session \in SessionsOf(body)
      BY <2>5 DEF SessionsOf
    <3>2. PICK later \in Bodies :
            /\ <<later, o.session>> \in kept
            /\ \A x \in OperationsOf(body) : \E q \in OperationsOf(later) :
                    SameOperation(q, x) /\ Covers(q, x)
      BY <1>1, <2>1, <2>2, <3>1, SaidLater
    <3>3. PICK q \in OperationsOf(later) : SameOperation(q, o) /\ Covers(q, o)
      BY <2>5, <3>2
    <3> DEFINE pair == <<later, o.session>>
    <3>4. pair \in kept /\ pair[1] = later /\ pair[2] = o.session
      BY <3>2
    <3> HIDE DEF pair
    <3>5. PICK p \in rows : SameOperation(p, q) /\ Covers(p, q) /\ IsPlain(p)
      BY <1>1, <3>3, <3>4, KeptRow DEF SameOperation
    <3>6. Covers(p, o) /\ SameOperation(p, o)
      BY <3>3, <3>5, CoversTransitive DEF SameOperation
    <3>7. IsPlain(o)
      BY <2>1, <2>5, Columns DEF IsPlain
    <3>8. AreRows(rows)
      BY <1>1 DEF ShipmentInvariant, StoreInvariant
    <3> QED BY <3>5, <3>6, <3>7, <3>8, CoveredObservation
  <2>6. events' = events
    BY <2>3, <2>4
  <2> DEFINE operations == SetToSeq(OperationsOf(body))
  <2>7. /\ Len(operations) \in Nat
        /\ {operations[n] : n \in 1 .. Len(operations)} = OperationsOf(body)
    BY <2>1, OperationsAssumption, Sequenced
  <2>8. rows' = StoredOperations(rows, operations)
    BY <2>3
  <2> HIDE DEF operations
  <2>9. \A n \in 1 .. Len(operations) : StoreOperation(rows, operations[n]) = rows
    BY <2>5, <2>7
  <2>10. rows' = rows
    BY <2>7, <2>8, <2>9, SilentOperations
  <2> QED BY <2>6, <2>10
<1>2. Init => ShipmentInvariant
  <2>1. Init => SoundInvariant
    BY RequestsInitially DEF Init, SoundInvariant, Idle
  <2>2. Init => kept = {}
    BY DEF Init
  <2> QED BY <2>1, <2>2, StoreInitially DEF ShipmentInvariant
<1>3. ShipmentInvariant /\ [Next]_vars => ShipmentInvariant'
  BY ShipmentStep
<1>4. ShipmentInvariant /\ [Next]_vars =>
        [\A r \in Request :
            (/\ request[r].step = "saving" /\ request'[r].step = "saved"
             /\ Superseded(request[r].body))
                => UNCHANGED <<events, rows>>]_vars
  BY <1>1
<1> QED BY <1>2, <1>3, <1>4, PTL DEF Spec, LateShipmentIsSilent

=============================================================================
