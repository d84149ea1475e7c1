-------------------------------- MODULE Ingest --------------------------------
(***************************************************************************)
(* The push routes (api/otlp.go, transcript_import.go,                     *)
(* codex_rollout_import.go, cursor_agent_ingest.go) and those who use them:*)
(* exporters that repeat their payloads, and hooks that ship a file again  *)
(* while its session still writes it, several of them at once.             *)
(*                                                                         *)
(* A request is decoded, normalised and saved in one transaction, whose    *)
(* statements are in Repository; here it is one step.  An event is stored  *)
(* as the first body with its identifier has it (INSERT OR IGNORE); the    *)
(* rows of operations are merged (OperationEvidence).                      *)
(***************************************************************************)
EXTENDS OperationEvidence, ClaudeTranscript, FiniteSets, SequencesExt

CR == INSTANCE CodexRollout

CONSTANTS
    Source,         \* files, OTLP payloads and reports of the Cursor agent
    Route,          \* [Source -> the route it is sent to]
    Text,           \* [Source -> its lines once complete, or its resources]
    Request,        \* requests the server handles at one time
    MaxArrivals,    \* bound on requests since the daemon started
    MaxCrashes      \* bound on deaths of the daemon

Files == {f \in Source : Route[f] \in {"transcript", "rollout"}}

VARIABLES
    written,    \* [Files -> number of lines written so far]
    request,    \* [Request -> its body and how far it is]
    events,     \* the events table
    rows,       \* the operations table
    accepted,   \* the counters, shared by the routes that have them
    rejected,
    arrived,    \* requests of those routes since the daemon started
    crashes,
    kept        \* pairs of a body that was saved and a session of its, not
                \* deleted since

store == <<events, rows, kept>>
counters == <<accepted, rejected, arrived>>
vars == <<written, request, store, counters, crashes>>

Idle == [step |-> "idle"]

-----------------------------------------------------------------------------
(***************************************************************************)
(* Bodies: the first lines of a file and perhaps a part of the next one,   *)
(* or a whole payload, perhaps cut off on its way.                         *)
(***************************************************************************)
Bodies ==
    UNION {[source : {s}, count : 0 .. Len(Text[s]), torn : BOOLEAN] : s \in Source}

Lines(body) ==
    SubSeq(Text[body.source], 1, body.count)
        \o IF body.torn THEN << [type |-> "torn"] >> ELSE << >>

\* The adapters of a signal that make events, and those that make operations.
EventAdapters(route) ==
    IF route = "traces" THEN {"codex", "claude"} ELSE {"codex", "claude", "cursor"}

OperationAdapters(route) == IF route = "logs" THEN {"codex", "claude"} ELSE {}

\* The resources of a payload an adapter takes; those of other tools are passed
\* over by every one.
TakenBy(adapters, body) ==
    {resource \in Range(Text[body.source]) : resource.tool \in adapters}

\* Those it can make something of.
MadeOf(adapters, body) == {resource \in TakenBy(adapters, body) : resource.sound}

\* Mutant: an adapter that fails contributes nothing, the others go on.
PayloadSoundAlone(body) == ~body.torn

\* One JSON value with resources, none of which its adapter fails on.
PayloadSound(body) ==
    /\ ~body.torn
    /\ Text[body.source] # << >>
    /\ \A resource \in TakenBy(EventAdapters(Route[body.source]), body) : resource.sound

\* The body gets past the decoder, the adapters and the validation.
Sound(body) ==
    CASE Route[body.source] = "transcript" -> TranscriptSound(Lines(body))
      [] Route[body.source] = "rollout" -> CR!RolloutSound(Lines(body))
      [] OTHER -> PayloadSound(body)

\* What a body is normalised to, nothing if it is not sound.
Normalised(body) ==
    IF ~Sound(body) THEN [events |-> {}, operations |-> {}]
    ELSE CASE Route[body.source] = "transcript" ->
                [events |-> TranscriptEvents(Lines(body)),
                 operations |-> TranscriptOperations(Lines(body))]
           [] Route[body.source] = "rollout" ->
                [events |-> CR!RolloutEvents(Lines(body)),
                 operations |-> CR!RolloutOperations(Lines(body))]
           [] OTHER ->
                [events |-> UNION {resource.events : resource \in
                                MadeOf(EventAdapters(Route[body.source]), body)},
                 operations |-> UNION {resource.operations : resource \in
                                MadeOf(OperationAdapters(Route[body.source]), body)}]

\* Each body and what it is normalised to (the choice is of the only element of
\* the set; comparing it makes TLC keep its values).
Evidence == CHOOSE table \in {[body \in Bodies |-> Normalised(body)]} : table = table

EventsOf(body) == Evidence[body].events
OperationsOf(body) == Evidence[body].operations

SessionsOf(body) == {x.session : x \in EventsOf(body) \cup OperationsOf(body)}

IsCall(e) == e.type \in {"tool_call", "mcp_call"}

ASSUME SourceAssumption ==
    \A source \in Source : Text[source] \in Seq(Range(Text[source]))

ASSUME RequestAssumption == IsFiniteSet(Request)

\* What the adapters make: operations as the merge reads them, in which what is
\* not known is "unknown".
ASSUME OperationsAssumption ==
    \A body \in Bodies :
        /\ IsFiniteSet(OperationsOf(body))
        /\ \A o \in OperationsOf(body) :
            /\ IsOperation(o)
            /\ \A column \in {"outcome", "category"} : o[column] \in Unset => o[column] = "unknown"

\* A tool use has an identifier of its own, and one result.
ASSUME TranscriptAssumption ==
    \A source \in Source : Route[source] = "transcript" =>
        /\ UsedOnce(Text[source])
        /\ \A i \in DOMAIN Text[source] : Text[source][i].at \in Nat

\* An identifier belongs to one session, which is part of it.  It names one event
\* of a body; in another body the same event, or the same call, of which the
\* longer file may tell more.
ASSUME IdentifiersAssumption ==
    \A body, other \in Bodies : \A e \in EventsOf(body), f \in EventsOf(other) :
        e.id = f.id =>
            /\ e.session = f.session
            /\ e = f \/ (body # other /\ IsCall(e))

\* The Cursor agent route leaves the counters alone.
Counted(body) == Route[body.source] # "cursor-agent"

-----------------------------------------------------------------------------
TypeOK ==
    /\ written \in [Files -> Nat]
    /\ \A r \in Request :
        \/ request[r] = Idle
        \/ /\ request[r].step \in {"reading", "saving", "saved"}
           /\ request[r].body \in Bodies
    /\ \A e, f \in events : e.id = f.id => e = f
    /\ \A p, q \in rows : SameOperation(p, q) => p = q
    /\ accepted \in Nat /\ rejected \in Nat /\ arrived \in Nat /\ crashes \in Nat
    /\ \A pair \in kept : pair[1] \in Bodies

Init ==
    /\ written = [f \in Files |-> 0]
    /\ request = [r \in Request |-> Idle]
    /\ events = {} /\ rows = {} /\ kept = {}
    /\ accepted = 0 /\ rejected = 0 /\ arrived = 0 /\ crashes = 0

\* The session writes its next line.
Write(f) ==
    /\ written[f] < Len(Text[f])
    /\ written' = [written EXCEPT ![f] = @ + 1]
    /\ UNCHANGED <<request, store, counters, crashes>>

\* What can be sent now: a file as it is, its next line perhaps half written,
\* or a payload, perhaps cut off on its way.
Sendable ==
    {body \in Bodies :
        IF body.source \in Files
        THEN /\ body.count = written[body.source]
             /\ body.torn => body.count < Len(Text[body.source])
        ELSE body.count = Len(Text[body.source])}

Arrive(r) ==
    /\ request[r] = Idle
    /\ arrived < MaxArrivals
    /\ \E body \in Sendable :
        /\ request' = [request EXCEPT ![r] = [step |-> "reading", body |-> body]]
        /\ arrived' = IF Counted(body) THEN arrived + 1 ELSE arrived
    /\ UNCHANGED <<written, store, accepted, rejected, crashes>>

\* reject, and writeCursorIngestError, which counts nothing: the request ends.
Rejected(r) ==
    /\ rejected' = IF Counted(request[r].body) THEN rejected + 1 ELSE rejected
    /\ request' = [request EXCEPT ![r] = Idle]
    /\ UNCHANGED <<written, store, accepted, arrived, crashes>>

\* Content type, size, encoding, or a body that cannot be read.
Refuse(r) ==
    /\ request[r].step = "reading"
    /\ Rejected(r)

\* Such a body is accepted without a transaction.
NothingToSave(body) ==
    /\ Route[body.source] # "rollout"
    /\ EventsOf(body) = {} /\ OperationsOf(body) = {}

Normalise(r) ==
    LET body == request[r].body
    IN  /\ request[r].step = "reading"
        /\ \/ ~Sound(body) /\ Rejected(r)
           \/ /\ Sound(body)
              /\ request' = [request EXCEPT ![r].step =
                                IF NothingToSave(body) THEN "saved" ELSE "saving"]
              /\ UNCHANGED <<written, store, counters, crashes>>

-----------------------------------------------------------------------------
\* Mutant: INSERT OR REPLACE.
StoreEventsReplacing(new) ==
    {e \in events : \A n \in new : n.id # e.id} \cup new

\* Mutant: a batch with a known identifier counts as a replay.
StoreEventsUnlessKnown(new) ==
    IF \E n \in new, e \in events : n.id = e.id THEN events ELSE events \cup new

\* INSERT OR IGNORE.
StoreEvents(new) == events \cup {n \in new : \A e \in events : e.id # n.id}

\* The operations of one body have identifiers of their own: their order is
\* that of no two observations of one row.
StoreOperations(new) == StoredOperations(rows, SetToSeq(new))

\* SaveEvents or SaveEventsAndOperations, committed.
Save(r) ==
    LET body == request[r].body
    IN  /\ request[r].step = "saving"
        /\ events' = StoreEvents(EventsOf(body))
        /\ rows' = StoreOperations(OperationsOf(body))
        /\ kept' = kept \cup ({body} \X SessionsOf(body))
        /\ request' = [request EXCEPT ![r].step = "saved"]
        /\ UNCHANGED <<written, counters, crashes>>

\* Mutant: a failed request is counted by its caller too.
FailSaveTwice(r) ==
    /\ request[r].step = "saving"
    /\ rejected' = rejected + 2
    /\ request' = [request EXCEPT ![r] = Idle]
    /\ UNCHANGED <<written, store, accepted, arrived, crashes>>

\* A statement fails, or the client is gone and its context with it.
FailSave(r) ==
    /\ request[r].step = "saving"
    /\ Rejected(r)

Accept(r) ==
    /\ request[r].step = "saved"
    /\ accepted' = IF Counted(request[r].body) THEN accepted + 1 ELSE accepted
    /\ request' = [request EXCEPT ![r] = Idle]
    /\ UNCHANGED <<written, store, rejected, arrived, crashes>>

\* The daemon dies and is started again: what was under way has no answer, and
\* the counters start from zero.
Crash ==
    /\ crashes < MaxCrashes
    /\ crashes' = crashes + 1
    /\ request' = [r \in Request |-> Idle]
    /\ accepted' = 0 /\ rejected' = 0 /\ arrived' = 0
    /\ UNCHANGED <<written, store>>

\* DeleteSession, or its retention.
Delete(session) ==
    /\ events' = {e \in events : e.session # session}
    /\ rows' = {p \in rows : p.session # session}
    /\ kept' = {pair \in kept : pair[2] # session}
    /\ UNCHANGED <<written, request, counters, crashes>>

Handle(r) == Normalise(r) \/ Refuse(r) \/ Save(r) \/ FailSave(r) \/ Accept(r)

Next ==
    \/ \E f \in Files : Write(f)
    \/ \E r \in Request : Arrive(r) \/ Handle(r)
    \/ Crash
    \/ \E session \in {x.session : x \in events \cup rows} : Delete(session)

Spec == Init /\ [][Next]_vars

-----------------------------------------------------------------------------
(***************************************************************************)
(* Properties.                                                             *)
(***************************************************************************)
\* What a saved body proves stays until its session is deleted, whatever other
\* bodies with the same identifiers were saved before and after: each event,
\* messages and raw records as the body has them, and a row for each operation.
SavedIsKept ==
    \A pair \in kept :
        /\ \A e \in EventsOf(pair[1]) : e.session = pair[2] =>
            IF IsCall(e) THEN \E f \in events : f.id = e.id ELSE e \in events
        /\ \A o \in OperationsOf(pair[1]) : o.session = pair[2] =>
            \E p \in rows : SameOperation(p, o)

\* The observations in the bodies kept, and those of a row.
Seen == UNION {{o \in OperationsOf(pair[1]) : o.session = pair[2]} : pair \in kept}

SeenOf(p) == {o \in Seen : SameOperation(o, p)}

\* One row for each operation, with nothing else in it than its observations
\* prove, whichever routes they came by and in whatever order: its outcome, its
\* category and its provenance are those of one of them, and so is each path.
EvidenceIsUnion ==
    /\ \A p, q \in rows : SameOperation(p, q) => p = q
    /\ \A p \in rows : IsUnionOf(p, SeenOf(p))

\* What a body says to whoever knows the tools it is from.
Said(body) ==
    IF body.source \in Files THEN EventsOf(body)
    ELSE UNION {resource.events : resource \in
                    TakenBy(EventAdapters(Route[body.source]), body)}

\* "A malformed resource never lets half a mixed batch persist", and a line
\* half written none of its file: a request that will be answered with success
\* has all its body says in the table, and its body was not cut off.
StoredAsAWhole ==
    [][\A r \in Request :
        (request[r].step # "saved" /\ request'[r].step = "saved") =>
            /\ ~request[r].body.torn
            /\ {e.id : e \in Said(request[r].body)} \subseteq {e.id : e \in events'}]_vars

\* A body of the same file or payload that says at least as much as this one,
\* and is kept.  A longer rollout may have other calls than a shorter one.
Superseded(body) ==
    \A session \in SessionsOf(body) : \E later \in Bodies :
        /\ <<later, session>> \in kept /\ later.source = body.source
        /\ \/ later.count = body.count
           \/ later.count > body.count /\ Route[body.source] = "transcript"

\* A transcript that was shipped early and arrives late, and any repeated body,
\* changes nothing: no event appears, no outcome or evidence is taken back.
LateShipmentIsSilent ==
    [][\A r \in Request :
        (/\ request[r].step = "saving" /\ request'[r].step = "saved"
         /\ Superseded(request[r].body))
            => UNCHANGED <<events, rows>>]_vars

\* The counters are "one consistent ingest tally" of the routes that share them:
\* each request that arrived is counted once, when it ends and not before,
\* whichever way it ends.
TallyIsExact ==
    accepted + rejected
        + Cardinality({r \in Request : request[r] # Idle /\ Counted(request[r].body)})
    = arrived

\* "A later complete ship of the same transcript fills gaps": once the whole
\* file is kept, its events are stored with everything they can tell.
FillsGaps ==
    \A pair \in kept : LET body == pair[1] session == pair[2] IN
        (Route[body.source] = "transcript" /\ body.count = Len(Text[body.source])) =>
            \A e \in EventsOf(body) : e.session = session =>
                \E f \in events : f.id = e.id /\ e.facts \subseteq f.facts

\* "When completed-item evidence is present, legacy wrapper records remain raw
\* observations but are not separately counted as operations."
LegacyNotCounted ==
    \A pair \in kept : LET body == pair[1] IN
        (Route[body.source] = "rollout" /\ CR!HasItems(Lines(body))) =>
            \A p \in rows, line \in Range(Lines(body)) :
                CR!IsLegacyCall(line) /\ p.operation = CR!OperationId(Lines(body), line)
                    => \E o \in OperationsOf(body) : SameOperation(p, o)
=============================================================================
