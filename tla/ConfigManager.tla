---------------------------- MODULE ConfigManager ----------------------------
(***************************************************************************)
(* The live configuration (internal/config): one YAML file, a copy of it   *)
(* in memory behind a lock, and dashboard requests that replace one policy *)
(* list each.  A save writes a temporary file, syncs it, renames it over   *)
(* the configuration and then publishes the copy.  Any of these steps can  *)
(* fail, the process can die between them, and so can the machine: a       *)
(* rename whose directory was not synced may then be lost, and so may the  *)
(* contents of a file that was not synced itself.  An operator may edit    *)
(* the file at any time.                                                   *)
(***************************************************************************)
EXTENDS Naturals, Sequences, FiniteSets

CONSTANTS
    Request,      \* dashboard requests that can be in flight
    Policy,       \* the lists a request can replace
    Entry,        \* entries of lists: [fold : Nat, text : Nat]
    Draft,        \* the lists requests send and operators write
    MaxEntries,   \* the longest list Validate accepts, 100 in the code
    MaxFaults     \* bound on failures, crashes and edits

ASSUME PolicyAssumption == Policy = {"mcp", "skills", "paths", "keywords"}
ASSUME EntryAssumption == Entry \subseteq [fold : Nat, text : Nat]
ASSUME DraftAssumption == Draft \subseteq Seq(Entry)
ASSUME BoundsAssumption == MaxEntries \in Nat /\ MaxFaults \in Nat

Nobody == "nobody"
ASSUME NobodyAssumption == Nobody \notin Request

Config == [Policy -> Seq(Entry)]

Default == [p \in Policy |-> <<>>]

IsBlank(entry) == entry.fold = 0

\* validateGovernance, ValidatePathRules, ValidatePromptKeywords.
ValidPolicy(p, list) ==
    /\ \A i \in DOMAIN list : ~IsBlank(list[i])
    /\ p # "mcp" => Len(list) <= MaxEntries
    /\ p = "keywords" => \A i, j \in DOMAIN list : list[i].text = list[j].text => i = j

Validate(config) == \A p \in Policy : ValidPolicy(p, config[p])

\* normalizedAllowlist: of entries that fold to one name the first stays, and
\* the list is sorted by folded name.
normalizedAllowlist(list) ==
    LET kept == {list[i] : i \in {j \in DOMAIN list :
                    \A k \in 1 .. j - 1 : list[k].fold # list[j].fold}}
        places == 1 .. Cardinality(kept)
    IN  CHOOSE sorted \in [places -> kept] :
            \A i, j \in places : i < j => sorted[i].fold < sorted[j].fold

Stored(p, list) == IF p = "mcp" THEN normalizedAllowlist(list) ELSE list

\* What can be at the path: a configuration, nothing, or bytes that are none.
Content == [kind : {"config", "missing", "unusable"}, config : Config]

Saved(config) == [kind |-> "config", config |-> config]
Missing == [kind |-> "missing", config |-> Default]
Unusable == [kind |-> "unusable", config |-> Default]

VARIABLES
    file,      \* what a reader of the path finds
    durable,   \* what it may find after the machine has failed
    memory,    \* m.cfg; meaningless while the daemon is down
    up,        \* the daemon serves
    lock,      \* the request that holds m.mu for writing
    pc,        \* where each request is
    draft,     \* the list each request sends, and the policy it replaces
    next,      \* the configuration it is about to save
    edited,    \* an operator changed the file after the daemon read or wrote it
    faults,    \* failures, crashes and edits so far
    named      \* TELEMETRYIQ_CONFIG names the file

vars == <<file, durable, memory, up, lock, pc, draft, next, edited, faults, named>>

Holding == {"locked", "written", "synced", "replaced"}

\* The types, and the one relation the lock stands for: the request that holds
\* it is the one inside a save.
TypeOK ==
    /\ file \in Content
    /\ durable \subseteq Content
    /\ memory \in Config
    /\ up \in BOOLEAN
    /\ lock \in Request \cup {Nobody}
    /\ pc \in [Request -> {"idle", "waiting", "done"} \cup Holding]
    /\ draft \in [Request -> [policy : Policy, list : Draft \cup {<<>>}]]
    /\ next \in [Request -> Config]
    /\ edited \in BOOLEAN
    /\ faults \in Nat
    /\ named \in BOOLEAN
    /\ \A r \in Request : pc[r] \in Holding <=> lock = r

NoDraft == [policy |-> "mcp", list |-> <<>>]

\* A named file exists; a managed one is created by the first save.
Init ==
    /\ named \in BOOLEAN
    /\ file = IF named THEN Saved(Default) ELSE Missing
    /\ durable = {file}
    /\ memory = Default
    /\ up = FALSE
    /\ lock = Nobody
    /\ pc = [r \in Request |-> "idle"]
    /\ draft = [r \in Request |-> NoDraft]
    /\ next = [r \in Request |-> Default]
    /\ edited = FALSE
    /\ faults = 0

-----------------------------------------------------------------------------
\* LoadFromEnv: an existing file has to load, a missing one means defaults
\* unless it was named.
Loaded == IF file.kind = "config" THEN file.config ELSE Default

CanLoad ==
    \/ file.kind = "config" /\ Validate(file.config)
    \/ file.kind = "missing" /\ ~named

Start ==
    /\ ~up
    /\ CanLoad
    /\ up' = TRUE
    /\ memory' = Loaded
    /\ edited' = FALSE
    /\ UNCHANGED <<file, durable, lock, pc, draft, next, faults, named>>

\* A dashboard request arrives, and waits for the lock.
Submit(r, policy, list) ==
    /\ up
    /\ pc[r] = "idle"
    /\ pc' = [pc EXCEPT ![r] = "waiting"]
    /\ draft' = [draft EXCEPT ![r] = [policy |-> policy, list |-> list]]
    /\ UNCHANGED <<file, durable, memory, up, lock, next, edited, faults, named>>

\* Mutant: the mutex is forgotten.
LockAnyway(r) ==
    /\ pc[r] = "waiting"
    /\ lock' = r
    /\ pc' = [pc EXCEPT ![r] = "locked"]
    /\ next' = [next EXCEPT ![r] =
                    [memory EXCEPT ![draft[r].policy] = Stored(draft[r].policy, draft[r].list)]]
    /\ UNCHANGED <<file, durable, memory, up, draft, edited, faults, named>>

\* Mutant: the copy is published before it is written.
LockAndPublish(r) ==
    /\ pc[r] = "waiting"
    /\ lock = Nobody
    /\ lock' = r
    /\ pc' = [pc EXCEPT ![r] = "locked"]
    /\ next' = [next EXCEPT ![r] =
                    [memory EXCEPT ![draft[r].policy] = Stored(draft[r].policy, draft[r].list)]]
    /\ memory' = next'[r]
    /\ UNCHANGED <<file, durable, up, draft, edited, faults, named>>

\* The lock, and a clone of the configuration with one list replaced.
Lock(r) ==
    /\ pc[r] = "waiting"
    /\ lock = Nobody
    /\ lock' = r
    /\ pc' = [pc EXCEPT ![r] = "locked"]
    /\ next' = [next EXCEPT ![r] =
                    [memory EXCEPT ![draft[r].policy] = Stored(draft[r].policy, draft[r].list)]]
    /\ UNCHANGED <<file, durable, memory, up, draft, edited, faults, named>>

\* Mutant: a return that does not release the lock.
RefuseLocked(r) ==
    /\ pc[r] = "locked"
    /\ ~Validate(next[r])
    /\ pc' = [pc EXCEPT ![r] = "done"]
    /\ draft' = [draft EXCEPT ![r] = NoDraft]
    /\ next' = [next EXCEPT ![r] = Default]
    /\ UNCHANGED <<file, durable, memory, up, lock, edited, faults, named>>

\* saveLocked returns before it has touched anything.
Refuse(r) ==
    /\ pc[r] = "locked"
    /\ ~Validate(next[r])
    /\ pc' = [pc EXCEPT ![r] = "done"]
    /\ lock' = Nobody
    /\ draft' = [draft EXCEPT ![r] = NoDraft]
    /\ next' = [next EXCEPT ![r] = Default]
    /\ UNCHANGED <<file, durable, memory, up, edited, faults, named>>

\* atomicWrite, up to tmp.Write: the directory and the temporary file.
WriteTemp(r) ==
    /\ pc[r] = "locked"
    /\ Validate(next[r])
    /\ pc' = [pc EXCEPT ![r] = "written"]
    /\ UNCHANGED <<file, durable, memory, up, lock, draft, next, edited, faults, named>>

SyncTemp(r) ==
    /\ pc[r] = "written"
    /\ pc' = [pc EXCEPT ![r] = "synced"]
    /\ UNCHANGED <<file, durable, memory, up, lock, draft, next, edited, faults, named>>

\* Mutant: the temporary file is not synced before the rename.
ReplaceUnsynced(r) ==
    /\ pc[r] \in {"written", "synced"}
    /\ pc' = [pc EXCEPT ![r] = "replaced"]
    /\ file' = Saved(next[r])
    /\ durable' = durable \cup {file', IF pc[r] = "synced" THEN file' ELSE Unusable}
    /\ edited' = FALSE
    /\ UNCHANGED <<memory, up, lock, draft, next, faults, named>>

\* os.Rename.  The directory is not synced, so a machine that fails may come
\* back with the old file, but the new one is whole.
Replace(r) ==
    /\ pc[r] = "synced"
    /\ pc' = [pc EXCEPT ![r] = "replaced"]
    /\ file' = Saved(next[r])
    /\ durable' = durable \cup {file'}
    /\ edited' = FALSE
    /\ UNCHANGED <<memory, up, lock, draft, next, faults, named>>

\* The new configuration is live, and the request is answered.
Publish(r) ==
    /\ pc[r] = "replaced"
    /\ memory' = next[r]
    /\ pc' = [pc EXCEPT ![r] = "done"]
    /\ lock' = Nobody
    /\ draft' = [draft EXCEPT ![r] = NoDraft]
    /\ next' = [next EXCEPT ![r] = Default]
    /\ UNCHANGED <<file, durable, up, edited, faults, named>>

\* Any call of atomicWrite fails, the rename included: the temporary file is
\* removed and the request is answered with the error.
FailSave(r) ==
    /\ faults < MaxFaults
    /\ pc[r] \in {"locked", "written", "synced"}
    /\ pc' = [pc EXCEPT ![r] = "done"]
    /\ lock' = Nobody
    /\ faults' = faults + 1
    /\ draft' = [draft EXCEPT ![r] = NoDraft]
    /\ next' = [next EXCEPT ![r] = Default]
    /\ UNCHANGED <<file, durable, memory, up, edited, named>>

-----------------------------------------------------------------------------
\* The requests of a process end with it.
Ended == [r \in Request |-> IF pc[r] = "idle" THEN "idle" ELSE "done"]

Crash ==
    /\ up
    /\ faults < MaxFaults
    /\ up' = FALSE
    /\ pc' = Ended
    /\ lock' = Nobody
    /\ faults' = faults + 1
    /\ draft' = [r \in Request |-> NoDraft]
    /\ next' = [r \in Request |-> Default]
    /\ UNCHANGED <<file, durable, memory, edited, named>>

\* The machine fails, with the daemon or without it.
PowerLoss ==
    /\ faults < MaxFaults
    /\ \E content \in durable : file' = content /\ durable' = {content}
    /\ up' = FALSE
    /\ pc' = Ended
    /\ lock' = Nobody
    /\ faults' = faults + 1
    /\ draft' = [r \in Request |-> NoDraft]
    /\ next' = [r \in Request |-> Default]
    /\ UNCHANGED <<memory, edited, named>>

\* The operating system writes the directory back.
WriteBack ==
    /\ durable # {file}
    /\ durable' = {file}
    /\ UNCHANGED <<file, memory, up, lock, pc, draft, next, edited, faults, named>>

\* An operator replaces a list by hand, with one that validates; it need not
\* be normalized.
OperatorEdit(policy, list) ==
    /\ faults < MaxFaults
    /\ ValidPolicy(policy, list)
    /\ file' = Saved([Loaded EXCEPT ![policy] = list])
    /\ durable' = {file'}
    /\ edited' = TRUE
    /\ faults' = faults + 1
    /\ UNCHANGED <<memory, up, lock, pc, draft, next, named>>

Work(r) == Refuse(r) \/ WriteTemp(r) \/ SyncTemp(r) \/ Replace(r) \/ Publish(r)

Next ==
    \/ Start \/ Crash \/ PowerLoss \/ WriteBack
    \/ \E r \in Request : Lock(r) \/ Work(r) \/ FailSave(r)
    \/ \E p \in Policy, list \in Draft :
            OperatorEdit(p, list) \/ (\E r \in Request : Submit(r, p, list))

Spec == Init /\ [][Next]_vars

\* A request that holds the lock executes; sync.RWMutex serves its waiters in
\* turn, so one that finds the lock free again and again gets it.
FairSpec == Spec /\ \A r \in Request : WF_vars(Work(r)) /\ SF_vars(Lock(r))

-----------------------------------------------------------------------------
(***************************************************************************)
(* Properties.                                                             *)
(***************************************************************************)
\* Whatever failed or died, and wherever, the daemon can start again from the
\* file: no save leaves a part of a configuration, or an invalid one, behind.
StartsAgain ==
    \A content \in durable \cup {file} :
        /\ content.kind = "config" => Validate(content.config)
        /\ content.kind = "missing" => ~named
        /\ content.kind # "unusable"

\* "A failed write leaves both disk and active policy unchanged" (README): the
\* live configuration is the one the file would load, except between the two
\* last steps of a save, and until an operator edits the file.
FileMatchesMemory ==
    (up /\ ~edited /\ \A r \in Request : pc[r] # "replaced") => memory = Loaded

\* Concurrent saves of different lists do not undo each other: a save that
\* ends well has changed no other list.
SavesDoNotMix ==
    [][\A r \in Request : (pc[r] = "replaced" /\ up') =>
            \A p \in Policy \ {draft[r].policy} : memory'[p] = memory[p]]_vars

\* A submitted request is answered, whatever the others do: no path through a
\* save keeps the lock.
SavesEnd == \A r \in Request : pc[r] = "waiting" ~> pc[r] = "done"
=============================================================================
