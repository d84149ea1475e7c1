# TelemetryIQ: specifications, model checking and proofs

TelemetryIQ is a local daemon. Coding agents (Codex, Claude Code, Cursor) send it
telemetry and transcripts over HTTP; provider adapters turn each payload into
*canonical events* and *operations*; one SQLite file keeps them and a set of
tables derived from them; an API and a server-rendered dashboard read those
tables. This directory specifies the parts of the daemon whose correctness
depends on order, failure and restarts, and the functions between a payload and
what a reader is shown of it; it checks small instances with TLC and proves the
central invariants with TLAPS.

## 1. The system

| Part | Code | State | Operations | What makes it correct |
|---|---|---|---|---|
| Repository | `internal/storage/sqlite` | six tables and one connection | SaveEvents, SaveOperations, SaveEventsAndOperations, DeleteSession, DeleteAllSessions, ApplyRetention, lists | a request is stored whole or not at all; derived tables are functions of the retained events; a cost is final |
| Daemon | `cmd/telemetryiq` | catalog and configuration read at start-up | start, hourly retention, stop | nothing is served before retention ran; an expired session goes |
| Operation merge | `sqlite.go`, saveOperationTx | one row per tool call | merge of a later observation | never loses or weakens evidence; a repeat changes nothing |
| Session view | reconstructSession, `insights/source_events.go`, `governance.ThinAccessEvents` | none (derived) | fold of a session's events | state and times are those of its history |
| Lineage | `normalize/codex/agent_relations.go`, `normalize/claude/subagent_relations.go` | none (derived) | reconstruct agent trees | independent of arrival order; ends on loops; one row per agent |
| Ingest routes | `internal/api/otlp.go`, `transcript_import.go`, `codex_rollout_import.go`, `cursor_agent_ingest.go` | counters | decode, correlate, save | a payload is counted once, on one outcome |
| Adapters | `internal/normalize/*` | none | conversion of logs, metrics, traces, transcripts, rollouts, agent reports | stable event identifiers, so that a retry is recognised; nothing present is called unavailable |
| Read API | `internal/api/sessions.go`, `events.go`, `insights*.go` | none | keyset pages, insight pages | a walk over pages neither repeats nor skips |
| Management | `internal/api/sessions.go`, `management.go` | none | delete one, delete all | an answer tells what happened |
| Configuration | `internal/config` | file and in-memory copy | save lists and rules | file and memory agree after any crash or failure |
| Token | `internal/auth` | one file | create, read | the daemon and its clients use one token |
| Signals | `sqlite/signals.go`, `insights/source_events.go`, `governance.ThinAccessEvents` | `insight_signals` | rebuilt per session with every ingest | a report over the signals is the report over the events |
| Insight engines | `internal/insights` | none | reports over signals | the latest state wins; a count counts once |
| Policies | `internal/governance` | none | verdicts over signals | a violation is neither missed nor taken back |
| Cost | `internal/cost`, `cost_summary.go` | price catalog | price an event, sum up | a request is priced once, by the closest price in force |
| Session views | `internal/conversation`, `spans`, `breakdown`, `agenttree`, `ui/session_trace.go` | none | projections of a session's events | show all of it, once, in order |
| UI | `internal/ui` | none | pages | renders the readers above; no state of its own |

Interactions. Every route ends in one call of the repository, which runs one
transaction on the only connection of the pool. The derived tables of a
transaction are rebuilt from the stored events inside it. The Codex trees are
rebuilt from the rollout events of *all* sessions, because a child's rollout is
a session of its own. Retention runs in the daemon, before it serves and then
every hour, with the number of days read at start-up.

What is hard here: rollouts of one tree arrive, are deleted and expire
independently; exporters re-deliver; one tool call is observed on two routes;
any statement can fail and the process can die in any transaction; the price
catalog changes between restarts; timestamps are compared as text. `PROJECT.json`
lists each of these hazards at its line with the properties that watch it.

## 2. Modules

| Module | Models |
|---|---|
| `Events` | the canonical event as storage sees it; the order in which SQLite returns rows; the order of timestamp texts |
| `SessionView` | `reconstructSession`, `lifecycle`, and which insight signals a session has |
| `CodexLineage` | `ReconstructAgentRelations`: threads, parents, roots, outcomes |
| `ClaudeLineage` | `ReconstructSubAgentRelations`: span views, spawn chains, rollups |
| `OperationEvidence` | `mergeOperationEvidence`, `deepMergeMaps`, `saveOperationTx` |
| `Repository` | the derived tables as functions of all stored events (the reference definition, which no code computes as a whole); the transactions, statement by statement, and the daemon around them |
| `RetainedStore` | the abstract store that `Repository` implements; what is derived from events and how a row of evidence is merged are its parameters |
| `Migrations` | `Open` and `migrate`: the base tables, then migrations 3 to 10, by one or more processes |
| `StartUp` | a daemon from its first statement to its port, composed with `Migrations`: the token file, `auth-token`, the unlocking of a browser |
| `ConfigManager` | the configuration file, its copy in memory, the four saves of the dashboard |
| `Paging` | a client that walks the pages of a list while the store changes |
| `Normalize` | `CorrelateEvents`, `CorrelateOperations` |
| `ClaudeTranscript` | a transcript as the import reads it: messages, tool calls put together from two lines |
| `CodexRollout` | a rollout as the import reads it: records, completed items, legacy calls |
| `Ingest` | the push routes, from the arrival of a body to its answer, and files that grow meanwhile |
| `ClaudeLogs`, `ClaudeMetrics`, `ClaudeTraces` | the three OTLP adapters of Claude Code, and the operations of its logs |
| `CodexLogs`, `CodexMetrics`, `CodexTraces` | those of Codex |
| `CursorTelemetry` | requests and token samples of Cursor's export, reports of its agent |
| `InsightEvents` | the event as the engines read it, with its attributes and extension namespaces; the shared helpers |
| `InsightSource` | `SourceEventsFromSession`, `ThinAccessEvents`: what a signal keeps of its event |
| `Insights` | skills, governance and integration states, MCP inventory, model scorecards, product metrics, context waste |
| `Policies` | risky access, path rules, prompt keywords, unapproved servers and skills |
| `Costs` | the choice of a price, the cost of an event, the summary |
| `Conversation`, `Breakdown` (with the spans it adds up), `SessionFiles`, `SessionTrace`, `AgentTree` | the projections of one session |
| `Inspection` | all of these put together: payloads in, reports, verdicts and views out |
| `MCRepository`, `MCConfigManager`, `MCPaging`, `MCIngest`, `MCInspection` | instances for TLC (`StartUp` needs none) |
| `RepositoryProofs`, `OperationEvidenceProofs`, `ConfigManagerProofs`, `IngestProofs`, `StartUpProofs`, `PagingProofs`, `InspectionProofs` | theorems |
| `Induction` | the least-number principle their inductions use, and what follows of finite sets, folds and walks in a graph |

Definitions whose comment begins with "Mutant:" are plausible wrong versions of
the definition that follows them. They are used by nothing; they
show that a property can fail.

### Repository and the code

`db` holds the committed tables, `work` the tables as the open transaction sees
them, `tx` what that transaction still has to do. The pool has one connection
(`SetMaxOpenConns(1)`), so one transaction is open at most, and `Begin` is the
moment it gets the connection.

| Action | Code |
|---|---|
| `BeginSave`, `SaveEvent`, `RebuildSession`, `RebuildCodexAgentRelations`, `SaveOperation`, `Commit` | `SaveEventsAndOperations`: the loops of `saveEventsTx` and `saveOperationsTx`. The map of touched sessions is visited in any order. A request of `SaveOperations` is a batch without events |
| `BeginDelete`, `DeleteSessionRows`, `RebuildCodexAgentRelations`, `Commit` | `DeleteSession`, for any identifier, stored or not |
| `PlanRetention`, `BeginRetention`, ... | `ApplyRetention`: the clock is read (`due` is the cutoff), then the run waits for the connection, then it selects the sessions; `tx.cutoff` is its cutoff, `tx.victims` the sessions it selected |
| `BeginDeleteAll`, `Commit` | `DeleteAllSessions` |
| `Rollback` | any statement or the commit fails, or the request's context ends: the deferred `Rollback` |
| `Crash`, `Start`, `Tick` | the process dies; it starts again with any catalog and window; time passes |

Abstractions. An event identifier is the rank of its text; an instant a number
of ticks. What nothing but a payload depends on (token sums, durations, names,
pull-request links) is left out. A cost is the identity of its event and of the
catalog that priced it. An operation's nested extension maps are functions from
leaf paths to values. A repository opened without a catalog (`Open` allows it) has
`calculator = ""`.

Assumptions of `Repository`, each checked by TLC in the runs: events are records of the stated
shape; a session with a Claude Code event has events of no other tool, because
session identifiers begin with the tool's prefix
(`normalize/claude/normalizer.go`, `normalize.ProviderNativeSessionID`); a
second has at most ten ticks, the resolution at which `TextRank` is the order of
one decimal digit.

### Migrations and the code

The schema is a set of names: a table, or the columns that one migration adds.
`valued` says for each computed column which sessions have it filled in every
row. The base tables are autocommitted statements (`CreateTable`,
`RecordBase`); from migration 3 on a process first asks, outside any
transaction, whether there is something to do (`Inspect`: `eventsHasProvenance`
or `migrationApplied`; 4 and 5 do not ask) and then runs one transaction
(`Apply`) or passes on (`Skip`). `Stop` is a failed statement, a port that is
taken, or death; an open process ingests. Migrations 7, 8 and 10 call
`rebuildSession` for every session, so `Needed` is what that function writes to.
They rebuild the relations of Claude Code sessions only: the Codex trees of an
old file stay as they were until the next rollout is saved.

Any number of processes can be at any of these steps on any file. Migration 3
copies `events` into a table of its first shape. Two processes that open a
version-2 file can both find the provenance column (`sqlite.go:228`) before either
starts its transaction (235); the second one then copies `events` again, after the
first has added the columns of migrations 7 and 9 and recorded those versions. The
versions stay recorded, the columns are gone: `lost` is the set of columns this has
happened to, and `met` says that two processes were up while events carried
provenance. The code has neither variable. `RecordedIsApplied` and
`ServesCurrentSchema` say that nothing but lost columns is ever missing, and nothing
is lost without `met`; `LossIsFinal` says that a lost column stays lost, whoever
starts later. This is one of the findings.

### StartUp and the code

`StartUp` puts the lines of `main` around `Migrations`: `LoadToken` is the
reading half of `auth.LoadOrCreate`, `OpenTokenFile` and `WriteToken` are the two
halves of its `os.WriteFile`, `OpenDatabase` any step of `Migrations`, `Listen` and
`FindPortTaken` the two outcomes of `ListenAndServe`. A process dies at any of
them (`Die`). `Unlock` is `auth-token` followed by `POST /unlock`, for a token that
is accepted; a rejected one changes nothing. Tokens are numbers, a new one is one
that is nowhere else; `stage` and `pc` together are where a process is.

`OneTokenForAll` holds but for two ways out of it, which it names. `raced`: two
processes that find no file at the same time each write one, and the one that gets
the port may be the one whose token was overwritten, so that `auth-token` prints
what the daemon rejects until it is restarted. `cut`: a process that dies between
the opening of the file and the writing of it leaves an empty file, and every
later start ends with "local authentication token is empty" until somebody
removes it. Nothing else leads there, in particular no restart, no failed
migration and no second process that comes once the file is there. The code
prevents neither and promises nothing about them, so the property names them and does
not judge them.

### ConfigManager and the code

A save takes the lock and clones the configuration with one list replaced
(`Lock`), validates it (`Refuse`), then writes a temporary file (`WriteTemp`),
syncs and closes it (`SyncTemp`), renames it (`Replace`) and publishes the copy
(`Publish`). `durable` is what a reader could find after the machine failed:
after a rename whose directory is not synced, the old file or the new one. A
dying process leaves the file as it is. An entry of a list is its folded name
and its spelling, so that `normalizedAllowlist` can keep the first spelling.
The length limit is 2 instead of 100; YAML is a faithful encoding here.

### Paging and the code

A walk is the sequence of requests by which a client reads a list to its end.
`RequireSession` is the look-up with which a request on one session begins.
Sessions and events are paged by key (`AfterKey`) in one statement
(`ShowByKey`). Conversation records and spans are computed from all events of
the session, which are read in parts (`ReadPart`, one statement each, no
transaction around them), and paged by the position of the row the cursor names
(`BehindCursor`): when it is gone the conversation starts over, the span list
refuses. File evidence is paged as the conversation is and is not modelled on
its own: whether an event is a row there can depend on operations. The dashboard
pages the conversation as well, but reads fewer event types from the second page
on (`Wanted`). Ingest and deletion are the committed steps of `Repository`; one
ingest adds one event here, which is more interleaving than the code has.
`steady` is what has been stored since the walk began; the code has no such
variable.

### Ingest and the code

A *source* is a session file, an OTLP payload or a report of the Cursor agent; a
*body* is what is sent of it: the lines a file has at that moment, its last one
perhaps half written, or a payload, perhaps cut off. A request is `reading` until
its adapters ran, `saving` until its transaction ended, `saved` until it is
answered; other requests run between these steps, so a body is normalised long
before it is stored, and the order of shipping need not be that of saving.

| Action | Code |
|---|---|
| `Write` | the agent appends a line to its file |
| `Arrive`, `Refuse` | a request, and its end before any adapter: media type, size, encoding, a body that cannot be read |
| `Normalise` | the adapters of the route, with a refusal of the whole body, or with nothing to save (`len(events) == 0`, not asked of a rollout) |
| `Save`, `FailSave` | `SaveEvents` or `SaveEventsAndOperations`, whose statements are in `Repository` |
| `Accept` | the counter and the answer |
| `Crash`, `Delete` | the daemon dies, counters and requests with it; a session is deleted or expires |

`TranscriptEvents`, `RolloutEvents` and their operations are functions of the
lines. An event carries `facts`: what it can tell a reader (prompt, links,
records); of other attributes nothing is said. An OTLP resource is taken as the
events and operations its adapter makes of it and whether it makes them at all.
`kept` is the list of what was saved and not deleted since; the code has no such
variable.

`EvidenceIsUnion` says that the row of a tool call carries exactly what its saved
observations prove. It speaks of leaves on which they agree. Where two
observations write one leaf differently the first stays, so the merge is not
independent of order there, as the comment at `sqlite.go:593` says it is.

### Inspection and the code

A *world* is a sequence of payloads as the tools send them. Each of them may be
sent at any time and again, and any session may be deleted, so that every subset
of a world is reached in every order. `Received` normalises each payload once,
with the adapter of its route; `Ingest` stores the new events and operations and
rebuilds the signals of the sessions it touched, in one step, because
`Repository` shows that a transaction is one. Reports, verdicts, costs and views
are functions of the tables; the properties compare them with each other and
with independent definitions.

| World | What is in it |
|---|---|
| `usage` | requests, failures and refusals, MCP servers under three spellings of their name, a metric of the same tokens |
| `skills`, `prompts` | skill activations; prompts in a log and in a transcript, redacted, in one of them, or in a rollout |
| `access`, `paths` | paths and commands in spans and records; every path of up to three characters against every kind of pattern |
| `measures`, `governed` | samples of changes and of totals, without a time or a value; policies, sandboxes, recoveries, permission modes, at a whole second and after it |
| `agents` | spans that claim each other as parents, one that leads into a loop, two parents for one agent |
| `timed`, `crowded` | spans that overlap, nest, lack an end or have no length; a session with more markers than its lanes have slots |
| `cursor` | requests with and without identifier and time, sent again later, broken payloads, two results of one session |

An attribute is present or not; its text is a small string, a number or, for
paths and commands, a sequence of characters or words, because the policies look
inside. Identifiers are numbers in the order of their text. A hash of a record is
a number given with the record (`digest`) where all of its content goes into the
hash, and computed where it does not (`RequestId` of `CursorTelemetry`,
`RecordNumber` of `ClaudeLogs`).

`ReportsFromSignals` compares the reports over the signals with the reports
over the full events, although the code never computes the latter: the copying
of fields in `source_events.go` and the reading of fields in a dozen engines are
two lists that nothing but this keeps together. Of a request that reports only
output tokens or only cache writes no signal keeps the count (`HasTokens` asks for
input or cached tokens), so the server rows are compared without those two sums
(`InventoryRow`).

`PoliciesFromSignals` compares outcome, visibility and findings of the five
policies, over the signals and over the events. Two differences are part of its statement.
The report on skills is `SkillReport`: that over the events if every tool of a session
that reports events also reports skills, else that over the events and one more
invocation without a name. For the rebuild adds a marker for every tool
(`source_events.go:30`), and `skillSignalPresent` exempts explicit ones only
(`unapproved_skills.go:134`), so that the marker of a tool which is silent on skills
(`SilentTools`) makes a decision "indeterminate" or "partial" that is complete over the
events. This is a finding. And a message of the user in a rollout of Codex is a
user-role record of its conversation (`rolloutConversation`,
`isConversationProvider`), which `PromptKeywordsFromEvents` would read, but
`copyUserPromptEvidence` keeps a row of Claude Code's prompts alone: a session of Codex
is never scanned, whatever its rollout retained (`IsCodexPrompt`).
`docs/architecture/local-dashboard.md:106` says that the scan "covers every user-role
conversation record" and then names the two of Claude Code.

`NothingPresentIsUnavailable` knows for each of the eighteen names that a list of
unavailable fields can hold what would be evidence of it in the event (`EvidenceOf`).
Two things the adapters overlook. `applyEnvironmentIdentity` derives the repository of
an event of Claude Code from `workspace.host_paths` after its list was made
(`normalizer.go:797`), so each event that has a repository also lists
`repository_context` as unavailable; the property says exactly this, and it is a
finding. And the list of a `codex.tool_result` goes by the name of its record,
whatever path or command its arguments hold
(`docs/integrations/codex-normaliser.md:126` says so).

Met on the way and modelled as the code has them: an access row is numbered in the
order of a Go map within one event; a log record of Codex without a time of its own is dated
by its receipt, and its identifier is not affected, while that of a Cursor
request is; metrics of Claude Code keep no temporality; `SkillUsage` counts
events and not the counts in metrics; an MCP server is folded in stored order,
in which a connection at a whole second is later than one after it; a
`tool_result` of Claude Code without `tool_use_id` gives an operation that
no file row joins; two results of one Cursor session without `request_id` are one
event, the first.

## 3. Runs

| Run | Question | Bounds |
|---|---|---|
| `repository_lineage` | do the derived tables stay those of the retained events, is retention exact, is a replay silent, does every request end, does an expired session go | two Codex threads that name each other, a Claude session, telemetry of the root that is not of its rollout; four batches in any order, all deletions, clock 0..4 (read any time before the retention run gets the connection), windows of 1 and 2, one failure or crash at any statement |
| `repository_pricing` | are costs final, is evidence monotone, does the repository implement `RetainedStore` | three batches with shared events, one identifier for two events, two routes for one call; two catalogs and none; two failures or crashes |
| `repository_timestamps` | is a session in the state its latest lifecycle event put it in (**violated**) | one batch, half-second ticks |
| `migrations` | is a recorded migration an applied one wherever two start-ups are stopped, does whoever serves find the whole schema and take the token that `auth-token` prints, what can a second copy of `events` take, and does it ever come back, does every start-up end | module `StartUp`: two processes that start at any time, one session, two stops, no file and versions 2 to 10, with a token and without |
| `config_manager` | does the file always load, does memory follow it, do two saves mix, is every save answered | two requests, three lists (unordered with a repeated name, too long, invalid), two failures, crashes or edits; a named file and a managed one |
| `paging` | does a walk miss or repeat anything while the list changes, does it end | two sessions, six events (late ones, one span reported twice, equal instants), pages of one row, parts of two events, one deletion at any point and re-delivery |
| `paging_dashboard` | does the dashboard show the whole conversation (**violated**) | three records, one of a transcript |
| `ingest` | is what was accepted stored whole, does it stay, does an operation carry exactly what its observations prove, is a late or repeated shipment silent, is each request counted once | a transcript of three lines, a rollout of four, logs of three tools, metrics with one bad resource, a Cursor report; two interchangeable requests at a time, two that are counted before and after one restart, any deletions |
| `transcript_gaps` | does a complete transcript fill the gaps of an early one (**violated**) | one transcript, one request at a time |
| `rollout_legacy` | are legacy calls left out once there are completed items (**violated**) | one rollout, one request at a time |
| `inspection` | do reports and policies say over the signals what they would say of the events, does the latest state win, do path rules mean what their patterns mean, does a violation stand, does a view show all of a session, is anything present called unavailable, are requests priced once | eleven worlds of two to nine payloads, sent in any order and again, any deletions |
| `request_tokens` | are the input tokens of a server those of its requests, each counted once (**violated**) | the world `usage` |

The bounds are enough for what they are for: every pair of requests interleaves
with a deletion, an expiry and a failure of each statement; two Codex threads
give a complete tree, an orphan, a late parent and a loop; a third thread would
add depth only, which the lineage operators walk by themselves. Clock, faults
and batches are the only bounds; nothing in the guards of the repository refers
to them but `Tick` and the two failure actions. Migrations run in a fixed order,
so two processes and two stops reach every pair of positions; a third process
would only repeat what the second one does; one stop is what it takes to start
again after the second copy of `events`. Deadlock is checked in every run
but that of the configuration, where each request is used once, and those of
`Ingest`, where requests stop arriving at their bound. Two requests in flight are
what it takes for an older body to be saved after a newer one. Pages of one
row make every row a cursor; parts of two make a page need several statements.
The worlds of `inspection` are independent of each other: what a report says of
one session depends on that session's signals, or on few of them at a time, so a
world needs the records that one kind of report reads and nothing else. Half of
the instants are whole seconds, where the order of texts is not that of time.

`DerivedTablesAgree` compares the tables, which the code rebuilds session by
session and only when it thinks something changed, with their definition over
all events; so it fails when any path forgets a rebuild. `ImplementsRetainedStore` maps
a commit to one atomic step of the abstract store and everything else to a
stutter. `RetentionIsExact` says what retention removed and that it removed
nothing else. `RulesFlagExactly` has a meaning of patterns of its own, by cutting
a path into texts for the pieces of a pattern; `BreakdownAddsUp` counts ticks;
`TreeShowsEveryAgent` finds loops by closure, not by walks; `LatestStateWins` asks
of the fold over rows in the order of their text (`ObserveState`,
`AccumulateMetric`) for the latest instant; `ViolationsStand`
and `SamplesCostNothing` compare two states, since whether telemetry that comes
later can take a verdict back or change a price is not seen in one.

The violated properties are what the repository's own texts say. They are
described in `PROJECT.json` under `findings`: timestamps are ordered by a text
that drops trailing zeros, so a whole second sorts after its fractions; a
transcript record behind the dashboard's first conversation page is never shown; an event
of a tool call that was shipped before its result never gets what the result
tells; legacy calls of a rollout that was imported early stay operations; and the
inventory of MCP servers adds the metric sample of a request to its log record.
`SavedIsKept` is what does hold of early imports: messages and raw records
are stored as the body has them, and `EvidenceIsUnion` of their operations.

Three more findings name passing runs, because the property they belong to states
what the code does, the case included, and so what holds besides: columns of `events`
that a second process takes for good (`LossIsFinal`), the marker of a silent tool that
downgrades a decision on skills (`PoliciesFromSignals`), and a repository that is
declared unavailable (`NothingPresentIsUnavailable`). Each is reached in its run.

One more divergence is harmless: the comment of `rebuildAgentRelations`
(`sqlite.go:737`) says that other tools "still clear any stale rows", and the
code returns before its DELETE. `ClaudeBacked`, a part of the inductive
invariant, is why no such row can exist. Clearing them would be wrong: it would drop the
Codex trees of a session whose telemetry arrives without its rollout, which is
how the mutant of `DerivedTablesAgree` fails.

## 4. Fairness

`FairSpec` of `Repository` adds three conditions. `WF_vars(Work)`: a request that holds the
connection keeps executing its statements; nothing in a transaction waits for
anything but SQLite. `WF_vars(PlanRetention)`: the ticker of
`runRetentionLoop` comes every hour. `SF_vars(BeginRetention)`: `database/sql`
hands the connection to waiting requests in order, so a run that finds the
connection free again and again is not passed over for ever. No fairness is assumed of ingest, deletion,
failures, crashes or restarts, so `ExpiredSessionsGo` promises nothing for a
daemon that is down. Faults are bounded in the model; with unboundedly many failing
retention runs an expired session may of course stay.

In `Migrations`, `WF_vars(Migrate(d))`, and in `StartUp` the same of the steps
before and after: a process that is not stopped goes on with its statements.
Starting it again is not assumed. In `ConfigManager`,
`WF_vars(Work(r))` for the request inside a save, and `SF_vars(Lock(r))` because
`sync.RWMutex` serves waiting writers in turn. In `Paging`, `WF_vars(Serve)`: a
client that follows cursors goes on asking, as `listAllSessions` and the readers
in parts do, and a request executes. `WalkEnds` needs `MaxDeletes`: against a
session that is deleted and delivered again without end a walk by position could
start over each time.

## 5. Proofs

Every theorem holds for all values of the constants that meet the assumptions
named with them. An inductive invariant is a definition of the component's module,
and an invariant of one of its runs, wherever its states can be enumerated
(`TablesInvariant`, `RequestInvariant`, `UpgradeInvariant`); the others are stated
in the proof modules, over the same variables.

### RepositoryProofs: the derived tables

Any sessions, events, batches, catalogs, windows.

- `TypeCorrect`, `TablesCorrect` (`Spec => []TablesInvariant`, inductive),
  `DerivedTablesCorrect`, `RelationKeysCorrect`.

`DerivedTablesAgree` speaks of committed tables only, so it is not inductive:
one has to know that whatever the working tables lack is still on the list of
the open transaction. `Consistent(t, stale, codex)` says that the rows of every
session that is not in `stale` are those of its events, that the Codex trees are
unless `codex` announces their rebuild, that identifiers are keys, and that
every relation that is not Codex's belongs to a session with a Claude Code
event. `TablesInvariant` is `Consistent` of `db` with nothing stale and of
`work` with what `tx` still lists. There is one lemma per statement
(`SavedEventConsistent`, `RebuiltSessionConsistent`, `RebuiltCodexConsistent`,
`DeletedSessionConsistent`), then one step per action. The step that took an
assumption about the data is `RebuiltSessionConsistent`: it deletes the
relations of a Claude Code session, and is right only because such a session is
the root of no Codex tree, as session identifiers carry the tool's prefix.
`RelationKeyHolds` follows: every derived table is keyed, so the tables equal to
them are.

### RepositoryProofs: requests as a whole

- `CostsCorrect` (inductive), `CostsFollowEventsCorrect`, `CostsAreFinalCorrect`.
- `RequestCorrect` (`Spec => []RequestInvariant`, inductive), and from it
  `IngestOnlyAddsCorrect`, `ReplayIsSilentCorrect`, `RetentionIsExactCorrect`.
- `RetainedStoreImplemented`: `Repository` implements `RetainedStore`, initial
  states to initial states and every step to a step or a stutter.

`CostsAreFinal` compares two committed states that are many statements apart.
`CostsInvariant` carries the comparison through the transaction: costs of `db`
and of `work` belong to stored events and are keyed by them, every cost of
`work` whose event was committed is a committed cost, and a request that still
has events to save has deleted nothing. The last part is what excludes that an
event is deleted and inserted again, with another price, in one transaction.

`RequestInvariant` says the same of whole requests: after `n` events and `m`
operations of a batch the working tables are the committed ones with the first
`n` events (of each identifier the first copy) and the first `m` observations
merged in; a deletion has removed exactly the sessions it is done with. A commit is
then the one step of the abstract store. `TablesInvariant` is needed there too:
the abstract `view` is a function of its events, the concrete tables are rebuilt.
That the rows after `m` observations are those of the recursion of `StoredOperations`
uses one unfolding per statement.

### OperationEvidenceProofs: the merge

Functions, with no state: `ReplayedObservation` (an observation stored once and
sent again changes nothing), `StoredOperationsKept` (a row is never lost and
never loses a leaf, a path, a known outcome or category, whatever sequence of
observations follows), `StoredOperationsAreUnions` (a row holds nothing but what
its observations prove).

### IngestProofs: from the body to the answer

- `TypeCorrect`, `TallyCorrect`, `SavedIsKeptCorrect`, `EvidenceIsUnionCorrect`,
  and the action properties `StoredAsAWholeCorrect` and `LateShipmentIsSilentCorrect`.

The adapters enter through what is assumed of them, which TLC evaluates for the
bodies of each run. `OperationsAssumption`: a body gives finitely many operations, with
the fields the merge reads, and writes "unknown" for an outcome or a category it does
not know (with `""` for some and "unknown" for others, two shipments could alternate
in a column). `IdentifiersAssumption`: an identifier belongs to one
session, and two bodies that give it two events are two of one file and the
event is a tool call, of which the longer file tells more. It leaves out log
records that are identified by their place in a payload; `PROJECT.json` lists
these among the hazards, because of them two different events can have one identifier.
`TranscriptAssumption`: a tool-use identifier is used once and answered once in a
file; a file that uses one again takes back the first answer.
`SourceAssumption` and `RequestAssumption` say that texts are sequences and that
the server handles finitely many requests.

`SavedIsKept` needs `StoreInvariant`: a stored event comes from some body, and a
row of operations is a union of what the kept bodies say of it. A deletion takes
both sides of that away at once, by session, which is where it is used that an
identifier belongs to one. `TallyIsExact` counts requests that have an end
before them; its steps add or remove one request of a finite set.
`StoredAsAWhole` needs of a request that it is saved only if its body passed the
decoder (`RequestsInvariant` and `Sound`), and that `INSERT OR IGNORE` leaves
every identifier of a body in the table.

`LateShipmentIsSilent` goes from the transcript up to the table. The collector after
the lines of a file keeps each call with all it had after fewer lines (`CallsGrow`, a
least-number argument over the recursive `CallsAfter`), so a longer file makes each event of
a shorter one and an operation that covers each of its operations
(`TranscriptGrows`). `ShipmentInvariant`: a row of the table covers what every kept
body says of it, until the session is deleted. And an observation that a row covers leaves the row as
it is (`CoveredObservation`).

### StartUpProofs: migrations and the token

Any finite set of processes on a file of any version, any sessions, any number of
stops, with the second copy of `events` among the steps.

- `UpgradeCorrect`: `Migrations` has `TypeOK` and `UpgradeInvariant`;
  `UpgradeOfStartUpCorrect`: so has `StartUp`, in which an upgrade has more ways to
  end.
- `RecordedIsAppliedCorrect`, `ServesCurrentSchemaCorrect`, and the action
  property `LossIsFinalCorrect`, of both specifications.
- `OneTokenForAllCorrect`: `StartUpSpec => []OneTokenForAll`.

`RecordedIsApplied` alone is not inductive, because a process decides outside
its transactions. `ProcessOK` adds what of the decision still holds inside: an
applied migration stays applied; and a process that is about to copy `events` either
finds the provenance still there, or two processes have met (`met`). As long as they
have not, only one process is up while events carry provenance, so its copy can take
nothing that is recorded. If they have, the copy takes columns, and `lost` is what
it takes of recorded migrations: `RecordedIsApplied` goes on to hold of everything
else. `LossIsFinal` uses that a lost column belongs to recorded versions only, so that
no process that asks from then on decides to add it.

`OneTokenForAll` needs that a created token is one nobody holds. The model takes
the least free number; that there is one is a pigeonhole argument (`FreshIsToken`).

### ConfigManagerProofs: saves

Any requests, lists, entries and bounds.

- `TypeCorrect`, `ConfigCorrect` (inductive), `StartsAgainCorrect`,
  `FileMatchesMemoryCorrect`, and the action property `SavesDoNotMixCorrect`.
- `NormalizedListCorrect`: what `normalizedAllowlist` makes of a list: sorted,
  no name twice, each name of the list under its first spelling.

`ConfigInvariant` says of the request inside a save that it replaces one list of
the configuration that is *still* live, that it writes only what it
validated, and that the file has run ahead of the memory only for the request
that replaced it; and of the file, that every content a crash could leave is one
the daemon starts from.

### PagingProofs: walks

Any events, sessions and limits, for every list but the dashboard's
(`"dashboard" \notin List`), whose walk does miss rows: that is a finding.

- `WalkCorrect` (inductive), `TypeCorrect`, `WalkMissesNothingCorrect`,
  `WalkInOrderCorrect`.

`WalkInvariant` has four parts. `CursorIsLast`: the cursor is the last row
shown. `ReadsAll`: until its session is deleted, a request that reads in parts
will have read all events that were there when the walk began and those of every
row shown. `NoneIsPassed`: each row owed was shown or comes after the cursor.
`InOrderSoFar`: no row is shown twice, and each after those before it. A list by
key may change under the cursor, but events keep their place, and a session, which
is listed by its first event with the latest session first, only ever moves down
(`SessionRowMoves`), towards what is still unread. The lists by position are
computed again from all events for each page; that they are strictly ordered is
proved from positions being an injection into the numbers up to their length.

### InspectionProofs: signals, policies and the tree of agents

Any worlds and payloads, rules, keywords and lists. `EventsAssumption` says of the
adapters' events only that they have the seven fields, an identifier that is a
pair of naturals, an instant, and sequences for paths; `PatternsAssumption` that a
pattern is a sequence of characters. `AdaptersAssumption` says what no adapter
writes (`IsIngested`): a payload has finitely many events; an event is no row of
another one (its identifier is `<<n, 0>>`, it has no `source_event_id`), has no
namespace without a name, and finitely many paths and commands, none of them in a
connection or a prompt or under a key that `thinInsightEvent` keeps; and a prompt
in a rollout of Codex carries nothing an insight reads. TLC evaluates all three on
the payloads of the runs.

- `SignalsCorrect` (`Spec => []SignalsInvariant`, inductive): the rows of signals
  are those the stored events of each session give.
- `StoredCorrect` (`Spec => []StoredInvariant`, inductive): moreover the events are
  finitely many and as the adapters make them.
- `TypeCorrect`, `ViolationsStandCorrect`, `RulesFlagExactlyCorrect`,
  `PoliciesFromSignalsCorrect`, `TreeShowsEveryAgentCorrect`.

`Rebuilt` computes the rows of the sessions a payload touched and leaves the
others as they were. That this keeps all rows those of the stored events
(`SignalsBySession`) rests on two facts: a session without a new event has the events
it had, and the rows of a session's events are rows of that session. The second is not
obvious of the markers, which copy the session of the first event in stored order,
so that there has to be a first one: `FirstStoredExists`, by the order of texts,
then of the two halves of the identifier.

A violation stands because every policy decides by evidence in single rows
(`AccessViolated`, `PathViolated`, `PromptViolated`, `ServerViolated`,
`SkillViolated`: the report is a violation if and only if some row shows it, with
whatever other row it is joined), and because the row stays (`RowsStay`). It need not
be the same row: an access is numbered anew when an earlier event arrives, and a
marker changes its date and state. So `RowsStay` promises a row of the same type,
surface, attributes and extensions (`SameEvidence`), which show what they showed, and
markers show nothing (`NothingInMarkers`).

The matcher of `path_rules.go` recurses over the places of a pattern from the last
one, and a pattern means a path that can be cut into texts for its pieces
(`Means`). `AllMatched` proves of each place, by induction from the last, that the
matcher accepts there exactly the positions from which the remaining pieces cover
the rest of the path. Its cases are `CharacterCovers`, `SegmentCovers`,
`AcrossCovers` and, for `**/`, `DirectoriesCovers`, on top of `CoversOneMore`: a
cut for a piece and more pieces is a cut for these, from where the text of the
first ends. That both recursive functions are what their equations say is
`FixedPoint` of `Induction`. `RulesFlagExactly` adds that the rows have the paths
of the events (`SignalsRead`): a thinned event keeps no path it did not have, and
each access has a row.

`PoliciesFromSignalsCorrect` compares what a policy says over the rows with what it
would say over the events. A finding of an access counts how often it is made, so
it is not enough that each access has a row: `ThinAccesses` numbers the accesses of
a session in stored order, no two alike (`RowsDiffer`), so that accesses and their
rows are as many (`TimesFound`), and each row names the event it comes from. Servers
and skills read only keys that a thinned event keeps. The report on skills also depends
on whether any row is an invocation without a name: such rows are those events, and
the markers whose state is not explicit (`RowsAndMarkers`, `MarkerIncomplete`), which
exist exactly if a tool is silent (`StrongestIsExplicit`, `IncompleteOfSignals`). A prompt is a row of its own, and
the policy joins the telemetries of one prompt again under the least of their events'
identifiers: these are the same because a prompt's row refers to its event by an
identifier that no other event has. The prompts of Codex rollouts, which have no
row, are left out on the side of the events.

`TreeShowsEveryAgentCorrect` reasons about three folds, whatever the spans claim:
`Loops` (`markCycles`), `ShownAgents` (`nest`) and the property's own `OnLoop`.
A relation has at most one proven parent, because a session has one relation for
each agent of a trace (`RelationsAlone`, from an earliest span: `EarliestIs`); so
the parents make a graph in which each element has at most one successor
(`IsPath`). On a loop is what every closed set with its successor contains
(`IsCyclic`). `WalkFromStart` proves of a walk that it goes on until it meets what
is settled, itself or a root, since it is not longer than there are relations;
`LoopOfIs` that of its nodes exactly those from the one it enters again are on a
loop; `LoopsAre` that walking from every node in turn flags exactly these, the
invariant of that fold being that what is settled is closed (`IsMarked`). What a
reader of the tree meets is the least set with the roots that contains whatever has
its parent in it (`ShownIsClosure`). A relation outside of it would have its parent
outside as well, so one of those would be on a loop (`CycleInside`, by a smallest
closed set), and that one is a root.

### How, and what is left to TLC

The library's induction theorems take an operator as a parameter, which none of the
provers used instantiates. `Induction` proves instead that a non-empty set of
natural numbers has a least element (from `WFMin`), and an induction over a
sequence is a statement about the least length at which it would fail. So the
recursive *functions* of the models (`StoredOperations`, the sorted lists of
`ConfigManager`, the first copies of a batch) are reasoned about for every
input. A fold of the community modules is such a function too: `FoldExists` shows
that it is what its equation says, `FoldInduction` is the induction over the
elements it takes, and `FoldCloses` says of a set that a fold makes grow that it
ends with the least one that grows no more. Lemmas on finite sets (`Enumeration`,
`SameNumber`, `ImagesFinite`) and on walks in a finite graph (`WalkSettles`,
`LoopOfWalk`, `WalkIsShort`, `CycleInside`) complete the module.

Only model-checked: the liveness properties `RequestsEnd`, `ExpiredSessionsGo`,
`StartUpEnds`, `SavesEnd` and `WalkEnds`, since the prover has no rules for
fairness; and of `Inspection` `ReportsFromSignals`, `LatestStateWins`,
`BreakdownAddsUp`, `TraceKeepsEveryMarker`, `SamplesCostNothing` and
`NothingPresentIsUnavailable`. The first four compare sums over sets and sorted
sequences, which are inductions over data, with definitions of their own; the last
two are about what each adapter writes, in maps put together with `@@` and `:>`,
which none of the provers interprets. The type invariants are proved and not part
of a run.

## 6. Plan

Done: the modules and proofs above. Next, most important first:

1. Of `Inspection`, `TraceKeepsEveryMarker` and `BreakdownAddsUp`, whose folds are
   of the kind `FoldCloses` and `FoldInduction` are for, and `LatestStateWins`. It
   takes lemmas about the sorted lists of `InsightEvents` and about sums; then
   `ReportsFromSignals`, report by report; `NothingPresentIsUnavailable` and
   `SamplesCostNothing` need a law of maps that `@@` joins.
2. Operation statistics and pull-request links.

## 7. Not modelled

- A token given by `TELEMETRYIQ_AUTH_TOKEN`, which is not stored, and the check of
  each request, which compares two texts and keeps nothing.
- The look-up in front of `DELETE /api/v1/sessions/{id}`: the deletion does not use
  what it found. It only decides that operations of a session without events are
  answered 404 there, while the dashboard's route deletes them. The diagnostics,
  whose two queries may see two moments, of which nothing is promised.
- Operation statistics and pull-request groups (`insights/operations.go`,
  `pull_requests.go`, `normalize/prlink.go`): counts and groups over one table,
  without order, state or failure. The grammar of links is text.
- Model interactions as records (`records.go` of each adapter): they serve the
  conformance tests; the daemon stores none.
- Raw envelopes, residual fields and the detail of one event in the inspector
  (`jsonl_residual.go`, `inspector`, `ui/event_inspector.go`): copies without a
  decision anything else depends on.
- Pages of the UI other than the trace and the conversation: they render what
  the readers return.
- Decoding of protobuf, compression, YAML and of the price catalog, thresholds in a query,
  wording and layout.
- Fixtures, schemas, conformance suite, capability matrix: static, or test
  tooling.
