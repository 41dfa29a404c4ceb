# Knecta in TLA+

Formal models of the parts of Knecta where concurrency, failure and ordering
decide whether the program is right: the agent that derives a semantic model
from a database, the agent that answers questions over it, data imports,
sign-in sessions, stored objects, the command line tool's folder sync, and the
database rows through which requests, tabs and restarts meet. TLC checks the
models on small instances; TLAPS proves safety properties of every one of them
for every instance.

All paths below are relative to `src/apps/api/src/` unless they start with
`src/` or `docs/`.

## 1. The system

Knecta is a NestJS server over PostgreSQL (rows), Neo4j (ontology graphs), S3
(files), LLM providers, the users' own databases and a Python sandbox, with a
React client and a command line tool. The server is one Node.js process:
JavaScript runs without interruption from one `await` to the next, so what can
interleave are awaits and database round trips. There is no job queue; a long
operation is executed inside the HTTP request that streams its events (SSE),
and it goes on when the client leaves, except in data imports.

| Component | State | Operations | Hard behaviour |
|---|---|---|---|
| Table stage of the semantic model agent (`semantic-models/agent/nodes/discover-and-generate.ts`, `agent/utils/concurrency.ts`) | limiter queue and counter, shared result arrays, progress column | dispatch, one worker per table, return | slots freed in later microtasks, partial failure, progress writes in any order |
| Semantic model runs (`semantic-models/*.ts`, `agent/nodes/persist-model.ts`) | `semantic_model_runs`, `semantic_models` | create, claim, execute, complete, fail, cancel, delete | check-then-write endpoints, duplicated streams, restarts |
| Relationships, assembly, validation (`semantic-models/agent/nodes`) | the agent's state | sequential nodes | none beyond throwing |
| Data agent graph (`data-agent/agent/graph.ts`, `nodes/`) | LangGraph channels | planner, navigator, SQL builder, executor, verifier, explainer | revision loop, fail-open verification, LLM answers of any shape, ontology deleted meanwhile |
| Data agent chats (`data-agent/*.ts`, `agent/agent.service.ts`) | `data_chats`, `data_chat_messages`, `data_agent_preferences` | send, claim, answer, clarify, fail, capture preferences, delete | several tabs, retries, late failures, restarts |
| Data imports (`data-imports/`) | `data_imports`, `data_import_runs`, S3 files, connections | upload, run, phases, cancel, re-run, delete | re-run over a running run, disconnect aborts, cleanup of several stores |
| Ontologies, connections | rows and Neo4j graphs | create, delete | two stores without a transaction, cascades |
| Sessions (`auth/`, `device-auth/`, `oauth/`) | refresh tokens, device codes, authorization codes | sign in, rotate, poll, approve, exchange, clean up | rotation races, lost answers, single use |
| Storage (`storage/`) | objects, chunks, S3 uploads | init, complete, abort, process, clean up | asynchronous processing, clean-up against completion |
| Settings, LLM providers, users, allowlist | rows and in-memory caches | read, update | version check apart from the write, stale caches |
| CLI folder sync (`src/tools/app/src/lib`) | SQLite table of files | detect, upload, mark | interrupted and failed uploads |
| MCP, discovery and drivers, Neo4j and vectors, sandbox, notifications, web client | none worth a model, or pure I/O | | their outcome (answer or failure) is a choice in the models |

How they interact: the semantic model agent and the imports produce
connections and models; an ontology is built from a model; a chat belongs to an
ontology and its agent reads the ontology's graph and the model's connection.
Deleting one of these cascades in PostgreSQL to whatever hangs on it, under
operations that still hold its id. `PROJECT.json` lists every component with
its status and, under `hazards`, what is hard to test at which line.

## 2. Modules

| Module | Models | Instance for TLC |
|---|---|---|
| `TableSettlement` | what the table stage promises, abstractly | (property of `table_workers`) |
| `ClaimedWork` | what a row promises that names its own work, abstractly | (property of `semantic_model_run`, `data_agent_chat`, `data_import`) |
| `TableWorkers` | limiter, workers, shared arrays, progress column | `MC_TableWorkers` |
| `DataAgentGraph` | the six nodes and three routes of the data agent | `MC_DataAgentGraph` |
| `SemanticModelRun` | a run's row and every request that writes it | `MC_SemanticModelRun` |
| `DataAgentChat` | a chat's messages and the requests that answer them | `MC_DataAgentChat` |
| `DataImportRun` | an import, its runs, files and connections | `MC_DataImportRun` |
| `RefreshTokens` | refresh tokens, browsers with tabs, other clients | `MC_RefreshTokens` |
| `StorageObject` | an object's row, its upload and content in S3 | `MC_StorageObject` |
| `FolderSync` | the tool's database of files and a sync run | `MC_FolderSync` |
| `..._proofs` | theorems about the module of that name | TLAPS |

Definitions marked `Fault:` in a comment are no part of a specification: each
is an action or operator as a plausible bug would have it, and shows that a
property tells the difference.

### TableWorkers

A step is the code between two awaits. `Dispatch` is the synchronous
`selectedTables.map(t => limit(...))`: every thunk is pushed and the first ones
start within the same turn, which `Drain` (the loop of `next()`) computes in one
go. A worker goes `queued -> discovering -> generating -> saving -> saved ->
settled -> released`. `settled` and `released` are apart because
`fn().then(resolve, reject).finally(...)` resolves the promise in one microtask
and frees the slot in another: `Promise.allSettled` can resume the node before
the last `finally` has run. A progress write is sent in one step and lands or
fails in another (`WriteLands`, `WriteLost`), so the writes of several workers
and the unawaited one of the SSE handler land in any order. `worker`, `queue`,
`active`, `datasets`, `failedTables` and `completedCount` are the variables of
the same names; `stored` is `progress.completedTables` of the row.

`TableSettlement` states the promise without the mechanism: at most `Limit`
tables at a time, one outcome per table, never revised, return only when all
have one, and it does return. The refinement maps the tables between admission
and settlement to `running`, the two arrays to `outcome`; a table in both arrays
would map to `both`, which no step of `TableSettlement` allows.

### DataAgentGraph

One action per node and way out of it (`PlannerPlans`, `PlannerFails`,
`PlannerUnparsed`, ...), one step per plan step in the executor, the routes as
operators of the same names. `next` is the node LangGraph runs next. A plan
keeps what the routes, the executor and the verifier look at: complexity,
whether it asks and has questions, and for each step its strategy, chart,
datasets and dependencies. `OntologyDeleted` empties the catalog at any moment.
An LLM that throws, answers nothing, answers queries for steps that do not
exist, or a verdict that cannot be read are all there, because the code has a
branch for each.

### SemanticModelRun

One database round trip per action. A stream request reads the run, claims it
(`UPDATE ... WHERE status = 'pending'`), executes, creates the model, completes
the run, rereads it, writes the last progress and sends `run_complete`; whatever
throws leads to `updateRunStatus('failed')`, itself a read and a write that can
fail. Cancel and delete are a check and a write with anything between them.
Deleting the model sets the run's reference to null, deleting the connection
removes both, as the foreign keys say. `Crash` ends the process at any moment;
nothing in the code looks for unfinished runs when it starts.

### DataAgentChat

`answers[i]` is the status of the assistant message created with question `i`
in one transaction; `generating` is split into `new` and `claimed` by the
metadata that `claimMessage` tests. A stream request passes the stations of
`agent-stream.controller.ts` and `executeAgent` up to its end; what throws before
`graph.invoke` is caught by the controller, which leaves the message
generating (`Abandon`), what throws later by the agent, which writes `failed`
over whatever is there. `ClarificationRound` counts, as the code does, within
the last messages of the chat; a question and its answer have the same creation
time, so at the window's edge either may be cut off (`slack`).

### ClaimedWork

Runs of both kinds and assistant messages are used alike: a row says that work
is open, the request that wins a conditional write claims it, executes it in its
own process and writes the outcome into the row. `ClaimedWork` states what that
promises without any of the writes: the stages `absent`, `open`, `claimed`,
`over` and `gone`, and the set of those who ever worked. Only `Claim` adds to
that set, only from `open`, so the work is done once at most; `Settle` and
`Withdraw` lead to `over`, from which only `Remove` leads on. Three modules
implement it, each by an instance and a mapping of its own:

| Module | One piece of work | `open` | `claimed` | `over` |
|---|---|---|---|---|
| `SemanticModelRun` (`WorkSpec`) | the run | `pending` | `executing` | `completed`, `failed`, `cancelled` |
| `DataAgentChat` (`WorkSpecs`) | each message | `generating`, unclaimed | `generating`, claimed | the other statuses |
| `DataImportRun` (`WorkSpecs`) | each run | `pending` | an unfinished status, or any while its pipeline is active | a final status and no active pipeline |

Every write of a row by any request has to be one of these steps or invisible,
so the property covers what would otherwise be several: nothing is executed
twice, nothing that ended is opened again, nothing that was deleted comes back.

### DataImportRun

Three kinds of operations meet on one import: the SSE request that claims a run
and executes the pipeline (`pipe`), `POST runs`, which cleans up after the runs
before it, and the deletion of the import (both `request`). Every action is one
round trip to PostgreSQL or S3. `EnterPhase` is the pipeline's "check the abort
signal, write the next status"; what a phase does to its own local files is part
of it. `Throws` leads to the catch, whose two writes are `FailRun` and
`FailImport`. Connections are named after the run that created them, so that
`seen`, the connection id a clean-up read at its start, can go stale. `trouble`
is a history of the worst that has happened (a failed call, a clean-up that
stopped between its stores, operations that overlapped), `late` of the
clean-ups that were overtaken by a new model, and `spared` of the connections a
clean-up left because it counted a model on them. `BuildModel` and `DeleteModel`
are the first model on a connection and the deletion of its last one by the
user; nothing drops a connection that has lost its models, so `NoStrayConnection`
speaks of the connections that no clean-up spared. A pipeline ends as `completed`
or `failed`, and `RunSettles` compares that with the row. Left out: parsing and conversion
(their outcome is a choice), previews, per-table connections of old imports.
Tables have distinct names here; two sheets whose names become the same
identifier would share a file.

### RefreshTokens

The rows of one user's tokens, named after the request that issued them, the
devices that hold them, and the requests as the server executes them: `Find` is
the read of `refreshAccessToken` with its checks in their order, `Revoke` and
`Create` the two writes of the rotation. A device is a browser, all of whose tabs
share one cookie, or a client that got its token by the device flow
(`device-auth.service.ts:175`) or an authorization code and refreshes it at
`oauth.controller.ts:205`. A client's logout carries no cookie and therefore
revokes all tokens, like `logout-all`; it is taken to forget its token then.
`RevokeEverything` reaches the tokens of every device, the other actions only
their own. `sender` is the tab that waits; a tab that is reloaded stops waiting
(`GiveUp`) while the server goes on, and the answer is heard by nobody
(`Unheard`). `Forget` is a browser whose cookies are deleted, or the tool's
`auth logout`, which deletes its file and tells the server nothing. Three
histories: `smooth`, the devices none of whose requests overlapped, failed or
stayed unheard; `strays`, the tokens a device never got or dropped out of turn;
`swept`, the tokens that another device revoked with all others.

### StorageObject

`at` says how far the creation, each request of the owner and the nightly
clean-up are, `process` the same of the processing that each completion sets
off by an event within the process. The row and S3 are written in separate
steps and in the order of the code. S3 refuses to abort an upload that is not
open and may accept a repeated completion. `deleting` and `stuck` are histories
of the owner's deletion and of processing that lost its last write. The
metadata column, into which updates and processing both merge, is left out.

### FolderSync

`disk` is what other programs write and remove at any moment, with any time
stamp; `row` is the tool's SQLite table. `Start` is the synchronous scan and
comparison; then each changed file passes `Upsert` (the row gets the scanned
time and size, before the upload), `Read`, and `MarkSynced` or `MarkError`.
The scan may fail to read any file (`unread`), which makes a tracked file look
deleted, and `UpsertFails` is a row that cannot be written, which the catch
around the upload takes like a failed upload. `IsModified` is the code's comparison: more than a
second apart, or another size. `past`, `touched` and `missed` are histories of what was at a path, of what
changed since the scan, and of what the run could not read or write a row for.
Ignore patterns and output are left out.

## 3. Runs

| Run | Instance | Shows |
|---|---|---|
| `table_workers` | 4 tables, limit 2 | the limiter never exceeds its limit and never idles with work left; the stage returns; `TableSettlement` is implemented, with it one outcome per table |
| `table_workers_progress` (violation) | same | the stored count of completed tables goes back or vanishes |
| `data_agent_graph` | 10 plans of at most 2 steps, 3 datasets, the program's limits 3, 3 and 25 | the recursion limit suffices, refusals before queries, verified or exhausted, failures disclosed, exactly one outcome, termination |
| `data_agent_graph_unparsed` (violation) | same | a null plan leaves the planner |
| `semantic_model_run` | 2 streams, 1 cancel, 1 delete, 1 restart | `ClaimedWork` is implemented (executed once, no revival), a completed run has its model, events agree with the row, executions settle |
| `semantic_model_run_cancel` (violation) | same | a finished run becomes cancelled |
| `data_agent_chat` | 3 questions, 2 streams, 1 restart, limit 1, window 3 | each message implements `ClaimedWork` (answered once), answers kept, events agree with the row, clarifications bounded, preferences captured only after a follow-up, messages settle |
| `data_agent_chat_question` (violation) | same | a message answers another message's question |
| `data_import` | 2 tables, 2 of POST runs and DELETE, 2 operations at once | a ready import has its files, clean-ups spare models, re-runs leave no connection behind but those spared for a model, a run's status says how its pipeline ended or that it was cancelled, each run implements `ClaimedWork` |
| `refresh_tokens` | 2 tabs of a browser and another client, 4 sign-ins and requests | no theft alarm for a device whose requests take turns, unless another one revoked all tokens; no usable token that no device holds and that is not accounted for |
| `storage_object` | creation, 3 requests, the clean-up | a ready object has its content, a removed row leaves nothing in S3, processing ends |
| `folder_sync` | 2 paths, 3 writes, times 0 to 2, 2 sizes | a row never wrongly says synced unnoticed; a run deals with all it could read and write a row for |

**Bounds.** Four tables for two slots are the least where a queue is longer
than one round of slots and several writes are under way while others start.
The ten plans hold one representative of each combination the routes and the
verifier's bypass tell apart, among them plans without steps and a bypass by
dataset count; the limits are the program's own. In `SemanticModelRun` two
streams make the claim contended, and every property speaks of one run, so a
third stream could only lose again. In `DataAgentChat` the program's limit 3 and
window 10 would need seven questions; limit 1 and window 3 keep their relation
(`HistoryWindow > 2 * MaxClarifications`, an assumption of the module), which is
what makes the window wide enough. `NULL` and `NaN` are model values.

In `DataImportRun` two requests give two runs, or a run and a deletion, and two
operations at once every pair that can race (3.1 million states); a third could
only repeat what a pair does to the stores. In `RefreshTokens` four operations
let browser and client sign in, one of them log out everywhere and the other
refresh, or both tabs refresh at once, or one refresh, lose the answer and retry
after a sign-in; a third device could only revoke what the second does. The two
tabs are symmetric. `StorageObject` has three requests so
that two completions race a deletion or an abortion, with the clean-up in
between. In `FolderSync` time stamps 0 to 2 are the least where some are a
second and some more than a second apart, and a third write is needed to change
a file once before, once during and once after its upload; the paths are
symmetric.

Bounds that are not the program's are named constants: `MaxSteps`,
`MaxMessages`, `MaxRequests`, `AtOnce`, `MaxOps`, `MaxTime`, `MaxEdits`. They bound how much is
asked of the system. The program's own counters (`completedCount`,
`revisionCount`, visits) are bounded by the behaviour itself.

**What a failing call may do.** A call that throws is taken to have had no
effect, except where a call has several parts (`DeleteFiles` may have removed
some of the files, `MarkError` follows an upload that may have arrived) and in
`RefreshTokens`, where the answer to a request that did its work may be lost.
A single write that commits and whose answer the server loses is not modelled.

**Deadlock** is checked in every run; each module has one explicit stuttering
action (`Finished`, `Ended`, `Rest`, `Idle`), where it can stop at all, for the state in which the system rightly stops.

**Fairness.** Weak fairness on the server's own steps only: each worker, each
accepted request, the graph. It stands for the event loop running what is due
and for every awaited call ending in an answer or an error; the code relies on
the same (it sets no timeout of its own around LLM or database calls). Users,
cancellations, deletions and crashes have none. Nor have `DataImportRun`,
`RefreshTokens` and `FolderSync`, whose properties are about safety: nothing
makes a user come back, stream a run or start the tool. `StorageObject` has weak
fairness on the handler of an upload event only. `ExecutionSettles`,
`MessageSettles` and `ProcessingEnds` name the states the code really can be
stuck in (a restart, a lost last write, a message abandoned before the agent's
own error handling) as the only alternatives to settling.

**Assumption of the user in two properties.** `ClarificationsBounded` and
`CapturedAfterFollowUp` hold for a user who lets every question be answered
before asking the next (`outOfTurn` is false). Without it they fail: concurrent
requests count the same clarification rounds, and an older question's answer
captures the assumptions of a newer clarification.

**Assumptions of other properties.** The code takes several things for granted
that it does not enforce, and the properties say so. `ReadyIsBacked` and
`NoStrayConnection` rest on runs, clean-ups and the deletion of an import coming
one after another (a second `POST runs` deletes the files under a running
pipeline) and on a clean-up getting to its end, `NoStrayConnection` also on no
failed call, and it excepts connections a clean-up left to a model: once the
user deletes that model, nobody drops them. `NoFalseAlarm` speaks of a device
whose tabs take turns and whose answers arrive, and of what the device itself
brings about: two tabs that refresh at once are the ordinary way to lose it, and
after a logout everywhere on another device the next refresh of every device
left signed in is taken for theft (`auth/auth.service.ts:475`), which revokes the
tokens issued since. `RunCatchesUp` excepts, besides what was touched since the
scan, what the scan could not read and what no row could be written for.
`SyncedIsCurrentOrDetected` excepts what the comparison cannot see, two files of
one size within a second.

## 4. Divergences found

1. `docs/specs/SEMANTIC-MODELS.md:1030` says the stored count increments
   atomically; snapshots land in any order and the SSE handler's write has no count.
2. `planner.node.ts:77` says an unparsed plan triggers the fallback plan; it
   is returned as null and the question fails in the SQL builder.
3. `semantic-models.service.ts:431` says only unfinished runs can be cancelled;
   the write does not repeat the check.
4. `data-agent.service.ts:341` says the lookup finds the question that triggered
   the placeholder; it finds the newest question.

Noted while reading and without a run: `semantic-models.service.ts:213` says
deleting a model cascades to its runs, the schema sets their reference to null;
`docs/specs/DATA_AGENT.md:2859` promises one agent execution per user at a time,
which the code does not enforce; the same document describes sandbox errors
as a pass with a warning caveat, the verifier passes without one.
`docs/specs/DATA_IMPORT.md:751` says no run can be created while another is in
progress: the status that would say so, `importing`, is never written.
`docs/specs/DATA_IMPORT.md:822` says cancelling has no effect on a finished run:
the check (`data-imports.service.ts:395`) and the write (401) are apart, so that a
run that completes or fails in between becomes cancelled after all, which
`RunSettles` allows; and the next phase of a run that was cancelled overwrites
its status. `docs/specs/DATA_IMPORT.md:741` says deleting
an import leaves its files and connections, the service removes both.
`src/tools/app/src/commands/sync.ts:124` reports `Already in sync` although files
whose upload failed earlier are not tried again until they change.
`src/tools/app/src/lib/device-flow.ts:187` sends the tool's refresh token in the
body of `POST /auth/refresh`, which reads only the cookie
(`auth/auth.controller.ts:273`): the tool's refresh is always refused.

## 5. Proofs

`TableWorkers_proofs` holds for any number of tables and any setting of the
concurrency, a missing or garbled one included. The inductive invariant is
`TypeOK`, `SlotsExact` and `NoIdleSlot` together with `FitQueue` (the queue
holds exactly the tables whose worker is queued, each once) and `Prefetching`
(before the dispatch nothing has started). `SlotsExact` alone is not
inductive: the counter stays exact across `Drain` only because the tables the
loop starts are distinct and hold no slot yet, which is `FitQueue`. The lemmas
`AdmittedFills`, `PrefixCounts` and `DrainKeepsCount` say what the loop does to
queue and counter; they rest on the library's facts on cardinality and
subsequences. `LimitIsKept` follows from `SlotsExact`, since a running table
holds a slot.

`DataAgentGraph_proofs` holds for any plans, datasets, step bound and revision
limit, under the assumptions named in the module (`NullAssumption`: null is no
value of the other types; `PlansAssumption`: plans have the schema's shape;
`BoundsAssumption`: the limits are numbers and the recursion limit is at least
`2 + 4 * MaxRevisions`, which 25 is for 3). Its parts are `Typed` (`TypeOK` and
plans short enough for their step ids), `Progress` (how often each node ran is
a function of the next node and the revision count: every revision costs at
most one visit to each of four nodes), `Refusals` (a refusal implies the first
visit to the navigator, and the navigator runs again only for a plan without
steps) and `Answers` (a report exists and has passed, or the revisions are
used up, whenever the explainer is next after an execution) and `Outcome` (only
a plan that asks leaves the pipeline without the explainer, and it asks only
while rounds are left). Each is proved action by action. `OneOutcome`, which
follows from `Outcome`, is what `DataAgentChat` takes for granted of the graph
in `GraphEnds`: a question ends in a clarification, with rounds left, or in an
answer. `Filled` (what is not null at which node, and how long the list of
results is) gives `InputsReady`: the assertions `state.plan!` and
`state.joinPlan!` of the nodes hold from the executor on, and verifier and
explainer see a result for each step of the plan, none left from an execution
before. At the SQL builder only the join plan is certain, which is why
`SqlBuilderThrows` exists.

`TableWorkers_proofs` also shows that the stage implements the safety part of
`TableSettlement` (`ImplementsSettlement`): its initial states map to the
abstract one's and every step to a step of it or a stutter. It rests on `Filed`,
which says that a table is among the results or the failures exactly when its
worker has put it there (stations `saving` to `released`). `Awaited` (whoever
is queued is in the queue) gives `StageCannotStall`.

`SemanticModelRun_proofs`, for any numbers of streams, cancellations and
deletions: `Unclaimed` (a run still pending has no stream past its claim, and at
most one stream ever holds it) gives `ExecutedOnce`, `NoRevival` and
`ImplementsClaimedWork`; what the row holds at each station of that stream gives
`CompletedHasModel` and `EventAgreesWithRow`. `ExecutedOnce` and `NoRevival` are
no properties of the run any more, since `WorkSpec` implies both; they stay as
theorems in the words of the code.

`DataAgentChat_proofs`, for any number of messages and streams and every window
that the assumption allows: `Served` ties each running stream to a claimed
message that is its own, `Told` ties the event a client got to the answer it
stands for; together they give `AnsweredOnce`, `EventAgreesWithRow`,
`AnswersAreKept` and `ImplementsClaimedWork`. The two properties about questions
asked one by one rest on `InTurn`: until a question is asked out of turn, only
the last message can be unclaimed, and only its request runs. Then no message
changes between the moment a request counts the rounds and the moment it asks,
so before a request that may still ask, one of the last `MaxClarifications`
messages is no clarification (`RoomToAsk`). That the count cannot have missed
enough of them to be wrong is `WindowReaches`: a clarification takes two rows of
the history, a question and its answer, and since
`HistoryWindow > 2 * MaxClarifications` as many as there may be rounds fit into
the window, in whichever order rows of one instant come. This gives `ClarificationsBounded`; `Captured` (what was saved has a
later answer) gives `CapturedAfterFollowUp`.

`DataImportRun_proofs`, for any tables and any number of requests and of
operations at once: `Fresh` (a request not yet over has created no run) and
`Settling` (also of a run whose import is still to be marked failed) give
`RunSettles`; `Counted` (a clean-up about to delete a connection
saw no models on it, or has been overtaken) gives `ModelsSurvive`. `Serial` says
that as long as nothing has overlapped a pipeline has the stores to itself;
under it `Backed` gives `ReadyIsBacked`, with the case that a clean-up has
cleared nothing yet (`Untouched`) apart from those where it has, and
`Accounted` gives `NoStrayConnection`, by what has become of the connection the
clean-up read: while the import is not linked to it, it was dropped or spared.
Models do not occur in it, which is why their deletion cannot break it. `Claimable`
(a run that is pending has no pipeline past its claim) gives `ImplementsClaimedWork`.

`RefreshTokens_proofs`, for any devices, tabs and number of requests, proves both
properties. `IssuedLast` (a request issues its token last of all) and
`SpentFirst` (the token it came with is spent by then) give `OnlyTheCookieIsLive`;
`AllIsWell`, stated of each device, gives `NoFalseAlarm`: while all has been
smooth on it at most one request of it is under way, that came with the token
the device holds, and only a revocation of all tokens by another device, which
`swept` records, may have revoked that. `FolderSync_proofs`, for any paths,
sizes, times and writes, rests on `Listed` (what a scan would list and has not
yet is on the run's lists, touched or missed), `Newest` and `InOrder` (contents are
numbered by their writes). `StorageObject_proofs`, for any number of requests,
rests on `Backed` (whatever says that the content has arrived is right, but for
the owner's own deletion) and `Cleared` (who is about to remove the row has had
the upload aborted or the content deleted before).

The modules' assumptions are on constants only: bounds are numbers, `NULL` and
other marks are no value of the types they stand beside, a source file has a
table (`RunAssumption`, `ChatAssumption`, `ImportAssumption`,
`SessionAssumption`, `StorageAssumption`, `SyncAssumption`, and in `TableWorkers`
`NumTablesAssumption`, `RawConcurrencyAssumption` and `NaNAssumption`).

**The safety half of the liveness.** That something happens needs fairness,
which the prover has no rules for here. What the arguments rest on besides
fairness is proved, for every instance; these statements are in no run's
configuration, because the runs check the liveness itself.

| Checked by TLC | Proved |
|---|---|
| `StageReturns` | `SomeoneHoldsASlot`: until the last table is released some table holds a slot; `WorkersAdvance`: every step of a table leads it to a later stage |
| `Terminates` | `StepsAreCounted`, `NearerTheEnd`: every step of the agent is one of at most `2 + 4 * MaxRevisions` visits to nodes, or one of at most `MaxSteps` steps within one |
| `ExecutionSettles` | `ExecutingIsAttended`: a run that is executing has a request that has still to end it, or the process was restarted or the failure's write lost |
| `MessageSettles` | `ClaimedIsAttended`: the same of a claimed message that is not abandoned |
| `ProcessingEnds` | `ProcessingIsAttended`: the same of a row that is processing and the handlers of its uploads |

Only model-checked: the liveness properties of this table and the liveness half
of `TableSettlement`, whose proofs need fairness and `ENABLED`, and the four
divergences, each of which is a counterexample. `DataAgentGraph` and
`DataAgentChat` are composed by agreement of `OneOutcome` and `GraphEnds`, not
by one specification that contains both.

## 6. Not modelled

The web client makes up most of the code and is user interface: its requests are
the arbitrary requests of the models. So are the LLM providers, database
drivers, Neo4j, embeddings and the sandbox, whose outcome is a choice, and the
MCP server, which only reads. Relationships, assembly and validation of a
semantic model are sequential transformations of one document. Shares of a
chat, device and authorization codes, the version check of the settings, the
provider cache, the last administrator and the creation of an ontology across
two stores are check-then-write handlers listed under `hazards` with a reason,
or in `components`.

## 7. Plan

1. `Ontology`: the creation of an ontology across PostgreSQL and Neo4j, its
   deletion meanwhile, and restarts, composed with the questions that read it.
2. `AuthCodes`: device and authorization codes, as the start of a session of
   `RefreshTokens`.
3. `Settings`: the version check apart from its write, and the cache of LLM
   providers.
4. The metadata column of `StorageObject`; shares in `DataAgentChat`.
5. One specification of a chat with its graphs, in which `GraphEnds` is the end of
   a `DataAgentGraph`, so that their agreement is a theorem.
