# TLA+ models of the Telegram job-search automation core

This directory models what the system does to the world and cannot undo (submitting
applications, answering recruiters, confirming interviews), the way work gets there
(pipeline, approvals, queue, browser flow, release gate), and the stores it rests on
(the runtime database's mirror, task runs, idempotency keys, files). File names below are
relative to `src/`.

## 1. Inventory

The system is a set of Node processes that share a Postgres database and Redis
(BullMQ). Each process keeps a **private in-memory copy** of the database
(`PostgresRuntimeDatabase`, `packages/db/src/index.ts`). The copy is read once, when
the process starts. Every change is made to the copy first and mirrored by a
statement that is handed to a connection pool and not awaited (`persist`). A
statement that fails is put on a list of errors and not sent again. Processes
therefore meet only in Postgres (at their next start) and in BullMQ.

| Component | State | Operations | Talks to | Correct when |
|---|---|---|---|---|
| API server (`apps/api`) | private copy | run the pipeline, create and resolve approval requests, change mode, dispatch replies, confirm interviews, release evidence, dead letters | queue, database | only approved work is queued, and it is queued when reported so |
| Telegram bot (`apps/telegram-bot`) | private copy | `/approve`, `/reject`, `/pause`, `/mode`, review commands | queue, database | as above; `/pause` stops irreversible actions |
| Approved-submit worker (`apps/worker-apply`) | private copy, the job it holds | validate, healthcheck, policy, guard, rebuild draft, submit, record proof and evidence | provider, queue, database | submits only what was approved, and once |
| Job pipeline (`apps/api/src/runtime.ts`, `apps/worker-ingest`) | private copy | discover, deduplicate, draft, check limits, create the application and its request | providers, database | one application per vacancy and candidate, within the limits |
| Runtime database (`packages/db/src/index.ts`) | maps per table, statements in flight, errors | one method per record, `flushPersistence`, `hydrate` | Postgres | what is quiet is stored; decisions survive restarts |
| Queue and task runs (`packages/db/src/queue.ts`) | BullMQ jobs, task runs, dead letters | enqueue, execute, retry, dead-letter | Redis, Postgres | every job is settled; records tell what happened |
| Idempotency service (same file) | records per key | acquire, commit, fail, release | Postgres | guarded work runs once |
| Domain policies (`packages/domain/src/services.ts`) | none (pure) | policy, guards, dedup, scheduling, release gates | called by all | fail closed |
| Rate limits (`packages/db/src/rate-limits.ts`) | none (counts records) | evaluate | API, workers | never above the limit |
| Inbox, replies, outbound dispatch (`apps/worker-inbox`, `apps/worker-reply`, `apps/api`, bot) | messages, dispatch records, follow-ups | sync, classify, draft, approve, dispatch, plan | LLM, database | dispatched only on approval of that text, within limits, and final |
| Interview scheduling (`InterviewCoordinator` and its routes) | events, requests | create, approve, reject | API, bot | scheduled interviews never meet; daily cap |
| Release gates, evidence, canary (`services.ts`, `apps/worker-canary`) | evidence ledger, canary runs | post, run, report | API, worker | a gate opens only on fresh evidence |
| Browser flow runner (`packages/automation`) | state and trail of a run | walk a form up to the submit boundary | providers | a claimed boundary was earned; nothing is submitted |
| Secret store, object storage (`packages/db`) | files | put, rotate, delete | file system | a crash never loses what was stored |
| Digest worker, LLM, config, observability, rendering, scripts, browser sessions | none or I/O | | | outside the models |

`PROJECT.json` lists the same components with their status, and every hazard at
the line where it bites. The hard behaviours are: two processes acting on stale
copies of one record; statements that land in another order, are refused by a key or
never arrive; a job redelivered while its first worker still waits for the provider; a
crash between an irreversible call and its stored proof, or between two file system
calls; limits read before an await and used after it; pipeline runs that overlap; job
ids that repeat; drafts that come back with an old date; attempts, stalls, windows and
caps at their limits.

## 2. Modules

| Module | What it is |
|---|---|
| `ApprovedSubmit` | the approved-submit path: gateways, workers, queue, Postgres, clock, process starts |
| `SubmitLedger` | what the path promises: approvals, and submits covered by them at most once per process start |
| `TaskRuns` | task runs and dead letters: concurrent API requests, BullMQ consumers, the store's flush, Postgres |
| `Policies` | `PolicyEngine.check` as an operator, used by `Interviews`, `Replies` and `Intake` |
| `Interviews` | confirmations: gateways with copies, statements in flight, restarts, the clock |
| `Replies` | inbox sync, classification, reply worker, dispatch route, bot, follow-up planner |
| `Intake` | the pipeline: overlapping runs of the API, the ingest worker, dedup, limits, approvals |
| `FlowRunner` | the browser flow runner over the shipped flows and others |
| `ReleaseGate` | the evidence ledger, canary runs and the report that opens the gate |
| `Mirror` | every table of the runtime database, its statements, foreign keys and unique indexes |
| `Claims` | the idempotency service and callers that follow its documented protocol |
| `FileStores` | the secret store and the file object storage, cut at file system calls |
| `MC...` | model values, instances and symmetry for TLC; `MCSubmission` and `MCStores` hold three components each |
| `...Proofs` | the theorems about the module they are named after; `SubmissionProofs` is about `Intake` and `ReleaseGate`, `StoresProofs` about `Claims` and `FileStores` |

The modules meet where the components do. `ApprovedSubmit` looks at one job in depth and
leaves its record out; `TaskRuns` looks at the record of any job and leaves out what the
job does. `Intake` ends where an application waits for approval, which is where
`ApprovedSubmit` begins. The evidence that a submit records is in `ReleaseGate`. `Policies`
is the same engine in three of them. `MCSubmission` and `MCStores` compose components that
share no variable: an extra variable `part` picks the one that moves, so the number of
states is the sum and not the product of theirs.

### State of `ApprovedSubmit` and the code

* `status`, `req`, `mode`, `review`, `proof`, `content` are functions of a *copy*: a
  process's memory or `Db`, the Postgres tables. `proof[c][a]` is what
  `applications.proof_pack_id` refers to: the dry run's pack (which
  `evaluateSubmitProof` accepts), a pack whose artifact row never arrived, or the pack
  of a submit call (which it never accepts, because the final status of such a pack is
  not a successful dry run).
* `draft[a]` is the `draftVariantKey` of the application. A draft is represented by the
  version of the vacancy text it was generated from.
* `writes` is the bag of statements in flight. `Land` applies any of them, `Lose` drops
  any of them, with the effect of the SQL: `ON CONFLICT` clauses and updates of a
  missing row included.
* `jobs` holds the BullMQ jobs of `auto_apply_queue` by id. `calls` are handlers that
  wait for `queue.enqueue`. `run[w]` is where worker `w` is inside
  `processApprovedSubmit`.
* `userApproved`, `sends`, `submitted` are history variables. No action reads them.

### Actions

| Action | Code |
|---|---|
| `PrepareApplication`, `ReingestVacancy` | `runLocalPipeline`: first and later meetings of a vacancy |
| `PostApprovalRequest`, `ApiResolve` | the approval routes of `apps/api/src/server.ts` |
| `ApproveCommand`, `RejectCommand`, `ApproveApplicationManualReview`, `SetMode` | `apps/telegram-bot/src/commands.ts`; the same handlers serve the API's webhook, so they run in every gateway |
| `EnqueueReturns` | the second half of an approving handler: the job was added, was there already, was not added, or was added and the call failed |
| `StartJob`, `RunCli` | `processApprovedSubmit` up to its first await, by a BullMQ consumer and by the one-shot run |
| `HealthcheckReturns` | from the healthcheck to the submit call: policy, guard, draft, status |
| `SubmitReturns` | from the answer of the provider to the end |
| `Land`, `Lose`, `Restart` | `persist`, the errors nobody retries, `connect` and `hydrate` |
| `StallJob`, `EvictJob`, `Expire` | BullMQ's stalled-job check and `removeOnComplete` (external), the passing of time |

### Abstractions

* The verdict of a rate limit, the provider's health, consent, score, duplicate check
  and canary are inputs (`hardOk`, `canary`), free at every decision. A handler that
  refuses before writing anything is a step that changes nothing.
* Inserting a review item is immediate. Items are only added, and an item that was lost
  behaves like one nobody approves. Its own status is not represented, because no
  decision of this path reads it; this covers `/manual-review/:id/resolve`.
* `hydrate` reads all tables in one step, and the statements of a process have settled
  before its successor starts.
* Only the API server creates applications. An application whose insert was lost and
  which is prepared again after a restart is another element of `App`.
* A gateway has at most one `queue.enqueue` in flight for a request.
* The one-shot run is started with the draft hash of the application. Other hashes are
  refused before anything happens.
* `Orphan` are applications whose provider (or vacancy) the worker does not find.
* Audit events, task runs, time stamps and texts are left out.
  `expireApprovalRequests` is called by no application of the repository, so a request
  becomes `expired` only when it is resolved late.

### `TaskRuns` and the code

* `run[c][i]` and `dlq[c][t]` are the status of a task run and of the dead letter of a
  task in a copy `c`: the store of a process (`PostgresTaskRunStore`) or Postgres. A
  task id is `queue:idempotencyKey`; a retry has an id of its own (`RetryId`).
* `writes` is a bag of statements. The field `wait` names the request whose
  `flushPersistence` has taken the statement over (`pendingWrites.splice(0)`): each
  flush awaits only the statements no earlier flush took. `errors[p]` says that
  `persistenceErrors` of process `p` is not empty; a flush throws the first and drops
  all.
* `handler[h]` is where a request of the API server is. Requests are cut at their
  awaits, so two of them interleave in one process and share its store.
* `jobs` are BullMQ jobs with the worker that holds the lock; `exec[w]` is the job a
  consumer executes, which may have lost its lock.

| Action | Code |
|---|---|
| `EnqueueTask`, `RetryDeadLetter` | a route calls `BullMqQueueAdapter.enqueue`: `createQueued`, then the flush |
| `FlushReturns` | `flushPersistence` returns or throws |
| `RedisAdds`, `AddReturns`, `AddFails` | `queue.add` takes effect, returns, or throws before or after it took effect; `AddReturns` includes the retry route's `resolveDeadLetter`, `AddFails` the `markFailed` and its flush |
| `EditDeadLetter` | `/dlq/:id/assign`, `/resolve`, `/discard` |
| `OtherRequest`, `SaveBegins` | `flushRuntimePersistence` at the end of every route: first the database's statements, then the store's |
| `StartJob`, `JobSucceeds`, `JobFails`, `JobDeadLettered` | `executeBullMqQueueJob` and `executeQueueTask` around the await of the handler |
| `Land`, `Fail`, `Restart` | an upsert takes effect (with the foreign key of `dead_letter_tasks`) or fails; `hydrate` |
| `StallJob`, `EvictJob` | BullMQ (external) |

Abstractions: a heartbeat repeats the row `markRunning` has just stored and is left out,
as are attempts counted in the row, since BullMQ's own count decides. A consumer holds
one job (`auto_apply_queue` has concurrency 1; more consumers stand for more
concurrency). No application consumes `retry_queue`, so `StartJob` takes only source
tasks. The database's own statements and errors are not represented: `SaveBegins` says
when the store's turn comes. A request that is refused changes nothing and is no step.

### `Interviews` and the code

* `events[g]` and `requests[g]` are the maps of gateway `g` (API server or bot), `stored`
  the tables, `unsent[g]` the statements of `g` that Postgres has not executed. Handlers
  run without an await, so each is a step.
* A slot is a day, a wall-clock time, a zone and a duration; what an event keeps of it is
  `Canonical`, without the duration. The stored event therefore always counts as sixty
  minutes. `Confirmable` is `InterviewCoordinator.evaluateSlot` with its five parts.

| Action | Code |
|---|---|
| `CreateConfirmation` | `POST /schedule/confirmations` |
| `Approve` | `POST /schedule/confirmations/:id/resolve` (approved) and the bot's `/approve` |
| `Reject` | the same, rejected: the API cancels the event only when the request became rejected, the bot always |
| `Land`, `Lose`, `Restart`, `Tick` | statements, a process start, the clock |

Abstractions: units of half an hour; zones by their offset; resolutions that
name another draft hash are refused and are no step. A Postgres session is assumed to
use UTC, as `dateTime` is written as wall clock and read back as UTC.

### `Replies` and the code

* `inbox[m]` is how far a message got: unseen, recorded, classified. `outbound[k]` is the
  dispatch record of idempotency key `k`: the worker's keys end in a template id, the
  route's in a category. `requests[r]` are approval requests for replies, `followUps` the
  `follow_up_due` items ever created.
* `todo` is the loop of the reply worker or of the planner, which runs without an await:
  while it is not empty nothing else moves.

| Action | Code |
|---|---|
| `Fetch`, `Classify`, `AbandonSync` | `runInboxWorker`: the message is recorded, the LLM awaited, the classification stored; or the worker ends in between |
| `StartReplyWorker`, `DraftReply` | `runReplyWorker`, one message at a time |
| `PostApprovalRequest`, `ApiResolve` | the approval routes, for a reply |
| `ApiDispatch`, `ApiDispatchApproved` | `POST /outbound/dispatch/review-first`, without and with an approval |
| `BotApprove`, `BotReject` | `/approve` and `/reject` of a drafted reply |
| `ResolveReview`, `SetMode` | `POST /manual-review/:id/resolve`, `setMode` |
| `StartFollowUps`, `PlanFollowUp` | `planConservativeFollowUps`, one conversation at a time |
| `Tick` | the clock |

Abstractions: one copy of the tables (the order of statements is the subject of `Mirror`,
stale copies that of `ApprovedSubmit`); texts are members of a small set, with the valid
and the claiming ones marked; drafts follow the category. No live transport exists, so the
last status is `dry_run_recorded`. No template is a follow-up, so the planner never sees a
recruiter's answer. Linking a message to a job is done by tests only.

### `Intake` and the code

* `shown` is what the provider's site shows, `stored` the jobs in the API's copy and in
  Postgres, `applied`, `asks` and `openReviews` what the API created, `runs[r]` where a run
  is and what it holds over its awaits: the posting, the dedup decision and the answer of
  the healthcheck it began with.

| Action | Code |
|---|---|
| `StartRun`, `FetchFails`, `MeetVacancy`, `DryRunReturns` | `runLocalPipeline`, cut where it awaits the provider |
| `IngestVacancy` | `runIngestWorker` |
| `ApproveAsk`, `RejectAsk` | `POST /approval-requests/:id/resolve` |
| `PutInMode` | `setMode` |
| `IntakeRestarts`, `Revise`, `IntakeTick` | a start of the API process, the site, the clock |

Abstractions: a posting is the three keys dedup compares, its company, whether its score
fits and whether a draft can be made of it. Statements land at once. `IngestVacancy` writes
Postgres only, which the API reads at its next start. What happens after `apply_queued` is
`ApprovedSubmit`.

### `FlowRunner` and the code

* `flowInput` is what the caller of `DeterministicFlowRunner.run` passes: the flow, the pages as they
  compare with their fingerprints, guards, candidates per selector, the actions to stop
  before. `flowAt`, `flowTurn`, `flowAct` are the loop's variables, `flowTrail` the steps
  of the result, `flowPassed` the history of the actions that were passed.

| Action | Code |
|---|---|
| `EnterState`, `StateMissing`, `GiveUp` | the head of the loop: fingerprint, guards, unknown state, bound of 25 |
| `SelectorFails`, `StopBefore`, `PassAction` | one action of the state |
| `LeaveState` | the end of a state: terminal, a transition, or none |
| `RecordRun` | `runApplyWorker`: safe mode after a captcha, the proof pack |

The two shipped flows (`hhDryRunFlow`, `robotaDryRunFlow`) are translated state by state. An
optional selector (the cover letter) may be absent and the boundary is still reached;
`select_resume` has no selector. Inputs have at most one bad page, one failed guard and one
bad selector, so each is met alone and with one of another kind.

### `ReleaseGate` and the code

* `ledger` and `canaries` hold the evidence and the canary runs, in the API server's copy
  and in Postgres; `submitting[p]` is the time the submit worker noted before it awaited
  provider `p`.

| Action | Code |
|---|---|
| `PostEvidence` | `POST /release-evidence` with `validateReleaseEvidenceRecord` |
| `SubmitStarts`, `SubmitReturns` | `processApprovedSubmit` around the provider's call; `recordProviderSubmitReleaseEvidence` |
| `RunCanaries` | `runCanaryWorker` |
| `ServerRestarts`, `GateTick` | `hydrate`, the clock |

`GateOpen` is the conjunction that `GET /release-gates` reports: `evaluateProviderReadiness`
for each provider that submits, `ReleaseEvidenceEvaluator.summarize` and
`ReleaseGateEvaluator.evaluate`. A record's metadata beyond its times is one bit (`sound`).
The canary worker looks at static packs and fingerprints and not at a site.

### `Mirror` and the code

* `mem` and `pg` map a row (table, key, number) to its groups of columns; a value is the
  number of the call that wrote it. `flight` are statements sent and not settled, with the
  statements they are chained to (`after`), `refused` those that failed since the process
  started, `raced` the rows that two statements in flight at once were about.
* One operator per override of `PostgresRuntimeDatabase`, named as in the code, selected by
  `Called(table, v)`. `ErrorOf` has the foreign keys and the second unique index of
  `dedup_jobs`, `Applied` the `ON CONFLICT` clauses, `Hydrated` what `hydrate` reads. `Put` is a
  map's `set`, `Onto` what new columns make of a row.

| Action | Code |
|---|---|
| `Called` | every override that changes a map and sends statements |
| `Settle`, `LoseStatement` | Postgres executes or refuses a statement; the connection fails |
| `Reopen` | the process ends; `hydrate` |

Abstractions: `seedDefaultState` and `objectArtifacts` (kept in memory only and never
restored) are left out; `hydrate` is one step, although it reads without a transaction; the
audit rows that accompany calls refer to nothing and are left to `recordAuditEvent`.

### `Claims` and the code

`records` is the map of `PostgresIdempotencyService`, `keyRows` the table, `keyWrites` the
statements in flight (also of a process that died), `pendingWrites` and `keyErrors` the two
lists of the flush. `acquire`, `transition` (commit, fail, release), `Settled` (a flush
returns or throws), `Written` and `hydrateKeys` follow the code; `Execute` is the guarded
work. No application calls the service, so the callers follow the five steps of
`docs/architecture/queues-and-workers.md:47-53`.

### `FileStores` and the code

`secretsFile` and `tempFile` are `secrets.json` and its temporary, `objectFiles` the two files
of each object; a file that is opened for writing is torn until it is written. `readStore`,
`writeStore` (open, write, rename) and `SecretReturns` are the steps of put, rotate and
delete; `PutObjectStep` and `DeleteObjectStep` those of an object. `told` and `tried` are what
callers were told and may expect. Ids are used by one put only, as the code makes them. A
crash may come between any two steps.

## 3. What the runs check

Nine runs pass. `CHECK_DEADLOCK FALSE` is set in all of them because operations, process
starts and clocks are bounded: a behaviour that has used them up stops.

| Run | Instance | Shows |
|---|---|---|
| `Redelivery` | two consumers, one application, pauses, two restarts | `TypeOK`; a process submits once between two starts (`SubmitOncePerLifetime`); a stored submit proof is never replaced (`DurableProofKept`) |
| `OneShotRun` | API and bot resolve one request, a consumer and a one-shot run compete, two texts of the vacancy | only accepted approvals are queued (`QueuedJobsApproved`); what is sent is the text that was approved (`SubmitBackedByApproval`); the path implements `SubmitLedger` (`ImplementsLedger`) |
| `QueueDrains` | fair, two applications (one without a provider), all outcomes, `review_first` as well | every queued job is completed, failed or evicted (`JobsSettle`) |
| `EnqueueFlushes` | one request at a time, two consumers, failing statements, a stall, a restart | `TypeOK`; BullMQ gets a task only when its run is stored (`EnqueuedRunStored`); a job runs at most once per attempt and stall (`ExecutionBound`) |
| `DeadLetters` | two requests at a time on one dead letter, a consumer, a restart | copies record only outcomes that happened (`OutcomesHappened`); a letter the retry route closed has its job (`RetryBeforeClose`); a closed letter stays as it was closed (`ClosedOnce`) |
| `Calendar` | one gateway, two interviews, slots that meet across midnight and in another zone | `TypeOK`; scheduled interviews never meet (`NoOverlap`); no day exceeds its limit (`DailyCap`) |
| `Replies` | two messages of one thread, one request, both modes | `TypeOK`; `WindowsKept`, `FollowUpCaps`; dispatched on an approval of that text (`DispatchApproved`) and final (`DispatchFinal`) |
| `Submission` | flow runner, release gate and pipeline, one of them per behaviour | `FlowTypeOK`, `BoundaryEarned`, `SubmitStopsRun`, `ErrorNamed`, `CaptchaSafeMode`; `PostedStaysAccepted`, `FailedCanaryBlocks`; `IntakeTypeOK`, `TwinsAppliedOnce`, `AsksApprovable`, `SentWithinLimits`, `RoomWhenPrepared` |
| `Stores` | mirror, idempotency keys and files, one of them per behaviour | `QuietRowsStored`, `ChainedNeverRefused`; `ClaimsTypeOK`, `WorkOnce`; `FilesTypeOK`, `SecretsKept`, `MetadataMeansWhole` |

Three runs expect a violation. Each states what a document of the repository, or its
code, says and shows a behaviour that contradicts it:

| Run | Statement | What happens |
|---|---|---|
| `SubmitTwice` | no irreversible work without an idempotency key (`docs/architecture/queues-and-workers.md:51`) | no application acquires a key; after a crash, or with a second worker, an application is submitted again |
| `ProofRefused` | the evidence of a successful submit counts as its proof | the worker's record is observed after the submit it cites; its own validation wants both times equal and refuses it as soon as the call takes time |
| `DecisionLost` | dedup decisions are persisted (`docs/architecture/runtime-state.md`) | the decision about a second vacancy with the same canonical URL is refused by a unique index that the statement's `ON CONFLICT` does not name |

Other statements of the repository do not hold either. They are defined in the modules,
without a run:

| Property | Says | Counterexample |
|---|---|---|
| `ApprovedSubmit!AppliedIsTerminal` | `applied` is terminal (`docs/architecture/application-lifecycle.md:3`) | `setApplicationStatus` does not consult `ApplicationLifecycle`; a late approval sets `apply_queued` |
| `ApprovedSubmit!PausedBlocksSubmit` | "New irreversible actions are blocked." (`apps/telegram-bot/src/commands.ts:67`) | a running worker keeps the mode it read when it started |
| `ApprovedSubmit!ApprovalQueuesWork` | an approval enqueues a task or says why not (`docs/architecture/manual-review.md:42`) | the job id of a settled job is met again; nothing is added, "queued" is reported |
| `TaskRuns!OpenDeadLetterSeen` | "`GET /dlq` returns current dead-letter records." (`docs/architecture/queues-and-workers.md:91`) | the API lists what it read when it started; workers create the letters |
| `TaskRuns!EnqueuedRunStored`, two requests | a run is flushed before `queue.add` | one request's flush takes the error of the other's statement |
| `Interviews!StoredCalendarDisjoint`, two gateways | a confirmed interview meets no other | each gateway checks its own copy |
| `Replies!AnsweredOnce` | one answer per inbound message | worker and route use different keys for one message |
| `Intake!SafeModeStops` | a captcha stops automation | a run that passed its healthcheck goes on |
| `ReleaseGate!GateFollowsLiveCanaries` | the gate follows the live canaries | a newer run over static packs outweighs failed live evidence |
| `Claims!WorkOnce`, two callers | work under a key runs once | a late `released` row, or an error taken by the other's flush |
| `FileStores!SecretsKept`, two requests | a stored secret stays | both read the file before either replaces it |

So the safety that holds is weaker than the documents': *once per process start, on an
approved request, with the approved text*; from the moment the proof is stored no fresh
worker repeats the submit; and calendars, keys and secrets are safe with one process or
caller at a time.

**Bounds.** Every bound is a constant named in the module and guards an action.

* *Approved submit.* `MaxOps` (3 or 4) is enough to prepare, approve, approve again or
  pause, and once more. `MaxPending` (2) lets two statements overtake each other.
  `MaxRestarts` is one or two: a worker reads an application only after a
  restart, and one more is the crash. `MaxAttempts` is 2 (3 in the code) and `MaxStalls` 1
  (BullMQ's default): the limit is reached either way.
* *Task runs.* `MaxPending` 3 is what `JobDeadLettered` sends, and three operations are an
  enqueue, a retry and a competing edit of the letter; `DeadLetters` therefore spends its
  states on requests and gives jobs one attempt and no stall, `EnqueueFlushes` the other
  way round.
* *Interviews.* Half-hour units, notice of a day, one interview per day, a clock that moves a
  day once. Two interviews are all a pairwise property needs. `UnsentBound` keeps three
  statements under way, one more than a handler sends.
* *Replies.* Windows of one, two and three units, limits and caps of 2 and a horizon of 3
  let every window fill, and empty again. `MatchingRequests` drops requests no key can match,
  `RouteAnswersSlot` keeps the route to one message, `OneSide` looks at replies or
  follow-ups, which do not read each other, and the view hides reviews nobody reads.
* *Flow runner.* The code's own bound of 25 states; the sets of stops a caller may pass; besides
  the shipped flows one that returns to its entry and two that lead nowhere.
* *Release gate.* One posted record, one canary run, ages of one or two units against a
  horizon of three: evidence of every kind can be posted, expire and be read late.
* *Pipeline.* Two runs that overlap, two vacancies (a copy of the first, another role of its
  company, one that does not fit, one without a draft), one change of a posting, limits of 1.
* *Mirror.* Three calls over all tables, two vacancies, one lost statement, one restart:
  three calls are a row, its child and its grandchild. `DecisionLost` needs four calls of two
  tables.
* *Claims and files.* Five calls, two restarts, two keys; four requests, two crashes, two
  secrets and an object.

The theorems of section 4 hold for all values.

**Fairness** is assumed by `QueueDrains` only. A consumer takes a waiting job and its awaits
end: both calls of the provider are under a 30 s abort timer or return at once. BullMQ
reclaims a job whose holder is gone. A statement succeeds or fails. Nothing is assumed of
users, operators, process starts or the clock.

## 4. What is proved

### The approved-submit path

The theorems hold for any sets of processes, applications, requests and texts and for
any bounds, from the `ASSUME`s of `ApprovedSubmit`: process kinds are disjoint, `None` is
not an element of the sets, modes and outcomes are among the code's, bounds are naturals.

* `TypeCorrect`: `Spec => []TypeOK`. `TypeOK` limits the attempts and stalls a job can
  have, and is not inductive: `JobLimits`
  adds that a job that waits or runs has an attempt and a stall left, `BusyShape` that a
  worker in a phase has an application and a request.
* `SubmitsOncePerLifetime`: `Spec => []SubmitOncePerLifetime`. `Once` adds that a worker
  that has sent is still waiting for the answer or holds the proof of the call in its own
  copy; the one keeps it busy, the other closes the guard until the next start.
* `StoredProofKept`: `Spec => DurableProofKept`. The only statement that could bring the
  dry run's proof back is a second `create`. `CreateOnce` says that each application is
  created once and that its row is absent while that statement is in flight.
* `SubmitsAreApproved`, `QueueHoldsApprovals`: `Backed` follows an approval along every
  way it takes: through copies (`CopiesApproved`), statements in flight (`WritesApproved`),
  handlers that wait for the queue (`CallsApproved`), jobs, and the workers executing them
  (`RunsBacked`). `AppsDrafted` adds that whatever has a status has a draft.
* `PathImplementsLedger`: `Spec => ImplementsLedger`. Every step is an approval, a covered
  submit, a process start, or leaves the ledger unchanged (`OtherStepsQuiet` classifies
  the last kind).

### Task runs

From the `ASSUME`s of `TaskRuns` (processes and database distinct, bounds naturals, at
least one attempt), for any sets of requests, consumers and tasks:

* `TypeCorrect`, `ExecutionsBounded`: `Inv` adds to `TypeOK` that a request inside
  `enqueue` knows its task (`HandlerShape`) and that a job's executions are exactly its
  failed attempts plus its stalls, plus one while it runs (`JobLimits`); the bound follows.
* `RecordsAreTrue`: `Truth` adds that every statement in flight tells the truth, so it does
  not matter which lands last, and that consumers execute source tasks only.
* `EnqueuesAreStored`: assumes one request at a time. `Stored` says of a request that
  flushes a queued run that the run is stored, or its statement is among those it
  awaits, or an error is on the list. With two requests the last case fails, because the
  other one may clear the list: that is why the assumption is there.
* `RetriesAreQueued`: `RetryWaits` adds that a request that saw `queue.add` return for a
  retry has its job waiting; nothing takes it away, because nothing consumes the queue.
* `LettersCloseOnce`: `Spec => ClosedOnce`, an action property, from type correctness.

### Interviews

From the `ASSUME`s of `Interviews` (slots, buffers and clocks are numbers), for any slots,
zones, windows and limits:

* `InterviewsTypeOK`: `Spec => []TypeOK`, for any number of gateways.
* `OneGatewayNoOverlap`, `OneGatewayDailyCap`: assume one gateway. `CalendarInv` adds where a
  version of an event may be: only events the gateway's copy knows are in a statement or in
  the table, with the slot they were created with. An approval, checked against all events of the
  copy, is then checked against everything that is scheduled anywhere, including what an old
  statement may still write. With two gateways this is false (`StoredCalendarDisjoint`).

### Replies

From the `ASSUME`s of `Replies` (times and limits are naturals, messages and categories are
finite, valid texts are texts), for any messages, keys, requests and limits:

* `RepliesTypeCorrect`, `RepliesFinal`, `RepliesApproved`: `RecordStep` says what a dispatch may
  make of the record of its key, whoever calls it; every action either writes one record
  that way or none (`StepWrites`).
* `RepliesWithinLimits`: `WindowsInv` adds the types to the four windows. The live records of a
  class of keys grow only where the policy saw room, also when a blocked draft comes back
  with its old date, and the clock only empties windows.
* `RepliesFollowUps`: an item is added below both caps, and `CapStep` counts what it adds to
  every set of threads.

### Intake

From `IntakeAssumption` and `ListingAssumption` (spans and limits are numbers, the entries of
the listing are distinct, every posting has an address), for any runs, vacancies, postings,
revisions, windows and limits:

* `IntakeTypes`: `Shape` adds what a run carries over its awaits, and that there are finitely
  many applications, one per vacancy.
* `TwinsNeverBothApplied`: a vacancy is `Engaged` once a run prepares it or it has an
  application. `TwinsApart` says that what is engaged and unchanged is stored as shown in both
  copies, and shares no key with anything else engaged. The invariant is needed because the
  comparison comes a dry run before the application: a run that meets a copy later compares it
  with a job that is stored and has no application yet.
* `AsksStayApprovable`: `AsksHeld` says the same of approved requests, which are approved again.
* `LimitsNeverExceeded`: `LimitsKept` adds that no time stamp is of the future. An approval
  stamps the application with the present time, so it enters no earlier window and finds room in
  the present one; time only empties windows. The company part uses `TwinsApart`: the server
  counts by the company it stored, the property by the one that is shown.
* `PreparedWithRoom`: `Spec => RoomWhenPrepared`, an action property, through the verdict of
  the policy: no status that counts comes of a verdict that found no room.

### Release gate

From `GateAssumption` (sets of providers, times are naturals, a soak and the horizon are not
zero): `GateInv` says that a record posted as passed is valid now. `PostedEvidenceStays` follows
because validity looks at the clock in one direction only (`ValidLater`), and
`FailedCanaryClosesGate` because a failed canary is among those looked at. `GateTypeCorrect`
(`GateSpec => []GateTypeOK`) includes that a provider has one submit evidence at most in each copy.

### Flow runner

`FlowTypeCorrect` and `FlowBoundaryEarned` hold for any flows whose action lists are
sequences (`OtherFlowsAssumption`), any sets of stops and any bound. `Walk` says that
the trail of a run under way is a chain of good states from the entry that ends where the run is,
and that the actions passed in the current state were found and are not to be stopped at.
The boundary is claimed by `StopBefore` alone, which finds the selector of its own action.

* `FlowCaptchaSafeMode`: for the same flows, stops and bounds. A run that goes on has met no
  captcha yet, and one that has ended names a captcha exactly when its last step met one
  (`CaptchaNamed`); every branch that ends a run is compared with what its step recorded.
* `FlowErrorNamed`: `ErrorNamed` is about the shipped flows. `NamedInv` says that a run of one
  is in one of the five states of its `Way`, at that state's `Turn`: no cycle, no missing
  state, no end without a transition. It assumes `FlowTurns >= 5`, because a smaller bound
  would stop the run before the last state; the code's bound is 25.
* `FlowSubmitStopsRun`: a caller that stops before `submit_application` gets a run that never
  passes that action, in any flow, and in a shipped flow a success that reached the boundary.
  `StopInv` says that such a run of a shipped flow is before that action while it goes on, so it
  cannot end well in a state behind it. No bound is assumed.

### Runtime database

`MirrorQuietRowsStored` and `MirrorChainedNeverRefused` hold for any vacancies, any tables
called, and any number of calls, lost statements and restarts. `Stores` sees three calls; the
statements a row gathers over more of them are what the invariants are about.

* `MirrorInv`: a row is `Spoilt` once a statement about it failed or two of them were in flight
  and could disturb each other. Every other row is `Faithful`: each column the map holds is
  stored or on its way (`Underway`), what is on its way is what the map holds
  (`SentAsHeld`), a row with updates only is there for them (`Created`), a statement that a
  stored row would ignore adds nothing to it (`IgnoredHarmlessly`), and no two statements on
  their way depend on their order (`OneByOne`). Without the last one `SentAsHeld` is lost at the
  second call; without `Created` an update would find no row and change nothing, silently.
  `MapsComplete` ties maps and tables to each other: what is stored or sent is in the maps, of
  the health checks the latest. So a row that is new to the maps is new to Postgres too, and
  what `hydrate` reads is faithful again.
* The lemmas `...Handled` show of each override that what it does to the maps and what it sends
  fit together (`Fits`, `Chains`); `FitsInv` and `ChainsInv` then need not know which one it was.
  `AppliedInv` and `RefusedInv` are the two outcomes of a statement.
* `ChainInv`: while no connection failed, a parent that the maps hold is stored or its insert is on
  its way, and a chained statement names that insert among those it waits for. So when it
  executes, the parent is there.
* `MirrorTypeCorrect`: `RowsTyped` adds to `MirrorTypeOK` the types of what statements set. A row
  that an update reaches first is not created, and one that an insert creates is complete.

### Idempotency keys

`ClaimsTypeCorrect` holds for any callers: `ClaimsShape` adds that a key with an active claim has
one claimant. `OneCallerWorkOnce` assumes that one caller at a time uses the service.
`Guarded` says that a claimed key has no `released` statement in flight, that a key has
one at most, and that the key of done work is granted neither by the record nor by the row nor by
a statement that may still land. With two callers the first of these fails.

### Files

`FilesTypeCorrect` and `ObjectsWhole` hold for any requests at a time: bytes are whole
before metadata is opened, and a delete takes the bytes first. `SecretsSurvive` assumes
one request at a time: what a request has read is still what the file holds when it replaces it, and the
temporary file is whole when it is renamed.

Each proof that a step preserves an invariant has one step per action; facts about bags,
records and cardinalities are lemmas. `MirrorInv` and `ChainInv` also hold as invariants of the
instance of `Stores`. Only model-checked: `JobsSettle` (liveness under fairness is out of the
prover's reach) and the violations, which are counterexamples.

## 5. Plan

1. The composition of `Intake` with `ApprovedSubmit`, so that the limits are followed to
   the submit call, and of `Mirror` with the handlers, so that what a flush promises is stated
   per route.
2. The migration runner: files in order, a failure between two, and two processes that
   start together.
3. `Replies` over several copies, as in `Interviews`.

## 6. Not modelled

* LLM prompts, parsing of provider pages, rendering, configuration, observability and the
  digest are text processing without state a property is about; their results are inputs.
* `BrowserSessionManager`, `BrowserAuthStateVault`, `BrowserArtifactCapture`,
  `BrowserArtifactAccessLedger` and `ReplayService` are called by no application.
* S3 and in-memory object storage make one call per operation.
* The migration runner, `seedDefaultState` and retention (a report over ages) are not
  modelled; of the migrations the keys of the runtime tables are, in `Mirror`.
* The scripts collect evidence and run deployments outside the running system.
