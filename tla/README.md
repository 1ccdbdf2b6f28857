# Formal model of Phishtopia.com

This directory specifies and checks the parts of the repository in which
concurrency, crashes, retries or exact arithmetic decide whether the system is
right: the operations worker that changes production and the controller that
reaches it through Pub/Sub (`ops/phishtopia-ops-mcp`), the accounts and sessions
of the web site, and StoreCalc with its catalog, calculation and calculator page.
Paths below are relative to the root of the repository (`src/` in
`PROJECT.json`).

`PROJECT.json` is the index: components, runs, the code behind every
definition, mutations that each property detects, hazards, findings, theorems.

## 1. The system and its parts

| Part | State it keeps | Operations | Talks to |
|---|---|---|---|
| Ops worker: job store (`worker/store.py`) | SQLite tables `jobs` and `audit_events`, `audit.jsonl` | start, get, cancel, next_job, transition, succeed, recovery at start | handler threads and the executor thread share it under one lock |
| Ops worker: executor (`worker/executor.py`) | the job at hand, its deadline, the mutation flag | preflight, capture, perform, handoff, rollback, finish | store, platform |
| Ops worker: daemon (`worker/daemon.py`) and its unit | process, socket, reexec flag, start rate window | handle request, run_jobs, SIGTERM, reexec, restart | store, executor, systemd |
| Ops worker: platform (`worker/platform.py`) | release symlinks and manifest, environment backups, secret versions, canary traffic, database index, DNS record | capture, perform, rollback, cleanup for eight action types | GitHub, gcloud, pm2, PostgreSQL, Cloudflare |
| External controller (`controller/*.py`, a workflow) | Pub/Sub request and response subscriptions | comment to request, relay to the worker, wait for the response | worker socket, Pub/Sub, GitHub |
| Ops MCP server (`src/*.ts` of the ops project) | none | one worker request or read-only API call per tool | worker socket, cloud APIs |
| Installation scripts (`scripts/*.sh`) | marker files, unit files, release directories | bootstrap, commit, recover, roll back | systemd |
| Web accounts and sessions (`src/services`, `src/db`) | users, pending address, tokens, sessions | register, verify, resend, login, change name, address and password, delete | PostgreSQL, mail |
| StoreCalc catalog (`src/storecalc/catalog`) | template versions, content, seals, publications, applicability | draft, seal, publish, assign, resolve, calculate | PostgreSQL under advisory and row locks |
| StoreCalc calculation (`src/storecalc/calculation`) | none | normalise, price, tax, buckets, constraints | called by the catalog and the anonymous calculator |
| StoreCalc anonymous calculator (`src/storecalc/anonymous`, `public/js/storecalc-calculator.js`) | the registry of one process; inputs, busy flag and results of one page | build the registry, view, calculate; edit, submit, render | browser and server over HTTP, the calculation |
| Timed cache, readiness, TMDB and analytics clients | in-memory entries with an expiry | get, set, load | external HTTP services, PostgreSQL |
| Pages, assets, YouList, social cards, CI | nothing shared | rendering and single statements | browser |

### What is hard in each

* **Worker.** A mutation of production takes minutes and several external
  commands, and the process may die between any two. What the restarted worker
  does is decided by what the row says: no baseline (run), baseline and mark
  (roll back), handoff checkpoint (complete the switch of release), else (fail
  without rollback). Handler threads cancel the job while the executor checks, marks
  and commits. An ops upgrade, or a `rollback_release` of the worker, replaces the
  code of the worker that runs it, and
  only the new process may report success. Correct means: no trace without a
  durable record to undo it, one winner between cancel and success, verdicts
  that tell the truth, no second execution, and an end for every job.
* **Audit outbox.** Many threads append to one file after their transaction.
  Correct means: an acknowledged event is on disk, in order and, without
  crashes, once; no gap; every event gets there.
* **External controller.** Messages arrive at least once, responses may be late
  or belong to an earlier run, and the relay may lose the worker's answer.
  Correct means: one job for one comment, no request dropped unanswered, and a
  report that is about its own request.
* **Accounts.** Every handler awaits between reading and writing; sessions are
  rows that another library writes after the transaction and at the end of
  responses. Correct means: names
  and verified addresses are unique, a token works once and for the address it
  was mailed to, no session outlives what should have ended it.
* **StoreCalc catalog.** Sealing, publication and applicability race with
  content changes under READ COMMITTED and explicit locks. Correct means: a
  seal covers what was there, a sealed version never changes, a resolver never
  finds two current rows.
* **StoreCalc calculation.** Integer money, rounding, limits shared by lines, and
  two validators of one content in two files. Correct means: equality with exact
  fractions, no order dependence, limits met exactly, "complete" only when
  nothing is open, and no sealed content that cannot be calculated with.
* **Calculator page.** It repeats rules of the server, stays open across
  deployments and accepts edits while a calculation is under way. Correct means:
  page and server agree, a visible result is that of the inputs, and the page
  can always be used again.

`PROJECT.json` lists the single hazards with their lines.

## 2. Modules

| Module | What it is |
|---|---|
| `OpsWorker` | store, executor, daemon and systemd restart, one action per step that a crash or another thread can separate |
| `OpsWorkerProofs` | its inductive invariant, the proved theorems, and the proof that its steps are those of `OpsJobSpec` |
| `OpsJobSpec` | what the worker promises about one job: accept, work, commit whole, undo, escalate |
| `OpsWorkerRefinement` | the refinement mapping from the first to the third |
| `AuditOutbox` | the outbox: commit with event, select, append, fsync, acknowledge |
| `AuditOutboxProofs` | its inductive invariant and the proved theorems |
| `OpsRelay` | the external controller, composed with the worker: workflow runs, Pub/Sub, the relay, and `OpsJobSpec` as the worker behind the socket |
| `OpsRelayProofs` | its inductive invariant and the proved theorems |
| `Accounts` | users, links and sessions of the web site, the handlers split at their awaits |
| `AccountsProofs` | its inductive invariant and the proved theorems |
| `CatalogStore` | the catalog tables and the transactions that seal, publish and apply a version |
| `CatalogRequests` | a visitor who resolves, loads and calculates while `CatalogStore` changes; extends `CatalogStore` and `StoreCalcContent` |
| `CatalogProofs` | the inductive invariants of the two, the second of which extends the first, and the proved theorems |
| `StoreCalcCalculation` | the engine as operators: accepted and canonical configurations, lines, taxes, buckets, constraints, verdict |
| `StoreCalcContent` | the content of a version: acceptance, canonical form, projection to a configuration |
| `StoreCalcContentProofs` | what sorting and filtering return, for every sequence; that canonical content does not depend on the order of rows, and that what was sealed projects |
| `StoreCalcOrder` | a draft that is sealed and projected, and an order that grows; the reference definitions |
| `StoreCalcOrderProofs` | the theorems about the content of a draft and about an order |
| `StoreCalcAnonymous` | the registry of public configurations, the view model and the service |
| `StoreCalcPage` | the calculator in the browser with that service, a network and deployments |
| `StoreCalcPageProofs` | the registry, the inductive invariant of page and server, and the proved theorems |
| `MC...` | the instances of these modules for TLC |

### OpsWorker and the code

The variables are the columns of `jobs` that decide behaviour (`state`,
`result`, `cancelRequested`, `captured` and `baseline` for `baseline_json`,
`stage` and `mutationStarted` for `checkpoint_json`, `rollbackObs` for the
rollback entry of `observations_json`), the world (`effect`: how much of a
job's change production carries; `release`: the target of the ops symlink;
`material`: which environment backups exist; `reexecFlag`: the flag file), and
the process (`proc`, `running`: the release whose code it loaded, `pc`, `job`,
`cause` and `guarded` for the executor's place, exception and whether it is
inside the `try` of `execute`). `Crash` resets the process variables alone.

| Code | Actions |
|---|---|
| `JobStore.start` | `StartJob`, `StartRefused` |
| `JobStore.cancel` | `CancelJob` |
| `JobStore.next_job`, with its flush | `NextJob`, `PickedFlush` |
| `JobExecutor.execute`, its `try` block | `Dispatch`, `Preflight`, `CaptureBaseline`, `Prepare`, `FinalCheck`, `Succeed`, `SucceedFlush`, `Cleanup`, and `StepFails` for the exceptions |
| `mark_mutation_started` and the rest of `perform` | `MarkMutationStarted`, `WriteBackup`, `Mutate`, `Apply` |
| the handoff of `_upgrade_ops` and `_rollback_release` | `VerifyHandoff`, `RecordHandoff`, `RequestReexec`, `ResumeHandoff` |
| `_finish_with_rollback`, `RealPlatform.rollback` | `FinishWithoutMutation`, `RollbackRelease`, `RollbackRestore`, `RollbackDiscard`, `RollbackVerify`, `FinishRolledBack`, `RollbackFails`, `FinalFlush` |
| `run_jobs`, `run_worker`, `main` | `EndOfJob`, `StopRequested`, `StopIdle`, `WorkerFailed`, `Boot`, `BootReady`, `BootFails` |

A check (`context.check`) is separate from the write that follows it, because a
cancel may come between them. A database transaction is one action, because
SQLite makes it one. Four kinds of action stand for the eight types: a restart
(plain mutation), a secret rotation (needs recovery material), an ops upgrade and
a `rollback_release` of `phishtopia_ops` (both take the handoff: `SwitchesOps`).
`OpsTarget` is the release such an action selects: an upgrade the one it installs,
a rollback an earlier one, here always the initial release. The other four
types and a `rollback_release` of `phishtopia_app` follow the executor's path of the
restart. `CaptureBaseline` leaves out a `rollback_release` to the release that is
selected already. The code accepts one, but it changes nothing in production: its
baseline selects its own target, so that doing and undoing it are the same, and a
rollback of it that a crash interrupts may end as a success.

### AuditOutbox and the code

Events are their AUTOINCREMENT ids, the file is a sequence of lines with a flag
for an unfinished one, `stable` is the part `fsync` has made durable. Each
thread owes a flush after its transaction; `Select` takes the lock that
`MarkFlushed` or an exception releases. `PowerLoss` keeps any prefix between
`stable` and the end of the file and may cut its last line; `ProcessDies` keeps
all of it. `Start` flushes before other threads exist, as `_initialize` does.

### OpsRelay and the code

A comment on the queue issue is its own request id (`policy.py` derives the id
and the idempotency key from the comment's number). `run` is the workflow run of
the comment, `requests` and `responses` count the unacknowledged copies of each
message, delivered in any order. The worker is an instance of `OpsJobSpec`,
whose promise `OpsWorkerRefinement` checks of the detailed worker; `origin`
records the comment that created a job, which is what `JobStore.start` looks up.

| Code | Actions |
|---|---|
| `issue_comment` event, concurrency group of the workflow | `Comment`, `Rerun`, `BeginRun` |
| `github_transport.main`: `publish`, `wait_for_response` | `PublishRequest`, `PullResponse`, `GiveUp` |
| `run_once`: `pull`, `process_message`, `publish`, `ack` | `Pull` (`PullNothing`), `Exchange` and its two ways to fail, `PublishResponse`, `PublishFails`, `Ack` |
| `JobStore.start` and `cancel` as the request sees them | `Start`, `Cancel` |
| the executor | `WorkerStep` |
| `Restart=always`, `StartLimitBurst` | `RelayDies`, `RelayStops` |

Every call to Pub/Sub may fail before or after it took effect. GitHub keeps one
pending run per concurrency group and cancels an older pending one.

### Accounts and the code

`users` and `sessions` are the committed rows; a request of `req` stands before
its statement (`write`), inside its transaction (`mail`, `clear`, `remove`,
`commit`), before the session it opens afterwards (`establish`) or before the end
of its response, which saves the session it loaded and changed (`save`). A row a
transaction has written is locked until it ends, and a unique index makes
another writer of the same value wait (`Awaits`). `doomed` are the session rows
the `DELETE` of a transaction has seen. `overlapped` and `opened` are history
variables: what a request has read of an account whose password, name or
existence was being changed, and whose link was opened. `rewritten` marks a row
that such a request wrote back. The save is connect-pg-simple's, an insert that
writes over a row with the same id: it brings back a row that is gone, and waits
while a transaction that deletes the row is open. A session that a request only
reads is touched by an `UPDATE`, which brings nothing back and is left out.

| Code | Actions |
|---|---|
| `registerUser` | `Register`, `CreateUser`, `SendMail`, `Commit` |
| `resendVerificationEmail` | `Resend`, `UpdateVerificationToken`, `SendMail`, `Commit` |
| `verifyEmail`, both queries behind it | `OpenLink` |
| `authenticateUser`, `establishAuthenticatedSession` | `Login`, `Establish` |
| `changeAccountUsername`, `changeAccountPassword` | `Rename`, `ChangePassword`, `UpdateUser`, `DeleteUserSessions`, `Commit`, `Establish` |
| `requestAccountEmailChange` | `RequestEmailChange`, `UpdateUser`, `SendMail`, `Commit` |
| `deleteAccount` | `DeleteAccount`, `DeleteUserSessions`, `DeleteUserRecord`, `Commit` |
| `withTransaction`: errors, and a COMMIT whose answer is lost | `RollBack`, `CommitFails` |
| `ensureCsrfToken` of a signed-in page, `showLogin`; the save of express-session when the response ends | `LoadSession`, `SaveSession` |
| logout, expiry, the session that `regenerate` replaces | `SessionEnds` |

### CatalogStore, CatalogRequests and the code

A transaction of a service has three steps: `Begin` fixes
`transaction_timestamp()` before any lock is waited for; `LockAndCheck` takes the
shared advisory lock and the table locks and makes the checks of the service;
`Commit` writes, with the checks that the triggers of the migrations make once
more on the rows as they are then. Between the second and third step
administrators issue statements of their own, and what these wait for decides
whether the check is still true. The services lock none of the tables of
templates, programs and content: statement triggers do it for them. A statement
on `templates` or on the content of a draft asks for `template_versions`
(`SetTemplateStatus`, `Edit`: guard `TopologyFree`); one on `store_programs` or
`program_facility_assignments` asks for the latter (`SetProgramStatus`,
`Support`, `Withdraw`, `Reschedule`: guard `AssignmentsFree`), which sealing does
not hold and does not need. Only supported assignments are compared with each
other: those that are drafts, disputed, withdrawn or retired may share days with
any, keep their claims, and are compared when they become supported again.
`StartMigration` and `EndMigration` take and release the advisory lock.

| Code | Definitions |
|---|---|
| `sealCatalogVersion` | `MaySeal`, `WriteSeal` |
| `publishCatalogVersion`, `assert_template_publication_coherent` | `MayPublish`, `PublicationAccepted`, `WritePublication` |
| `transitionCatalogApplicability`, `assert_assignment_template_applicability_coherent` | `MayApply`, `ClaimAccepted`, `WriteClaim` |
| `assert_version_content_mutable`, statements on drafts | `Edit` |
| `lock_template_version_topology`, `lock_program_assignment_topology` on templates and programs | `SetTemplateStatus`, `SetProgramStatus` |
| `assert_program_assignment_coherent`, `lock_catalog_resolution_topology` | `AssignmentAccepted`, `ChangeAssignment` (`Support`, `Withdraw`, `Reschedule`) |
| `resolvePublicCatalogVersion` | `Candidates`, `Resolution`, `Resolve` |
| `loadSealedCatalogVersionContent`, `orchestrateCatalogRequest` | `Loaded`, `Configured`, `Load` |
| `orchestrateCatalogCalculation` | `Answered`, `Load` with a configuration that was seen |

`CatalogRequests` lets administrators act in whole transactions (`Administer`)
whose timestamp may be older than what others have committed: a visitor sees
nothing of a transaction before its COMMIT, and `CatalogStore` checks the rest.

### The calculation modules and the code

`StoreCalcCalculation` is `core.js`: what `sealResolvedConfiguration` accepts
and how it orders it, and `calculateStoreCalcOrder` from the request to the
verdict. `StoreCalcContent` is `content.js` and `configurationProjector.js`.
Keys are naturals compared as the code compares strings; money, quantities,
counts and the denominator of a rate are bounded by parameters in place of
`CALCULATION_BOUNDS`. A hash is the canonical value itself. `StoreCalcOrder`
adds the state: the draft, its seal, its projection and the order so far; its
reference definitions (`RuleOf`, `IsTaxOf`, `PretaxOf`, `MembersOf`) read the
rows of the draft and use nothing of the other two modules. The stable `sort` and
the `filter` of JavaScript are defined by rank (`InOrder`, `KeyOrder`, `SortOn`,
`Filter`), because the provers can reason about a rank and not about the
recursion behind `SortSeq` and `SelectSeq`.

`StoreCalcAnonymous` is `catalogRegistry.js`, `service.js` and
`calculatorViewModel.js`. `StoreCalcPage` is the page's script: `Edit` and the
actions of the buttons, `Submit` and `SubmitInvalid` for the handler up to
`fetch`, `ReplyArrives` for the rest of it, `NetworkFails` for the exceptions,
`RouterRefuses` for the limiter and the parser, `Deploy` for a new process.

## 3. What the runs check

| Run | Question and bounds |
|---|---|
| `worker_safety` | Two jobs of any type, two crashes, one SIGTERM, one failed flush: `TypeOK`, `WriteAhead`, `CancelExcludesSuccess`, `VerdictTruthful`, `SuccessIsApplied`, `RecoveryMaterialKept`, `RunsSelectedRelease` and the action properties `HandoffByNewWorker`, `TerminalIsFinal`. 2.3 million states. |
| `worker_refinement` | `ImplementsOpsJobSpec`: the detailed worker implements the abstract job until an audit flush fails; `JobsTerminate` under `FairSpec`. One crash and one failed flush. |
| `audit_outbox` | Two threads and the starting one, batches of three, four events, two deaths, one failed flush, one cut line: `FlushedIsDurable`, `DamageIsBounded`, `FileInOrder`, and `EventsReachFile` under `FairSpec`. |
| `relay` | Two comments, two jobs, one fault at any call and one re-run: `OneJobPerComment`, `NoRequestDropped`, `ReportIsOwn`, `CancelIsKept`, the action property `ReportsGoForward` (what the owner reads of a job never goes back from closed to open) and `RequestsAreServed` under `FairSpec`. |
| `accounts` | Two requests at a time over two accounts, names, addresses and passwords, up to three links, one session, one refused mail or uncertain commit (accounts, links and faults together at most five, `FewAtOnce`): `LinksAreSound`, `OnlyOverlappedSessionsAreOutdated`. 1.9 million states. |
| `catalog_store` | Two sessions over one version, one assignment, three contents (one that does not seal) and two kinds of claim in up to three rows, four statuses of template and program, with every statement of an administrator and a migration between their steps: `SealedHashIsOfRows`, `ClaimsAreDisjoint`, `ChecksHoldUntilCommit`. |
| `catalog_requests` | One visitor over two versions, two assignments, days and two contents, of which one seals but does not project (contents that do not seal are in `catalog_store`); the visitor asks for one of two days, each of two assignments is for both days or for none of them, supported or not, so that they share days whenever one is not. Template and program stay active (their statuses change in `catalog_store`): `PublicationsAreAChain`, `ResolutionIsUnambiguous`, `ResolvedCanBeLoaded`, `AnsweredAsShown`. 0.74 million states. |
| `storecalc_order` | About a hundred drafts of two items, a bucket and a constraint, with taxes of every mode and scope, unknown prices and limits; orders of up to five pieces, with and without funds: `SealedContentProjects`, `RowOrderIsIrrelevant`, `TotalsAreExact`, `CompleteMeansNothingIsOpen`, `PassingKeepsEveryLimit`, `ExceededStaysExceeded`. |
| `storecalc_page` | Four registries, of which one is refused for overlapping intervals and one serves another scope, one deployment, two items with steps and an unknown availability: `PageAndServerAgree`, `RepliesFit`, `VisibleResultIsCurrent`, `CalculationEnds`. |
| `cancel_of_recovering_job`, `flush_fault_after_success`, `relay_rejected_job` | Statements of the repository that the code does not keep, see section 6. |

Why the bounds are enough. In the worker the single flight leaves one active
job, so a second one shows every interaction between a finished job and the
next; two crashes interrupt a recovery once more, and a third finds the same
durable states; one failed flush reaches each of the four places that catch its
exception differently. In the outbox a batch of three with four events gives
full, partial and repeated batches. In the controller two comments show a
request meeting another's response, a start and its cancellation, and one run
superseding another. In `accounts` three links are a registration and two that
overtake each other, or two registrations and an address change, and two accounts
compete for names and addresses; `FewAtOnce` leaves out the fault where there are two
accounts and three links. `OnlyOverlappedSessionsAreOutdated` speaks of one session
and the `DELETE` treats each row alone, so there is one id at a time: a session that is
kept, opened late or written back meets every change. In
`catalog_store` two sessions race for the locks, and three rows of claims are one that
is closed, its successor and a conflicting one; publications are one there,
since chains of them are the subject of `catalog_requests`. In the calculation
the bounds on money, quantities and aggregates are small enough to be exceeded by
the orders of the run, and the denominator of rates is 10, so that halves, exact
results and results just off them occur. Symmetry is used for keys, threads,
requests, names and sessions, which occur in no order; runs with a liveness
property do without it.

Deadlock is not checked in three passing runs: with the relay stopped and every comment
served nothing is left to do (`relay`), the bounds on links and ids end
(`accounts`), and an order at its bound ends (`storecalc_order`).

Fairness. `FairSpec` of the worker asks for weak fairness of the executor
thread (its loop polls every 0.25 s), of the start after a failure
(`Restart=on-failure` of the unit) and of the two steps of that start. Nothing
is assumed of requests, cancellations, SIGTERM or crashes. systemd gives up
after five failed starts in 300 s: the model has no clock, so liveness holds
for executions in which that limit is not hit. In the outbox the lock is given
with strong fairness to a thread that waits for it (Python's lock is not a
queue, but every holder releases it and waits for new work); the other steps of
a flush and the start are weakly fair. `EventsReachFile` excepts what the code
does not promise: an event whose flush raised, and, after two deaths, events
beyond one batch, since a start flushes one batch and the next one waits for the
next event. `FairSpec` of the controller asks that some workflow run makes
progress as long as one can (its steps have timeouts) and that the relay works on
unless systemd gives it up (its loop catches errors, and `Restart=always`). On the
page the browser runs the handler when the answer is there, and reports a failure
of a request that stays without one; nothing is assumed of the visitor or of the
server. `Accounts` and the catalog have no liveness property: an administrator or
a visitor may stop at any point, and every lock ends with a timeout or the
connection.

## 4. What is proved

`OpsWorkerProofs` proves, for every set of keys and all bounds, with the
assumptions `KeysAssumption` (the initial release and "no job" are no keys) and
`BoundsAssumption` (the bounds are numbers):

`TypeCorrect`, `WriteAheadHolds`, `CancelExcludesSuccessHolds`,
`VerdictTruthfulHolds`, `SuccessIsAppliedHolds`, `RecoveryMaterialKeptHolds`
as `Spec => []Inv`, and `OthersUntouchedHolds`, `TerminalIsFinalHolds`,
`HandoffByNewWorkerHolds` as `Spec => [][A]_vars`.

None of the invariants is inductive alone: whether a rollback verdict is true
depends on where the thread stands, on the baseline it restores and on what it
has already undone. `IInv` adds, in named parts,

* `ProgramPoints`: what the row of the job at hand looks like at each `pc`
  (before the mark no effect, after `apply` a full one, in the second half of
  the rollback nothing left of it);
* `Rows` and `Lifecycle`: which columns go with which state, and that an
  active row without a thread is one that waits or was interrupted;
* `Baselines`: the snapshot of a job contains nothing of the job itself and,
  as long as the job is active, agrees with production on all others;
* `Material`: the backup of a rotation exists from before its first change to
  after its last undo;
* `Selected`: an unfinished job's target is selected only while the job is
  wholly in effect, and its baseline never goes back to that target;
* `Handoff`: a handoff checkpoint is read only by a process that was started
  after the switch, since until then the job is at hand in the process that left
  it (`LeavingHandoff`), so that the process that completes it runs the target.

The proof that a step preserves `IInv` is by action. Lemmas state once which
actions write which variables ("Writers"), so that each conjunct is reproved
only for the actions that can disturb it. The temporal theorems combine
`Init => IInv`, preservation and `IInv => Inv` with PTL.

`RunsSelectedReleaseHolds` needs a second invariant, `RunsRelease`, on top of
`IInv`: the process runs the release selected, or a rollback was reported as
failed, or what restores the agreement is on its way (`OnItsWay`: the rest of a
handoff or of its rollback, or the exit that the flag file asks for).

`ImplementsOpsJobSpecHolds` is the refinement: the initial states map to
initial states of `OpsJobSpec`, and every step of the worker, up to the first
failed flush, maps to a step of it or changes nothing of it. The proof has one
case per action; `Bystander` says once that an action leaves the abstract job of
every other key alone, so that each case is about one job. Where the abstract
step has a condition (a commit must find no cancel, an undo must leave nothing
behind), `IInv` supplies it, with `Stepwise`: how much of a mutation the row and
production carry at each point of `perform`.

`OpsRelayProofs` proves, for any comments, jobs and bounds, from
`NoneAssumption` ("nothing" is neither a comment nor a job) and
`BoundsAssumption`: `RelayTypeCorrect`, `OneJobPerCommentHolds`,
`NoRequestDroppedHolds`, `ReportIsOwnHolds` and `CancelIsKeptHolds`, the
invariants of `relay`. Its `IInv` adds `Named` (a comment is about a job
that exists), `Published` (a request in the subscription was sent by its
comment's run), `Holding` (the request held is still unacknowledged, and is
answered before it is acknowledged), `JobsOf` (a cancelled job has not
succeeded) and `Truth`: whatever the relay holds as an answer, is on its way, or
has been reported was true when the worker said it, and what makes it true is
not undone. `HandleFacts` and `WorkerStepKeeps` rest on `JobsMoveOn`: no step
removes or reopens a job.

`ReportsGoForwardHolds` is the action property of that run, for executions without
a re-run. An open answer is wrong only if it overtakes the report that the job is
closed, and `Forward` excludes that: runs are serial (`Serial`), a request has no
copy in the subscription before the last step of its run's publishing
(`FirstRun`), what was reported closed is closed and stays so (`ClosedIsTrue`),
and no open answer is under way to a run that waits after that report
(`NoneOvertaken`).

`AuditOutboxProofs` proves, for any threads, batch size and bounds, from
`ThreadsAssumption` (the starting thread is none of the others) and
`LimitsAssumption` (the bounds are numbers, a batch is not empty):
`OutboxTypeCorrect`, `FlushedIsDurableHolds` and `FileInOrderHolds`. The
inductive invariant says where a flush stands: `Prefix` (the rows marked are
`1 .. m`, and without a death or a failed flush the file ends there while nobody
holds the lock) and `Batches` (the holder of the lock has the rows `m + 1 .. b`,
those up to `w` are in the file, and before it marks them all of them are in its
durable part). `SelectionIsInterval` shows that a selection limited by count
is such an interval, and `DownAfterFault` that only a fault leads to a start,
which may find lines of events not marked. `DamageIsBoundedHolds` rests on
`TearsCounted`: there are no more broken lines than crashes or failed writes have
cut, and each costs its own event and the one of the line appended to it.

`CatalogProofs` proves of `CatalogStore`, for any versions, contents, assignments, claims,
sessions and bounds, from `CatalogStoreAssumption`: `SealedHashIsOfRowsHolds`,
`PublicationsAreAChainHolds`, `ClaimsAreDisjointHolds` and
`ChecksHoldUntilCommitHolds` as invariants. The inductive invariant
(`Inductive`) adds `PastTimes` (no row and no transaction bears a timestamp later
than now, from which follows that a row closed at a transaction's time was
recorded before), `KnownRows` (a transaction names rows that exist, and rows are
never removed), `OneHolder` (the lock of the topology has one holder) and
`MigratesAlone` (a migration runs only while nobody holds that lock).
`ChecksHoldUntilCommit` is itself what the others rest on: that the rows a seal
has read are still the version's is why the hash is theirs. It is preserved by
the statements that wait for every holder because there is none, and by those
that do not wait for sealing because sealing reads nothing of what they change
(`SealingStays`).

Of `CatalogRequests` it adds the visitor, for any catalog, content, days and
claims, from `CatalogRequestsAssumption` (every content has its tables with
values of their types, and hashes are free of collisions). `RequestsInductive` shows `RequestIInv`:
the invariant of `CatalogStore`; `AssignmentsAreDisjoint`, which the trigger of
the assignments keeps among those that are supported; `MigratesOnce`; and `VisitorKnows`, what a
visitor has read in an earlier statement and relies upon in a later one. A
resolution, once made, would still be made of the claim it names (`StillTrue`),
and what was shown is still the projection of the version it names
(`StillShown`), since claims and sealed versions are never changed, only closed.
From it follow `ResolutionIsUnambiguousHolds` (two candidates would be two
claims for one day, or two assignments that overlap), `AnsweredAsShownHolds` and
`RequestsKeepTheChain`. `ResolvedCanBeLoadedHolds` rests on
`ProjectionOfSealedContent` below and has one hypothesis, `EngineReadsTheKeys`: no
content has a key that the pattern of `content.js` accepts and the narrower one
of `core.js` refuses. The module of the run assumes the same of its contents.

`AccountsProofs` proves `LinksAreSoundHolds` and
`OnlyOverlappedSessionsAreOutdatedHolds`, for any accounts, names, requests and
sessions, from `AccountsAssumption`. The invariant `IInv` is about one
request, about two, and about the tables:

* of a request, `Carried` and `Asked` (what it holds and wants at each place of its
  handler), `Written` (the row it will commit is the row that is there with its
  own change, since the lock keeps others from it), `Dooms` (the sessions its
  `DELETE` saw are all but those an overlapped request opened or wrote back), `Reads` (what it has
  read is still so, unless something overlapped it) and `Posted` (its token is in
  one letter, and that letter is the last one to its account when it commits);
* of two, `Apart`: they hold different rows and have different tokens, and one that
  reads an account, or loads a session of it, while the other ends its sessions is
  overlapped;
* of the tables, `Rows` and `OneLetterPerToken`.

`Apart` is what makes the rest inductive: a step of one request disturbs what
another knows only through a row or a token they share.

`StoreCalcContentProofs` is about operators, for all their arguments:

* what sorting and filtering return. `KeyOrderSorts`: the order by keys is a
  permutation of the positions under which the keys ascend, and equal keys keep
  their places. `SortedRows` and `FilteredRows` say the same of the sequences. They
  rest on `InOrderLists`: the members of a finite set, taken by the number of those
  before them, are each taken once;
* `RowsInAnyOrder`: reordering the rows of an accepted catalog changes neither its
  acceptance nor its canonical form. `OneWayToSort` is the reason, rows with
  different keys having one ascending order; what each table is sorted by does
  tell its rows apart, because `RowsAreUnique` refuses the others;
* `SealedContentIsAConfiguration`: every check of `core.js` on a configuration
  follows from checks of `content.js` on the catalog it was projected from, with
  two exceptions named as hypotheses, the narrower pattern for keys and the tax
  rules. The bound on warnings is the least obvious of them: the engine counts
  them where they ended up, and `WarningsAreCountedOnce` shows that projection
  repeats none;
* `ProjectionOfSealedContent`: with the engine's capabilities and keys, sealed
  content projects exactly if each item has a tax rule. Two rules never tie
  (`OneTaxRuleWins`), because rules of one scope and target have different
  priorities.

`StoreCalcOrderProofs` applies this to drafts, from `DraftsAssumption` (tables and
values are of their types): `RowOrderIsIrrelevantHolds` and
`SealedContentProjectsHolds`, over `SealedIsTheDraftHolds` and
`ProjectionIsOfTheDraftHolds` (the catalog and the projection of a state are those
of its draft). Four more theorems relate an order to the rows of its draft. The
invariants they need are that an order is the engine's answer to its request
(`OrderIsOfTheRequestHolds`) and that it asks by a list of items and quantities
(`AskedAsAListHolds`); `EngineHasTheDraft` and `WhatIsCalculated` then say that the
rows the engine worked with are those of the draft, sorted.

* `CompleteMeansNothingIsOpenHolds`: every open point of a line, a bucket, a
  constraint or a warning reaches the verdict. The number of affected entries of
  a validation is positive if there is one, so that none is lost in the sum;
* `TotalsAreExactHolds`: the integer division of the engine with its correction
  by rounding mode gives the number `IsRounded` defines (`RoundedIs`), within the
  amount it is taken from (`RoundedIsWithin`);
* `PassingKeepsEveryLimitHolds`: the engine folds over its lines, sorted and
  filtered, and the property over sets of items. Both are numbers of coins, that
  is cardinalities of sets of pairs of an index and a number (`Amount`), which a
  bijection preserves (`AmountByItem`). That a fold is such a number
  (`SumFunctionIsAmount`, `SumKnownIsAmount`) needs induction over finite
  sets; `FiniteSetInduction` states that for a set of sets, in place of an
  operator, and takes it from the well-foundedness of the strict subset relation;
* `ExceededStaysExceededHolds`: one more of an item adds to its listed amount at
  least what it adds to an included tax (`RoundedGrowsNoFaster`), so that what a
  bucket has charged does not fall (`SubtotalGrows`, `BucketAmountGrows`).

`StoreCalcPageProofs` proves, for any registries that may be deployed, any items,
edits and number of deployments, from `CalculationAssumption`,
`AnonymousAssumption` and `CatalogsAssumption` (bounds are numbers, an entry has
the fields the registry's validation asks for):

* `VisibleResultIsCurrentHolds`, with the hypothesis that null is no object:
  while a request is under way what counts is not the result on the page but the
  request that will replace it (`ResultFollowsRequest`);
* `OneEntryIsEffectiveInEachRegistry`: sorted entries whose neighbours do not overlap
  do not overlap at all. This is the argument behind the registry comparing
  neighbours only. It holds because an interval open at its end is followed by no
  other of its scope;
* `RepliesFitHolds` and `PageAndServerAgreeHolds`: the page repeats the rules of the
  server, and its own checks make the server's verdict. The invariant `PageAndServer` says
  that the page was rendered from a sound configuration, which is the server's one
  as long as there was no deployment, that the request under way is one the page
  permits, and that the answer to it fits. `CalculatedIsGood` connects the two
  sides: with equal hashes both have the same canonical items, and a quantity the
  page permits gives no fault in any line of the calculation.

## 5. Model-checked only, and left out

Only checked by TLC:

* liveness: `JobsTerminate`, `EventsReachFile`, `RequestsAreServed`,
  `CalculationEnds`, which the prover cannot treat.

Every other property of the passing runs is also a theorem.

The two sides of the controller's composition meet in `OpsJobSpec`: that a
cancelled job is not committed is `CancelExcludesSuccess` of the worker and
`MayCommit` of the relay. The types of `OpsRelay`, `CatalogStore` and `Accounts`
are proved (`RelayTypeCorrect`, `Typed` within `Inductive` and within
`AccountsInductive`).

Not modelled:

* **Worker.** The shape checks of `worker/allowlist.py`; progress numbers and
  timestamps (a deadline may pass at any check); the start rate limit and the
  limit on storage, which refuse a start and change nothing; database writes that
  fail other than in a flush; systemd's start limit and the 64 MiB limit of the
  audit file, after which the worker restarts until that limit; the micro-steps
  of each platform action (an effect is none, partial or full); a
  `rollback_release` of the worker to a release other than the initial one, or to the
  one selected already (section 2); among the micro-steps left out is the
  one-time rename of a legacy application directory.
* **Controller.** Validation of events and envelopes, access tokens, ids that
  name no job, the retention of messages.
* **Accounts.** Requests that change nothing (malformed, wrong password, expired
  link), roles, case folding of addresses, the connection pool, YouList data
  removed with an account. `public.users` is older than the repository's
  migrations: its unique constraints on name and address are taken from
  `duplicateUserMessage` and modelled as PostgreSQL keeps them; they decide one hazard, of the
  check before the insert and the check in the confirming statement. The data of a session other than its user (the token, a page to return to)
  and the handler whose response it is are left out: any signed-in request may
  change its session.
* **Catalog.** A second template, the status of facilities (whose statements ask for the lock that
  those on programs ask for), the actors and reasons
  recorded, a COMMIT whose answer is lost, the reversal of migration 0012. Sealing
  exists in schema 8 and publishing in schema 9 only, as the services demand. All
  locks of a transaction are taken in one step: a deadlock between two of them is
  broken by PostgreSQL and ends as `RollBack`.
* **Calculation.** The wording of messages, the digits of decimal strings, names,
  currencies and schema versions, which are compared with constants.
* **Page.** Rendering, headers and the length of a body in bytes; the correction of
  a typed quantity to the step when the field loses focus; a `fetch` that never
  ends is taken to fail in the end, which the browser decides.
* The components marked `not_modelled` in `PROJECT.json`, with their reasons.

## 6. Findings

* **Cancelling a recovering job** (`worker/store.py:217`). A job interrupted
  after its mutation began is queued again at start. If a cancel arrives before
  the executor takes it, the row becomes `cancelled` at once, with result
  `cancelled_and_rolled_back`, and nothing is rolled back.
  `docs/architecture.md` says "cancelled (no mutation occurred)" of a queued
  job, and recovery rollback for an interrupted one. Run
  `cancel_of_recovering_job` shows it; `OpsJobSpec` has the action `Abandon`
  for it, so that everything else can still be checked.
* **A failed flush undoes a success** (`worker/store.py:338`). `succeed`
  commits and then flushes the audit file inside the `try` block of `execute`.
  An exception from the flush is handled as a failed mutation: production is
  rolled back and `succeeded` overwritten by `failed`, although a client may
  have seen the success and `executor.py` calls it durable. Run
  `flush_fault_after_success` shows it; `SuccessIsApplied` and
  `TerminalIsFinal` are therefore stated for executions without a failed flush.
* **A started job reported as rejected** (`controller/relay.py:39`). When the
  worker accepts a job and its answer is lost, the relay publishes
  `worker_unavailable` and acknowledges the request; `github_transport.py`
  tells the owner that the request "was rejected". Run `relay_rejected_job`.
  The owner does not learn the job's id from it, and posting the command again
  makes a new key and meets `resource_busy`; only a re-run of the same workflow
  finds the job.

Limits found on the way; the properties name them as exceptions:

* `ReportsGoForward` is stated for executions without a re-run. The request id is
  that of the comment, so a re-run of its workflow may take the late response of
  an earlier attempt (`controller/pubsub.py:110`) and report an ended job as open.
* `EventsReachFile`: a start flushes one batch of the audit backlog
  (`worker/store.py:99`); the rest waits for the next event.
* `OnlyOverlappedSessionsAreOutdated`: a request that compared the old password
  before a password change committed may save its session after it
  (`session.service.js:16`), two password changes that overlap both succeed, and a
  response may write back the session it loaded: a request of another signed-in
  browser that loaded its session before the change committed, and changed it (the
  first page after a sign-in gives the session its token, `middleware/csrf.js:27`),
  saves it when its response ends, and the store inserts the deleted row again.
  `account.controller.js:26` tells the owner "Password updated. Other signed-in
  sessions were closed.", which is then not so. The run asks only that nothing else
  leaves such a session behind.
* `VisibleResultIsCurrent`: an answer that arrives after the inputs were edited is
  shown for the new inputs (`storecalc-calculator.js:910`); the inputs are not
  disabled while a calculation is under way.

## 7. Plan

What would add most from here:

1. Platform micro-steps: `ReleaseSwitch` (install, symlink, manifest, verify,
   legacy directory), the rollback as an idempotent sequence that may crash at
   each step; abstract specification: production equals baseline or target.
   `SecretRotation`, `Canary` and `Migration` against the baseline each must
   restore.
2. `TimedCache`: concurrent loads and expiry. The bootstrap of the worker: marker
   files across a crash of its scripts.
