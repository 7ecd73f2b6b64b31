# A formal model of runnerd

runnerd turns GitHub `workflow_job` webhooks into ephemeral self-hosted runners, one sandbox each.
A webhook creates a *runner request* row; a worker claims the row under a lease, reserves capacity,
creates a sandbox, registers a runner in it and watches its process; a completed webhook, an exit, a
timeout or an administrator stops it; a sweeper and a reconciler repair what the other paths missed, and
startup recovery does the same after a crash. Beside that, runnerd runs *deployments* (a sandbox that
serves a commit for a while), gives users *terminals* into both kinds of sandboxes, and ships
`runnerd-migrate`, which moves a live installation from SQLite to PostgreSQL.

This directory holds TLA+ models of these parts, the TLC configurations that check them on small
instances, and TLAPS proofs for every instance. `PROJECT.json` is the index: components, runs, the
mutations each property must detect, the map from definitions to source lines, findings, hazards and
theorems. Paths below are relative to `src/`.

## The system and what is modelled

| Part | State | Operations that change it | Module |
| --- | --- | --- | --- |
| Admission capacity (`server_runner_capacity.go`) | in-memory counters `started`, `pending`, `readers`; rows; limits | observe, count, reserve, creating write, finish, moves of the lifecycle, edit of a Runner Spec, restart | `RunnerCapacity`, `AtomicAdmission`, `RequestMoves` |
| Webhook admission and Runner Specs (`server_webhooks.go`, `server_workflow_job_queue.go`, `server_admin_handlers.go`, `server_user_runner_specs.go`, `server_runner_profile_scope.go`, `state/catalog.go`, `state/runner_requests.go`, the start of `server_runner_lifecycle.go`) | the specs with their `updated_at`, the rows, admissions, starts and edits in progress | deliver, match, insert, wake, request by hand, claim, check the spec, creating write, defer, fail, stop, retry, queue again what ran another job, create, patch and delete a spec | `RunnerAdmission` |
| Sandbox services (`server_sandbox_service.go`, `server_user_fork_sponsorships.go`, `server_admin_sandbox_service.go`, settings in `state`) | preferences and keys, the default and its audience, sponsorship policies and approvals, snapshots in rows | save, inherit and delete a service, link, default, audience, policy and approval edits, resolve, reserve, persist, adopt, stop, retry | `SandboxServices` |
| Request lifecycle (`server_runner_lifecycle.go`, `server_loops.go`, parts of `server_webhooks.go`, `server_workflow_job_queue.go`, `runner_requests.go`, `sandboxrunner/runner.go`) | the row, the start goroutines, sandboxes, processes, exit watchers, listings of the loops | claim, admit, job lookup, create, launch, adopt, discard, fail, stop, exit, sweep, reconcile, retry, crash, recover | `RunnerLifecycle` |
| Deployment worker (`deployment/worker`, `deployment/runtime`, `server_deployments*.go`, `state/deployments.go`) | versioned row, sandboxes per attempt, deadline | advance, plan, create, save, apply, undo, recover, probe, stop, retry, prune, expire, crash | `DeploymentWorker`, `DeploymentMoves` |
| Deployment tables (`server_deployments.go`, `state/deployments.go`, `state/deployment_revisions.go`) | rows, revisions with events and counters, the lock on a scope's anchor row, calls in progress | create under an idempotency key, lock and count a scope, insert, retry, replan, requeue, emit, prune | `DeploymentAdmission` |
| Terminals (`server_terminal.go`, `server_deployment_terminal.go`) | hub, replay buffer, watchers and their channels, idle timers, streams | output, subscribe, first read, wake-up, heartbeat, disconnect, idle timer, close, watch | `TerminalSession` |
| Phased migration (`state/phased_migration*.go`, `cmd/runnerd-migrate`) | both databases, triggers, journal, checkpoints, the importer | service writes, prepare, sync, cutover, resume-source, backfill, loss of the lock | `PhasedMigration`, `ServedStore` |

The parts meet in few places. A start of `RunnerLifecycle` passes through the capacity section
(`Admit`), whose answer is a choice there and is computed in `RunnerCapacity`; what else becomes of a row is
any of `UnaskedMoves` there (`MoveElsewhere`), and `CapacityAsked` of `RunnerLifecycle` says that the handlers
keep to them: no row gets into creating or running but by a start that was admitted. The three
models of a request look at the same row from different sides: `RunnerAdmission` has the Runner Spec and
where a row comes from, `SandboxServices` the snapshot of the service, `RunnerLifecycle` the sandbox and the
process; each keeps of the others' writes what changes its own fields. `DeploymentWorker` says when a
deployment moves, `DeploymentAdmission` allows every such move (`Moves`) and counts; `MovesAsTabled` says that
the worker makes no other. Both interfaces are modules of their own (`RequestMoves`, `DeploymentMoves`) that the
two sides share, and both properties are proved, so what is proved of the limits and of the quota is about rows
that these protocols move. The watcher of a
terminal asks whether its request or deployment still runs (`Unavailable`). The migration replaces the store
under all of them, which is why its abstract specification is stated for the services.

What makes these parts hard is listed under `hazards` in `PROJECT.json`, at the line where it bites:
counts used after they are stale, locks let go around remote calls, handlers of an old attempt that come
back late, a crash between a remote effect and the write that records it, answers that get lost, wake-ups
dropped by a full channel, idle timers that outlive the silence they were started for, batches read
before and committed after a write.

## Modules

### `RunnerCapacity`

Any number of starts run the capacity section of `startRunner` at once. `Observe` copies the counters,
`Count` reads the database one scope at a time with no lock held, `Reserve` and `Reject` compare
*count + pending at the snapshot + started since* with the limit, `WriteCreating` and `WriteFails` are
the creating write, `Finish` gives the reservation back and drops counters nobody looks at. The scopes
are the process, the Runner Spec, and the account and repository of the request. `SetLimit` needs
`admissionMu` alone, so it waits until no section is open. `Crash` forgets the counters and keeps the
rows. `MoveElsewhere` is what the rest of the server does to a row (`UnaskedMoves`). It includes a stop that takes
a queued or failed request in flight without admission: such a request is counted and is not part of `admitted`,
about which the limits speak.

`AtomicAdmission` is what the section promises: a request takes a slot in each of its scopes in one step,
or not at all. `AdmissionIsAtomic` is the refinement.

### `RunnerLifecycle`

One request with up to `MaxClaims` attempts. `row` is the record with the fields the code branches on;
`fresh` says whose copy of it still has the current version, so a conditional write is a membership test.
A handler under the request lock is one action; one that lets go of the lock around a remote call is
split there (`ReadBefore`/`Check` around the job lookup, `RunnerExited`/`BusyChecked` in the exit
callback, `SweepAsk`/`SweepIdle` in the sweeper), and one that writes `stopping` and then calls the
sandbox service is split at that write, where a crash can fall (`StopRunner`, `ForceStop`, `BeginExit`
and their `Finish...`; `holder` owns the lock meanwhile). Answers of GitHub and of the provider are
choices: `Lookup`, `SandboxStop`, `GitHubCleanup`. The loops act on a listing taken earlier (`saw`).
Timeouts are not clocks: the sweep of a status may happen whenever the row has it. `Crash` loses all
goroutines and keeps the row, the sandboxes and what GitHub knows; the `Recover...` actions are
`recoverActiveRunner` with its cases in their order.

Constants select the environment, so that each run stays small: another job on the runner (`OtherJobs`),
stops and retries by hand (`Administrator`), loops, expiring leases, failing writes.

### `RunnerAdmission`

Deliveries, requests by hand, starts and Runner Spec edits of one runnerd. `admissionMu` is not a variable:
who holds it follows from where everybody is (`CanRLock`, `CanLock`). Sections that hold it shared are split
at their reads and writes; a spec edit is split into what its handler read, the count of active requests
(`CountActive`) and the conditional save (`SaveSpec`), which compares `updated_at`. `clock` hands out those
times and may stand still between two saves, which is why `NextUpdatedAt` exists. A created spec is assumed
to get a later time than a deleted one of the same name. `Match` is the matching of the code: a scoped spec
with exactly these labels, else the platform specs in the order of priority, number of labels and name.
`Names` are numbers because of that order. A start (`ClaimRequest` to `MarkRunning`) reads the spec again;
starts of an earlier attempt may go on beside the next (`work` is indexed by attempt). A row may come back to
the queue without being matched again: a failed one by `RetryRequest`, a completed one by the reconciler
(`RequeueMismatched`, when its runner ran another job) or, if an older version completed it wrongly, by
`RetryHistorical`. Such a row is `revived`, and so is a failed one that is stopped; its copies of labels and
group are those of its first admission.

### `SandboxServices`

One fork, the organizations that may sponsor it and one personal account. A service is whose settings name
it. `Resolutions` is the order of precedence for each kind of request, with a saved snapshot first. A start
is `BeginStart`, `Resolve` (no lock), `Reserve` (the sponsor's lock and the second look at policy, approval
and limit), `Persist`. Policy edits need the same lock; approvals lock the policy row (`PolicyLocked`).
What GitHub says about the fork's owner is a choice. `stray` marks a row that a start of an earlier attempt
wrote to (see Findings).

### `DeploymentWorker`

One deployment with its revisions. The scheduler runs one operation on it at a time (actor `"job"`), HTTP
handlers run beside it. Every write is conditional on the version; `stale` holds the actors whose copy is
old, and their writes are conflicts. A creation may be refused, succeed, or lose its answer
(`CreateUnknown`), in which case the sandbox may come later (`Lands`) or never. The clock is the
deadline: before, after, or two minutes after it, when a pending creation is given up. `failure` is what the
row says of its failure, stage and reason together. A probe that
finds the deadline passed ends in a stop that is bound to the version it looked at (`observed`); `AsObserved`
is that check, and no other stop has it.

### `DeploymentAdmission`

Many deployments of several scopes. A call is a create or a retry with a program counter; a transaction is
one step up to the lock on the scope's anchor row and one from there to its commit. `LookupKey`,
`BeginAdmission` and `LookupWinner` are the three places where a keyed call looks for a row with its id.
`Budget`, `Evicted` and `Appended` are the timeline of a revision with its two counters, `Backfilled` the
repair of rows older than the revisions table, from which a run may start. The worker is what the tables see
of it: it reads a revision, writes any move, emits events under the revision it read. Pruning selects rows
and deletes, in a second step, those that did not change.

### `MCControlPlane`

`RunnerAdmission`, `SandboxServices` and `DeploymentAdmission` share no variable. One run checks the three:
`part` is chosen at the start and never changes, so that the states add up. Each part begins in several
scenarios with different shares of the bounds used up: all of the bounds together would be too many states,
while each race needs only its own share of them. The parts end when their bounds are used up, hence
`CHECK_DEADLOCK FALSE`.

### `TerminalSession`

One session, its streams and its timers; output is a sequence of positions, so what a browser shows is a
set of positions and a number of bytes (both, so that a repetition shows). The replay buffer keeps the
last `KeepLen` positions, channels hold `ChanCap` wake-ups. There is one stream per browser: a handler
that outlives its connection acts like one more viewer. Timers with the same age are merged, which loses
nothing because they fire alike. `Open` and `Refuse` cover both the runner and the deployment handler;
only the latter checks again after the handshake, so the former has fewer behaviours than the model.

### `PhasedMigration`

Requests, a set of other tables and the events, in both databases. `Ids` is the place of a request in
the order of its binary id, in which the copy pages. The triggers (`Journaled`, `SourceOpen`) and guards
(`TargetOpen`) decide what a service may write. A command is a mode and a program counter: `Read` opens
a snapshot of the source, and `SmallCommit`, `BaseCommit` and `ReplayCommit` write a batch of it to the
target and move the checkpoint in the same transaction. `Stop` ends a command anywhere: a failed check, a
deadline, a killed process. `Loss` is a command whose PostgreSQL connection, and with it the lock, is gone
while it is about to write to SQLite; `Stray` is that write, at any later time. A failing batch is a
`Commit` that is not enabled, followed by `Stop`. An update that changes nothing is journaled too, in the code;
the model has no such update, which would only copy a row that did not change once more.

A row is its job and a time stamp, another table is a time stamp. SQLite keeps nanoseconds and PostgreSQL
microseconds: `Truncate` is what `normalizeMigrationValue` does to a time when rows are read, and PostgreSQL
never holds anything finer. A value that cannot be represented makes the importer fail, which is a `Stop`.
That a service refuses to start on a sealed or unfinished database (`validatePhasedMigrationStartup`) is not
used: in the model a service is always there and writes whenever triggers and guards let it.

`ServedStore` is what the migration promises: one store, handed over once, with all rows as PostgreSQL can hold
them. The history is handed over separately. `history` is all events the service ever recorded and `shown` those
in the database it now uses: the hand-over may drop some from `shown` (a cutover does not wait for the events),
`Backfill` brings back events of the history and no others, and `Complete` happens only when all are shown.

## Runs

| Run | Module and configuration | Shows |
| --- | --- | --- |
| `capacity` | `MCRunnerCapacity` | limits, no leaked counter, refinement of atomic admission; 464,503 states |
| `lifecycle_quiet` | `MCRunnerLifecycleQuiet` | with other jobs on the runner and expiring leases, every lease is worked on, completion is final, and a late exit callback changes nothing of the next attempt; 613,502 states |
| `lifecycle_crash` | `MCRunnerLifecycleCrash` | with three claims, a crash, failing writes and the reconciler there is one runner per request, and every sandbox is accounted for until the crash; 1,152,802 states |
| `lifecycle_live` | `MCRunnerLifecycleLive` | in-flight rows settle, the first termination owner is kept, capacity is asked for; 107,809 states |
| `control_plane` | `MCControlPlane` | see below; 624,422 states |
| `deployment` | `MCDeploymentWorker` | sandboxes stay reachable and single, failures are kept, the row moves as the quota reckons, everything is cleaned up in the end; 257,679 states |
| `terminal` | `MCTerminalSession` | exact output, one close, full idle delay, abandoned sessions close, streams catch up; 147,018 states |
| `migration` | `MCPhasedMigration` | one writer, no batch stuck, a cutover that verifies, whole history, event ids apart, refinement of one store; 1,953,842 states |
| `sweep_second`, `crash_orphan`, `exit_without_job`, `deployment_retry` | see Findings | the documented behaviour is violated |

What `control_plane` shows:

- *Admission*: a runner is made and runs under a spec that exists and takes its labels, a Windows one from
  the template that spec now names (`InFlightUnderItsSpec`); the labels and the group that a webhook admission
  copied from the spec are current while the row is active, until it has ended and is queued or stopped again
  (`AdmittedCopyIsCurrent`); no spec edit is lost, even by two saves within one tick of the clock
  (`NoEditLost`); a repeated delivery does nothing but wake a request that waits unleased for its job
  (`RepeatedDeliveryHarmless`).
- *Services*: a sponsor is granted only under an enabled policy, in its mode, with its approval and within
  its limit (`SponsorGrants`); cleanup reaches the service that runs the sandbox, whatever was edited since
  (`CleanupFindsItsService`); no approval outlives its policy (`ApprovalHasItsPolicy`).
- *Deployments*: a scope stays within `DeploymentMaxConcurrent` (`ScopeWithinLimit`); the counters of a
  timeline are those of its events and within both budgets (`BudgetKept`); earlier revisions and their events
  are never changed (`HistoryKept`); a call is told only of a deployment with its own request
  (`AnsweredWithItsOwn`).

Each property of a passing run has a mutation of a modelled definition that breaks it (`mutants` in
`PROJECT.json`; the mutated operators stand before the originals and their comments say what is wrong).

### Bounds

- *Capacity*: three requests, three overlapping scopes with limits 2, 1 and 1, so that each scope refuses
  a request the other two admit; two reservations in the history of a counter are enough for a snapshot
  to lie before, between and after them. The proofs remove the bounds.
- *Lifecycle*: two attempts let everything that is left of the first meet the second; one retry makes the
  retry budget both available and used up; one crash at any point. `OneRunnerPerRequest` gets three attempts:
  where a start writes to the row of the next one, it is the third claim that makes the second runner. The
  liveness run has one attempt
  and no retry budget, because a request that settles does so within an attempt and a retried one has left
  flight; stops by hand and one crash are in it.
- *Control plane*: two admissions and two edits, three specs of which two are edited, two starts and one
  retry of a request; two requests of one fork, limits of one and two, three changes of settings; two calls,
  a keyed and a random id, two scopes, a limit of one and three versions of a row. A race in this code is
  between two parties and a third change that one of them missed.
- *Deployment*: two revisions, two handlers and two user requests (a stop or retry that races another),
  one crash. The retry finding needs three revisions.
- *Terminal*: buffer and channel of size one overflow after two steps; pieces of one and two bytes make a
  piece larger than the buffer; a delay of two ticks separates a timer from the next one.
- *Migration*: three requests of which two compete for a job, batches of one, three service writes: one before a
  batch, one between read and commit, one after. With a precision of two, time stamps of 0 and 1 are the same to
  PostgreSQL and 2 is not. The initial states are restricted to an empty source and one with two requests, whose
  times are finer than the precision, and two events, the first of which was deleted. The run excludes the late
  unseal, under which `OneWriter` is false (see Findings). The proofs remove the bounds and the restriction, not
  the exclusion.

`CHECK_DEADLOCK FALSE` is set where the modelled system comes to an end: a request or deployment that has
ended, a closed terminal. The migration and capacity runs check deadlock.

### Fairness

- *Lifecycle*: goroutines go on, because their remote calls have timeouts; handlers and recovery return;
  the sweeper ticks, and the timeout it waits for passes (strong fairness of a sweep of a row it keeps
  listing). Cleanup calls do not fail transiently for ever (strong fairness of a cleanup that gets out of
  `stopping`): without that the code retries for ever, on purpose.
- *Deployment*: the scheduler ticks and operations have time limits; handlers return; the deadline
  passes; a lookup or a close that is tried again and again succeeds at some time.
- *Terminal*: goroutines and timers run, time passes. Nothing is assumed of browsers.

## Findings

- `sweep_second`: the create timeout counts from `CreatingAt`, before the preparation and the timeout of
  `StartRunner` itself. The sweeper can requeue a request whose first start is still creating its
  sandbox; the next attempt creates a second one. `README.md:26` promises one sandbox per job.
- `crash_orphan`: after a crash between the creation of a sandbox and the write of its id, recovery
  handles a completed job before it looks for sandboxes by request id. The request is completed and the
  sandbox stays. `README.md:26` promises its cleanup.
- `exit_without_job`: a runner exits without a job and the GitHub cleanup has to be tried again. The
  second try goes through `stopRunner`, which completes the request. `README.md:268` says it is retried.
- `deployment_retry`: two retries at once. One queues a new revision between the other's cleanup and its
  second read of the row; the new attempt fails with its sandbox in the row; the other retry empties the
  field and queues again. `state/deployments.go:605` requires that evidence was cleaned before.

Not runs, but visible in the models:

- With `"unseal"` in `MayLose`, `OneWriter` of `PhasedMigration` fails. A `resume-source` that hangs between
  its check and its write, and loses its connection, can unseal SQLite after another importer has finished a
  cutover.
- A Linux start of one attempt that fails late writes to the row of the next (`server_runner_lifecycle.go:892`;
  only Windows starts carry an attempt stamp). It takes something that queues the row under a start that still
  works: a retry by hand (`Administrator`), the completed event of another job, delivered again (`OtherJobs`),
  or a lease that expires during the job lookup (`LeaseExpires`). Each of the three alone, with three claims and
  no crash, violates `OneRunnerPerRequest` and `SandboxAccounted`, which are therefore checked and proved without
  them; `SandboxServices` marks such rows `stray` and leaves them out of what its properties promise.
- A stop takes a queued or failed request back in flight without asking for capacity, and a failed request
  that was sponsored counts against its sponsor again. The limit properties are about admissions and grants.
- Two creations with one idempotency key at once, in a scope with one place left: the loser waits for the
  scope's lock, counts the winner and is told that the scope is full (429) instead of being given the
  winner's deployment. A repetition later is replayed.
- A cleanup that fails after another failure replaces the stage and the reason of that failure by its own, and
  they stay when a later cleanup succeeds. `README.md:89` says that compensation cleanup preserves the original
  failure, also when it resumes after an interruption; `docs/deployment.md:289` says so of a cleanup that
  succeeds. `FailureKept` allows this one replacement and no other.
- The stop at the deadline that `advance` starts is not bound to the row it saw, unlike that of a probe. A
  deployment that is retried in between can have its new revision stopped by it.
- A request that ended and is queued again, by a retry or by the reconciler, keeps the runner group it was
  admitted with, also when the spec names another by then.
- A sandbox that no row adopted is stopped through the service that the row names by then
  (`cleanupStartedSandbox`), perhaps after its snapshot was cleared. `CleanupFindsItsService` is about sandboxes
  that a row names.
- A preference and its API key are read by two queries; the model reads both at once. A save in between can
  pair the endpoint of one with the key of the other, which the service then refuses.

## Proofs

Every safety and action property that a passing run checks is proved, for every value of the constants under the
named assumptions of the modules; further assumptions stand in the theorem. TLC checked the properties and the
inductive invariants first. What is left to TLC is at the end of this section.

### `RunnerCapacityProofs`

`FixedLimitsRespected` is not inductive: whether a reservation is allowed depends on a count that is out of
date. The invariant `IInv` says what makes it safe. *Holders* of a scope are the admitted requests and the
open reservations. `SnapshotCovers`: all open reservations are covered by the pending ones of the snapshot
and those started since. `CountCovers`: for a scope that is counted, all holders are covered by the sum that
will be compared with the limit, because a row that was written after the count was started after the
snapshot or pending in it. So a reservation keeps `HoldersFit`, and `NothingLeaks` (counters equal the
open sections and reservations) keeps the counters meaningful when they are dropped and created again.
Finiteness of the set of requests is the only assumption about its size. Theorems: `TypeCorrect`,
`CountersDoNotLeak`, `FixedLimits`, `AdmissionWithinLimit` (an action property), and `Refinement`.

### `RunnerLifecycleProofs`

For any number of claims, retries and crashes. `Base` is what every step needs: the types; `Held`, that a
handler keeps the request lock across a remote call only with the row `stopping`, so whatever finds the row in
another status has it to itself; and `Begun`, that a watcher belongs to a start that is past its work and that
nothing starts while Recover runs. Each handler has a lemma that says what it may write (`Stops`, `Exited`,
`Looped`, `Recoveries`, ...), and from these `Orderly`: what any step may do to the row. `LifecycleTypes`,
`CompletionIsFinal`, `FirstOwnerKept` and `StaleExitsIgnored` follow, in every environment. So does
`CapacityIsAsked`: of all the handlers only `Admit` takes a queued row to creating, a running one comes from a
creating one, and what the others write is in `UnaskedMoves`, also when a handler of an old attempt writes late.

`LeasesAreWorked` needs that no write fails: where one does, `failStart` only logs it, and the lease stays on
the row until it expires. It ends with the first crash, which leaves leases behind.

`NoSandboxLost` and `OneRunner` assume `Ordinary`: no job but its own, no administrator, no lease that expires,
no sweeper; writes may fail and runnerd may crash. Each of the four is needed (see Findings). Neither property is
inductive: that a claimed row is nobody else's rests on how the row got back to the queue. `Alone` says so. One
start at a time works on the row, and only while the row names no sandbox; before the creating write the row is
leased to it; a live sandbox is the row's, or in the hands of the start, or `Orphaned`: a crash took it from its
start and the row is neither queued nor running. Recover queues an orphan's row only when the provider lists no
sandbox of the request, and takes the one there is otherwise, so the next start finds none. `Own` keeps other
jobs out of the argument.

### `RunnerAdmissionProofs`

For any number of jobs, specs, handlers, editors and starts. An edit that has counted the active requests holds
`admissionMu` alone, so no admission or start is between its look at the specs and its write (`Exclusive`).
Hence what those saw is still so when they write (`Admissions`, `Checks`), and what the edit counted does not
become active behind its back (`Counted`). `Revisions`: a spec with the revision that an edit read is the spec
it read, although the clock may stand still. `OneStart`: of the starts of a Windows request one works at a time,
so the row holds the template that start uses. `Match` picks a candidate when there is one, which rests on a
least element of a set of naturals (`LeastExists`, from well-foundedness). Theorems: `AdmissionTypes`,
`RunnersUnderTheirSpecs`, `AdmittedCopiesAreCurrent`, and the action properties `SavesLoseNothing` and
`DeliveriesRepeatHarmlessly`.

### `SandboxServicesProofs`

For any number of requests, starts and sponsors and any limits. `Reserved`: a start between its reservation and
its write holds the sponsor's stripe; policy and approval are as it checked them, and the sponsor runs fewer
requests than the limit. `Sandboxes`: the snapshot in a row names the service that runs the row's sandbox, and a
start that was granted a service left it in the row, unless the row is `stray`. Theorems: `ServicesTypes`,
`ApprovalsHavePolicies`, `CleanupReaches`, and the action property `GrantsInOrder`.

### `DeploymentAdmissionProofs`

For any number of calls, ids, scopes, plans and versions, under `DeploymentConstants` (ids are finitely many,
the limit is positive). `ScopeWithinLimit` is not inductive: a call that was told there is room writes its row
in a later step. `QuotaInv` adds what makes that safe. `Shapes`: a call past some point has an id and a body,
or a copy of a stored row, hence a scope. `Locked`: whoever is between the count and the write holds the
anchor row of its scope, so there is at most one per scope. `Room`: for such a call the count is still true,
without the row it is about to write. The steps of the worker, of pruning and of calls that hold no lock never
take a place (`MovesKeepAPlace`, `RowKeepsQuota`), so they keep `Room`; a write under the lock takes one place
of its own scope and of no other (`OneMoreHeld`, `OtherScopes`). `DeploymentQuota` is the invariant.
`OwnAnswers` is an action property with no invariant behind `Shapes`: only a replay compared with the saved
request and the insertion itself tell a call of a deployment.

`TimelineBudgets` is about timelines of any length: the counters go down by the events that are dropped, so the
sum of the sizes must split where the sequence is cut (`PrefixSum`, `AppendSum`, `CutSum`). `SumOf` is a recursive
function over the positions, and two of them are compared at the least position where they would differ
(`StretchSum`), which takes well-foundedness and no induction. `Timelines` adds that a row has as many timelines as
its revision says and that versions outnumber revisions. `HistoryIsKept` is an action property from it: a step
writes one row with its last timeline (`Rewrites`), or deletes rows that are over. `DeploymentTypes` are the types.

### `DeploymentWorkerProofs`

For any number of handlers, revisions, requests and crashes. `Knows`: an actor whose copy of the row is not
stale knows what the row says, so a write that the version lets through starts from a known status. From
`BaseInv` come `WorkerTypes` and the action properties `FailuresAreKept` (a row that failed is left as it is, or
only its failed cleanup is written: `KeptOrCleanup`) and `RunningIsUndisturbed` (what a probe came to is written
under the version it saw, which was running: `ProbeApplies`). With `EndedClean` (a row that completed or expired
names no sandbox, without which a stop could take it back to work) every step is a write of an operation, a
retry or a deletion (`StepKinds`), which gives `MovesAreTabled`, and `PlacesAreNotTaken`: within a revision no
write makes a deployment count again once it does not. `SandboxInv`: the provider runs a sandbox for the row's
attempt only, and none while the row is queued or over; whoever takes a sandbox from the row has closed it or
has waited for its deadline, also after a crash or a lost answer.

A retry breaks that when it queues a row whose last attempt left a sandbox, which is the finding
`deployment_retry`. `SandboxesReachable` and `SandboxesOne` are therefore stated under `RetryAfterCleanup`, the
property that run refutes: the reported retry is the only way to lose a sandbox. `FirstRetryReaches` needs no such
condition and covers every behaviour up to the first retry (`MaxRevisions <= 2`); it is what the run `deployment`
checks.

### `TerminalSessionProofs`

For any browsers and sizes. `StreamInv` ties the cursor of a stream to the last event id of its browser
and to the common baseline; with it `ExactOutput` and `NoLostWakeup` are inductive: a wake-up is dropped
only if the channel holds another, and whoever takes one reads to the end. `ClosingInv` follows the one
who took the session from the hub; `IdleInv` says no timer that still counts is older than the silence.
Theorems: `OutputIsExact`, `WakeupsSuffice`, `ProcessClosedOnce`, `TimersAreFair`.

### `PhasedMigrationProofs`

The assumption `NoLateUnseal` excludes the case described under Findings; late seals are allowed.

The heart is `CoverInv` with `ViewInv`. A difference between the databases is *covered* by a journal
entry behind the cursor or by the part of the baseline that is still to come. A batch is read from a
snapshot that may be old when it is committed, so the batch alone does not keep that: `ViewInv` says that
what has changed since the read is in the journal behind the place (`Floor`) to which the batch may move
the cursor, which is the bound of the replay taken before the read. `BaseInv` says that before the
baseline is done nothing is replayed and nothing lies ahead of its cursor, so a stale job owner that is
deleted is covered. `JobsInv` makes `StaleOwners` find all rows in the way (`WrittenFacts`). `Control`
relates the phases of both databases to what a command may find at each of its steps. From these:
`WritersApart`, `NothingLost`, `NoBatchFails`, `CutoverVerifies`, `EventsKept`. All of them compare the target with
`Held`, the source as PostgreSQL can hold it; truncation neither makes nor removes a row nor touches its job
(`HeldFacts`), so counts and the unique index agree. `Equal` shows that a verified target is `Held`, which makes the
release a `HandOver` of `ServedStore`. `EventInv` has what the history needs: what the importer inserted is an event
of the source, so a page is a `Backfill`, and with `HistoryWhole` the final count is `Complete`
(`MigrationIsInvisible`).

### Only model-checked

- *Liveness*, which is out of the prover's reach: `InFlightSettles`, `Settles`, `AbandonedCloses`, `CatchesUp`.
- The sandboxes of a request outside `Ordinary`, and those of a deployment whose retry does not follow a cleanup:
  there the properties are false (Findings).
- Leases where a write fails or runnerd crashes: `LeaseIsWorked` is false there until the lease expires.

The types of all models but `RunnerLifecycle`, `AdmissionRespectsLimit`, `NoPlaceTaken`, `Covered` and
`NoLostWakeup` are proved and in no run.

## Not modelled

`components` in `PROJECT.json` names every part with the reason. Parts whose state the models do not have:

- *The Windows start.* Its rows are in `RunnerAdmission` (the template of a spec); the start itself,
  with its JIT configuration, its runner group lookups and the attempt stamp that the Linux start lacks, would
  be a second lifecycle beside the first and is not checked.
- *Caches* of installation tokens, memberships and pull request titles. An outdated entry shows as a remote
  call that fails or is refused, which the models allow at every such call.
- *Login, sessions and authorization*, and cache credentials for jobs: they let a handler run or refuse it,
  and a refused call is an action that does not happen.
- *Time*. Timeouts, leases, retention and the time budget of recovery are events that may happen whenever the
  row allows it, so no property says how long something takes. The order of two deadlines is modelled where
  the code depends on it (deployment expiry, terminal idle delay).
- *Several requests with all their details at once.* Capacity is checked for several requests without their
  sandboxes, the lifecycle for one request with a choice for the answer of the capacity section. Their product
  is out of TLC's reach; `RunnerCapacity` is proved for any number of requests that move as the lifecycle is
  proved to move them.
- *A part of the reconciler* in `RunnerAdmission` and `SandboxServices`: that it completes a failed request whose job is
  over (`CompleteFailed` of `RunnerLifecycle`) is left out there; such a row leaves what their properties are about.
- *The retry of a historical waiting job* (`retryHistoricalWaitingJob`) in `RunnerLifecycle`: it queues a row again
  that an older version completed without ever starting a runner; `RunnerAdmission` has it (`RetryHistorical`).
- *Titles of pull requests*, which are filled in for earlier revisions too (`FillDeploymentPullRequestTitle`);
  `HistoryKept` is about plans, outcomes and events.
- *The lanes and the cursor of the deployment scheduler*, which only order operations of different
  deployments; that each gets its turn is the fairness assumed of `DeploymentWorker`.
- *The browser*: the React application, including the reconnection of its terminal, is the environment of
  `TerminalSession`, which assumes nothing about when it connects.

The rest has no state that a property could be about: pages and listings, diagnostics and metrics,
configuration, deployment sources and templates, the GitHub client, encryption, the schema and the conversion
of rows, but for the precision of times. The offline copy is one sequential program with runnerd stopped.
