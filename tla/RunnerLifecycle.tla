-------------------------- MODULE RunnerLifecycle --------------------------
(***************************************************************************)
(* The life of one runner request: its database row, the startRunner       *)
(* goroutines working on it, the sandboxes they create, the process        *)
(* watchers, the sweeper and reconciler loops, the workflow_job webhooks,  *)
(* the administrator's retry and stop, and a crash of runnerd followed by  *)
(* startup recovery.  Linux runners; requests of other ids interact with   *)
(* this one only through the capacity of module RunnerCapacity.            *)
(*                                                                         *)
(* A handler that holds the per-request lock is one step, except that the  *)
(* handlers that persist "stopping" and then call the sandbox service are  *)
(* split at that write, because a crash can fall between (holder is the    *)
(* handler that still owns the lock).  A handler that lets go of the lock  *)
(* around a remote call is split there.                                    *)
(***************************************************************************)
EXTENDS Integers, FiniteSets, RequestMoves

CONSTANTS
    MaxClaims,     \* bound: how often the request is claimed by the worker loop
    RetryMax,      \* RetryMaxAttempts
    MaxCrashes,    \* bound: how often runnerd crashes
    HasJob,        \* WorkflowJobID # 0: webhook requests have a job, manual ones none
    OtherJobs,     \* GitHub may give the runner a job other than the request's own
    Administrator, \* requests are stopped and retried by hand
    Loops,         \* the loops that list rows and act on the listing later
    LeaseExpires,  \* a start can outlive its lease before it writes creating
    WriteFails     \* a database write can fail

ASSUME LifecycleConstants ==
    /\ MaxClaims \in Nat \ {0}
    /\ RetryMax \in Nat
    /\ MaxCrashes \in Nat
    /\ {HasJob, OtherJobs, Administrator, LeaseExpires, WriteFails} \subseteq BOOLEAN
    /\ Loops \subseteq {"sweeper", "reconciler"}

Attempt == 1..MaxClaims

\* The reconciler, as a reader of the row's version beside the attempts.
Reconciler == 0

VARIABLES
    row,        \* the runner_requests record
    start,      \* where each startRunner goroutine is
    before,     \* the row a start read ahead of its job lookup
    fresh,      \* observers whose copy of the row still has the row's version
    sandbox,    \* the sandbox each attempt created, at the provider
    process,    \* the GitHub runner process in that sandbox
    watch,      \* the exit watcher of that process
    abandoned,  \* sandboxes whose best-effort kill failed
    holder,     \* the handler that holds the request lock across a remote call
    saw,        \* what a loop's listing said of the row
    mismatch,   \* the reconciler looked up the original job of a completed row
    job,        \* GitHub's status of the request's own job
    sent,       \* workflow_job events GitHub has had reason to send
    phase,      \* runnerd is up, or recovering
    crashes

vars == <<row, start, before, fresh, sandbox, process, watch, abandoned, holder,
          saw, mismatch, job, sent, phase, crashes>>

starts == <<start, before>>
provider == <<sandbox, process, abandoned>>
loops == <<saw, mismatch>>
github == <<job, sent>>

Status == {"queued", "creating", "running", "stopping", "completed", "failed"}
InFlightStatus == {"creating", "running", "stopping"}

\* FailureStage, as far as the code tells its values apart; "start" stands for
\* every stage of startRunner and the sweeper's create timeout.
Stage == {"none", "start", "exit", "timeout", "recovery", "stop", "cleanup"}

Row == [status : Status,
        sbx : {0} \cup Attempt,        \* SandboxID and ProcessPID
        lease : BOOLEAN,               \* LeaseOwner is this worker
        creating : {0} \cup Attempt,   \* CreatingAt, by the start that stamped it
        retries : 0..RetryMax,         \* RetryCount
        stage : Stage,
        deferred : {"no", "capacity", "error"},  \* NextRetryAt set, LastErrorRetryable
        assigned : {"none", "marker", "own", "other"},
        term : {"none", "exit", "stop"}]         \* TerminationSource

StartState == {"idle", "claimed", "refused", "leaving", "creating", "checking",
               "ready", "yielding", "starting", "provisioned", "started",
               "discard", "failing", "watching", "done"}

Free == <<"none", "none">>

Holder == {Free} \cup ({"stop"} \X {"none", "own", "other"})
                 \cup ({"force"} \X {"timeout", "recovery"})
                 \cup ({"exit"} \X {"zero", "nonzero", "error"})

\* Every variable holds a value of the shape the code gives it; in particular
\* RetryCount never passes RetryMaxAttempts, whichever handlers raise it.
TypeOK ==
    /\ row \in Row
    /\ start \in [Attempt -> StartState]
    /\ before \in [Attempt -> {0} \cup Attempt]
    /\ fresh \subseteq {Reconciler} \cup Attempt
    /\ sandbox \in [Attempt -> {"none", "live", "gone"}]
    /\ process \in [Attempt -> {"none", "idle", "own", "other", "exited"}]
    /\ watch \in [Attempt -> {"none", "armed", "nonzero", "error"}]
    /\ abandoned \subseteq Attempt
    /\ holder \in Holder
    /\ saw \in [Loops -> {"none", "idle", "unused"} \cup InFlightStatus]
    /\ mismatch \in BOOLEAN
    /\ job \in {"none", "waiting", "queued", "in_progress", "completed"}
    /\ sent \subseteq {<<"own", "started">>, <<"own", "ours">>,
                    <<"other", "started">>, <<"other", "done">>}
    /\ phase \in {"up", "recovering"}
    /\ crashes \in 0..MaxCrashes

\* createRequest inserts a queued row before any worker has touched it.
Init ==
    /\ row = [status |-> "queued", sbx |-> 0, lease |-> FALSE, creating |-> 0,
              retries |-> 0, stage |-> "none", deferred |-> "no",
              assigned |-> "none", term |-> "none"]
    /\ start = [a \in Attempt |-> "idle"]
    /\ before = [a \in Attempt |-> 0]
    /\ fresh = {}
    /\ sandbox = [a \in Attempt |-> "none"]
    /\ process = [a \in Attempt |-> "none"]
    /\ watch = [a \in Attempt |-> "none"]
    /\ abandoned = {}
    /\ holder = Free
    /\ saw = [l \in Loops |-> "none"]
    /\ mismatch = FALSE
    /\ job \in IF HasJob THEN {"queued", "waiting"} ELSE {"none"}
    /\ sent = {}
    /\ phase = "up"
    /\ crashes = 0

----------------------------------------------------------------------------
(* Helpers of the handlers *)

Up == phase = "up"

\* lockRunner: no handler is in the middle of its critical section.
Locked == phase = "up" /\ holder = Free

\* WriteState: the row and its version change together.
Persist(r) == row' = r /\ fresh' = {}

\* A write whose failure the handler only logs.
PersistOrLog(r) ==
    \/ Persist(r)
    \/ WriteFails /\ UNCHANGED <<row, fresh>>

GoTo(a, pc) == start' = [start EXCEPT ![a] = pc]

\* StopRunner on the row's sandbox: the sandbox and everything in it is gone.
Kill(b) ==
    /\ sandbox' = [sandbox EXCEPT ![b] = "gone"]
    /\ process' = [process EXCEPT ![b] = IF @ = "none" THEN @ ELSE "exited"]

KillOwned ==
    IF row.sbx = 0 THEN UNCHANGED <<sandbox, process>> ELSE Kill(row.sbx)

Bumped(n) == IF n < RetryMax THEN n + 1 ELSE n

\* The record that goes back to the queue after a failure, keeping FailureStage.
Requeued(r, s) ==
    [r EXCEPT !.status = "queued", !.sbx = 0, !.lease = FALSE, !.creating = 0,
              !.stage = s, !.deferred = "error"]

\* The kinds of error classifyRetryableError and isQueueDeferFailure tell apart.
Failure == {"defer", "retryable", "fatal"}

ApplyFailureForever(r, kind, s) ==
    IF kind # "fatal"
    THEN [Requeued(r, s) EXCEPT !.retries = @ + 1]
    ELSE [r EXCEPT !.status = "failed", !.sbx = 0, !.lease = FALSE, !.stage = s]

\* applyFailure forgets the sandbox on every path.
ApplyFailure(r, kind, s) ==
    IF kind = "defer" \/ (kind = "retryable" /\ r.retries < RetryMax)
    THEN [Requeued(r, s) EXCEPT !.retries = Bumped(@)]
    ELSE [r EXCEPT !.status = "failed", !.sbx = 0, !.lease = FALSE, !.stage = s]

TerminatedLast(r, source) == [r EXCEPT !.term = source]

\* setTerminationSource keeps the first source.
Terminated(r, source) == [r EXCEPT !.term = IF @ = "none" THEN source ELSE @]

\* requeueMismatchedWorkflowJob, RetryRequest: a row as good as new, whose
\* RetryCount stays.
AsNew(r) ==
    [r EXCEPT !.status = "queued", !.sbx = 0, !.lease = FALSE, !.creating = 0,
              !.stage = "none", !.deferred = "no", !.assigned = "none",
              !.term = "none"]

----------------------------------------------------------------------------
(* startRunner *)

\* ClaimNextRunnable: the lease is free, or it has expired.
Claim(a) ==
    /\ Up
    /\ start[a] = "idle"
    /\ \A b \in Attempt : b < a => start[b] # "idle"
    /\ row.status = "queued"
    /\ row.lease => LeaseExpires
    /\ Persist([row EXCEPT !.lease = TRUE])
    /\ GoTo(a, "claimed")
    /\ UNCHANGED <<before, provider, watch, holder, loops, github, phase,
                   crashes>>

\* The critical section that takes the row to creating; its early returns are
\* a row that is no longer queued, a profile error, and no capacity.
Admit(a) ==
    /\ Locked
    /\ start[a] = "claimed"
    /\ \/ /\ row.status # "queued"
          /\ GoTo(a, "done")
          /\ UNCHANGED <<row, fresh>>
       \/ /\ row.status = "queued"
          /\ \E pc \in {"refused", "leaving"} : GoTo(a, pc)
          /\ UNCHANGED <<row, fresh>>
       \/ /\ row.status = "queued"
          /\ Persist([row EXCEPT !.status = "creating", !.lease = TRUE,
                                 !.creating = IF @ = 0 THEN a ELSE @,
                                 !.deferred = IF @ = "capacity" THEN "no" ELSE @])
          /\ GoTo(a, "creating")
    /\ UNCHANGED <<before, provider, watch, holder, loops, github, phase,
                   crashes>>

LeaveLeased(a) ==
    /\ Locked
    /\ start[a] = "leaving"
    /\ Persist([row EXCEPT !.deferred = "capacity"])
    /\ GoTo(a, "done")
    /\ UNCHANGED <<before, provider, watch, holder, loops, github, phase, crashes>>

\* ReleaseLease after a capacity error or a failed write, deferQueuedRequest
\* after a refused reservation.
Leave(a) ==
    /\ Locked
    /\ start[a] = "leaving"
    /\ \/ /\ row' = [row EXCEPT !.lease = FALSE]
          /\ UNCHANGED fresh
       \/ /\ row.status = "queued" /\ row.lease
          /\ Persist([row EXCEPT !.lease = FALSE, !.deferred = "capacity"])
    /\ GoTo(a, "done")
    /\ UNCHANGED <<before, provider, watch, holder, loops, github, phase,
                   crashes>>

\* ensureWorkflowJobStillQueued reads the row, then asks GitHub without the lock.
ReadBefore(a) ==
    /\ Up
    /\ start[a] = "creating"
    /\ IF HasJob
       THEN /\ GoTo(a, "checking")
            /\ before' = [before EXCEPT ![a] = row.creating]
            /\ fresh' = fresh \cup {a}
       ELSE GoTo(a, "ready") /\ UNCHANGED <<before, fresh>>
    /\ UNCHANGED <<row, provider, watch, holder, loops, github, phase,
                   crashes>>

\* What the job lookup can return: GitHub's status, a rate limit, or an error.
Lookup == {job, "rate_limited", "error"}

\* The row moved on during the lookup: another status, lease or creation.
Superseded(a) ==
    \/ row.status # "creating"
    \/ ~row.lease
    \/ row.sbx # 0
    \/ row.creating # before[a]

\* The lookup sends the row back to the queue, or fails it for good.
Postponed(a, l) ==
    IF a \notin fresh \/ l \in {"waiting", "in_progress"}
    THEN Requeued(row, "none")
    ELSE IF l = "error" /\ row.retries >= RetryMax
    THEN [row EXCEPT !.status = "failed", !.lease = FALSE, !.creating = 0,
                     !.stage = "start"]
    ELSE [Requeued(row, "none") EXCEPT !.retries = Bumped(@)]

\* ensureWorkflowJobStillQueued after the lookup, with completeWithoutSandbox.
Check(a) ==
    /\ Locked
    /\ start[a] = "checking"
    /\ \/ /\ Superseded(a)
          /\ GoTo(a, "done")
          /\ UNCHANGED row
          /\ fresh' = fresh \ {a}
       \/ /\ ~Superseded(a) /\ a \in fresh /\ job = "queued"
          /\ GoTo(a, "ready")
          /\ UNCHANGED row
          /\ fresh' \in {fresh \ {a}, {}}
       \/ /\ ~Superseded(a) /\ a \in fresh /\ job = "completed"
          /\ Persist([row EXCEPT !.status = "completed", !.assigned = "own",
                                 !.stage = "none", !.lease = FALSE])
          /\ GoTo(a, "done")
       \/ /\ ~Superseded(a)
          /\ \E l \in Lookup :
               /\ a \in fresh => l \notin {"queued", "completed"}
               /\ Persist(Postponed(a, l))
          /\ GoTo(a, "done")
       \/ /\ WriteFails /\ ~Superseded(a)
          /\ GoTo(a, "failing")
          /\ UNCHANGED row
          /\ fresh' = fresh \ {a}
    /\ before' = [before EXCEPT ![a] = 0]
    /\ UNCHANGED <<provider, watch, holder, loops, github, phase, crashes>>

\* The unlocked preparation: runner group, sandbox service, its snapshot in the
\* row, template, applications, registration token.  persistSandboxServiceSnapshot
\* writes the row without the lock; a sponsor without capacity yields.
Prepare(a) ==
    /\ Up
    /\ start[a] = "ready"
    /\ \E pc \in {"failing", "yielding", "starting"} : GoTo(a, pc)
    /\ fresh' \in {fresh, {}}
    /\ UNCHANGED <<row, before, provider, watch, holder, loops, github,
                   phase, crashes>>

\* deferCreatingRequest
DeferCreating(a) ==
    /\ Locked
    /\ start[a] = "yielding"
    /\ IF row.status = "creating" /\ row.lease /\ row.sbx = 0
       THEN PersistOrLog([row EXCEPT !.status = "queued", !.creating = 0,
                                     !.lease = FALSE])
       ELSE UNCHANGED <<row, fresh>>
    /\ GoTo(a, "done")
    /\ UNCHANGED <<before, provider, watch, holder, loops, github, phase,
                   crashes>>

\* StartRunner, as the provider sees it: the sandbox exists, then the runner
\* process in it.
CreateSandbox(a) ==
    /\ Up
    /\ start[a] = "starting"
    /\ sandbox' = [sandbox EXCEPT ![a] = "live"]
    /\ GoTo(a, "provisioned")
    /\ UNCHANGED <<row, before, fresh, process, watch, abandoned, holder,
                   loops, github, phase, crashes>>

LaunchRunner(a) ==
    /\ Up
    /\ start[a] = "provisioned"
    /\ sandbox[a] = "live"
    /\ process' = [process EXCEPT ![a] = "idle"]
    /\ GoTo(a, "started")
    /\ UNCHANGED <<row, before, fresh, sandbox, watch, abandoned, holder,
                   loops, github, phase, crashes>>

\* StartRunner returns an error: no sandbox, a killed one, or one that an
\* uncertain create or a failed kill left behind.
StartFails(a) ==
    /\ Up
    /\ start[a] \in {"starting", "provisioned"}
    /\ \/ start[a] = "starting" /\ UNCHANGED <<sandbox, process, abandoned>>
       \/ start[a] = "provisioned" /\ Kill(a) /\ UNCHANGED abandoned
       \/ /\ sandbox[a] # "gone"
          /\ sandbox' = [sandbox EXCEPT ![a] = "live"]
          /\ abandoned' = abandoned \cup {a}
          /\ UNCHANGED process
    /\ GoTo(a, "failing")
    /\ UNCHANGED <<row, before, fresh, watch, holder, loops, github, phase,
                   crashes>>

AdoptAnyway(a) ==
    /\ Locked
    /\ start[a] = "started"
    /\ Persist([row EXCEPT !.status = "running", !.sbx = a, !.lease = FALSE])
    /\ watch' = [watch EXCEPT ![a] = "armed"]
    /\ GoTo(a, "watching")
    /\ UNCHANGED <<before, provider, holder, loops, github, phase, crashes>>

AdoptForgets(a) ==
    /\ Locked
    /\ start[a] = "started"
    /\ IF row.status = "creating"
       THEN /\ Persist([row EXCEPT !.status = "running", !.sbx = a, !.lease = FALSE])
            /\ watch' = [watch EXCEPT ![a] = "armed"]
            /\ GoTo(a, "watching")
       ELSE GoTo(a, "done") /\ UNCHANGED <<row, fresh, watch>>
    /\ UNCHANGED <<before, provider, holder, loops, github, phase, crashes>>

\* The critical section after StartRunner: the row becomes running with this
\* sandbox and the exit watcher is armed, unless the row is not creating any more.
Adopt(a) ==
    /\ Locked
    /\ start[a] = "started"
    /\ \/ /\ row.status = "creating"
          /\ Persist([row EXCEPT !.status = "running", !.sbx = a, !.lease = FALSE,
                                 !.creating = IF @ = 0 THEN a ELSE @,
                                 !.deferred = "no"])
          /\ watch' = [watch EXCEPT ![a] = "armed"]
          /\ GoTo(a, "watching")
       \/ /\ row.status # "creating" \/ WriteFails
          /\ GoTo(a, "discard")
          /\ UNCHANGED <<row, fresh, watch>>
    /\ UNCHANGED <<before, provider, holder, loops, github, phase, crashes>>

\* cleanupStartedSandbox: a failed kill is logged and forgotten.
Discard(a) ==
    /\ Up
    /\ start[a] = "discard"
    /\ \/ Kill(a) /\ UNCHANGED abandoned
       \/ /\ sandbox[a] = "live"
          /\ abandoned' = abandoned \cup {a}
          /\ UNCHANGED <<sandbox, process>>
    /\ GoTo(a, "done")
    /\ UNCHANGED <<row, before, fresh, watch, holder, loops, github, phase,
                   crashes>>

\* failStart, with failStartForAttempt's rule for an attempt that has no
\* Windows stamp: whatever the row's status but completed and stopping.
FailStart(a) ==
    /\ Locked
    /\ start[a] \in {"refused", "failing"}
    /\ IF row.status \in {"completed", "stopping"}
       THEN row' = [row EXCEPT !.lease = FALSE] /\ UNCHANGED fresh
       ELSE \E kind \in Failure : PersistOrLog(ApplyFailure(row, kind, "start"))
    /\ GoTo(a, "done")
    /\ UNCHANGED <<before, provider, watch, holder, loops, github, phase,
                   crashes>>

----------------------------------------------------------------------------
(* stopRunner, failAndStopRunner and runnerExited *)

\* How the calls of a cleanup can end: StopRunner on the sandbox, and the removal
\* of the runner's GitHub registration, which GitHub refuses while it is busy.
SandboxStop == {"ok", "transient", "fatal"}
GitHubCleanup == {"ok", "busy", "transient", "fatal"}

\* A sandbox that is gone, or none at all, stops without an error.
StopsWith(s) ==
    /\ s # "ok" => row.sbx # 0 /\ sandbox[row.sbx] = "live"
    /\ IF s = "ok" THEN KillOwned ELSE UNCHANGED <<sandbox, process>>

\* A sandbox that did not stop is given up on unless the row stays stopping.
GivesUp(s) ==
    abandoned' = IF s # "ok" /\ row'.status # "stopping" THEN abandoned \cup {row.sbx}
                 ELSE abandoned

\* scheduleCleanupRetry: busy retries have no limit, others a budget.
CleanupRetries(r, g) == g = "busy" \/ (g = "transient" /\ r.retries < RetryMax)

CleanupRetry(r) ==
    [r EXCEPT !.status = "stopping", !.retries = Bumped(@),
              !.stage = IF @ = "none" THEN "cleanup" ELSE @]

\* workflowJobStopConflictsWithAssignment: job j completed, on a runner of this
\* request's name or not.
Conflicts(j, ours) ==
    /\ j # "none" /\ ~ours
    /\ \/ row.assigned \in {"own", "other"} /\ row.assigned # j
       \/ row.assigned = "marker" /\ j = "own"

Assigned(r, j) == [r EXCEPT !.assigned = IF j = "none" THEN @ ELSE j]

\* stopRunner up to the persisted stopping status.
StopRunner(j, ours) ==
    \/ /\ Conflicts(j, ours)
       /\ fresh' \in {fresh, {}}
       /\ UNCHANGED <<row, holder>>
    \/ /\ ~Conflicts(j, ours) /\ row.status = "completed"
       /\ Persist(Assigned(row, j))
       /\ UNCHANGED holder
    \/ /\ ~Conflicts(j, ours) /\ row.status # "completed"
       /\ \/ /\ Persist([Terminated(Assigned(row, j), "stop") EXCEPT
                                                        !.status = "stopping"])
             /\ holder' = <<"stop", j>>
          \/ WriteFails /\ UNCHANGED <<row, fresh, holder>>

\* The sandbox does not stop: a bounded retry, then failed.
StopSandboxFails(s) ==
    /\ s # "ok"
    /\ PersistOrLog(IF s = "transient" /\ row.retries < RetryMax
                    THEN [row EXCEPT !.retries = @ + 1, !.stage = "stop"]
                    ELSE [row EXCEPT !.status = "failed", !.stage = "stop"])

\* The GitHub registration cannot be removed.
StopCleanupFails(g) ==
    /\ g # "ok"
    /\ PersistOrLog(IF CleanupRetries(row, g) THEN CleanupRetry(row)
                    ELSE [row EXCEPT !.status = "failed", !.stage = "cleanup"])

\* The runner did another job: the original one goes back to the queue when
\* GitHub still has it queued, or does not answer.
StopMismatch ==
    \/ PersistOrLog(AsNew(row))
    \/ /\ job # "queued"
       /\ PersistOrLog([row EXCEPT !.status = "completed", !.assigned = "none",
                                   !.stage = "none", !.deferred = "no"])

StopEnds ==
    PersistOrLog(IF row.stage \in {"none", "cleanup"}
                 THEN [row EXCEPT !.status = "completed", !.stage = "none",
                                  !.deferred = "no"]
                 ELSE [row EXCEPT !.status = "failed", !.deferred = "no"])

\* stopRunner from the persisted stopping status to its return.
FinishStop ==
    /\ holder \in {"stop"} \X {"none", "own", "other"}
    /\ \E s \in SandboxStop, g \in GitHubCleanup :
         /\ StopsWith(s)
         /\ \/ StopSandboxFails(s)
            \/ s = "ok" /\ StopCleanupFails(g)
            \/ s = "ok" /\ g = "ok" /\ HasJob /\ holder[2] = "other" /\ StopMismatch
            \/ s = "ok" /\ g = "ok" /\ ~(HasJob /\ holder[2] = "other") /\ StopEnds
         /\ GivesUp(s)
    /\ holder' = Free
    /\ phase' = "up"
    /\ UNCHANGED <<starts, watch, loops, github, crashes>>

\* failAndStopRunner up to the persisted stopping status.
ForceStop(s) ==
    IF row.status \in {"completed", "failed"}
    THEN UNCHANGED <<row, fresh, holder>>
    ELSE \/ /\ Persist([Terminated(row, "stop") EXCEPT !.status = "stopping",
                                                      !.stage = s])
            /\ holder' = <<"force", s>>
         \/ WriteFails /\ UNCHANGED <<row, fresh, holder>>

\* failAndStopRunner to its return: a sandbox that does not stop is not retried.
FinishForce ==
    /\ holder \in {"force"} \X {"timeout", "recovery"}
    /\ \E s \in SandboxStop, g \in GitHubCleanup :
         /\ StopsWith(s)
         /\ PersistOrLog(
              IF s # "ok" THEN [row EXCEPT !.status = "failed", !.stage = "stop"]
              ELSE IF CleanupRetries(row, g) THEN CleanupRetry(row)
              ELSE [row EXCEPT !.status = "failed", !.lease = FALSE,
                               !.stage = IF g = "ok" THEN @ ELSE "cleanup"])
         /\ GivesUp(s)
    /\ holder' = Free
    /\ phase' = "up"
    /\ UNCHANGED <<starts, watch, loops, github, crashes>>

\* The watcher acts on the row up to the persisted stopping status; a write that
\* fails ends the callback with the row as it was.
BeginExit(code) ==
    \/ /\ Persist([Terminated(row, "exit") EXCEPT !.status = "stopping",
                          !.stage = IF code = "zero" THEN @ ELSE "exit"])
       /\ holder' = <<"exit", code>>
    \/ WriteFails /\ UNCHANGED <<row, fresh, holder>>

\* The callback returns, and with it the goroutine that waited for it.
Watched(a) ==
    /\ watch' = [watch EXCEPT ![a] = "none"]
    /\ GoTo(a, "done")

\* attempt.matches and the statuses a watcher may act on.
Owns(a) == row.sbx = a /\ row.status \in {"creating", "running"}

\* runnerExitedForAttempt: the stream of the process ends.  A stale attempt is
\* ignored; a clean exit is acted on; for any other the lock is let go to ask
\* GitHub whether the runner is busy.
RunnerExited(a, code) ==
    /\ Locked
    /\ watch[a] = "armed"
    /\ code \in {"zero", "nonzero"} => process[a] = "exited"
    /\ \/ /\ ~Owns(a)
          /\ Watched(a)
          /\ fresh' \in IF row.sbx = a THEN {fresh, {}} ELSE {fresh}
          /\ UNCHANGED <<row, holder>>
       \/ /\ Owns(a) /\ code = "zero"
          /\ Watched(a)
          /\ BeginExit(code)
       \/ /\ Owns(a) /\ code # "zero"
          /\ watch' = [watch EXCEPT ![a] = code]
          /\ UNCHANGED <<row, start, fresh, holder>>
    /\ UNCHANGED <<before, provider, loops, github, phase, crashes>>

\* GitHub knows a runner by its name, which every attempt of a request shares.
Busy == \E a \in Attempt : process[a] \in {"own", "other"}

BusyCheckedStale(a) ==
    /\ Locked
    /\ watch[a] \in {"nonzero", "error"}
    /\ Watched(a)
    /\ BeginExit(watch[a])
    /\ UNCHANGED <<before, provider, loops, github, phase, crashes>>

\* The callback after the busy check: the row must still be this attempt's.  A
\* failed lookup counts as not busy, and so does a failed write of the outcome.
BusyChecked(a) ==
    /\ Locked
    /\ watch[a] \in {"nonzero", "error"}
    /\ Watched(a)
    /\ \/ /\ ~Owns(a)
          /\ UNCHANGED <<row, fresh, holder>>
       \/ /\ Owns(a) /\ Busy
          /\ Persist([row EXCEPT !.status = "running",
                                 !.assigned = IF @ = "none" THEN "marker" ELSE @])
          /\ UNCHANGED holder
       \/ Owns(a) /\ BeginExit(watch[a])
    /\ UNCHANGED <<before, provider, loops, github, phase, crashes>>

\* retryRunnerExitedWithoutJob
ExitedWithoutJob(r) ==
    IF HasJob /\ r.assigned = "none"
    THEN LET f == ApplyFailure(r, "retryable", "exit") IN
         [f EXCEPT !.term = IF f.status = "queued" THEN "none" ELSE @]
    ELSE r

\* runnerExitedForAttempt after the sandbox cleanup ended with s and the GitHub
\* cleanup with g.
ExitOutcome(code, s, g) ==
    LET closed == [row EXCEPT !.status = IF code = "zero" /\ s = "ok"
                                         THEN "completed" ELSE "failed"]
    IN  IF CleanupRetries(row, g) THEN CleanupRetry(row)
        ELSE IF g # "ok"
        THEN [row EXCEPT !.status = "failed",
                         !.stage = IF code = "error" THEN @ ELSE "cleanup"]
        ELSE IF s = "ok" THEN ExitedWithoutJob(closed)
        ELSE closed

FinishExit ==
    /\ holder \in {"exit"} \X {"zero", "nonzero", "error"}
    /\ \E s \in SandboxStop, g \in GitHubCleanup :
         /\ StopsWith(s)
         /\ PersistOrLog(ExitOutcome(holder[2], s, g))
         /\ GivesUp(s)
    /\ holder' = Free
    /\ UNCHANGED <<starts, watch, loops, github, phase, crashes>>

----------------------------------------------------------------------------
(* The sweeper and the reconciler *)

ListUnstopped(l) ==
    /\ Up
    /\ saw[l] = "none"
    /\ row.status \in {"creating", "running"}
    /\ saw' = [saw EXCEPT ![l] = row.status]
    /\ UNCHANGED <<row, starts, fresh, provider, watch, holder, mismatch, github,
                   phase, crashes>>

\* ListActiveStates: the loop acts later on what it listed; "idle" is a running
\* row without an assigned job.
List(l) ==
    /\ Up
    /\ saw[l] = "none"
    /\ row.status \in IF l = "sweeper" THEN InFlightStatus ELSE {"stopping"}
    /\ saw' = [saw EXCEPT ![l] = IF row.status = "running" /\ row.assigned = "none"
                                 THEN "idle" ELSE row.status]
    /\ UNCHANGED <<row, starts, fresh, provider, watch, holder, mismatch,
                   github, phase, crashes>>

\* retryOrFail looks at the current status for completed and failed only.
RetryOrFail ==
    IF row.status \in {"completed", "failed"}
    THEN UNCHANGED <<row, fresh>>
    ELSE PersistOrLog(ApplyFailure(row, "retryable", "start"))

\* The create timeout, the sandbox timeout, and the retry of a stop, of the row
\* the loop listed.
SweepCreating(l) ==
    /\ Locked
    /\ saw[l] = "creating"
    /\ RetryOrFail
    /\ saw' = [saw EXCEPT ![l] = "none"]
    /\ UNCHANGED <<starts, provider, watch, holder, mismatch, github, phase,
                   crashes>>

SweepRunning(l) ==
    /\ Locked
    /\ saw[l] \in {"running", "idle"}
    /\ ForceStop("timeout")
    /\ saw' = [saw EXCEPT ![l] = "none"]
    /\ UNCHANGED <<starts, provider, watch, mismatch, github, phase, crashes>>

SweepStopping(l) ==
    /\ Locked
    /\ saw[l] = "stopping"
    /\ StopRunner("none", FALSE)
    /\ saw' = [saw EXCEPT ![l] = "none"]
    /\ UNCHANGED <<starts, provider, watch, mismatch, github, phase, crashes>>

\* An idle row: the sweeper asks GitHub, without the lock, whether the job is
\* still queued and whether the runner is busy, and marks a busy row.
SweepAsk(l) ==
    /\ Locked
    /\ saw[l] = "idle"
    /\ job # "queued"
    /\ saw' = [saw EXCEPT ![l] = IF Busy THEN "none" ELSE "unused"]
    /\ IF Busy /\ row.assigned = "none" /\ row.status \notin {"completed", "stopping"}
       THEN PersistOrLog([row EXCEPT !.assigned = "marker"])
       ELSE UNCHANGED <<row, fresh>>
    /\ UNCHANGED <<starts, provider, watch, holder, mismatch, github, phase,
                   crashes>>

\* It then stops the row, whatever became of it since.
SweepIdle(l) ==
    /\ Locked
    /\ saw[l] = "unused"
    /\ StopRunner("none", FALSE)
    /\ saw' = [saw EXCEPT ![l] = "none"]
    /\ UNCHANGED <<starts, provider, watch, mismatch, github, phase, crashes>>

\* Nothing has timed out yet, or GitHub could not be asked.
SweepNothing(l) ==
    /\ Up
    /\ saw[l] # "none"
    /\ saw' = [saw EXCEPT ![l] = "none"]
    /\ UNCHANGED <<row, starts, fresh, provider, watch, holder, mismatch,
                   github, phase, crashes>>

Mismatched == HasJob /\ row.status = "completed" /\ row.assigned = "other"

\* reconcileMismatchedCompletedJobs: the lookup of the original job is between
\* the two critical sections.
ReconcileMismatch ==
    /\ Locked
    /\ IF mismatch
       THEN /\ IF Mismatched
               THEN \/ PersistOrLog(AsNew(row))
                    \/ job # "queued" /\ PersistOrLog([row EXCEPT !.assigned = "none"])
               ELSE UNCHANGED <<row, fresh>>
            /\ mismatch' = FALSE
       ELSE Mismatched /\ mismatch' = TRUE /\ UNCHANGED <<row, fresh>>
    /\ UNCHANGED <<starts, provider, watch, holder, saw, github, phase,
                   crashes>>

Reclaimable ==
    /\ HasJob
    /\ row.status = "failed"
    /\ row.stage \in {"recovery", "cleanup"}

\* completeIfWorkflowJobCompleted, guarded by the version it read.
ReadFailed ==
    /\ Locked
    /\ Reclaimable
    /\ fresh' = fresh \cup {Reconciler}
    /\ UNCHANGED <<row, starts, provider, watch, holder, loops, github,
                   phase, crashes>>

CompleteFailed ==
    /\ Locked
    /\ Reconciler \in fresh
    /\ Reclaimable
    /\ job = "completed"
    /\ Persist([row EXCEPT !.status = "completed", !.assigned = "none",
                           !.stage = "none", !.lease = FALSE])
    /\ UNCHANGED <<starts, provider, watch, holder, loops, github, phase,
                   crashes>>

----------------------------------------------------------------------------
(* Webhooks, runner output, and the administrator *)

\* markWorkflowJobInProgress
JobInProgress(j) ==
    /\ Locked
    /\ <<j, "started">> \in sent
    /\ row.status \notin {"completed", "stopping"}
    /\ row.assigned # j
    /\ Persist([row EXCEPT !.assigned = j])
    /\ UNCHANGED <<starts, provider, watch, holder, loops, github, phase,
                   crashes>>

\* The completed webhook: of the own job, named after this request's runner when
\* that runner did it, or of the other job this runner did.
JobCompleted(j) ==
    /\ Locked
    /\ IF j = "own" THEN job = "completed" ELSE <<"other", "done">> \in sent
    /\ StopRunner(j, j = "other" \/ <<"own", "ours">> \in sent)
    /\ UNCHANGED <<starts, provider, watch, loops, github, phase, crashes>>

\* markRunnerJobStarted, from the output of a runner this runnerd started.
JobStarted(a) ==
    /\ Locked
    /\ process[a] \in {"own", "other"}
    /\ start[a] \in {"started", "discard", "watching"}
    /\ row.assigned = "none"
    /\ row.status \notin {"completed", "stopping"}
    /\ Persist([row EXCEPT !.assigned = "marker"])
    /\ UNCHANGED <<starts, provider, watch, holder, loops, github, phase,
                   crashes>>

\* handleDeleteRunner
ManualStop ==
    /\ Administrator
    /\ Locked
    /\ row.status # "completed"
    /\ StopRunner("none", FALSE)
    /\ UNCHANGED <<starts, provider, watch, loops, github, phase, crashes>>

\* RetryRequest takes no lock; the version check makes it atomic.
RetryRequest ==
    /\ Administrator
    /\ Up
    /\ row.status = "failed" \/ (row.status = "queued" /\ row.deferred # "no")
    /\ Persist(AsNew(row))
    /\ UNCHANGED <<starts, provider, watch, holder, loops, github, phase,
                   crashes>>

----------------------------------------------------------------------------
(* GitHub and the sandbox provider *)

\* A listening runner is given the own job or another one with its labels.
TakeJob(a, j) ==
    /\ process[a] = "idle" /\ sandbox[a] = "live"
    /\ IF j = "own" THEN job = "queued" ELSE OtherJobs
    /\ process' = [process EXCEPT ![a] = j]
    /\ job' = IF j = "own" THEN "in_progress" ELSE job
    /\ sent' = sent \cup IF j = "own" THEN {<<"own", "started">>, <<"own", "ours">>}
                          ELSE {<<"other", "started">>}
    /\ UNCHANGED <<row, starts, fresh, sandbox, watch, abandoned, holder,
                   loops, phase, crashes>>

\* The process ends, with its job or without it.
ProcessExits(a) ==
    /\ process[a] \in {"idle", "own", "other"}
    /\ process' = [process EXCEPT ![a] = "exited"]
    /\ job' \in {job} \cup (IF process[a] = "own" THEN {"completed"} ELSE {})
    /\ sent' = sent \cup IF process[a] = "other" THEN {<<"other", "done">>} ELSE {}
    /\ UNCHANGED <<row, starts, fresh, sandbox, watch, abandoned, holder,
                   loops, phase, crashes>>

\* The own job is approved, taken by a runner of nobody here, or ends.
JobMoves ==
    /\ \/ job = "waiting" /\ job' = "queued" /\ UNCHANGED sent
       \/ /\ job = "queued" /\ job' = "in_progress"
          /\ sent' = sent \cup {<<"own", "started">>}
       \/ /\ job \in {"waiting", "queued", "in_progress"}
          /\ job' = "completed" /\ UNCHANGED sent
    /\ UNCHANGED <<row, starts, fresh, provider, watch, holder, loops,
                   phase, crashes>>

\* The provider's own timeout ends a sandbox.
SandboxExpires(a) ==
    /\ sandbox[a] = "live"
    /\ Kill(a)
    /\ UNCHANGED <<row, starts, fresh, watch, abandoned, holder, loops,
                   github, phase, crashes>>

----------------------------------------------------------------------------
(* Crash and startup recovery *)

\* Everything in memory is gone; the row, the sandboxes and GitHub remain.  A
\* create call that was under way may still take effect.
Crash ==
    /\ crashes < MaxCrashes
    /\ crashes' = crashes + 1
    /\ phase' = "recovering"
    /\ start' = [a \in Attempt |-> IF start[a] = "idle" THEN "idle" ELSE "done"]
    /\ before' = [a \in Attempt |-> 0]
    /\ fresh' = {}
    /\ watch' = [a \in Attempt |-> "none"]
    /\ holder' = Free
    /\ saw' = [l \in Loops |-> "none"]
    /\ mismatch' = FALSE
    /\ \E landed \in SUBSET {a \in Attempt : start[a] = "starting"} :
         sandbox' = [a \in Attempt |-> IF a \in landed THEN "live" ELSE sandbox[a]]
    /\ UNCHANGED <<row, process, abandoned, github>>

\* Recover runs before the loops and the HTTP handlers, so nothing else touches
\* the row until the handler it called returns.
Recovering == phase = "recovering" /\ holder = Free
Recovered == phase' = IF holder' = Free THEN "up" ELSE phase

\* A terminal row; a lookup, connection or budget error: the row stays as it is.
RecoverNothing ==
    /\ Recovering
    /\ UNCHANGED <<row, starts, fresh, provider, watch, holder, loops,
                   github, crashes>>
    /\ Recovered

RecoverQueued ==
    /\ Recovering
    /\ row.status = "queued"
    /\ Persist([row EXCEPT !.lease = FALSE])
    /\ UNCHANGED <<starts, provider, watch, holder, loops, github, crashes>>
    /\ Recovered

\* recoverRunner of a stopping row, and recoverActiveRunner of a row whose job
\* GitHub reports completed.
RecoverStop ==
    /\ Recovering
    /\ \/ row.status = "stopping" /\ StopRunner("none", FALSE)
       \/ /\ row.status \in {"creating", "running"} /\ job = "completed"
          /\ StopRunner("own", <<"own", "ours">> \in sent)
    /\ UNCHANGED <<starts, provider, watch, loops, github, crashes>>
    /\ Recovered

\* recoverActiveRunner goes on to the sandbox: the job is not completed, GitHub
\* did not say (l is "unknown"), or the stop conflicted with the assignment.
GoesOn(l) ==
    /\ Recovering
    /\ row.status \in {"creating", "running"}
    /\ l = "completed" => Conflicts("own", <<"own", "ours">> \in sent)

RecoveryLookup == {job} \cup (IF HasJob THEN {"unknown"} ELSE {})

FoundNamed == {row.sbx} \cap {b \in Attempt : sandbox[b] = "live"}

\* The sandbox RecoverRunner looks at: the row's, or those with its request id.
Found == IF row.sbx # 0 THEN {row.sbx} \cap {b \in Attempt : sandbox[b] = "live"}
         ELSE {b \in Attempt : sandbox[b] = "live"}

RecoverTimeout ==
    /\ \E l \in RecoveryLookup : GoesOn(l)
    /\ ForceStop("timeout")
    /\ UNCHANGED <<starts, provider, watch, loops, github, crashes>>
    /\ Recovered

\* RecoverRunner reconnects to the one process it expects.
Reconnect ==
    /\ \E l \in RecoveryLookup : GoesOn(l)
    /\ \E b \in Attempt :
         /\ Found = {b}
         /\ process[b] \notin {"none", "exited"}
         /\ Persist([row EXCEPT !.status = "running", !.sbx = b, !.lease = FALSE,
                                !.creating = IF @ = 0 THEN b ELSE @,
                                !.stage = "none", !.deferred = "no"])
         /\ watch' = [watch EXCEPT ![b] = "armed"]
    /\ UNCHANGED <<starts, provider, holder, loops, github, crashes>>
    /\ Recovered

\* requeueInterruptedCreation
InterruptedCreation ==
    PersistOrLog([row EXCEPT !.status = "queued", !.sbx = 0, !.lease = FALSE,
                             !.creating = 0, !.stage = "none", !.deferred = "no"])

\* No sandbox is left: a running row fails, a creating one starts over unless
\* its job already runs.
RecoverMissing ==
    /\ Found = {}
    /\ \E l \in RecoveryLookup :
         /\ GoesOn(l)
         /\ \/ /\ row.status = "running" \/ l = "in_progress"
               /\ ForceStop("recovery")
            \/ /\ row.status = "creating" /\ l \notin {"in_progress", "completed"}
               /\ InterruptedCreation
               /\ UNCHANGED holder
    /\ UNCHANGED <<starts, provider, watch, loops, github, crashes>>
    /\ Recovered

\* A creating row whose sandbox has no runner process: the sandbox is stopped,
\* then the row starts over.
RecoverUnlaunched ==
    /\ \E l \in RecoveryLookup : GoesOn(l)
    /\ row.status = "creating"
    /\ \E b \in Attempt :
         /\ Found = {b}
         /\ process[b] \in {"none", "exited"}
         /\ Kill(b)
    /\ InterruptedCreation
    /\ UNCHANGED <<starts, watch, abandoned, holder, loops, github, crashes>>
    /\ Recovered

----------------------------------------------------------------------------

StartNext(a) ==
    \/ Claim(a) \/ Admit(a) \/ Leave(a) \/ ReadBefore(a) \/ Check(a) \/ Prepare(a)
    \/ DeferCreating(a) \/ CreateSandbox(a) \/ LaunchRunner(a) \/ StartFails(a)
    \/ Adopt(a) \/ Discard(a) \/ FailStart(a)

WatcherNext(a) ==
    \/ \E code \in {"zero", "nonzero", "error"} : RunnerExited(a, code)
    \/ BusyChecked(a)
    \/ JobStarted(a)

FinishNext == FinishStop \/ FinishForce \/ FinishExit

LoopNext(l) ==
    \/ List(l) \/ SweepCreating(l) \/ SweepRunning(l) \/ SweepStopping(l)
    \/ SweepAsk(l) \/ SweepIdle(l) \/ SweepNothing(l)

ReconcileNext == ReconcileMismatch \/ ReadFailed \/ CompleteFailed

RequestNext ==
    \/ \E j \in {"own", "other"} : JobInProgress(j) \/ JobCompleted(j)
    \/ ManualStop
    \/ RetryRequest

WorldNext ==
    \/ \E a \in Attempt : ProcessExits(a) \/ SandboxExpires(a)
    \/ \E a \in Attempt, j \in {"own", "other"} : TakeJob(a, j)
    \/ JobMoves

RecoverNext ==
    \/ RecoverNothing \/ RecoverQueued \/ RecoverStop \/ RecoverTimeout
    \/ Reconnect \/ RecoverMissing \/ RecoverUnlaunched

Next ==
    \/ \E a \in Attempt : StartNext(a) \/ WatcherNext(a)
    \/ FinishNext
    \/ \E l \in Loops : LoopNext(l)
    \/ ReconcileNext
    \/ RequestNext
    \/ WorldNext
    \/ Crash
    \/ RecoverNext

Spec == Init /\ [][Next]_vars

\* The goroutines of runnerd keep running: a start goes on (its remote calls have
\* timeouts), a handler returns, recovery returns, and the sweeper ticks.  A
\* timeout it looks for passes sooner or later, so the sweep of a row it keeps
\* listing happens.  The last conjunct is about the services a cleanup calls:
\* they do not fail transiently, or report the runner busy, for ever.
FairSpec ==
    /\ Spec
    /\ \A a \in Attempt : WF_vars(StartNext(a))
    /\ WF_vars(FinishNext)
    /\ WF_vars(RecoverNext)
    /\ \A l \in Loops : /\ WF_vars(LoopNext(l))
                        /\ SF_vars(SweepCreating(l))
                        /\ SF_vars(SweepRunning(l))
                        /\ SF_vars(SweepStopping(l))
    /\ SF_vars(FinishNext /\ row'.status # "stopping")

----------------------------------------------------------------------------
(* What the request promises *)

\* As long as runnerd has not crashed, a sandbox that no failed kill gave up on is
\* reachable: the row names it, or the start that created it still works on it.
\* Otherwise nobody would stop it once its job is over.
SandboxAccounted ==
    crashes = 0 =>
        \A a \in Attempt :
            sandbox[a] = "live" /\ a \notin abandoned =>
                \/ row.sbx = a
                \/ start[a] \in {"provisioned", "started", "discard"}

\* The request never has two sandboxes in which a runner could take a job.
OneRunnerPerRequest ==
    \A a, b \in Attempt \ abandoned :
        /\ sandbox[a] = "live" /\ process[a] # "exited"
        /\ sandbox[b] = "live" /\ process[b] # "exited"
        => a = b

\* The exit callback of a process watcher changes the row only while the row
\* still names its sandbox, however late it runs (attempt.matches).
StaleExitIgnored ==
    [][\A a \in Attempt :
         watch[a] # "none" /\ watch'[a] = "none" /\ crashes' = crashes
         /\ row' # row => row.sbx = a]_vars

\* A completed request comes back only because its runner did another job.
CompletedIsFinal ==
    [][row.status = "completed" /\ row'.status # "completed" =>
         row.assigned = "other" /\ row'.status = "queued"]_vars

\* A queued row that is leased has a worker on it; otherwise nobody claims the
\* request until the lease runs out.
LeaseIsWorked ==
    row.status = "queued" /\ row.lease /\ phase = "up" =>
        \E a \in Attempt : start[a] \notin {"idle", "watching", "done"}

\* The first termination owner is kept until the request is queued again.
TerminationOwnerKept ==
    [][row.term # "none" /\ row'.term # row.term =>
         row'.term = "none" /\ row'.status = "queued"]_vars

\* The capacity section is the one way in: a row becomes creating or running
\* from any other status only when a start it was claimed by admits it from the
\* queue, so no late start, busy check or recovery brings back a row that was
\* stopped, failed or completed meanwhile; and whatever else becomes of a row
\* is a move that RunnerCapacity reckons with.
CapacityAsked ==
    [][/\ row'.status \in {"creating", "running"} /\ row.status \notin {"creating", "running"} =>
            /\ row.status = "queued" /\ row'.status = "creating"
            /\ \E a \in Attempt : start[a] = "claimed" /\ start'[a] = "creating"
       /\ LET was == CountedAs(row.status)
              is == CountedAs(row'.status)
          IN is = was \/ is \in UnaskedMoves(was)]_vars

\* A request that occupies capacity does not do so for ever: every creating,
\* running or stopping row is queued again or ends.
InFlightSettles ==
    row.status \in InFlightStatus ~> row.status \notin InFlightStatus

----------------------------------------------------------------------------
(* What the documentation says and the code does not keep *)

\* README.md: the sandbox is cleaned up after completion; nothing but a kill that
\* failed leaves one behind a completed request.
CleanedUpAfterCompletion ==
    row.status = "completed" =>
        \A a \in Attempt \ abandoned :
            sandbox[a] = "live" => start[a] \in {"provisioned", "started", "discard"}

\* README.md: a runner that ends before it accepted any job is retried instead of
\* being marked completed, when its own job is still waiting for a runner.
ExitedWithoutJobRetried ==
    ~(/\ row.status = "completed" /\ row.term = "exit" /\ row.assigned = "none"
      /\ job = "queued")
====
