-------------------------- MODULE DeploymentWorker --------------------------
(***************************************************************************)
(* One deployment of runnerd: its versioned row, the scheduler's operation *)
(* on it, the HTTP handlers that stop and retry it, and the sandboxes the  *)
(* provider runs for its attempts.                                         *)
(*                                                                         *)
(*   internal/deployment/worker   advance, Process, recoverCreating,       *)
(*                                checkRunning, Stop                       *)
(*   internal/server              stopDeployment, retryDeployment          *)
(*   internal/state               UpdateDeployment, RetryDeployment,       *)
(*                                PruneDeployments                         *)
(*                                                                         *)
(* Every write is a compare-and-swap on the row's version.  The version    *)
(* itself is left out: `stale' is the set of actors whose copy of the row  *)
(* is older than the row, and a write by one of them is an ErrConflict.    *)
(* Where an actor reads the row and writes it with no other effect in      *)
(* between, both are one step: a conflict there has no effect at all.      *)
(* Time is the row's ExpiresAt: not reached, reached, or passed by the two *)
(* minutes after which a pending creation is given up.                     *)
(***************************************************************************)
EXTENDS Naturals, DeploymentMoves

CONSTANTS
    Handlers,       \* HTTP handler goroutines
    MaxRevisions,   \* bound on the deployment's revisions
    MaxRequests,    \* bound on the users' stop and retry requests
    MaxCrashes      \* bound on crashes of runnerd

ASSUME HandlersAssumption == "job" \notin Handlers
ASSUME BoundsAssumption == MaxRevisions \in Nat \ {0} /\ MaxRequests \in Nat /\ MaxCrashes \in Nat

VARIABLES
    row,        \* the deployments row
    sandbox,    \* the provider's sandbox of each attempt
    clock,      \* the row's ExpiresAt against the time
    pc,         \* where each actor is
    att,        \* the attempt whose sandbox the actor works on, 0 if none
    expired,    \* the `expired' argument of the actor's Stop
    after,      \* where the caller of Stop goes on when it succeeds
    stale,      \* actors whose copy of the row is out of date
    requests,
    crashes

vars == <<row, sandbox, clock, pc, att, expired, after, stale, requests, crashes>>
actor == <<pc, att, expired, after>>

Actor == {"job"} \cup Handlers

(* Process runs only on a queued row and a row is queued once per revision *)
(* (again only before the attempt is counted), so attempts never outnumber *)
(* revisions.                                                              *)
Attempt == 1 .. MaxRevisions

Status == {"queued", "planning", "creating", "running", "stopping",
           "completed", "expired", "failed"}
Terminal == {"completed", "expired", "failed"}

(* FailureStage and FailureReason: none, what the plan, the creation or    *)
(* Apply ran into, an interrupted execution, a process that ended, or a    *)
(* cleanup that could not be completed, before or after the deadline.      *)
Failure == {"none", "execution", "recovery", "process_exit", "cleanup", "expiry_cleanup"}

Row == [status : Status \cup {"pruned"},
        sbx : {0} \cup Attempt,         \* SandboxID: the attempt it belongs to
        attempt : {0} \cup Attempt,
        rev : 1 .. MaxRevisions,
        failure : Failure]

PC == {"idle", "plan", "create", "created", "partial", "apply",
       "undoCreate", "undoneCreate", "stuckCreate",
       "undoApply", "undoneApply", "stuckApply", "drop",
       "recover", "probe", "observed",
       "stop", "lookup", "mark", "close", "closed", "unclosed", "retry"}

TypeOK ==
    /\ row \in Row
    /\ sandbox \in [Attempt -> {"none", "pending", "live", "gone"}]
    /\ clock \in {"early", "expired", "late"}
    /\ pc \in [Actor -> PC]
    /\ att \in [Actor -> {0} \cup Attempt]
    /\ expired \in [Actor -> BOOLEAN]
    /\ after \in [Actor -> {"idle", "retry"}]
    /\ stale \subseteq Actor
    /\ requests \in 0 .. MaxRequests
    /\ crashes \in 0 .. MaxCrashes

Init ==
    /\ row = [status |-> "queued", sbx |-> 0, attempt |-> 0, rev |-> 1, failure |-> "none"]
    /\ sandbox = [a \in Attempt |-> "none"]
    /\ clock = "early"
    /\ pc = [x \in Actor |-> "idle"]
    /\ att = [x \in Actor |-> 0]
    /\ expired = [x \in Actor |-> FALSE]
    /\ after = [x \in Actor |-> "idle"]
    /\ stale = {}
    /\ requests = 0
    /\ crashes = 0

-----------------------------------------------------------------------------
(* The row                                                                 *)

Expired == clock # "early"

(* UpdateDeployment: the copies of all the others are now out of date.     *)
Write(x, r) ==
    /\ row' = r
    /\ stale' = {y \in Actor \ {x} : pc[y] # "idle"}

Read(x) == row' = row /\ stale' = stale \ {x}
Keep == UNCHANGED <<row, stale>>

(* A write that the version check refuses leaves the row alone.            *)
Fresh(x) == x \notin stale

Goto(x, l) == pc' = [pc EXCEPT ![x] = l]

(* The actor leaves its operation for l with nothing in hand.              *)
Leave(x, l) ==
    /\ Goto(x, l)
    /\ att' = [att EXCEPT ![x] = 0]
    /\ expired' = [expired EXCEPT ![x] = FALSE]
    /\ after' = [after EXCEPT ![x] = "idle"]

Return(x) == Leave(x, "idle")

(* fail: the failure f, whatever the row said before, and the sandbox s    *)
(* that the row keeps.                                                     *)
Failed(r, s, f) == [r EXCEPT !.status = "failed", !.sbx = s, !.failure = f]

(* As Moved, but the failure is forgotten when cleanup starts.             *)
MovedForgets(r, st) == [r EXCEPT !.status = st, !.failure = "none"]

(* transition: a new status forgets an earlier failure, except that a      *)
(* cleanup after a failure keeps what it is about.                         *)
Moved(r, st) ==
    IF st = "stopping" /\ r.status \in {"failed", "stopping"} /\ r.failure # "none"
    THEN [r EXCEPT !.status = st]
    ELSE [r EXCEPT !.status = st, !.failure = "none"]

EnterStop(x, e, l) ==
    /\ Goto(x, "stop")
    /\ att' = [att EXCEPT ![x] = 0]
    /\ expired' = [expired EXCEPT ![x] = e]
    /\ after' = [after EXCEPT ![x] = l]

-----------------------------------------------------------------------------
(* The scheduler's operation.  inFlight admits one per deployment.         *)

(* As Listed, but a failed deployment is left alone.                       *)
ListedActive == row.status \in Status \ Terminal

(* ListDeploymentWork: what some lane selects.                             *)
Listed ==
    \/ row.status \in Status \ Terminal
    \/ row.status = "failed" /\ row.sbx # 0

(* advance, and the start of Process: the first move on a listed row.      *)
Advance ==
    /\ pc["job"] = "idle"
    /\ Listed
    /\ CASE row.status = "creating" ->
              /\ Read("job")
              /\ Goto("job", "recover")
              /\ UNCHANGED <<att, expired, after>>
         [] row.status = "planning" ->
              /\ Write("job", Moved(row, "queued"))
              /\ UNCHANGED actor
         [] row.status \notin {"creating", "planning"} /\ Expired ->
              /\ Keep
              /\ EnterStop("job", TRUE, "idle")
         [] row.status = "queued" /\ ~Expired ->
              /\ Write("job", Moved(row, "planning"))
              /\ Goto("job", "plan")
              /\ UNCHANGED <<att, expired, after>>
         [] row.status \in {"failed", "stopping"} /\ ~Expired ->
              /\ Keep
              /\ EnterStop("job", FALSE, "idle")
         [] row.status = "running" /\ ~Expired ->
              /\ Read("job")
              /\ Goto("job", "probe")
              /\ UNCHANGED <<att, expired, after>>
    /\ UNCHANGED <<sandbox, clock, requests, crashes>>

(* Process: the plan, the source and the template are resolved; the new    *)
(* attempt is in the row before the provider is asked for a sandbox.       *)
Plan ==
    /\ pc["job"] = "plan"
    /\ \/ /\ Fresh("job")
          /\ Write("job", [Moved(row, "creating") EXCEPT !.attempt = @ + 1])
          /\ Goto("job", "create")
          /\ att' = [att EXCEPT !["job"] = row.attempt + 1]
          /\ UNCHANGED <<expired, after>>
       \/ /\ Fresh("job")
          /\ Write("job", Failed(row, row.sbx, "execution"))
          /\ Return("job")
       \/ /\ ~Fresh("job")
          /\ Keep
          /\ Return("job")
    /\ UNCHANGED <<sandbox, clock, requests, crashes>>

(* Runtime.Create refuses before it calls the provider (the service or the *)
(* template does not resolve), or the provider rejects the request.        *)
CreateRefused ==
    /\ pc["job"] = "create"
    /\ IF Fresh("job") THEN Write("job", Failed(row, 0, "execution")) ELSE Keep
    /\ Return("job")
    /\ UNCHANGED <<sandbox, clock, requests, crashes>>

(* What a creation that is no longer waited for may leave behind.          *)
CreationLeft ==
    \E s \in {"none", "pending", "live"} :
        sandbox' = [sandbox EXCEPT ![att["job"]] = s]

(* The outcome is not known: ErrCreatePending, and the row stays creating. *)
CreateUnknown ==
    /\ pc["job"] = "create"
    /\ CreationLeft
    /\ Keep
    /\ Return("job")
    /\ UNCHANGED <<clock, requests, crashes>>

(* A sandbox, ready or recovered by its metadata while it still starts.    *)
CreateReturns ==
    /\ pc["job"] = "create"
    /\ sandbox' = [sandbox EXCEPT ![att["job"]] = "live"]
    /\ \E l \in {"created", "partial"} : Goto("job", l)
    /\ Keep
    /\ UNCHANGED <<clock, att, expired, after, requests, crashes>>

(* The sandbox goes into the row.  On a conflict Process returns; the      *)
(* deferred closeAttempt is registered only for a sandbox that is ready.   *)
SaveSandbox ==
    /\ pc["job"] \in {"created", "partial"}
    /\ IF Fresh("job")
       THEN /\ Write("job", [row EXCEPT !.sbx = att["job"]])
            /\ Goto("job", IF pc["job"] = "created" THEN "apply" ELSE "undoCreate")
            /\ UNCHANGED <<att, expired, after>>
       ELSE /\ Keep
            /\ IF pc["job"] = "created"
               THEN Goto("job", "drop") /\ UNCHANGED <<att, expired, after>>
               ELSE Return("job")
    /\ UNCHANGED <<sandbox, clock, requests, crashes>>

(* deploy.Apply fails: a step of the plan, or a stage or checkpoint write  *)
(* that meets a conflict.                                                  *)
ApplyFails ==
    /\ pc["job"] = "apply"
    /\ Goto("job", "undoApply")
    /\ Keep
    /\ UNCHANGED <<sandbox, clock, att, expired, after, requests, crashes>>

(* deploy.Apply succeeds, and the row becomes running.                     *)
ApplySucceeds ==
    /\ pc["job"] = "apply"
    /\ \/ /\ Fresh("job")
          /\ Write("job", Moved(row, "running"))
          /\ Return("job")
       \/ /\ ~Fresh("job")
          /\ Keep
          /\ Goto("job", "drop")
          /\ UNCHANGED <<att, expired, after>>
    /\ UNCHANGED <<sandbox, clock, requests, crashes>>

(* Runtime.Close of attempt a: a sandbox the provider no longer has is     *)
(* closed; otherwise the call may fail.                                    *)
Closes(x, a, done, failed) ==
    \/ /\ sandbox' = IF a = 0 THEN sandbox ELSE [sandbox EXCEPT ![a] = "gone"]
       /\ Goto(x, done)
    \/ /\ a # 0
       /\ UNCHANGED sandbox
       /\ Goto(x, failed)

(* closeAttempt after a failed creation or a failed Apply.                 *)
Undo ==
    /\ \/ pc["job"] = "undoCreate" /\ Closes("job", att["job"], "undoneCreate", "stuckCreate")
       \/ pc["job"] = "undoApply" /\ Closes("job", att["job"], "undoneApply", "stuckApply")
    /\ Keep
    /\ UNCHANGED <<clock, att, expired, after, requests, crashes>>

(* As Undone, but a sandbox that could not be closed is forgotten.         *)
UndoneForgets == Failed(row, 0, "execution")

(* The outcome that follows closeAttempt.                                  *)
Undone ==
    CASE pc["job"] = "undoneCreate" -> Failed(row, 0, "execution")
      [] pc["job"] = "stuckCreate" -> Failed(row, row.sbx, "execution")
      [] pc["job"] = "undoneApply" ->
           IF Expired THEN [Moved(row, "expired") EXCEPT !.sbx = 0]
           ELSE Failed(row, 0, "execution")
      [] pc["job"] = "stuckApply" ->
           Failed(row, row.sbx, IF Expired THEN "expiry_cleanup" ELSE "execution")

ReportUndone ==
    /\ pc["job"] \in {"undoneCreate", "stuckCreate", "undoneApply", "stuckApply"}
    /\ IF Fresh("job") THEN Write("job", Undone) ELSE Keep
    /\ Return("job")
    /\ UNCHANGED <<sandbox, clock, requests, crashes>>

(* The deferred closeAttempt, whose error is ignored.                      *)
Drop ==
    /\ pc["job"] = "drop"
    /\ \E s \in {sandbox[att["job"]], "gone"} :
         sandbox' = [sandbox EXCEPT ![att["job"]] = s]
    /\ Keep
    /\ Return("job")
    /\ UNCHANGED <<clock, requests, crashes>>

(* As Recover, but an interrupted creation is started over.                *)
RecoverRequeues ==
    /\ pc["job"] = "recover"
    /\ IF Fresh("job") THEN Write("job", Moved(row, "queued")) ELSE Keep
    /\ Return("job")
    /\ UNCHANGED <<sandbox, clock, requests, crashes>>

(* recoverCreating: a creation that no Process of this runnerd runs.       *)
Recover ==
    /\ pc["job"] = "recover"
    /\ \/ /\ Fresh("job") /\ row.sbx # 0
          /\ Write("job", Failed(row, row.sbx, "recovery"))
          /\ EnterStop("job", Expired, "idle")
       \/ /\ Fresh("job") /\ row.sbx = 0
          /\ sandbox[row.attempt] = "live"
          /\ Write("job", [row EXCEPT !.sbx = row.attempt])
          /\ UNCHANGED actor
       \/ /\ Fresh("job") /\ row.sbx = 0
          /\ sandbox[row.attempt] # "live" /\ clock = "late"
          /\ Write("job", Failed(row, 0, "recovery"))
          /\ Return("job")
       \/ /\ row.sbx = 0 \/ ~Fresh("job")    \* the lookup fails, or it is too early
          /\ Keep
          /\ Return("job")
    /\ UNCHANGED <<sandbox, clock, requests, crashes>>

(* checkRunning: the process is looked at, then the deadline in the copy   *)
(* that was listed (in an old copy it may be another than the row's), then *)
(* the result.  Stop is told which copy it was.                            *)
Probe ==
    /\ pc["job"] = "probe"
    /\ \/ /\ Expired \/ ~Fresh("job")
          /\ Keep
          /\ Goto("job", "observed")
          /\ att' = [att EXCEPT !["job"] = 0]
          /\ expired' = [expired EXCEPT !["job"] = TRUE]
          /\ UNCHANGED after
       \/ /\ Fresh("job") /\ ~Expired
          /\ Write("job", Failed(row, row.sbx, "process_exit"))
          /\ EnterStop("job", FALSE, "idle")
       \/ /\ Keep                \* it runs, cannot be looked at, or has moved
          /\ Return("job")
    /\ UNCHANGED <<sandbox, clock, requests, crashes>>

-----------------------------------------------------------------------------
(* Stop, called by the scheduler's operation and by both handlers.         *)

(* As AsObserved, but the observed version is not looked at.               *)
AsAnyone(x) == TRUE

(* A probe's Stop is about the version that was probed, and no other.      *)
AsObserved(x) == pc[x] = "observed" => Fresh(x)

(* Read the row; nothing is left to do, or the attempt's creation has to   *)
(* be looked up, or cleanup starts.                                        *)
StopRead(x) ==
    /\ pc[x] \in {"stop", "observed"}
    /\ \/ /\ row.status = "pruned" \/ ~AsObserved(x)
          /\ Keep
          /\ Return(x)
       \/ /\ AsObserved(x)
          /\ row.status \in Terminal /\ row.sbx = 0
          /\ Read(x)
          /\ Leave(x, after[x])
       \/ /\ AsObserved(x)
          /\ row.status \in {"creating", "stopping"} /\ row.sbx = 0 /\ row.attempt > 0
          /\ Read(x)
          /\ Goto(x, "lookup")
          /\ UNCHANGED <<att, expired, after>>
       \/ /\ AsObserved(x)
          /\ row.status \in Status
          /\ ~ (row.status \in Terminal /\ row.sbx = 0)
          /\ ~ (row.status \in {"creating", "stopping"} /\ row.sbx = 0 /\ row.attempt > 0)
          /\ Write(x, Moved(row, "stopping"))
          /\ Goto(x, "close")
          /\ att' = [att EXCEPT ![x] = row.sbx]
          /\ UNCHANGED <<expired, after>>
    /\ UNCHANGED <<sandbox, clock, requests, crashes>>

(* As LookupEmpty, but an empty answer is believed at once.                *)
LookupTrusted == TRUE

(* Reconcile by the attempt's operation id.  An empty answer counts only   *)
(* two minutes after the deadline.                                         *)
LookupEmpty == clock = "late"

Lookup(x) ==
    /\ pc[x] = "lookup"
    /\ \/ /\ Fresh(x) /\ sandbox[row.attempt] = "live"
          /\ Write(x, [row EXCEPT !.sbx = row.attempt])
          /\ Goto(x, "mark")
          /\ UNCHANGED <<att, expired, after>>
       \/ /\ Fresh(x) /\ sandbox[row.attempt] # "live" /\ LookupEmpty
          /\ Keep
          /\ Goto(x, "mark")
          /\ UNCHANGED <<att, expired, after>>
       \/ /\ Keep
          /\ Return(x)
    /\ UNCHANGED <<sandbox, clock, requests, crashes>>

(* The row becomes stopping.                                               *)
Mark(x) ==
    /\ pc[x] = "mark"
    /\ \/ /\ Fresh(x)
          /\ Write(x, Moved(row, "stopping"))
          /\ Goto(x, "close")
          /\ att' = [att EXCEPT ![x] = row.sbx]
          /\ UNCHANGED <<expired, after>>
       \/ /\ ~Fresh(x)
          /\ Keep
          /\ Return(x)
    /\ UNCHANGED <<sandbox, clock, requests, crashes>>

(* Connect, stop the process, close the sandbox.                           *)
CloseSandbox(x) ==
    /\ pc[x] = "close"
    /\ Closes(x, att[x], "closed", "unclosed")
    /\ Keep
    /\ UNCHANGED <<clock, att, expired, after, requests, crashes>>

PreserveFailed == row.failure \notin {"none", "expiry_cleanup"}
ExpiryCleanup(x) == row.failure = "expiry_cleanup" \/ (expired[x] /\ ~PreserveFailed)

Stopped(x) ==
    IF PreserveFailed THEN [row EXCEPT !.status = "failed", !.sbx = 0]
    ELSE [Moved(row, IF ExpiryCleanup(x) THEN "expired" ELSE "completed") EXCEPT !.sbx = 0]

(* The outcome of Stop goes into the row.  A cleanup that fails becomes the*)
(* failure of the row, also where the row still had the one before it.     *)
StopReport(x) ==
    /\ \/ /\ pc[x] = "closed" /\ Fresh(x)
          /\ Write(x, Stopped(x))
          /\ Leave(x, after[x])
       \/ /\ pc[x] = "unclosed" /\ Fresh(x)
          /\ Write(x, Failed(row, row.sbx,
                             IF ExpiryCleanup(x) THEN "expiry_cleanup" ELSE "cleanup"))
          /\ Return(x)
       \/ /\ pc[x] \in {"closed", "unclosed"}
          /\ ~Fresh(x)
          /\ Keep
          /\ Return(x)
    /\ UNCHANGED <<sandbox, clock, requests, crashes>>

-----------------------------------------------------------------------------
(* The handlers and the retention sweep                                    *)

Request == requests < MaxRequests /\ requests' = requests + 1

(* stopDeployment: a queued deployment completes at once, a failed one     *)
(* stays failed, any other is stopping; then Stop.                         *)
StopRequest(h) ==
    /\ pc[h] = "idle"
    /\ row.status \in Status
    /\ ~ (row.status \in Terminal /\ row.sbx = 0)
    /\ Write(h, [row EXCEPT !.status =
                   CASE @ = "queued" -> "completed"
                     [] @ = "failed" -> "failed"
                     [] OTHER -> "stopping"])
    /\ EnterStop(h, FALSE, "idle")
    /\ Request
    /\ UNCHANGED <<sandbox, clock, crashes>>

(* RetryDeployment: a new revision, queued, with a new ExpiresAt.          *)
Requeue(h) ==
    /\ row.rev < MaxRevisions
    /\ Write(h, [row EXCEPT !.status = "queued", !.sbx = 0, !.rev = @ + 1,
                            !.failure = "none"])
    /\ clock' = "early"
    /\ Return(h)

(* retryDeployment: a terminal row with no sandbox is queued again; one    *)
(* that still names a sandbox is cleaned up first.                         *)
RetryRequest(h) ==
    /\ pc[h] = "idle"
    /\ row.status \in Terminal
    /\ \/ row.sbx = 0 /\ Requeue(h)
       \/ /\ row.sbx # 0
          /\ Keep
          /\ EnterStop(h, FALSE, "retry")
          /\ UNCHANGED clock
    /\ Request
    /\ UNCHANGED <<sandbox, crashes>>

(* After Stop the row is read again.  A retry of the recorded plan is      *)
(* refused if the row names a sandbox; a retry of an earlier revision or   *)
(* of the latest source replaces the plan and empties the sandbox fields.  *)
RetryAfterStop(h) ==
    /\ pc[h] = "retry"
    /\ \/ row.status \in Terminal /\ Requeue(h)
       \/ /\ row.status \notin Terminal \/ row.sbx # 0 \/ row.rev = MaxRevisions
          /\ Keep
          /\ Return(h)
          /\ UNCHANGED clock
    /\ UNCHANGED <<sandbox, requests, crashes>>

(* PruneDeployments deletes a terminal row that names no sandbox.          *)
Prune ==
    /\ row.status \in Terminal
    /\ row.sbx = 0
    /\ row' = [row EXCEPT !.status = "pruned"]
    /\ stale' = {y \in Actor : pc[y] # "idle"}
    /\ UNCHANGED <<sandbox, clock, actor, requests, crashes>>

-----------------------------------------------------------------------------
(* The provider, the clock and crashes                                     *)

(* A creation whose answer was lost takes effect, or does not.             *)
Lands(a) ==
    /\ sandbox[a] = "pending"
    /\ \E s \in {"none", "live"} : sandbox' = [sandbox EXCEPT ![a] = s]
    /\ UNCHANGED <<row, clock, actor, stale, requests, crashes>>

(* The provider ends a sandbox: its lifetime is over, or it is lost.       *)
SandboxEnds(a) ==
    /\ sandbox[a] = "live"
    /\ sandbox' = [sandbox EXCEPT ![a] = "gone"]
    /\ UNCHANGED <<row, clock, actor, stale, requests, crashes>>

Expire ==
    /\ clock = "early"
    /\ clock' = "expired"
    /\ UNCHANGED <<row, sandbox, actor, stale, requests, crashes>>

(* Two minutes after ExpiresAt: Process's context ended at ExpiresAt, so   *)
(* its calls have returned, and a sandbox is created with the time that is *)
(* left as its lifetime, so the provider has ended it.                     *)
Late ==
    /\ clock = "expired"
    /\ pc["job"] \notin {"plan", "create", "created", "partial", "apply"}
    /\ \A a \in Attempt : sandbox[a] \notin {"pending", "live"}
    /\ clock' = "late"
    /\ UNCHANGED <<row, sandbox, actor, stale, requests, crashes>>

(* runnerd stops and starts again: every operation is gone; a creation     *)
(* that was under way may still take effect.                               *)
Crash ==
    /\ crashes < MaxCrashes
    /\ crashes' = crashes + 1
    /\ IF pc["job"] = "create" THEN CreationLeft
       ELSE UNCHANGED sandbox
    /\ pc' = [x \in Actor |-> "idle"]
    /\ att' = [x \in Actor |-> 0]
    /\ expired' = [x \in Actor |-> FALSE]
    /\ after' = [x \in Actor |-> "idle"]
    /\ stale' = {}
    /\ UNCHANGED <<row, clock, requests>>

-----------------------------------------------------------------------------
Process ==
    \/ Plan \/ CreateRefused \/ CreateUnknown \/ CreateReturns \/ SaveSandbox
    \/ ApplyFails \/ ApplySucceeds \/ Undo \/ ReportUndone \/ Drop

Stop(x) ==
    StopRead(x) \/ Lookup(x) \/ Mark(x) \/ CloseSandbox(x) \/ StopReport(x)

Job == Advance \/ Process \/ Recover \/ Probe \/ Stop("job")

Handler(h) == StopRequest(h) \/ RetryRequest(h) \/ RetryAfterStop(h) \/ Stop(h)

Provider == \E a \in Attempt : Lands(a) \/ SandboxEnds(a)

Next ==
    \/ Job
    \/ \E h \in Handlers : Handler(h)
    \/ Prune
    \/ Provider
    \/ Expire
    \/ Late
    \/ Crash

Spec == Init /\ [][Next]_vars

-----------------------------------------------------------------------------
(* Properties                                                              *)

(* No sandbox is out of reach: while the provider runs one, the row names  *)
(* it, or the row is in a state in which Reconcile looks its attempt up,   *)
(* or Process still holds its handle.                                      *)
SandboxReachable ==
    \A a \in Attempt : sandbox[a] = "live" =>
        \/ row.sbx = a
        \/ row.sbx = 0 /\ row.attempt = a /\ row.status \in {"creating", "stopping"}
        \/ att["job"] = a

(* A deployment never has two sandboxes at a time: a retry does not start  *)
(* its sandbox before the one of the earlier attempt is gone.              *)
OneSandbox ==
    \A a, b \in Attempt :
        sandbox[a] \in {"pending", "live"} /\ sandbox[b] \in {"pending", "live"} => a = b

(* Cleanup that succeeds keeps the failure that caused it: until a retry,  *)
(* a deployment that failed is failed or being cleaned up, whoever stops   *)
(* it and whatever runs into its deadline, and its row keeps the stage and *)
(* the reason.  One step alone replaces them, by its own: the failure of   *)
(* the cleanup of a sandbox that the row goes on to name.                  *)
FailureKept ==
    [][/\ row.status \in {"failed", "stopping"} /\ PreserveFailed
       /\ row'.rev = row.rev
       => /\ row'.status \in {"failed", "stopping", "pruned"}
          /\ \/ row'.failure = row.failure
             \/ /\ row.status = "stopping" /\ row.sbx # 0
                /\ row'.status = "failed" /\ row'.sbx = row.sbx
                /\ row'.failure = "cleanup"]_vars

(* While the row says running, no operation of runnerd closes the sandbox: *)
(* whoever closes it has moved the row to stopping first, and operations   *)
(* left over from before are fenced by the version.  And what a probe came *)
(* to, a process that ended or a deadline, is applied to the row while it  *)
(* is still running, not to what a stop and a retry have made of it.       *)
RunningUndisturbed ==
    [][/\ row.status = "running" /\ row' = row /\ pc' # pc
         => sandbox'[row.sbx] = sandbox[row.sbx]
       /\ pc["job"] \in {"probe", "observed"} /\ pc'["job"] # pc["job"] /\ row' # row
         => row.status = "running"]_vars

(* The row as DeploymentAdmission sees it.                                 *)
Tabled(r) ==
    [status |-> CASE r.status \in {"planning", "creating", "running", "stopping"} -> "busy"
                  [] r.status \in {"completed", "expired"} -> "ended"
                  [] OTHER -> r.status,
     sandbox |-> r.sbx # 0,
     rev |-> r.rev]

(* What operations, handlers and the retention make of the row is what the *)
(* quota and the history reckon with: a move of the table, a retry of a    *)
(* final row, which opens the next revision, or the deletion of one that   *)
(* names no sandbox.  So an operation never takes a place of its scope     *)
(* that its deployment did not hold, however late it writes.               *)
MovesAsTabled ==
    [][LET was == Tabled(row)
           is == Tabled(row')
       IN \/ is = was
          \/ is \in Moves(was)
          \/ /\ was.status \in Final
             /\ is = [was EXCEPT !.status = "queued", !.sandbox = FALSE, !.rev = @ + 1]
          \/ /\ was.status \in Final /\ ~was.sandbox
             /\ is = [was EXCEPT !.status = "pruned"]]_vars

(* The scheduler ticks, operations have time limits, handlers return, and  *)
(* the provider does not fail every call of the scheduler's: a lookup or a *)
(* close that is tried again and again succeeds at some point.             *)
Fairness ==
    /\ WF_vars(Job)
    /\ WF_vars(\E h \in Handlers : Stop(h) \/ RetryAfterStop(h))
    /\ SF_vars(CloseSandbox("job") /\ pc'["job"] = "closed")
    /\ SF_vars((Recover /\ row' # row) \/ (Lookup("job") /\ pc'["job"] # "idle"))
    /\ WF_vars(Provider /\ (Expired \/ \E a \in Attempt : sandbox[a] = "pending"))
    /\ WF_vars(Expire \/ Late)

FairSpec == Spec /\ Fairness

(* What a retry may not do: RetryDeployment's caller has cleaned up every  *)
(* sandbox the row names before it queues the deployment again.            *)
RetryAfterCleanup == [][row'.rev # row.rev => row.sbx = 0]_vars

(* Whatever happens to it, a deployment ends and its sandbox is cleaned up:*)
(* it completes, fails or expires, and the row names no sandbox any more.  *)
Settles == row.status \notin Terminal ~> row.status \in Terminal \cup {"pruned"} /\ row.sbx = 0
=============================================================================
