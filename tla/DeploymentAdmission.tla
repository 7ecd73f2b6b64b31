------------------------ MODULE DeploymentAdmission ------------------------
(***************************************************************************)
(* The deployments table of runnerd, its revisions and their timelines:    *)
(* which calls may add a deployment or queue one again, and what the saved *)
(* history keeps.                                                          *)
(*                                                                         *)
(*   internal/server/server_deployments.go   handleUserCreateDeployment,   *)
(*                                           handleUserRetryDeployment     *)
(*   internal/state/deployments.go           checkDeploymentQuota,         *)
(*                      createDeployment, retryDeployment,                 *)
(*                      UpdateDeployment, PruneDeployments,                *)
(*                      AppendDeploymentEvent                              *)
(*   internal/state/deployment_revisions.go  the revision of each run      *)
(*                                                                         *)
(* How one deployment runs is DeploymentWorker; here a status is only what *)
(* the quota, a retry and the retention tell apart.  A transaction of the  *)
(* store is a step up to the lock it waits for and a step from there to    *)
(* its commit.                                                             *)
(***************************************************************************)
EXTENDS Naturals, Sequences, FiniteSets, DeploymentMoves

CONSTANTS
    Keyed,          \* ids derived from an account and an Idempotency-Key
    Unkeyed,        \* ids drawn at random
    Bodies,         \* what deploymentCreateRequestHash tells apart
    ScopeOf,        \* the scope of the installation a body names
    Plans,          \* resolved sources: a commit and its configuration
    Calls,          \* HTTP calls that create a deployment or retry one
    MaxConcurrent,  \* DeploymentMaxConcurrent
    MaxEvents,      \* maxDeploymentEvents
    MaxBytes,       \* maxDeploymentEventBytes
    Sizes,          \* lengths of an event's message, once cut
    MaxVersions     \* bound on the versions of a row

ASSUME DeploymentConstants ==
    /\ Keyed \cap Unkeyed = {} /\ IsFiniteSet(Keyed \cup Unkeyed)
    /\ "nobody" \notin Calls
    /\ MaxConcurrent \in Nat \ {0} /\ MaxEvents \in Nat \ {0} /\ MaxBytes \in Nat
    /\ MaxVersions \in Nat
    /\ Sizes # {} /\ \A n \in Sizes : n \in 1 .. MaxBytes

VARIABLES
    deployment,     \* the deployments rows
    history,        \* the revisions of each deployment, with their events
    anchor,         \* who holds the lock on a scope's anchor row
    call,           \* the HTTP calls
    copies,         \* revisions of which an operation of the worker has a copy
    pruning,        \* rows PruneDeployments has selected: id and version
    outputs         \* how many more messages the deployed programs write

deploymentVars == <<deployment, history, anchor, call, copies, pruning, outputs>>

Ids == Keyed \cup Unkeyed
ScopeIds == {ScopeOf[b] : b \in Bodies}
Nobody == "nobody"

(* No hash: a row older than the column.                                   *)
NoHash == "none"

Absent == [status |-> "absent", sandbox |-> FALSE, rev |-> 0, body |-> NoHash,
           scope |-> Nobody, plan |-> Nobody, version |-> 0]

Stored ==
    [status : {"queued", "busy"} \cup Final,
     sandbox : BOOLEAN,
     rev : Nat \ {0},
     body : Bodies \cup {NoHash},
     scope : ScopeIds,
     plan : Plans,
     version : 0 .. MaxVersions]

Deployment == {Absent} \cup Stored

Revision == [plan : Plans, status : {"queued", "busy"} \cup Final, sandbox : BOOLEAN,
             events : Seq(Sizes), count : Nat, bytes : Nat, counted : BOOLEAN]

NoCall == [at |-> "idle", op |-> "none", id |-> Nobody, body |-> NoHash,
           copy |-> Absent, answer |-> "none"]

(* Where a call that creates, or one that retries, may be.                 *)
CreateSites == {"lookup", "admit", "lock", "insert", "again"}
RetrySites == {"cleanup", "reread", "replan", "relock", "requeue"}

Answers == {"none", "created", "replayed", "requeued", "conflict", "quota", "error"}

CallRecord ==
    [at : {"idle", "done"} \cup CreateSites \cup RetrySites,
     op : {"none", "create", "retry"},
     id : Ids \cup {Nobody},
     body : Bodies \cup {NoHash},
     copy : Deployment,
     answer : Answers]

(* A call of long ago.                                                     *)
Passed == [NoCall EXCEPT !.at = "done"]

Saved(i) == deployment[i] # Absent
Least(S) == CHOOSE k \in S : \A j \in S : k <= j

(* The sums of the first n of a timeline's messages.                       *)
Sums(events) ==
    LET sum[n \in 0 .. Len(events)] == IF n = 0 THEN 0 ELSE sum[n - 1] + events[n]
    IN sum

SumOf(events) == Sums(events)[Len(events)]

-----------------------------------------------------------------------------
(* Timelines                                                               *)

(* As Budget, but the counters of an old revision are taken as they are.   *)
BudgetUncounted(rv) == [count |-> rv.count, bytes |-> rv.bytes]

(* The counters of a revision; those of a revision older than the counters *)
(* are taken from its events once.                                         *)
Budget(rv) ==
    IF rv.counted THEN [count |-> rv.count, bytes |-> rv.bytes]
    ELSE [count |-> Len(rv.events), bytes |-> SumOf(rv.events)]

(* How many of the oldest events have to go before n more bytes fit.       *)
Evicted(rv, n) ==
    {k \in 0 .. Len(rv.events) :
        /\ Budget(rv).count - k < MaxEvents
        /\ Budget(rv).bytes - SumOf(SubSeq(rv.events, 1, k)) + n <= MaxBytes}

(* AppendDeploymentEvent, under the lock of the deployment's row.          *)
Appended(rv, n) ==
    LET k == Least(Evicted(rv, n)) IN
    [rv EXCEPT
        !.events = Append(SubSeq(@, k + 1, Len(@)), n),
        !.count = Budget(rv).count - k + 1,
        !.bytes = Budget(rv).bytes - SumOf(SubSeq(rv.events, 1, k)) + n,
        !.counted = TRUE]

(* revisionRecordFromDeployment.                                           *)
NewRevision(d) ==
    [plan |-> d.plan, status |-> d.status, sandbox |-> d.sandbox,
     events |-> << >>, count |-> 0, bytes |-> 0, counted |-> FALSE]

(* backfillDeploymentRevisions: a row older than the revisions table gets  *)
(* its revision 1.                                                         *)
Numbered(d) == IF d # Absent /\ d.rev < 1 THEN [d EXCEPT !.rev = 1] ELSE d

Backfilled(d, h) ==
    IF d # Absent /\ h = << >> THEN <<NewRevision(Numbered(d))>> ELSE h

-----------------------------------------------------------------------------
(* Rows                                                                    *)

(* updateCurrentDeploymentRevision: a revision keeps the sandbox it had    *)
(* when the row gives it up.                                               *)
Mirror(rv, d) == [rv EXCEPT !.status = d.status, !.sandbox = @ \/ d.sandbox]

(* UpdateDeployment with a copy that is up to date; any other is refused   *)
(* by the version and changes nothing.                                     *)
UpdateRow(i, d) ==
    /\ deployment[i].version < MaxVersions
    /\ deployment' = [deployment EXCEPT ![i] = [d EXCEPT !.version = @ + 1]]
    /\ history' = [history EXCEPT ![i][deployment[i].rev] = Mirror(@, d)]

Load(s, others) ==
    Cardinality({i \in others : deployment[i].scope = s /\ Counts(deployment[i])})

-----------------------------------------------------------------------------
DeploymentsTypeOK ==
    /\ deployment \in [Ids -> Deployment]
    /\ history \in [Ids -> Seq(Revision)]
    /\ \A i \in Ids : Len(history[i]) = deployment[i].rev
    /\ anchor \in [ScopeIds -> Calls \cup {Nobody}]
    /\ call \in [Calls -> CallRecord]
    /\ copies \in [Ids -> SUBSET (1 .. MaxVersions + 1)]
    /\ pruning \subseteq Ids \X (0 .. MaxVersions)
    /\ outputs \in Nat

(* A row of an earlier version: no hash, no counters, maybe no revision.   *)
OldRow == {d \in [status : {"queued", "busy"} \cup Final, sandbox : BOOLEAN, rev : {0, 1},
                  body : {NoHash}, scope : ScopeIds, plan : Plans, version : {0}] :
              d.sandbox => d.status \in {"busy", "failed"}}

StartOn(old, log) ==
    /\ deployment = [i \in Ids |-> Numbered(old[i])]
    /\ history = [i \in Ids |->
          Backfilled(old[i], IF old[i].rev = 1
                             THEN <<[NewRevision(old[i]) EXCEPT !.events = log]>>
                             ELSE << >>)]

(* The tables a runnerd starts on: nothing, or rows of an earlier version  *)
(* at any point of their life.                                             *)
DeploymentsInit ==
    /\ \E old \in [Ids -> {Absent} \cup OldRow],
          log \in UNION {[1 .. n -> Sizes] : n \in 0 .. MaxEvents + 1} :
        StartOn(old, log)
    /\ \A s \in ScopeIds : Load(s, Ids) <= MaxConcurrent
    /\ anchor = [s \in ScopeIds |-> Nobody]
    /\ call \in [Calls -> {NoCall, Passed}]
    /\ copies = [i \in Ids |-> {}]
    /\ pruning = {}
    /\ outputs \in Nat

-----------------------------------------------------------------------------
(* POST /user/deployments                                                  *)

Step(c, l) == call' = [call EXCEPT ![c].at = l]
Answer(c, a) == call' = [call EXCEPT ![c].at = "done", ![c].answer = a]
Scope(c) == IF call[c].op = "create" THEN ScopeOf[call[c].body] ELSE call[c].copy.scope

(* The request is valid and authorized.  A keyed one is looked up first.   *)
CreateCall(c) ==
    /\ call[c].at = "idle"
    /\ \E i \in Ids, b \in Bodies :
         /\ i \in Unkeyed => ~Saved(i) /\ \A x \in Calls : call[x].id # i
         /\ call' = [call EXCEPT ![c] =
              [@ EXCEPT !.op = "create", !.id = i, !.body = b,
                        !.at = IF i \in Keyed THEN "lookup" ELSE "admit"]]
    /\ UNCHANGED <<deployment, history, anchor, copies, pruning, outputs>>

(* As SameRequest, but the saved hash is not compared.                     *)
SameRequestAny(c) == TRUE

SameRequest(c) == deployment[call[c].id].body = call[c].body

(* writeDeploymentReplay: the deployment that has the key already.         *)
Replay(c, otherwise) ==
    \/ Saved(call[c].id) /\ SameRequest(c) /\ Answer(c, "replayed")
    \/ Saved(call[c].id) /\ ~SameRequest(c) /\ Answer(c, "conflict")
    \/ ~Saved(call[c].id) /\ otherwise

(* The first lookup; then the service, the template and the source are     *)
(* resolved, or the call ends with an error.                               *)
LookupKey(c) ==
    /\ call[c].at = "lookup"
    /\ Replay(c, Step(c, "admit") \/ Answer(c, "error"))
    /\ UNCHANGED <<deployment, history, anchor, copies, pruning, outputs>>

(* The transaction looks the id up once more before it asks for the lock.  *)
BeginAdmission(c) ==
    /\ call[c].at = "admit"
    /\ Step(c, IF Saved(call[c].id) THEN "again" ELSE "lock")
    /\ UNCHANGED <<deployment, history, anchor, copies, pruning, outputs>>

(* As AnchorFree, but the lock on the scope's row is not taken.            *)
AnchorIgnored(s) == TRUE

(* lockDeploymentScope.                                                    *)
AnchorFree(s) == anchor[s] = Nobody

(* checkDeploymentQuota.  The lock is held until the transaction ends; a   *)
(* refusal ends it at once.  The anchor row or the database may fail.      *)
LockScope(c) ==
    /\ call[c].at \in {"lock", "relock"}
    /\ AnchorFree(Scope(c))
    /\ LET n == Load(Scope(c), IF call[c].at = "lock" THEN Ids ELSE Ids \ {call[c].id}) IN
       \/ /\ n >= MaxConcurrent
          /\ Answer(c, "quota")
          /\ UNCHANGED anchor
       \/ /\ n < MaxConcurrent
          /\ Step(c, IF call[c].at = "lock" THEN "insert" ELSE "requeue")
          /\ anchor' = [anchor EXCEPT ![Scope(c)] = c]
       \/ /\ IF call[c].at = "lock" THEN Step(c, "again") ELSE Answer(c, "error")
          /\ UNCHANGED anchor
    /\ UNCHANGED <<deployment, history, copies, pruning, outputs>>

(* createDeployment, the first event and the audit event, then the commit. *)
(* The primary key refuses a second row with the same id; the audit event  *)
(* may fail, and with it everything.                                       *)
InsertDeployment(c) ==
    /\ call[c].at = "insert"
    /\ anchor' = [anchor EXCEPT ![Scope(c)] = Nobody]
    /\ \/ /\ ~Saved(call[c].id)
          /\ \E p \in Plans :
               LET d == [status |-> "queued", sandbox |-> FALSE, rev |-> 1, version |-> 0,
                         body |-> call[c].body, scope |-> Scope(c), plan |-> p] IN
               /\ deployment' = [deployment EXCEPT ![call[c].id] = d]
               /\ history' = [history EXCEPT ![call[c].id] = <<Appended(NewRevision(d), Least(Sizes))>>]
          /\ Answer(c, "created")
       \/ /\ Saved(call[c].id)
          /\ Step(c, "again")
          /\ UNCHANGED <<deployment, history>>
       \/ /\ Answer(c, "error")
          /\ UNCHANGED <<deployment, history>>
    /\ UNCHANGED <<copies, pruning, outputs>>

(* After a failed transaction a keyed call looks for the winner.           *)
LookupWinner(c) ==
    /\ call[c].at = "again"
    /\ IF call[c].id \in Keyed THEN Replay(c, Answer(c, "error")) ELSE Answer(c, "error")
    /\ UNCHANGED <<deployment, history, anchor, copies, pruning, outputs>>

-----------------------------------------------------------------------------
(* POST /user/deployments/{id}/retry                                       *)

RetryCall(c) ==
    /\ call[c].at = "idle"
    /\ \E i \in Ids :
         /\ deployment[i].status \in Final
         /\ call' = [call EXCEPT ![c] =
              [@ EXCEPT !.op = "retry", !.id = i, !.copy = deployment[i],
                        !.at = IF deployment[i].sandbox THEN "cleanup" ELSE "replan"]]
    /\ UNCHANGED <<deployment, history, anchor, copies, pruning, outputs>>

(* Worker.Stop: it fails, finds nothing to do, or leaves a final row that  *)
(* names no sandbox.                                                       *)
RetryCleanup(c) ==
    /\ call[c].at = "cleanup"
    /\ \/ /\ Answer(c, "error")
          /\ UNCHANGED <<deployment, history>>
       \/ LET i == call[c].id IN
          /\ Saved(i)
          /\ Step(c, "reread")
          /\ IF deployment[i].status \in Final /\ ~deployment[i].sandbox
             THEN UNCHANGED <<deployment, history>>
             ELSE \E st \in Final :
                    UpdateRow(i, [deployment[i] EXCEPT !.status = st, !.sandbox = FALSE])
    /\ UNCHANGED <<anchor, copies, pruning, outputs>>

RetryReread(c) ==
    /\ call[c].at = "reread"
    /\ IF Saved(call[c].id)
       THEN call' = [call EXCEPT ![c].at = "replan", ![c].copy = deployment[call[c].id]]
       ELSE Answer(c, "error")
    /\ UNCHANGED <<deployment, history, anchor, copies, pruning, outputs>>

(* The plan as it is, that of an earlier revision, or the latest source;   *)
(* the last two also empty the copy's sandbox.  What is resolved may fail. *)
Replan(c) ==
    /\ call[c].at = "replan"
    /\ \/ Step(c, "relock")
       \/ \E p \in Plans :
            call' = [call EXCEPT ![c].at = "relock", ![c].copy =
                        [@ EXCEPT !.plan = p, !.sandbox = FALSE]]
       \/ Answer(c, "error")
    /\ UNCHANGED <<deployment, history, anchor, copies, pruning, outputs>>

(* The row is the one the call read.                                       *)
Unmoved(c) ==
    /\ deployment[call[c].id].status \in Final
    /\ deployment[call[c].id].version = call[c].copy.version

(* retryDeployment: the next revision, queued, and its first event.        *)
AddRevision(c) ==
    LET i == call[c].id
        d == [call[c].copy EXCEPT !.status = "queued", !.sandbox = FALSE,
                 !.rev = deployment[i].rev + 1, !.version = @ + 1]
    IN /\ d.version <= MaxVersions
       /\ deployment' = [deployment EXCEPT ![i] = d]
       /\ history' = [history EXCEPT ![i] = Append(@, Appended(NewRevision(d), Least(Sizes)))]

RequeueDeployment(c) ==
    /\ call[c].at = "requeue"
    /\ anchor' = [anchor EXCEPT ![Scope(c)] = Nobody]
    /\ LET admissible == call[c].copy.status \in Final /\ ~call[c].copy.sandbox /\ Unmoved(c) IN
       \/ /\ admissible
          /\ AddRevision(c)
          /\ Answer(c, "requeued")
       \/ /\ ~admissible
          /\ Answer(c, "conflict")
          /\ UNCHANGED <<deployment, history>>
       \/ /\ Answer(c, "error")
          /\ UNCHANGED <<deployment, history>>
    /\ UNCHANGED <<copies, pruning, outputs>>

-----------------------------------------------------------------------------
(* The worker's operations, as far as the tables see them                  *)

OperationReads(i) ==
    /\ Saved(i)
    /\ Counts(deployment[i])
    /\ copies' = [copies EXCEPT ![i] = @ \cup {deployment[i].rev}]
    /\ UNCHANGED <<deployment, history, anchor, call, pruning, outputs>>

OperationWrites(i) ==
    /\ deployment[i].rev \in copies[i]
    /\ \E d \in Moves(deployment[i]) : UpdateRow(i, d)
    /\ UNCHANGED <<anchor, call, copies, pruning, outputs>>

OperationReturns(i) ==
    /\ \E r \in copies[i] : copies' = [copies EXCEPT ![i] = @ \ {r}]
    /\ UNCHANGED <<deployment, history, anchor, call, pruning, outputs>>

(* As OfCurrentRevision, but late output is kept.                          *)
OfAnyRevision(i, r) == Saved(i) /\ r \in DOMAIN history[i]

(* AppendDeploymentEvent refuses an event of another revision.             *)
OfCurrentRevision(i, r) == Saved(i) /\ r = deployment[i].rev

(* emit: an operation's event carries the revision of its copy of the row. *)
Emit(i) ==
    /\ outputs > 0
    /\ outputs' = outputs - 1
    /\ \E r \in copies[i], n \in Sizes :
         /\ OfCurrentRevision(i, r)
         /\ history' = [history EXCEPT ![i][r] = Appended(@, n)]
    /\ UNCHANGED <<deployment, anchor, call, copies, pruning>>

-----------------------------------------------------------------------------
(* PruneDeployments                                                        *)

Prunable(i) == deployment[i].status \in Final /\ ~deployment[i].sandbox

(* The rows older than the retention.  It is at least a day, longer than a *)
(* deployment lives, so no operation of their last revision is left.       *)
SelectPrunable ==
    /\ pruning = {}
    /\ \E s \in SUBSET {i \in Ids : Prunable(i) /\ copies[i] = {}} :
         /\ s # {}
         /\ pruning' = {<<i, deployment[i].version>> : i \in s}
    /\ UNCHANGED <<deployment, history, anchor, call, copies, outputs>>

StillPrunable(i, v) == Prunable(i) /\ deployment[i].version = v

(* One transaction deletes the rows that did not change, with their        *)
(* revisions and events.                                                   *)
DeletePruned ==
    /\ pruning # {}
    /\ LET gone == {p[1] : p \in {q \in pruning : StillPrunable(q[1], q[2])}} IN
       /\ deployment' = [i \in Ids |-> IF i \in gone THEN Absent ELSE deployment[i]]
       /\ history' = [i \in Ids |-> IF i \in gone THEN << >> ELSE history[i]]
    /\ pruning' = {}
    /\ UNCHANGED <<anchor, call, copies, outputs>>

-----------------------------------------------------------------------------
CreateSteps(c) ==
    CreateCall(c) \/ LookupKey(c) \/ BeginAdmission(c) \/ InsertDeployment(c) \/ LookupWinner(c)

RetrySteps(c) ==
    RetryCall(c) \/ RetryCleanup(c) \/ RetryReread(c) \/ Replan(c) \/ RequeueDeployment(c)

DeploymentsNext ==
    \/ \E c \in Calls : CreateSteps(c) \/ RetrySteps(c) \/ LockScope(c)
    \/ \E i \in Ids : OperationReads(i) \/ OperationWrites(i) \/ OperationReturns(i) \/ Emit(i)
    \/ SelectPrunable
    \/ DeletePruned

DeploymentsSpec == DeploymentsInit /\ [][DeploymentsNext]_deploymentVars

-----------------------------------------------------------------------------
(* Properties                                                              *)

(* However creations and retries of one scope race, the deployments that   *)
(* hold a place of it never outnumber DeploymentMaxConcurrent: the count   *)
(* and the write happen under the lock of the scope's row, and nothing but *)
(* an admission takes a place.                                             *)
ScopeWithinLimit ==
    \A s \in ScopeIds : Load(s, Ids) <= MaxConcurrent

(* The revisions before the current one are history: no late output, no    *)
(* retry and no update of the row changes what they say, their timeline    *)
(* included.  They go only together with the deployment, and retention     *)
(* never takes one that was queued again after it had been selected, nor   *)
(* one whose sandbox is still to be cleaned up.                            *)
HistoryKept ==
    [][\A i \in Ids : Saved(i) =>
         IF Saved(i)'
         THEN \A k \in 1 .. deployment[i].rev - 1 : history'[i][k] = history[i][k]
         ELSE Prunable(i)]_deploymentVars

(* The counters of a revision are those of its events, and once they are   *)
(* kept the timeline is within both its limits, also for a revision that   *)
(* was over them before there were counters.                               *)
BudgetKept ==
    \A i \in Ids : \A k \in DOMAIN history[i] :
        LET rv == history[i][k] IN
        rv.counted =>
            /\ rv.count = Len(rv.events) /\ rv.count <= MaxEvents
            /\ rv.bytes = SumOf(rv.events) /\ rv.bytes <= MaxBytes

(* What a step may tell a call.                                            *)
OwnAnswer(c) ==
    call'[c].answer # call[c].answer =>
        /\ call'[c].answer \in {"created", "replayed"} =>
               deployment'[call[c].id].body = call[c].body
        /\ call'[c].answer = "replayed" => UNCHANGED <<deployment, history>>
        /\ call'[c].answer = "created" => ~Saved(call[c].id)

(* A call is told of a deployment only when it is the one it asked for:    *)
(* the saved request is its own, whoever won the key, and a replay starts  *)
(* nothing.                                                                *)
AnsweredWithItsOwn == [][\A c \in Calls : OwnAnswer(c)]_deploymentVars
=============================================================================
