--------------------------- MODULE RunnerAdmission ---------------------------
(***************************************************************************)
(* Admission of workflow jobs against the Runner Specs: how a webhook      *)
(* delivery or an administrator turns into a runner_requests row, how a    *)
(* start reads the row's spec again, and how users and administrators edit *)
(* the specs meanwhile.  One runnerd process, so one admissionMu: the      *)
(* admissions and starts hold it shared, the spec edits exclusively.       *)
(*                                                                         *)
(* A section that holds admissionMu shared is split at its database reads  *)
(* and writes, because other holders and handlers without the mutex (the   *)
(* administrator's retry) run in between.  An edit is split between what   *)
(* it read, the count of active requests and the conditional write: the    *)
(* count takes no row locks.  What happens to a started request is the     *)
(* subject of RunnerLifecycle; here only its status moves.                 *)
(***************************************************************************)
EXTENDS Integers, FiniteSets

CONSTANTS
    Jobs,       \* request ids: workflow jobs, or chosen by an administrator
    Labels,
    WindowsLabel, \* a label that asks for a Windows runner
    Wanted,     \* RequestedLabels of each request
    Catalogue,  \* the specs before the first edit
    Names,      \* names of Runner Specs, as positive numbers for their order
    Templates,  \* what a runner's sandbox is made from, as positive numbers
    Groups,     \* GitHub runner groups, 0 for none
    EditedKeys, \* the specs that are edited
    LabelSets,  \* the labels an edit may give a spec
    Handlers,   \* concurrent admissions
    Editors,    \* concurrent spec edits
    MaxBusy,    \* bound: admissions and edits in progress at once
    MaxEdits,   \* bound: spec edits begun
    MaxClaims,  \* bound: starts of one request
    MaxRevivals \* bound: how often a request is retried, or stopped with no runner

VARIABLES
    spec,      \* runner_profiles and scoped_runner_profiles (one scope)
    clock,     \* the latest updated_at handed out
    row,       \* runner_requests
    handler,   \* where each admission is
    work,      \* where each start of a request is
    edit,      \* where each spec edit is
    edits, claims, revivals

admissionVars == <<spec, clock, row, handler, work, edit, edits, claims, revivals>>

-----------------------------------------------------------------------------
(* Rows.  A missing spec has revision 0; name 0 is the empty name, which    *)
(* no spec has.                                                             *)

Key == {"scoped_custom", "global"} \X (Names \cup {0})

RunnerSpec == [labels : SUBSET Labels, required : SUBSET Labels, template : Templates \cup {0},
               group : Groups \cup {0}, enabled : BOOLEAN, priority : 0..1, rev : Nat]

NoSpec == [labels |-> {}, required |-> {}, template |-> 0, group |-> 0, enabled |-> FALSE,
           priority |-> 0, rev |-> 0]

ASSUME AdmissionConstants ==
    /\ Jobs # {} /\ IsFiniteSet(Labels)
    /\ Wanted \in [Jobs -> SUBSET Labels]
    /\ Names \subseteq Nat \ {0} /\ IsFiniteSet(Names)
    /\ Templates \subseteq Nat \ {0} /\ Groups \subseteq Nat
    /\ Catalogue \in [Key -> RunnerSpec]
    /\ \A k \in Key : /\ Catalogue[k].rev \in {0, 1}
                      /\ k[2] = 0 \/ Catalogue[k].rev = 0 => Catalogue[k] = NoSpec
    /\ EditedKeys \subseteq {k \in Key : k[2] # 0}
    /\ LabelSets \subseteq SUBSET Labels \ {{}}
    /\ MaxBusy \in Nat /\ MaxEdits \in Nat /\ MaxClaims \in Nat /\ MaxRevivals \in Nat

RequestStatus == {"none", "queued", "creating", "running", "stopping", "completed", "failed",
           "historical"}

\* `labels' and `group' are the row's copy of the spec it was admitted under,
\* `used' is the template of the spec that its start read.
Row == [status : RequestStatus, manual : BOOLEAN, key : Key, labels : SUBSET Labels, group : Groups \cup {0},
        used : Templates \cup {0}, code : {"none", "wait", "retry", "capacity"}, timer : BOOLEAN, lease : BOOLEAN,
        attempt : 0..MaxClaims, revived : BOOLEAN]

NewRow(status, key, labels, group) ==
    [status |-> status, manual |-> FALSE, key |-> key, labels |-> labels, group |-> group, used |-> 0,
     code |-> "none", timer |-> FALSE, lease |-> FALSE, attempt |-> 0, revived |-> FALSE]

NoRow == NewRow("none", <<"global", 0>>, {}, 0)

\* The starts, each by its request and claim.
Claimed == Jobs \X (1..MaxClaims)

\* PlatformForLabels of the labels the row carries.
Windows(r) == WindowsLabel \in r.labels

SpecExists(k) == spec[k].rev > 0

InFlight == {"creating", "running", "stopping"}
Active == InFlight \cup {"queued"}

ActiveFor(k) == {j \in Jobs : row[j].status \in Active /\ row[j].key = k}

\* labelutil.Match, both ways.
Takes(s, wanted) == s.required \subseteq wanted /\ wanted \subseteq s.labels

\* validateRequestedProfile, after profileForRunnerRequest found the spec.
Valid(k, j) == SpecExists(k) /\ spec[k].enabled /\ Takes(spec[k], Wanted[j])

-----------------------------------------------------------------------------
(* Matching a job's labels.                                                 *)

ScopedFor(wanted) ==
    {n \in Names : SpecExists(<<"scoped_custom", n>>) /\ spec[<<"scoped_custom", n>>].labels = wanted}

Candidates(wanted) ==
    {n \in Names : LET s == spec[<<"global", n>>]
                   IN s.rev > 0 /\ s.enabled /\ Takes(s, wanted)}

\* The order of selectMatchingProfile: priority, then more labels, then name.
Precedes(n, m) ==
    LET a == spec[<<"global", n>>]
        b == spec[<<"global", m>>]
    IN \/ a.priority > b.priority
       \/ a.priority = b.priority /\ Cardinality(a.labels) > Cardinality(b.labels)
       \/ a.priority = b.priority /\ Cardinality(a.labels) = Cardinality(b.labels) /\ n < m

Selected(wanted) ==
    CHOOSE n \in Candidates(wanted) : \A m \in Candidates(wanted) \ {n} : Precedes(n, m)

\* A scoped spec with exactly the job's labels decides, even when disabled;
\* otherwise the platform's specs do.  Name 0: rejected.
Match(inScope, wanted) ==
    IF inScope /\ wanted # {} /\ ScopedFor(wanted) # {}
    THEN LET n == CHOOSE n \in ScopedFor(wanted) : TRUE
         IN <<"scoped_custom", IF spec[<<"scoped_custom", n>>].enabled THEN n ELSE 0>>
    ELSE <<"global", IF Candidates(wanted) = {} THEN 0 ELSE Selected(wanted)>>

-----------------------------------------------------------------------------
(* admissionMu.                                                             *)

CanRLock == \A e \in Editors : edit[e].at # "counted"

\* As CanLock, but an admission does not hold the mutex.
CanLockDuringAdmission ==
    /\ CanRLock
    /\ \A w \in Claimed : work[w].at # "checked"

CanLock ==
    /\ CanRLock
    /\ \A h \in Handlers : handler[h].at \notin {"absent", "waking"}
    /\ \A w \in Claimed : work[w].at # "checked"

-----------------------------------------------------------------------------
NoAdmission == [at |-> "idle", job |-> CHOOSE j \in Jobs : TRUE, new |-> NoRow]
NoStartYet == [at |-> "idle", seen |-> NoRow, used |-> 0]

\* A handler that serves what this model does not see.
Elsewhere == [NoAdmission EXCEPT !.at = "elsewhere"]
NoEdit == [at |-> "idle", key |-> <<"global", 0>>, base |-> NoSpec, next |-> NoSpec]
EditElsewhere == [NoEdit EXCEPT !.at = "elsewhere"]

AdmissionState == [at : {"idle", "absent", "waking", "manual", "elsewhere"}, job : Jobs, new : Row]

StartState == [at : {"idle", "claimed", "checked", "refused", "conflicted", "failing", "provisioning",
                     "done"},
               seen : Row, used : Templates \cup {0}]

EditState == [at : {"idle", "read", "counted", "elsewhere"}, key : Key, base : RunnerSpec,
              next : RunnerSpec]

AdmissionTypeOK ==
    /\ spec \in [Key -> RunnerSpec] /\ clock \in Nat
    /\ row \in [Jobs -> Row]
    /\ handler \in [Handlers -> AdmissionState]
    /\ work \in [Claimed -> StartState]
    /\ edit \in [Editors -> EditState]
    /\ edits \in 0..MaxEdits /\ claims \in [Jobs -> 0..MaxClaims]
    /\ revivals \in [Jobs -> 0..MaxRevivals]

\* A row an earlier release completed while its job was still waiting.
HistoricalRow(j) ==
    LET k == Match(FALSE, Wanted[j])
    IN NewRow("historical", k, spec[k].labels, spec[k].group)

\* A row that was admitted before this runnerd started.
AdmittedRow(j, inScope) ==
    LET k == Match(inScope, Wanted[j])
    IN NewRow("queued", k, spec[k].labels, spec[k].group)

OldRows(j) == {r \in {HistoricalRow(j), AdmittedRow(j, TRUE), AdmittedRow(j, FALSE)} : r.key[2] # 0}

\* Part of each bound may be used up already.
AdmissionInit ==
    /\ spec = Catalogue /\ clock = 1
    /\ row \in [Jobs -> Row]
    /\ \A j \in Jobs : row[j] \in OldRows(j) \cup {NoRow}
    /\ handler \in [Handlers -> {NoAdmission, Elsewhere}]
    /\ work = [w \in Claimed |-> NoStartYet]
    /\ edit \in [Editors -> {NoEdit, EditElsewhere}]
    /\ edits \in 0..MaxEdits /\ claims \in [Jobs -> 0..MaxClaims]
    /\ revivals \in [Jobs -> 0..MaxRevivals]

-----------------------------------------------------------------------------
(* Admission of a workflow job.  A delivery may be repeated, and may reach  *)
(* two handlers at once.                                                    *)

Admitting(h, at, j, new) == handler' = [handler EXCEPT ![h] = [at |-> at, job |-> j, new |-> new]]
Answered(h) == handler' = [handler EXCEPT ![h] = NoAdmission]

Busy == Cardinality({h \in Handlers : handler[h].at \notin {"idle", "elsewhere"}})
            + Cardinality({e \in Editors : edit[e].at \notin {"idle", "elsewhere"}})

\* CreateRequest and CreateRejectedRequest: an insert that does nothing when
\* another delivery got there first.
InsertOnce(j, new) == row' = IF row[j] = NoRow THEN [row EXCEPT ![j] = new] ELSE row

\* The repository is not in the configured allowlist: no mutex, no match.
DeliverDisallowed(j) ==
    /\ InsertOnce(j, NewRow("failed", <<"global", 0>>, Wanted[j], 0))
    /\ UNCHANGED <<spec, clock, handler, work, edit, edits, claims, revivals>>

\* admissionMu.RLock, the scope of the installation (known or not), the match:
\* no spec takes the job.
DeliverRejected(j) ==
    /\ CanRLock
    /\ \E inScope \in BOOLEAN :
         LET k == Match(inScope, Wanted[j])
         IN k[2] = 0 /\ InsertOnce(j, NewRow("failed", k, Wanted[j], 0))
    /\ UNCHANGED <<spec, clock, handler, work, edit, edits, claims, revivals>>

\* The match found a spec; is there a row already (enqueueRunnerRequestLocked)?
\* When there is, the handler keeps the copy that wakeWaitingWorkflowJob writes
\* back.  The match and the lookup see the same specs: an edit needs the mutex.
Deliver(h, j) ==
    /\ handler[h].at = "idle" /\ Busy < MaxBusy /\ CanRLock
    /\ \E inScope \in BOOLEAN :
         LET k == Match(inScope, Wanted[j])
         IN /\ k[2] # 0
            /\ IF row[j] = NoRow
               THEN Admitting(h, "absent", j, NewRow("queued", k, spec[k].labels, spec[k].group))
               ELSE Admitting(h, "waking", j, row[j])
    /\ UNCHANGED <<spec, clock, row, work, edit, edits, claims, revivals>>

\* RUnlock.
InsertAdmitted(h) ==
    /\ handler[h].at = "absent"
    /\ InsertOnce(handler[h].job, handler[h].new) /\ Answered(h)
    /\ UNCHANGED <<spec, clock, work, edit, edits, claims, revivals>>

\* As Unchanged, but without the version check.
UnchangedAssumed(j, copy) == TRUE

\* The version check, as equality with the copy that was read.
Unchanged(j, copy) == row[j] = copy

\* A fresh delivery clears the timer of a row that waits for its job.  RUnlock.
WakeWaiting(h) ==
    LET a == handler[h]
        seen == a.new
    IN /\ a.at = "waking"
       /\ row' = IF /\ seen.status = "queued" /\ seen.code = "wait" /\ seen.timer /\ ~seen.lease /\ ~seen.manual
                    /\ Unchanged(a.job, seen)
                 THEN [row EXCEPT ![a.job] = [seen EXCEPT !.timer = FALSE]]
                 ELSE row
       /\ Answered(h)
       /\ UNCHANGED <<spec, clock, work, edit, edits, claims, revivals>>

\* An administrator's request: the spec is looked up by name or by labels with
\* no mutex held; the row's labels are the spec's or those given.
ManualMatch(h, j) ==
    /\ handler[h].at = "idle" /\ Busy < MaxBusy
    /\ \E n \in Names :
         /\ Valid(<<"global", n>>, j)
         /\ \E labels \in {Wanted[j], spec[<<"global", n>>].labels} :
              Admitting(h, "manual", j,
                        [NewRow("queued", <<"global", n>>, labels, spec[<<"global", n>>].group)
                            EXCEPT !.manual = TRUE])
    /\ UNCHANGED <<spec, clock, row, work, edit, edits, claims, revivals>>

\* enqueueRunnerRequest: RLock, lookup, insert, RUnlock.
ManualCreate(h) ==
    /\ handler[h].at = "manual" /\ CanRLock
    /\ InsertOnce(handler[h].job, handler[h].new) /\ Answered(h)
    /\ UNCHANGED <<spec, clock, work, edit, edits, claims, revivals>>

-----------------------------------------------------------------------------
(* A start of a request: from the claim to the creating write, where the    *)
(* request lock and admissionMu are held, and the outcomes of provisioning. *)

Others(j, a) == {work[<<j, b>>].at : b \in (1..MaxClaims) \ {a}}
RequestUnlocked(j) == \A a \in 1..MaxClaims : work[<<j, a>>].at # "checked"

\* A start that has returned remembers nothing.
Returned(w) == work' = [work EXCEPT ![w] = [NoStartYet EXCEPT !.at = "done"]]

\* ClaimNextRunnable: the timer has run out, no live lease.
ClaimRequest(j) ==
    LET a == claims[j] + 1
    IN /\ row[j].status = "queued" /\ ~row[j].lease /\ a <= MaxClaims
       /\ claims' = [claims EXCEPT ![j] = a]
       /\ row' = [row EXCEPT ![j].lease = TRUE, ![j].attempt = a]
       /\ work' = [work EXCEPT ![<<j, a>>].at = "claimed"]
       /\ UNCHANGED <<spec, clock, handler, edit, edits, revivals>>

\* startRunner up to the capacity reservation: the row must still be queued,
\* its spec must still exist and take the requested labels.  The template is
\* that of the spec read here; the runner group is the row's copy, which no
\* start refreshes.  A Windows start waits for an earlier one of the same
\* request to return.
CheckSpec(j, a) ==
    LET w == <<j, a>>
    IN /\ work[w].at = "claimed" /\ CanRLock /\ RequestUnlocked(j)
       /\ Windows(row[j]) => Others(j, a) \cap {"failing", "provisioning", "refused", "conflicted"} = {}
       /\ CASE row[j].status # "queued" -> Returned(w)
            [] row[j].status = "queued" /\ Valid(row[j].key, j) ->
                 work' = [work EXCEPT ![w] = [at |-> "checked", seen |-> row[j],
                                              used |-> spec[row[j].key].template]]
            [] OTHER -> work' = [work EXCEPT ![w].at = "failing"]
       /\ UNCHANGED <<spec, clock, row, handler, edit, edits, claims, revivals>>

\* A request that waited for capacity no longer says so.
Creating(r, used) ==
    [r EXCEPT !.status = "creating", !.lease = TRUE, !.used = used,
              !.code = IF @ = "capacity" THEN "none" ELSE @,
              !.timer = @ /\ r.code # "capacity"]

\* The creating write, conditional on the version read.  RUnlock.
MarkCreating(j, a) ==
    LET w == <<j, a>>
    IN /\ work[w].at = "checked"
       /\ IF Unchanged(j, work[w].seen)
          THEN /\ row' = [row EXCEPT ![j] = Creating(row[j], work[w].used)]
               /\ work' = [work EXCEPT ![w].at = "provisioning", ![w].seen = NoRow]
          ELSE /\ work' = [work EXCEPT ![w] = [NoStartYet EXCEPT !.at = "conflicted"]]
               /\ UNCHANGED row
       /\ UNCHANGED <<spec, clock, handler, edit, edits, claims, revivals>>

\* No capacity, or it cannot be counted: RUnlock, and the request lock too.
RefuseCapacity(j, a) ==
    /\ work[<<j, a>>].at = "checked"
    /\ work' = [work EXCEPT ![<<j, a>>] = [NoStartYet EXCEPT !.at = "refused"]]
    /\ UNCHANGED <<spec, clock, row, handler, edit, edits, claims, revivals>>

\* ReleaseLease, whoever the row belongs to by now: all leases of a process
\* have one owner.
GiveBackLease(j, a) ==
    /\ work[<<j, a>>].at \in {"refused", "conflicted"}
    /\ row' = [row EXCEPT ![j].lease = FALSE] /\ Returned(<<j, a>>)
    /\ UNCHANGED <<spec, clock, handler, edit, edits, claims, revivals>>

\* deferQueuedRequest.
DeferCapacity(j, a) ==
    /\ work[<<j, a>>].at = "refused" /\ RequestUnlocked(j)
    /\ row' = IF row[j].status = "queued" /\ row[j].lease
              THEN [row EXCEPT ![j].lease = FALSE, ![j].code = "capacity", ![j].timer = TRUE]
              ELSE [row EXCEPT ![j].lease = FALSE]
    /\ Returned(<<j, a>>)
    /\ UNCHANGED <<spec, clock, handler, edit, edits, claims, revivals>>

Requeued(j, code, timer) ==
    row' = [row EXCEPT ![j].status = "queued", ![j].code = code, ![j].timer = timer,
                       ![j].lease = FALSE, ![j].used = 0,
                       ![j].revived = @ \/ row[j].status \in {"failed", "completed"}]

\* failStartForAttempt, on whatever row it finds.  Only a Windows start knows
\* whether the row is still its own attempt.
FailStart(j, a) ==
    /\ work[<<j, a>>].at \in {"failing", "provisioning"} /\ RequestUnlocked(j)
    /\ CASE /\ Windows(row[j]) /\ work[<<j, a>>].at = "provisioning"
            /\ row[j].status # "creating" \/ row[j].attempt # a -> row' = row
         [] row[j].status \in {"completed", "stopping", "historical"} ->
                row' = [row EXCEPT ![j].lease = FALSE]
         [] OTHER -> \/ Requeued(j, "retry", TRUE)
                     \/ row' = [row EXCEPT ![j].status = "failed", ![j].lease = FALSE,
                                           ![j].code = "retry", ![j].timer = FALSE]
    /\ Returned(<<j, a>>)
    /\ UNCHANGED <<spec, clock, handler, edit, edits, claims, revivals>>

\* ensureWorkflowJobStillQueued found the job waiting, or completed.
JobNotQueued(j, a) ==
    /\ work[<<j, a>>].at = "provisioning" /\ RequestUnlocked(j) /\ ~row[j].manual
    /\ IF row[j].status = "creating" /\ row[j].attempt = a
       THEN \/ Requeued(j, "wait", TRUE)
            \/ row' = [row EXCEPT ![j].status = "completed", ![j].lease = FALSE,
                                  ![j].timer = FALSE]
       ELSE row' = row
    /\ Returned(<<j, a>>)
    /\ UNCHANGED <<spec, clock, handler, edit, edits, claims, revivals>>

\* The sponsor of a fork is at its limit: deferCreatingRequest.
DeferCreating(j, a) ==
    /\ work[<<j, a>>].at = "provisioning" /\ RequestUnlocked(j)
    /\ IF row[j].status = "creating" /\ row[j].lease THEN Requeued(j, row[j].code, TRUE) ELSE row' = row
    /\ Returned(<<j, a>>)
    /\ UNCHANGED <<spec, clock, handler, edit, edits, claims, revivals>>

\* The sandbox runs.  A Linux start adopts the row whenever it is creating.
MarkRunning(j, a) ==
    LET w == <<j, a>>
    IN /\ work[w].at = "provisioning" /\ RequestUnlocked(j)
       /\ row' = IF row[j].status = "creating" /\ (Windows(row[j]) => row[j].attempt = a)
                 THEN [row EXCEPT ![j].status = "running", ![j].lease = FALSE,
                                  ![j].used = work[w].used]
                 ELSE row
       /\ Returned(w)
       /\ UNCHANGED <<spec, clock, handler, edit, edits, claims, revivals>>

Revived(j) == revivals' = [revivals EXCEPT ![j] = @ + 1]

\* stopRunner up to the stopping write.
StopRequest(j) ==
    /\ RequestUnlocked(j) /\ row[j].status \in {"creating", "running"}
    /\ row' = [row EXCEPT ![j].status = "stopping"]
    /\ UNCHANGED <<spec, clock, handler, work, edit, edits, claims, revivals>>

\* The same for a row that has no runner: it counts as active until the stop ends.
StopIdleRequest(j) ==
    /\ RequestUnlocked(j) /\ row[j].status \in {"queued", "failed"}
    /\ revivals[j] < MaxRevivals
    /\ row' = [row EXCEPT ![j].status = "stopping", ![j].revived = @ \/ row[j].status = "failed"]
    /\ Revived(j)
    /\ UNCHANGED <<spec, clock, handler, work, edit, edits, claims>>

\* The end of stopRunner, as RunnerLifecycle models it: the sandbox is gone, or
\* does not stop, or its job is still queued because it ran another one.
EndStop(j) ==
    /\ RequestUnlocked(j) /\ row[j].status = "stopping"
    /\ \/ \E end \in {"completed", "failed"} :
            row' = [row EXCEPT ![j].status = end, ![j].code = "none", ![j].timer = FALSE]
       \/ row' = [row EXCEPT ![j].status = "failed"]
       \/ ~row[j].manual /\ Requeued(j, "none", FALSE)
    /\ UNCHANGED <<spec, clock, handler, work, edit, edits, claims, revivals>>

-----------------------------------------------------------------------------
(* Rows that are queued again: by the reconciler, by the administrator.     *)

\* reconcileMismatchedCompletedJobs: the runner of a completed request ran
\* another job, and its own is still queued.  Nothing is matched or copied
\* again.  Which completed rows are so is RunnerLifecycle's; here any may be.
RequeueMismatched(j) ==
    /\ RequestUnlocked(j) /\ row[j].status = "completed" /\ ~row[j].manual
    /\ revivals[j] < MaxRevivals
    /\ Requeued(j, "none", FALSE) /\ Revived(j)
    /\ UNCHANGED <<spec, clock, handler, work, edit, edits, claims>>

\* RetryRequest: a transaction of its own, without admissionMu or request lock.
RetryRequest(j) ==
    /\ revivals[j] < MaxRevivals
    /\ row[j].status = "failed" \/ (row[j].status = "queued" /\ row[j].timer /\ row[j].code # "none")
    /\ Requeued(j, "none", FALSE) /\ Revived(j)
    /\ UNCHANGED <<spec, clock, handler, work, edit, edits, claims>>

\* retryHistoricalWaitingJob: the spec is checked again under the mutex.
RetryHistorical(j) ==
    /\ revivals[j] < MaxRevivals /\ CanRLock /\ RequestUnlocked(j)
    /\ row[j].status = "historical" /\ Valid(row[j].key, j)
    /\ row' = [row EXCEPT ![j].status = "queued", ![j].revived = TRUE]
    /\ Revived(j)
    /\ UNCHANGED <<spec, clock, handler, work, edit, edits, claims>>

-----------------------------------------------------------------------------
(* Spec edits.                                                              *)

Scoped(k) == k[1] = "scoped_custom"

ExecutionChanged(a, b) ==
    \/ a.labels # b.labels \/ a.required # b.required
    \/ a.template # b.template \/ a.group # b.group

\* A new spec is enabled and takes exactly its labels; a patch changes one
\* field; a scoped spec requires all its labels.
NewSpecs ==
    {[labels |-> l, required |-> l, template |-> t, group |-> g, enabled |-> TRUE, priority |-> 0,
      rev |-> 0] : l \in LabelSets, t \in Templates, g \in Groups}

ScopedPatches(base) ==
    {[base EXCEPT !.labels = l, !.required = l] : l \in LabelSets \ {base.labels}}
    \cup {[base EXCEPT !.template = t] : t \in Templates \ {base.template}}
    \cup {[base EXCEPT !.group = g] : g \in Groups \ {base.group}}
    \cup {[base EXCEPT !.enabled = ~@]}

PlatformPatches(base) ==
    {[base EXCEPT !.labels = l, !.required = @ \cap l] : l \in LabelSets \ {base.labels}}
    \cup {[base EXCEPT !.template = t] : t \in Templates \ {base.template}}
    \cup {[base EXCEPT !.group = g] : g \in Groups \ {base.group}}
    \cup {[base EXCEPT !.enabled = ~@], [base EXCEPT !.priority = 1 - @]}

\* As NeedsIdle, but only a deletion counts.
NeedsIdleToDelete(base, next) == base.rev > 0 /\ next = NoSpec

\* Active requests forbid the edit: it deletes the spec or changes what runs.
NeedsIdle(base, next) == base.rev > 0 /\ (next = NoSpec \/ ExecutionChanged(base, next))

\* A handler has read the spec, worked out the new one (NoSpec: none) and
\* validates it with the remote services.
BeginEdit(e, k, base, next) ==
    /\ edit[e].at = "idle" /\ Busy < MaxBusy /\ edits < MaxEdits
    /\ edit' = [edit EXCEPT ![e] = [at |-> "read", key |-> k, base |-> base, next |-> next]]
    /\ edits' = edits + 1
    /\ UNCHANGED <<spec, clock, row, handler, work, claims, revivals>>

\* A scoped spec is created only where there is none.
CreateScopedSpec(e, k) ==
    /\ Scoped(k)
    /\ \E next \in NewSpecs : BeginEdit(e, k, NoSpec, next)

\* The active requests are counted once before the remote validation.  The
\* revision is the one the client listed; a save passes only when that is
\* still the one the handler read.
PatchScopedSpec(e, k) ==
    /\ Scoped(k) /\ SpecExists(k)
    /\ \E next \in ScopedPatches(spec[k]) :
         /\ NeedsIdle(spec[k], next) => ActiveFor(k) = {}
         /\ BeginEdit(e, k, spec[k], next)

DeleteScopedSpec(e, k) ==
    /\ Scoped(k) /\ SpecExists(k) /\ ActiveFor(k) = {}
    /\ BeginEdit(e, k, spec[k], NoSpec)

\* A platform spec of that name is replaced.
CreateProfile(e, k) ==
    /\ ~Scoped(k)
    /\ \E next \in NewSpecs : BeginEdit(e, k, spec[k], next)

PatchProfile(e, k) ==
    /\ ~Scoped(k) /\ SpecExists(k)
    /\ \E next \in PlatformPatches(spec[k]) : BeginEdit(e, k, spec[k], next)

DeleteProfile(e, k) ==
    /\ ~Scoped(k) /\ SpecExists(k)
    /\ BeginEdit(e, k, spec[k], NoSpec)

\* admissionMu.Lock and the count inside the transaction.
CountActive(e) ==
    LET d == edit[e]
    IN /\ d.at = "read" /\ CanLock
       /\ edit' = [edit EXCEPT ![e] = IF NeedsIdle(d.base, d.next) /\ ActiveFor(d.key) # {}
                                      THEN NoEdit ELSE [d EXCEPT !.at = "counted"]]
       /\ UNCHANGED <<spec, clock, row, handler, work, edits, claims, revivals>>

\* Scoped specs: unique label keys, and no name of an enabled platform spec.
Conflicts(k, next) ==
    /\ Scoped(k) /\ next # NoSpec
    /\ \/ \E n \in ScopedFor(next.labels) : n # k[2]
       \/ SpecExists(<<"global", k[2]>>) /\ spec[<<"global", k[2]>>].enabled

\* As NextUpdatedAt, but the time as the clock gives it.
NextUpdatedAtClock(base, now) == now

\* updated_at of a saved spec: the wall clock, but later than the revision it
\* replaces even when the clock has not moved.
NextUpdatedAt(base, now) == IF now > base.rev THEN now ELSE base.rev + 1

\* The spec is no longer the revision that was read.
Stale(d) == spec[d.key].rev # d.base.rev

\* The conditional write and its audit event commit together.  Unlock.  A spec
\* is created later than the last updated_at handed out.
SaveSpec(e) ==
    LET d == edit[e]
    IN /\ d.at = "counted"
       /\ edit' = [edit EXCEPT ![e] = NoEdit]
       /\ IF Stale(d) \/ Conflicts(d.key, d.next)
          THEN UNCHANGED <<spec, clock>>
          ELSE \E now \in {clock, clock + 1} :
                 /\ d.base.rev = 0 => now = clock + 1
                 /\ clock' = IF d.next = NoSpec THEN now ELSE NextUpdatedAt(d.base, now)
                 /\ spec' = [spec EXCEPT ![d.key] =
                       IF d.next = NoSpec THEN NoSpec
                       ELSE [d.next EXCEPT !.rev = NextUpdatedAt(d.base, now)]]
       /\ UNCHANGED <<row, handler, work, edits, claims, revivals>>

\* Remote validation fails, or the transaction does.
Abandon(e) ==
    /\ edit[e].at \in {"read", "counted"}
    /\ edit' = [edit EXCEPT ![e] = NoEdit]
    /\ UNCHANGED <<spec, clock, row, handler, work, edits, claims, revivals>>

-----------------------------------------------------------------------------
AdmissionNext ==
    \/ \E h \in Handlers : \/ \E j \in Jobs : Deliver(h, j) \/ ManualMatch(h, j)
                           \/ InsertAdmitted(h) \/ WakeWaiting(h) \/ ManualCreate(h)
    \/ \E j \in Jobs : \/ DeliverDisallowed(j) \/ DeliverRejected(j)
                       \/ ClaimRequest(j) \/ StopRequest(j) \/ StopIdleRequest(j) \/ EndStop(j)
                       \/ RequeueMismatched(j) \/ RetryRequest(j) \/ RetryHistorical(j)
                       \/ \E a \in 1..MaxClaims :
                            \/ CheckSpec(j, a) \/ MarkCreating(j, a) \/ RefuseCapacity(j, a)
                            \/ GiveBackLease(j, a) \/ DeferCapacity(j, a)
                            \/ FailStart(j, a) \/ JobNotQueued(j, a) \/ DeferCreating(j, a)
                            \/ MarkRunning(j, a)
    \/ \E e \in Editors : \/ \E k \in EditedKeys :
                               \/ CreateScopedSpec(e, k) \/ PatchScopedSpec(e, k)
                               \/ DeleteScopedSpec(e, k) \/ CreateProfile(e, k)
                               \/ PatchProfile(e, k) \/ DeleteProfile(e, k)
                          \/ CountActive(e) \/ SaveSpec(e) \/ Abandon(e)

AdmissionSpec == AdmissionInit /\ [][AdmissionNext]_admissionVars

-----------------------------------------------------------------------------
(* A runner is made and runs under a spec that still exists and still takes *)
(* its labels, and on Windows from the template that spec now names:       *)
(* startRunner re-reads the spec under admissionMu, and no edit of what    *)
(* runs passes while the request is active.  A Linux start may be adopted  *)
(* by a later attempt's row, so it is not held to the template.  The group *)
(* a runner joins is the row's copy, the subject of AdmittedCopyIsCurrent. *)
InFlightUnderItsSpec ==
    \A j \in Jobs : row[j].status \in {"creating", "running"} =>
        LET s == spec[row[j].key]
        IN /\ s.rev > 0 /\ Takes(s, Wanted[j])
           /\ Windows(row[j]) => row[j].used = s.template

(* The labels and runner group a webhook admission copied into an active   *)
(* row are those of the spec as it stands: matching and inserting are one  *)
(* critical section (enqueueWorkflowJob).  Rows queued or stopped again     *)
(* after they failed, or queued again by the reconciler after they were     *)
(* completed, keep a copy that an edit may have overtaken meanwhile, and   *)
(* administrators' requests match outside the section.                     *)
AdmittedCopyIsCurrent ==
    \A j \in Jobs : row[j].status \in Active /\ ~row[j].revived /\ ~row[j].manual =>
        LET s == spec[row[j].key]
        IN s.rev > 0 /\ row[j].labels = s.labels /\ row[j].group = s.group

(* A save replaces exactly the spec its handler read: no edit saved in     *)
(* between is lost, even by two saves within one tick of the clock.        *)
NoEditLost ==
    [][\A e \in Editors : LET d == edit[e] IN
          d.at = "counted" /\ spec'[d.key] # spec[d.key] => spec[d.key] = d.base]_admissionVars

(* A delivery for a request that has a row leaves the row as it is, save   *)
(* that it clears the timer of one that waits unleased for its job: it     *)
(* never revives, restarts or takes over a request.                        *)
RepeatedDeliveryHarmless ==
    [][\A h \in Handlers : LET j == handler[h].job IN
          handler[h].at # handler'[h].at /\ handler'[h].at = "idle" /\ row[j] # NoRow =>
             row'[j] = row[j] \/ (/\ row[j].status = "queued" /\ row[j].code = "wait" /\ row[j].timer
                                  /\ ~row[j].lease
                                  /\ row'[j] = [row[j] EXCEPT !.timer = FALSE])]_admissionVars

=============================================================================
