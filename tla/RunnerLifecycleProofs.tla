----------------------- MODULE RunnerLifecycleProofs ------------------------
(***************************************************************************)
(* What RunnerLifecycle keeps for any number of claims, retries and        *)
(* crashes.                                                                *)
(*                                                                         *)
(* The argument.  A handler holds the request lock across a remote call    *)
(* only with the row stopping (Held), so nothing else writes the row under *)
(* it.  From this come the types and what a step may not do to the row     *)
(* (Base, Orderly).  A start works on the row alone, and only while the    *)
(* row names no sandbox (Alone): then a live sandbox is the row's, or that *)
(* of the one start, or one that a crash took from its start (Orphaned).   *)
(***************************************************************************)
EXTENDS RunnerLifecycle, TLAPS

-----------------------------------------------------------------------------
(* Rows                                                                    *)

(* The fields of a row.                                                    *)
LEMMA RowFields ==
  ASSUME NEW r \in Row
  PROVE  /\ r.status \in Status /\ r.sbx \in {0} \cup Attempt /\ r.lease \in BOOLEAN
         /\ r.creating \in {0} \cup Attempt /\ r.retries \in 0 .. RetryMax /\ r.stage \in Stage
         /\ r.deferred \in {"no", "capacity", "error"}
         /\ r.assigned \in {"none", "marker", "own", "other"} /\ r.term \in {"none", "exit", "stop"}
BY Zenon DEF Row

(* RetryCount stays within the budget.                                     *)
LEMMA BumpedCount ==
  ASSUME NEW n \in 0 .. RetryMax
  PROVE  Bumped(n) \in 0 .. RetryMax /\ (n < RetryMax => n + 1 \in 0 .. RetryMax)
BY LifecycleConstants DEF Bumped

(* A row with these values in the fields that the proofs follow.           *)
Reads(s, st, b, l, j, t) ==
    s \in Row /\ s.status = st /\ s.sbx = b /\ s.lease = l /\ s.assigned = j /\ s.term = t

(* The queue forgets the sandbox, the lease and the creation.              *)
LEMMA RequeuedRow ==
  ASSUME NEW r \in Row, NEW g \in Stage
  PROVE  Reads(Requeued(r, g), "queued", 0, FALSE, r.assigned, r.term)
BY Zenon DEF Reads, Requeued, Row, Status

(* So does the queue that counts the retry.                                *)
LEMMA CountedRow ==
  ASSUME NEW r \in Row, NEW g \in Stage, NEW n \in 0 .. RetryMax
  PROVE  Reads([Requeued(r, g) EXCEPT !.retries = n], "queued", 0, FALSE, r.assigned, r.term)
BY Zenon DEF Reads, Requeued, Row, Status

(* A failure goes back to the queue or ends the request.                   *)
LEMMA FailureRow ==
  ASSUME NEW r \in Row, NEW kind \in Failure, NEW g \in Stage
  PROVE  \E st \in {"queued", "failed"} :
           Reads(ApplyFailure(r, kind, g), st, 0, FALSE, r.assigned, r.term)
<1>1. r.retries \in 0 .. RetryMax
  BY RowFields
<1>2. Bumped(r.retries) \in 0 .. RetryMax
  BY <1>1, BumpedCount
<1>3. Requeued(r, g).retries = r.retries
  BY Zenon DEF Requeued, Row
<1>4. CASE kind = "defer" \/ (kind = "retryable" /\ r.retries < RetryMax)
  <2>1. ApplyFailure(r, kind, g) = [Requeued(r, g) EXCEPT !.retries = Bumped(r.retries)]
    BY Zenon, <1>3, <1>4 DEF ApplyFailure
  <2>. QED
    BY Zenon, <1>2, <2>1, CountedRow
<1>5. CASE ~(kind = "defer" \/ (kind = "retryable" /\ r.retries < RetryMax))
  <2>1. ApplyFailure(r, kind, g) = [r EXCEPT !.status = "failed", !.sbx = 0, !.lease = FALSE, !.stage = g]
    BY Zenon, <1>5 DEF ApplyFailure
  <2>2. Reads(ApplyFailure(r, kind, g), "failed", 0, FALSE, r.assigned, r.term)
    BY Zenon, <2>1 DEF Reads, Row, Status
  <2>. QED
    BY Zenon, <2>2
<1>. QED
  BY Zenon, <1>4, <1>5

(* A row as good as new.                                                   *)
LEMMA NewRow ==
  ASSUME NEW r \in Row
  PROVE  Reads(AsNew(r), "queued", 0, FALSE, "none", "none")
BY ZenonT(30) DEF Reads, AsNew, Row, Status, Stage

(* The row of a stop that another job may have caused.                     *)
LEMMA StoppedRow ==
  ASSUME NEW r \in Row, NEW j \in {"none", "own", "other"}
  PROVE  /\ Reads(Assigned(r, j), r.status, r.sbx, r.lease, IF j = "none" THEN r.assigned ELSE j, r.term)
         /\ Reads([Terminated(Assigned(r, j), "stop") EXCEPT !.status = "stopping"], "stopping", r.sbx,
                  r.lease, IF j = "none" THEN r.assigned ELSE j, IF r.term = "none" THEN "stop" ELSE r.term)
<1>1. Reads(Assigned(r, j), r.status, r.sbx, r.lease, IF j = "none" THEN r.assigned ELSE j, r.term)
  BY ZenonT(30) DEF Reads, Assigned, Row
<1>. DEFINE s == Assigned(r, j)
<1>2. s \in Row /\ s.sbx = r.sbx /\ s.lease = r.lease /\ s.term = r.term
      /\ s.assigned = IF j = "none" THEN r.assigned ELSE j
  BY Zenon, <1>1 DEF Reads
<1>. HIDE DEF s
<1>3. Reads([Terminated(s, "stop") EXCEPT !.status = "stopping"], "stopping", s.sbx, s.lease, s.assigned,
            IF s.term = "none" THEN "stop" ELSE s.term)
  BY ZenonT(60), <1>2 DEF Reads, Terminated, Row, Status
<1>. QED
  BY Zenon, <1>1, <1>2, <1>3 DEF s

(* The row of a failAndStopRunner and of an exit.                          *)
LEMMA EndedRow ==
  ASSUME NEW r \in Row, NEW w \in {"stop", "exit"}, NEW g \in Stage
  PROVE  Reads([Terminated(r, w) EXCEPT !.status = "stopping", !.stage = g], "stopping", r.sbx, r.lease,
               r.assigned, IF r.term = "none" THEN w ELSE r.term)
BY ZenonT(30) DEF Reads, Terminated, Row, Status

(* A cleanup that is tried again.                                          *)
LEMMA CleanupRow ==
  ASSUME NEW r \in Row
  PROVE  Reads(CleanupRetry(r), "stopping", r.sbx, r.lease, r.assigned, r.term)
<1>1. Bumped(r.retries) \in 0 .. RetryMax
  BY RowFields, BumpedCount
<1>. QED
  BY ZenonT(30), <1>1 DEF Reads, CleanupRetry, Row, Status, Stage

-----------------------------------------------------------------------------
(* The types, and what a step may not do to the row                        *)

(* A handler that holds the lock across a remote call has written stopping.*)
Held == holder # Free => row.status = "stopping"

(* An attempt that was never claimed has left no trace, a watcher has a    *)
(* start that is past its work, and nothing starts while Recover runs.     *)
Begun ==
    /\ \A a \in Attempt : start[a] = "idle" => sandbox[a] = "none" /\ row.sbx # a
    /\ \A a \in Attempt : watch[a] # "none" => start[a] \in {"watching", "done"}
    /\ phase = "recovering" => \A a \in Attempt : start[a] \in {"idle", "done"}

Base == TypeOK /\ Held /\ Begun

(* What a write may do to the row: a completed one is queued again only    *)
(* after another job, and the termination source goes only with the queue. *)
Orderly(r, s) ==
    /\ r.status = "completed" /\ s.status # "completed" =>
          r.assigned = "other" /\ s.status = "queued"
    /\ r.term # "none" /\ s.term # r.term => s.term = "none" /\ s.status = "queued"

(* A step of startRunner that leaves the provider alone.                   *)
Turn(a, pc) ==
    /\ start' = [start EXCEPT ![a] = pc]
    /\ before' \in [Attempt -> {0} \cup Attempt]
    /\ fresh' \subseteq {Reconciler} \cup Attempt
    /\ UNCHANGED <<provider, watch, holder, loops, github, phase, crashes>>
    /\ phase = "up"

(* The row the database holds has the fields of a record.                  *)
LEMMA TheRow ==
  ASSUME Base
  PROVE  /\ row \in Row /\ Reads(row, row.status, row.sbx, row.lease, row.assigned, row.term)
         /\ row.status \in Status /\ row.sbx \in {0} \cup Attempt /\ row.lease \in BOOLEAN
         /\ row.assigned \in {"none", "marker", "own", "other"} /\ row.term \in {"none", "exit", "stop"}
<1>1. row \in Row
  BY Zenon DEF Base, TypeOK
<1>. QED
  BY Zenon, <1>1, RowFields DEF Reads

(* Such a step keeps the base when the row's sandbox is kept or forgotten. *)
LEMMA TurnBase ==
  ASSUME Base, NEW a \in Attempt, NEW pc \in StartState \ {"idle"}, Turn(a, pc),
         start[a] \notin {"watching", "done"},
         row' \in Row, row'.sbx \in {0, row.sbx}, holder = Free \/ row'.status = "stopping"
  PROVE  Base'
<1>1. TypeOK'
  BY DEF Base, TypeOK, Turn, provider, loops, github
<1>2. /\ \A b \in Attempt : start'[b] = IF b = a THEN pc ELSE start[b]
      /\ UNCHANGED <<sandbox, watch, holder, phase>> /\ phase = "up"
  BY DEF Base, TypeOK, Turn, provider
<1>3. Held'
  BY Zenon, <1>2 DEF Base, Held
<1>4. \A b \in Attempt : b # 0
  BY LifecycleConstants DEF Attempt
<1>5. Begun'
  BY Zenon, <1>2, <1>4 DEF Base, Begun
<1>. QED
  BY Zenon, <1>1, <1>3, <1>5 DEF Base

(* ClaimNextRunnable.                                                      *)
LEMMA Claimed ==
  ASSUME Base, NEW a \in Attempt, Claim(a)
  PROVE  /\ start[a] = "idle" /\ row.status = "queued" /\ (row.lease => LeaseExpires)
         /\ Turn(a, "claimed")
         /\ Reads(row', "queued", row.sbx, TRUE, row.assigned, row.term)
<1>1. Turn(a, "claimed")
  BY Zenon DEF Base, TypeOK, Claim, Turn, GoTo, Persist, Up
<1>2. Reads(row', "queued", row.sbx, TRUE, row.assigned, row.term)
  BY Zenon DEF Base, TypeOK, Claim, Persist, Reads, Row
<1>. QED
  BY Zenon, <1>1, <1>2 DEF Claim

(* The critical section that takes the row to creating.                    *)
LEMMA Admitted ==
  ASSUME Base, NEW a \in Attempt, Admit(a)
  PROVE  /\ start[a] = "claimed"
         /\ \/ row.status # "queued" /\ Turn(a, "done") /\ row' = row
            \/ row.status = "queued" /\ (Turn(a, "refused") \/ Turn(a, "leaving")) /\ row' = row
            \/ /\ row.status = "queued" /\ Turn(a, "creating")
               /\ Reads(row', "creating", row.sbx, TRUE, row.assigned, row.term)
<1>1. start[a] = "claimed" /\ phase = "up" /\ fresh \subseteq {Reconciler} \cup Attempt
      /\ before \in [Attempt -> {0} \cup Attempt] /\ row \in Row
      /\ UNCHANGED <<before, provider, watch, holder, loops, github, phase, crashes>>
  BY Zenon DEF Base, TypeOK, Admit, Locked
<1>2. \A pc : GoTo(a, pc) /\ (UNCHANGED fresh \/ fresh' = {}) => Turn(a, pc)
  BY Zenon, <1>1 DEF Turn, GoTo
<1>3. CASE row.status = "queued"
           /\ Persist([row EXCEPT !.status = "creating", !.lease = TRUE,
                                  !.creating = IF @ = 0 THEN a ELSE @,
                                  !.deferred = IF @ = "capacity" THEN "no" ELSE @])
           /\ GoTo(a, "creating")
  <2>1. Turn(a, "creating")
    BY Zenon, <1>2, <1>3 DEF Persist
  <2>2. Reads(row', "creating", row.sbx, TRUE, row.assigned, row.term)
    BY ZenonT(30), <1>1, <1>3 DEF Persist, Reads, Row, Status
  <2>. QED
    BY Zenon, <1>1, <1>3, <2>1, <2>2
<1>4. CASE row.status # "queued" /\ GoTo(a, "done") /\ UNCHANGED <<row, fresh>>
  BY Zenon, <1>1, <1>2, <1>4
<1>5. CASE /\ row.status = "queued" /\ UNCHANGED <<row, fresh>>
           /\ \E pc \in {"refused", "leaving"} : GoTo(a, pc)
  BY Zenon, <1>1, <1>2, <1>5
<1>. QED
  BY Zenon, <1>3, <1>4, <1>5 DEF Admit

(* ReleaseLease and deferQueuedRequest.                                    *)
LEMMA Left ==
  ASSUME Base, NEW a \in Attempt, Leave(a)
  PROVE  /\ start[a] = "leaving" /\ Turn(a, "done")
         /\ Reads(row', row.status, row.sbx, FALSE, row.assigned, row.term)
<1>1. Turn(a, "done")
  BY Zenon DEF Base, TypeOK, Leave, Turn, GoTo, Persist, Locked
<1>2. Reads(row', row.status, row.sbx, FALSE, row.assigned, row.term)
  <2>1. row \in Row
    BY Zenon DEF Base, TypeOK
  <2>2. CASE row' = [row EXCEPT !.lease = FALSE]
    BY Zenon, <2>1, <2>2 DEF Reads, Row
  <2>3. CASE row' = [row EXCEPT !.lease = FALSE, !.deferred = "capacity"]
    BY Zenon, <2>1, <2>3 DEF Reads, Row
  <2>. QED
    BY Zenon, <2>2, <2>3 DEF Leave, Persist
<1>. QED
  BY Zenon, <1>1, <1>2 DEF Leave

(* ensureWorkflowJobStillQueued before the lookup, and the preparation.    *)
LEMMA Went ==
  ASSUME Base, NEW a \in Attempt, ReadBefore(a) \/ Prepare(a)
  PROVE  /\ row' = row /\ start[a] \in {"creating", "ready"}
         /\ \E pc \in {"checking", "ready", "failing", "yielding", "starting"} : Turn(a, pc)
<1>1. CASE ReadBefore(a)
  <2>1. before' \in [Attempt -> {0} \cup Attempt]
    <3>1. row.creating \in {0} \cup Attempt
      BY Zenon, TheRow, RowFields
    <3>. QED
      BY <1>1, <3>1 DEF ReadBefore, Base, TypeOK
  <2>2. Turn(a, "checking") \/ Turn(a, "ready")
    BY Zenon, <1>1, <2>1 DEF Base, TypeOK, ReadBefore, Turn, GoTo, Up
  <2>. QED
    BY Zenon, <1>1, <2>2 DEF ReadBefore
<1>2. CASE Prepare(a)
  <2>1. \E pc \in {"failing", "yielding", "starting"} : Turn(a, pc)
    BY Zenon, <1>2 DEF Base, TypeOK, Prepare, Turn, GoTo, Up
  <2>. QED
    BY Zenon, <1>2, <2>1 DEF Prepare
<1>. QED
  BY Zenon, <1>1, <1>2

(* ensureWorkflowJobStillQueued after the lookup: the row is written only  *)
(* while it is still the one creation the start read.                      *)
LEMMA Checked ==
  ASSUME Base, NEW a \in Attempt, Check(a)
  PROVE  /\ start[a] = "checking" /\ holder = Free
         /\ \/ row' = row /\ \E pc \in {"done", "ready", "failing"} : Turn(a, pc)
            \/ /\ row.status = "creating" /\ row.sbx = 0 /\ Turn(a, "done")
               /\ \E st \in {"completed", "queued", "failed"}, j \in {"own", row.assigned} :
                    Reads(row', st, 0, FALSE, j, row.term)
<1>1. /\ start[a] = "checking" /\ holder = Free /\ phase = "up" /\ row \in Row
      /\ fresh \subseteq {Reconciler} \cup Attempt
      /\ UNCHANGED <<provider, watch, holder, loops, github, phase, crashes>>
  BY Zenon DEF Base, TypeOK, Check, Locked
<1>2. before' \in [Attempt -> {0} \cup Attempt]
  BY DEF Check, Base, TypeOK
<1>3. \A pc : GoTo(a, pc) /\ (fresh' = fresh \ {a} \/ fresh' = {}) => Turn(a, pc)
  BY Zenon, <1>1, <1>2 DEF Turn, GoTo
<1>4. ~Superseded(a) => row.status = "creating" /\ row.sbx = 0
  BY Zenon DEF Superseded
<1>5. CASE /\ row' = row /\ (fresh' = fresh \ {a} \/ fresh' = {})
           /\ \E pc \in {"done", "ready", "failing"} : GoTo(a, pc)
  BY Zenon, <1>1, <1>3, <1>5
<1>6. CASE /\ ~Superseded(a)
           /\ Persist([row EXCEPT !.status = "completed", !.assigned = "own",
                                  !.stage = "none", !.lease = FALSE])
           /\ GoTo(a, "done")
  <2>1. Reads(row', "completed", 0, FALSE, "own", row.term)
    BY ZenonT(30), <1>1, <1>4, <1>6 DEF Persist, Reads, Row, Status, Stage
  <2>. QED
    BY Zenon, <1>1, <1>3, <1>4, <1>6, <2>1 DEF Persist
<1>7. CASE /\ ~Superseded(a)
           /\ \E l \in Lookup : Persist(Postponed(a, l))
           /\ GoTo(a, "done")
  <2>1. PICK l \in Lookup : Persist(Postponed(a, l))
    BY Zenon, <1>7
  <2>2. Reads(Requeued(row, "none"), "queued", 0, FALSE, row.assigned, row.term)
    BY Zenon, <1>1, RequeuedRow DEF Stage
  <2>3. Reads([Requeued(row, "none") EXCEPT !.retries = Bumped(@)], "queued", 0, FALSE, row.assigned, row.term)
    <3>1. Requeued(row, "none").retries = row.retries /\ "none" \in Stage
      BY Zenon, <1>1 DEF Requeued, Row, Stage
    <3>2. Bumped(row.retries) \in 0 .. RetryMax
      BY Zenon, <1>1, RowFields, BumpedCount
    <3>. QED
      BY Zenon, <1>1, <3>1, <3>2, CountedRow
  <2>4. Reads([row EXCEPT !.status = "failed", !.lease = FALSE, !.creating = 0, !.stage = "start"],
              "failed", 0, FALSE, row.assigned, row.term)
    BY ZenonT(30), <1>1, <1>4, <1>7 DEF Reads, Row, Status, Stage
  <2>5. \E st \in {"completed", "queued", "failed"} : Reads(row', st, 0, FALSE, row.assigned, row.term)
    BY Zenon, <2>1, <2>2, <2>3, <2>4 DEF Persist, Postponed
  <2>. QED
    BY Zenon, <1>1, <1>3, <1>4, <1>7, <2>1, <2>5 DEF Persist
<1>. QED
  BY Zenon, <1>5, <1>6, <1>7 DEF Check

(* deferCreatingRequest.                                                   *)
LEMMA Deferred ==
  ASSUME Base, NEW a \in Attempt, DeferCreating(a)
  PROVE  /\ start[a] = "yielding" /\ holder = Free /\ Turn(a, "done")
         /\ \/ row' = row
            \/ /\ row.status = "creating" /\ row.sbx = 0
               /\ Reads(row', "queued", 0, FALSE, row.assigned, row.term)
<1>1. Turn(a, "done")
  BY Zenon DEF Base, TypeOK, DeferCreating, Turn, GoTo, Persist, PersistOrLog, Locked
<1>2. CASE row' = [row EXCEPT !.status = "queued", !.creating = 0, !.lease = FALSE] /\ row.sbx = 0
  <2>1. Reads(row', "queued", 0, FALSE, row.assigned, row.term)
    BY Zenon, <1>2 DEF Base, TypeOK, Reads, Row, Status
  <2>. QED
    BY Zenon, <1>1, <2>1 DEF DeferCreating, Persist, PersistOrLog, Locked
<1>. QED
  BY Zenon, <1>1, <1>2 DEF DeferCreating, Persist, PersistOrLog, Locked

(* failStart.                                                              *)
LEMMA FailedStart ==
  ASSUME Base, NEW a \in Attempt, FailStart(a)
  PROVE  /\ start[a] \in {"refused", "failing"} /\ holder = Free /\ Turn(a, "done")
         /\ \/ /\ row.status \in {"completed", "stopping"}
               /\ Reads(row', row.status, row.sbx, FALSE, row.assigned, row.term)
            \/ /\ row.status \notin {"completed", "stopping"}
               /\ \E st \in {"queued", "failed"} : Reads(row', st, 0, FALSE, row.assigned, row.term)
            \/ row' = row /\ WriteFails
<1>1. Turn(a, "done")
  BY Zenon DEF Base, TypeOK, FailStart, Turn, GoTo, Persist, PersistOrLog, Locked
<1>2. CASE row.status \in {"completed", "stopping"}
  <2>1. row' = [row EXCEPT !.lease = FALSE]
    BY Zenon, <1>2 DEF FailStart
  <2>2. Reads(row', row.status, row.sbx, FALSE, row.assigned, row.term)
    BY Zenon, <2>1 DEF Base, TypeOK, Reads, Row
  <2>. QED
    BY Zenon, <1>1, <1>2, <2>2 DEF FailStart, Locked
<1>3. CASE row.status \notin {"completed", "stopping"}
  <2>1. PICK kind \in Failure : PersistOrLog(ApplyFailure(row, kind, "start"))
    BY Zenon, <1>3 DEF FailStart
  <2>2. \E st \in {"queued", "failed"} :
          Reads(ApplyFailure(row, kind, "start"), st, 0, FALSE, row.assigned, row.term)
    BY Zenon, TheRow, FailureRow DEF Stage
  <2>. QED
    BY Zenon, <1>1, <1>3, <2>1, <2>2 DEF FailStart, Locked, PersistOrLog, Persist
<1>. QED
  BY Zenon, <1>2, <1>3

(* A kill ends one sandbox and the process in it.                          *)
LEMMA Killed ==
  ASSUME Base, NEW b \in Attempt, Kill(b)
  PROVE  /\ sandbox' \in [Attempt -> {"none", "live", "gone"}]
         /\ process' \in [Attempt -> {"none", "idle", "own", "other", "exited"}]
         /\ sandbox'[b] = "gone" /\ \A c \in Attempt \ {b} : sandbox'[c] = sandbox[c]
         /\ \A c \in Attempt : process'[c] \in {process[c], "exited"}
BY DEF Base, TypeOK, Kill

(* A step of a start that leaves the row alone and touches its own sandbox.*)
Handles(a, pc) ==
    /\ start' = [start EXCEPT ![a] = pc]
    /\ UNCHANGED <<row, before, fresh, watch, holder, loops, github, phase, crashes>>
    /\ phase = "up"
    /\ sandbox' \in [Attempt -> {"none", "live", "gone"}]
    /\ process' \in [Attempt -> {"none", "idle", "own", "other", "exited"}]
    /\ \A b \in Attempt \ {a} : sandbox'[b] = sandbox[b]
    /\ \A b \in Attempt : process'[b] \in {process[b], "idle", "exited"}
    /\ abandoned' \in {abandoned, abandoned \cup {a}}

(* StartRunner's calls, and the sandbox a start gives up.                  *)
LEMMA Handled ==
  ASSUME Base, NEW a \in Attempt,
         CreateSandbox(a) \/ LaunchRunner(a) \/ StartFails(a) \/ Discard(a)
  PROVE  \/ /\ start[a] = "starting" /\ Handles(a, "provisioned")
            /\ sandbox'[a] = "live" /\ abandoned' = abandoned
         \/ /\ start[a] = "provisioned" /\ Handles(a, "started")
            /\ sandbox' = sandbox /\ abandoned' = abandoned
         \/ /\ start[a] \in {"starting", "provisioned"} /\ Handles(a, "failing")
            /\ \/ start[a] = "starting" /\ sandbox' = sandbox /\ abandoned' = abandoned
               \/ sandbox'[a] = "gone" \/ a \in abandoned'
         \/ /\ start[a] = "discard" /\ Handles(a, "done")
            /\ sandbox'[a] = "gone" \/ a \in abandoned'
<1>1. CASE CreateSandbox(a)
  BY <1>1 DEF Base, TypeOK, CreateSandbox, Handles, GoTo, Up
<1>2. CASE LaunchRunner(a)
  BY <1>2 DEF Base, TypeOK, LaunchRunner, Handles, GoTo, Up
<1>3. CASE StartFails(a)
  <2>1. /\ start[a] \in {"starting", "provisioned"} /\ start' = [start EXCEPT ![a] = "failing"]
        /\ UNCHANGED <<row, before, fresh, watch, holder, loops, github, phase, crashes>> /\ phase = "up"
    BY Zenon, <1>3 DEF StartFails, GoTo, Up
  <2>2. CASE start[a] = "starting" /\ UNCHANGED <<sandbox, process, abandoned>>
    BY Zenon, <2>1, <2>2 DEF Base, TypeOK, Handles
  <2>3. CASE Kill(a) /\ UNCHANGED abandoned
    BY Zenon, <2>1, <2>3, Killed DEF Handles
  <2>4. CASE /\ sandbox' = [sandbox EXCEPT ![a] = "live"]
             /\ abandoned' = abandoned \cup {a} /\ UNCHANGED process
    <3>1. sandbox' \in [Attempt -> {"none", "live", "gone"}] /\ \A b \in Attempt \ {a} : sandbox'[b] = sandbox[b]
      BY <2>4 DEF Base, TypeOK
    <3>. QED
      BY Zenon, <2>1, <2>4, <3>1 DEF Base, TypeOK, Handles
  <2>. QED
    BY Zenon, <1>3, <2>2, <2>3, <2>4 DEF StartFails
<1>4. CASE Discard(a)
  <2>1. /\ start[a] = "discard" /\ start' = [start EXCEPT ![a] = "done"]
        /\ UNCHANGED <<row, before, fresh, watch, holder, loops, github, phase, crashes>> /\ phase = "up"
    BY Zenon, <1>4 DEF Discard, GoTo, Up
  <2>2. CASE Kill(a) /\ UNCHANGED abandoned
    BY Zenon, <2>1, <2>2, Killed DEF Handles
  <2>3. CASE abandoned' = abandoned \cup {a} /\ UNCHANGED <<sandbox, process>>
    BY Zenon, <2>1, <2>3 DEF Base, TypeOK, Handles
  <2>. QED
    BY Zenon, <1>4, <2>2, <2>3 DEF Discard
<1>. QED
  BY Zenon, <1>1, <1>2, <1>3, <1>4

(* A step of startRunner on its sandbox keeps the base.                    *)
LEMMA HandlesBase ==
  ASSUME Base, NEW a \in Attempt, NEW pc \in StartState \ {"idle"}, Handles(a, pc),
         start[a] \in {"starting", "provisioned", "discard"}
  PROVE  Base'
<1>1. TypeOK'
  BY DEF Base, TypeOK, Handles, loops, github
<1>2. /\ \A b \in Attempt : start'[b] = IF b = a THEN pc ELSE start[b]
      /\ UNCHANGED <<row, watch, holder, phase>> /\ phase = "up"
      /\ \A b \in Attempt \ {a} : sandbox'[b] = sandbox[b]
  BY DEF Base, TypeOK, Handles
<1>3. Held'
  BY Zenon, <1>2 DEF Base, Held
<1>4. Begun'
  BY Zenon, <1>2 DEF Base, Begun
<1>. QED
  BY Zenon, <1>1, <1>3, <1>4 DEF Base

(* The critical section after StartRunner.                                 *)
LEMMA Adopted ==
  ASSUME Base, NEW a \in Attempt, Adopt(a)
  PROVE  /\ start[a] = "started" /\ holder = Free /\ phase = "up"
         /\ UNCHANGED <<before, provider, holder, loops, github, phase, crashes>>
         /\ \/ /\ row.status = "creating"
               /\ Reads(row', "running", a, FALSE, row.assigned, row.term) /\ fresh' = {}
               /\ start' = [start EXCEPT ![a] = "watching"] /\ watch' = [watch EXCEPT ![a] = "armed"]
            \/ /\ row.status # "creating" \/ WriteFails
               /\ start' = [start EXCEPT ![a] = "discard"] /\ UNCHANGED <<row, fresh, watch>>
<1>1. CASE row' = [row EXCEPT !.status = "running", !.sbx = a, !.lease = FALSE,
                              !.creating = IF @ = 0 THEN a ELSE @, !.deferred = "no"]
  <2>1. Reads(row', "running", a, FALSE, row.assigned, row.term)
    BY ZenonT(30), <1>1 DEF Base, TypeOK, Reads, Row, Status
  <2>. QED
    BY Zenon, <2>1 DEF Adopt, Persist, GoTo, Locked
<1>. QED
  BY Zenon, <1>1 DEF Adopt, Persist, GoTo, Locked

(* So does the critical section after it.                                  *)
LEMMA AdoptedBase ==
  ASSUME Base, NEW a \in Attempt, Adopt(a)
  PROVE  Base'
<1>1. /\ row' \in Row /\ row'.sbx \in {a, row.sbx}
      /\ start' \in [Attempt -> StartState] /\ watch' \in [Attempt -> {"none", "armed", "nonzero", "error"}]
      /\ \A b \in Attempt : start'[b] = (IF b = a THEN start'[a] ELSE start[b])
      /\ start'[a] \in {"watching", "discard"} /\ (start'[a] = "discard" => watch'[a] = watch[a])
      /\ \A b \in Attempt \ {a} : watch'[b] = watch[b]
      /\ fresh' \in {fresh, {}} /\ start[a] = "started" /\ holder = Free /\ phase = "up"
      /\ UNCHANGED <<before, provider, holder, loops, github, phase, crashes>>
  <2>1. row' \in Row /\ row'.sbx \in {a, row.sbx}
    BY Zenon, Adopted, TheRow DEF Reads
  <2>. QED
    <3>1. start \in [Attempt -> StartState] /\ watch \in [Attempt -> {"none", "armed", "nonzero", "error"}]
      BY Zenon DEF Base, TypeOK
    <3>2. \/ start' = [start EXCEPT ![a] = "watching"] /\ watch' = [watch EXCEPT ![a] = "armed"]
          \/ start' = [start EXCEPT ![a] = "discard"] /\ watch' = watch
      BY Zenon, Adopted
    <3>3. /\ start' \in [Attempt -> StartState] /\ watch' \in [Attempt -> {"none", "armed", "nonzero", "error"}]
          /\ \A b \in Attempt : start'[b] = (IF b = a THEN start'[a] ELSE start[b])
          /\ start'[a] \in {"watching", "discard"} /\ (start'[a] = "discard" => watch'[a] = watch[a])
          /\ \A b \in Attempt \ {a} : watch'[b] = watch[b]
      BY <3>1, <3>2 DEF StartState
    <3>. QED
      BY Zenon, <2>1, <3>3, Adopted
<1>2. TypeOK'
  BY Zenon, <1>1 DEF Base, TypeOK, provider, loops, github
<1>3. Begun'
  BY Zenon, <1>1 DEF Base, Begun, provider
<1>. QED
  BY Zenon, <1>1, <1>2, <1>3 DEF Base, Held

(* stopRunner up to the persisted stopping status.                         *)
LEMMA Stops ==
  ASSUME Base, NEW j \in {"none", "own", "other"}, NEW ours \in BOOLEAN, StopRunner(j, ours)
  PROVE  /\ fresh' \in {fresh, {}}
         /\ \/ row' = row /\ holder' = holder
            \/ /\ row.status = "completed" /\ holder' = holder
               /\ Reads(row', "completed", row.sbx, row.lease, IF j = "none" THEN row.assigned ELSE j, row.term)
            \/ /\ row.status # "completed" /\ holder' = <<"stop", j>>
               /\ Reads(row', "stopping", row.sbx, row.lease, IF j = "none" THEN row.assigned ELSE j,
                        IF row.term = "none" THEN "stop" ELSE row.term)
<1>1. Reads(Assigned(row, j), row.status, row.sbx, row.lease, IF j = "none" THEN row.assigned ELSE j, row.term)
  BY Zenon, TheRow, StoppedRow
<1>2. Reads([Terminated(Assigned(row, j), "stop") EXCEPT !.status = "stopping"], "stopping", row.sbx, row.lease,
            IF j = "none" THEN row.assigned ELSE j, IF row.term = "none" THEN "stop" ELSE row.term)
  BY Zenon, TheRow, StoppedRow
<1>3. CASE Conflicts(j, ours) /\ fresh' \in {fresh, {}} /\ UNCHANGED <<row, holder>>
  BY Zenon, <1>3
<1>4. CASE row.status = "completed" /\ Persist(Assigned(row, j)) /\ UNCHANGED holder
  BY Zenon, <1>1, <1>4 DEF Persist
<1>5. CASE /\ row.status # "completed" /\ holder' = <<"stop", j>>
           /\ Persist([Terminated(Assigned(row, j), "stop") EXCEPT !.status = "stopping"])
  BY Zenon, <1>2, <1>5 DEF Persist
<1>6. CASE UNCHANGED <<row, fresh, holder>>
  BY Zenon, <1>6
<1>. QED
  BY Zenon, <1>3, <1>4, <1>5, <1>6 DEF StopRunner

(* failAndStopRunner up to the persisted stopping status.                  *)
LEMMA Forces ==
  ASSUME Base, NEW s \in {"timeout", "recovery"}, ForceStop(s)
  PROVE  /\ fresh' \in {fresh, {}}
         /\ \/ row' = row /\ holder' = holder
            \/ /\ row.status \notin {"completed", "failed"} /\ holder' = <<"force", s>>
               /\ Reads(row', "stopping", row.sbx, row.lease, row.assigned,
                        IF row.term = "none" THEN "stop" ELSE row.term)
<1>1. Reads([Terminated(row, "stop") EXCEPT !.status = "stopping", !.stage = s], "stopping", row.sbx, row.lease,
            row.assigned, IF row.term = "none" THEN "stop" ELSE row.term)
  BY Zenon, TheRow, EndedRow DEF Stage
<1>. QED
  BY Zenon, <1>1 DEF ForceStop, Persist

(* The watcher acts on the row up to the persisted stopping status.        *)
LEMMA BeginsExit ==
  ASSUME Base, NEW code \in {"zero", "nonzero", "error"}, BeginExit(code)
  PROVE  /\ fresh' \in {fresh, {}}
         /\ \/ row' = row /\ holder' = holder
            \/ /\ holder' = <<"exit", code>>
               /\ Reads(row', "stopping", row.sbx, row.lease, row.assigned,
                        IF row.term = "none" THEN "exit" ELSE row.term)
<1>1. CASE code = "zero"
  <2>1. Terminated(row, "exit").stage = row.stage /\ row.stage \in Stage /\ row \in Row
    BY Zenon, TheRow, RowFields DEF Terminated, Row
  <2>2. [Terminated(row, "exit") EXCEPT !.status = "stopping", !.stage = IF code = "zero" THEN @ ELSE "exit"]
        = [Terminated(row, "exit") EXCEPT !.status = "stopping", !.stage = row.stage]
    BY Zenon, <1>1, <2>1 DEF Terminated, Row
  <2>3. Reads([Terminated(row, "exit") EXCEPT !.status = "stopping", !.stage = row.stage], "stopping", row.sbx,
              row.lease, row.assigned, IF row.term = "none" THEN "exit" ELSE row.term)
    BY Zenon, <2>1, EndedRow
  <2>. QED
    BY Zenon, <2>2, <2>3 DEF BeginExit, Persist
<1>2. CASE code # "zero"
  <2>1. Reads([Terminated(row, "exit") EXCEPT !.status = "stopping", !.stage = "exit"], "stopping", row.sbx,
              row.lease, row.assigned, IF row.term = "none" THEN "exit" ELSE row.term)
    BY Zenon, TheRow, EndedRow DEF Stage
  <2>. QED
    BY Zenon, <1>2, <2>1 DEF BeginExit, Persist
<1>. QED
  BY Zenon, <1>1, <1>2

(* The exit callback of attempt a, before and after its busy check.        *)
LEMMA Exited ==
  ASSUME Base, NEW a \in Attempt,
         (\E code \in {"zero", "nonzero", "error"} : RunnerExited(a, code)) \/ BusyChecked(a)
  PROVE  /\ holder = Free /\ phase = "up" /\ watch[a] # "none"
         /\ UNCHANGED <<before, provider, loops, github, phase, crashes>>
         /\ fresh' \in {fresh, {}}
         /\ \/ start' = [start EXCEPT ![a] = "done"] /\ watch' = [watch EXCEPT ![a] = "none"]
            \/ start' = start /\ row' = row /\ \E c \in {"nonzero", "error"} : watch' = [watch EXCEPT ![a] = c]
         /\ \/ row' = row /\ holder' = holder
            \/ /\ row.sbx = a /\ row.status \in {"creating", "running"} /\ holder' = holder
               /\ Reads(row', "running", row.sbx, row.lease,
                        IF row.assigned = "none" THEN "marker" ELSE row.assigned, row.term)
            \/ /\ row.sbx = a /\ row.status \in {"creating", "running"}
               /\ holder' \in {"exit"} \X {"zero", "nonzero", "error"}
               /\ Reads(row', "stopping", row.sbx, row.lease, row.assigned,
                        IF row.term = "none" THEN "exit" ELSE row.term)
<1>1. \A code \in {"zero", "nonzero", "error"} : BeginExit(code) =>
        /\ fresh' \in {fresh, {}}
        /\ \/ row' = row /\ holder' = holder
           \/ /\ holder' \in {"exit"} \X {"zero", "nonzero", "error"}
              /\ Reads(row', "stopping", row.sbx, row.lease, row.assigned,
                       IF row.term = "none" THEN "exit" ELSE row.term)
  <2>. SUFFICES ASSUME NEW code \in {"zero", "nonzero", "error"}, BeginExit(code)
                PROVE  /\ fresh' \in {fresh, {}}
                       /\ \/ row' = row /\ holder' = holder
                          \/ /\ holder' \in {"exit"} \X {"zero", "nonzero", "error"}
                             /\ Reads(row', "stopping", row.sbx, row.lease, row.assigned,
                                      IF row.term = "none" THEN "exit" ELSE row.term)
    BY Zenon
  <2>1. <<"exit", code>> \in {"exit"} \X {"zero", "nonzero", "error"}
    BY SMT
  <2>. QED
    BY Zenon, <2>1, BeginsExit
<1>2. ASSUME NEW code \in {"zero", "nonzero", "error"}, RunnerExited(a, code)
      PROVE  /\ \/ start' = [start EXCEPT ![a] = "done"] /\ watch' = [watch EXCEPT ![a] = "none"]
                \/ start' = start /\ row' = row /\ \E c \in {"nonzero", "error"} : watch' = [watch EXCEPT ![a] = c]
             /\ fresh' \in {fresh, {}}
             /\ \/ row' = row /\ holder' = holder
                \/ Owns(a) /\ BeginExit(code)
  <2>1. code = "zero" => (BeginExit(code) => fresh' \in {fresh, {}})
    BY Zenon, <1>1
  <2>2. CASE ~Owns(a) /\ Watched(a) /\ fresh' \in (IF row.sbx = a THEN {fresh, {}} ELSE {fresh}) /\ UNCHANGED <<row, holder>>
    BY Zenon, <2>2 DEF Watched, GoTo
  <2>3. CASE Owns(a) /\ code = "zero" /\ Watched(a) /\ BeginExit(code)
    BY Zenon, <2>1, <2>3 DEF Watched, GoTo
  <2>4. CASE code # "zero" /\ watch' = [watch EXCEPT ![a] = code] /\ UNCHANGED <<row, start, fresh, holder>>
    BY Zenon, <2>4
  <2>. QED
    BY Zenon, <1>2, <2>2, <2>3, <2>4 DEF RunnerExited
<1>3. CASE \E code \in {"zero", "nonzero", "error"} : RunnerExited(a, code)
  <2>1. /\ holder = Free /\ phase = "up" /\ watch[a] # "none"
        /\ UNCHANGED <<before, provider, loops, github, phase, crashes>>
    BY Zenon, <1>3 DEF RunnerExited, Locked
  <2>. QED
    BY Zenon, <1>1, <1>2, <1>3, <2>1 DEF Owns
<1>4. CASE BusyChecked(a)
  <2>1. /\ holder = Free /\ phase = "up" /\ watch[a] # "none" /\ watch[a] \in {"zero", "nonzero", "error"}
        /\ UNCHANGED <<before, provider, loops, github, phase, crashes>>
        /\ start' = [start EXCEPT ![a] = "done"] /\ watch' = [watch EXCEPT ![a] = "none"]
    BY Zenon, <1>4 DEF BusyChecked, Locked, Watched, GoTo
  <2>2. CASE UNCHANGED <<row, fresh, holder>>
    BY Zenon, <2>1, <2>2
  <2>3. CASE Owns(a) /\ UNCHANGED holder /\
             Persist([row EXCEPT !.status = "running", !.assigned = IF @ = "none" THEN "marker" ELSE @])
    <3>1. Reads(row', "running", row.sbx, row.lease, IF row.assigned = "none" THEN "marker" ELSE row.assigned, row.term)
      BY ZenonT(30), <2>3 DEF Base, TypeOK, Persist, Reads, Row, Status
    <3>. QED
      BY Zenon, <2>1, <2>3, <3>1 DEF Owns, Persist
  <2>4. CASE Owns(a) /\ BeginExit(watch[a])
    BY Zenon, <1>1, <2>1, <2>4 DEF Owns
  <2>. QED
    BY Zenon, <1>4, <2>2, <2>3, <2>4 DEF BusyChecked
<1>. QED
  BY Zenon, <1>3, <1>4

(* The exit callback keeps the base.                                       *)
LEMMA ExitedBase ==
  ASSUME Base, NEW a \in Attempt,
         (\E code \in {"zero", "nonzero", "error"} : RunnerExited(a, code)) \/ BusyChecked(a)
  PROVE  Base'
<1>1. row' \in Row /\ row'.sbx = row.sbx /\ (holder' # Free => row'.status = "stopping") /\ holder' \in Holder
  <2>1. Free \in Holder /\ ({"exit"} \X {"zero", "nonzero", "error"}) \subseteq Holder
    BY Zenon DEF Holder
  <2>. QED
    BY Zenon, <2>1, Exited, TheRow DEF Reads
<1>2. /\ start' \in [Attempt -> StartState] /\ watch' \in [Attempt -> {"none", "armed", "nonzero", "error"}]
      /\ \A b \in Attempt \ {a} : start'[b] = start[b] /\ watch'[b] = watch[b]
      /\ start'[a] \in {start[a], "done"} /\ start[a] \in {"watching", "done"}
  <2>1. /\ start \in [Attempt -> StartState] /\ watch \in [Attempt -> {"none", "armed", "nonzero", "error"}]
        /\ start[a] \in {"watching", "done"}
    BY Zenon, Exited DEF Base, TypeOK, Begun
  <2>2. \/ start' = [start EXCEPT ![a] = "done"] /\ watch' = [watch EXCEPT ![a] = "none"]
        \/ start' = start /\ \E c \in {"nonzero", "error"} : watch' = [watch EXCEPT ![a] = c]
    BY Zenon, Exited
  <2>. QED
    BY <2>1, <2>2 DEF StartState
<1>3. fresh' \in {fresh, {}} /\ UNCHANGED <<before, provider, loops, github, phase, crashes>> /\ phase = "up"
  BY Zenon, Exited
<1>4. TypeOK'
  BY Zenon, <1>1, <1>2, <1>3 DEF Base, TypeOK, provider, loops, github
<1>5. Begun'
  BY Zenon, <1>1, <1>2, <1>3 DEF Base, Begun, provider
<1>. QED
  BY Zenon, <1>1, <1>4, <1>5 DEF Base, Held

(* A handler that leaves the starts and the provider alone keeps the base  *)
(* when it holds on to the lock only with the row stopping.                *)
Calm == UNCHANGED <<starts, watch, provider, github, crashes>>

(* Such a step keeps the base.                                             *)
LEMMA CalmBase ==
  ASSUME Base, Calm, row' \in Row, row'.sbx \in {0, row.sbx}, fresh' \subseteq {Reconciler} \cup Attempt,
         holder' \in Holder, holder' # Free => row'.status = "stopping",
         saw' \in [Loops -> {"none", "idle", "unused"} \cup InFlightStatus], mismatch' \in BOOLEAN,
         phase' \in {"up", phase}
  PROVE  Base'
<1>1. UNCHANGED <<start, before, watch, sandbox, process, abandoned, job, sent, crashes>>
  BY Zenon DEF Calm, starts, provider, github
<1>2. TypeOK'
  BY Zenon, <1>1 DEF Base, TypeOK
<1>3. \A b \in Attempt : b # 0
  BY LifecycleConstants DEF Attempt
<1>4. Begun'
  BY Zenon, <1>1, <1>3 DEF Base, Begun
<1>. QED
  BY Zenon, <1>2, <1>4 DEF Base, Held

(* The call that stops the row's sandbox.                                  *)
LEMMA StopCalled ==
  ASSUME Base, NEW s \in SandboxStop, StopsWith(s), GivesUp(s)
  PROVE  /\ sandbox' \in [Attempt -> {"none", "live", "gone"}]
         /\ process' \in [Attempt -> {"none", "idle", "own", "other", "exited"}]
         /\ \A c \in Attempt : sandbox'[c] = sandbox[c] \/ (c = row.sbx /\ sandbox'[c] = "gone")
         /\ \A c \in Attempt : process'[c] \in {process[c], "exited"}
         /\ abandoned' \subseteq Attempt /\ abandoned \subseteq abandoned'
         /\ s = "ok" => \A c \in Attempt : c = row.sbx => sandbox'[c] = "gone"
<1>1. row.sbx \in {0} \cup Attempt /\ \A b \in Attempt : b # 0
  BY TheRow, LifecycleConstants DEF Attempt
<1>2. abandoned' \subseteq Attempt /\ abandoned \subseteq abandoned'
  BY Zenon, <1>1 DEF Base, TypeOK, StopsWith, GivesUp
<1>3. CASE UNCHANGED <<sandbox, process>> /\ (s # "ok" \/ row.sbx = 0)
  BY Zenon, <1>1, <1>2, <1>3 DEF Base, TypeOK
<1>4. CASE s = "ok" /\ row.sbx # 0 /\ Kill(row.sbx)
  <2>1. row.sbx \in Attempt
    BY Zenon, <1>1, <1>4
  <2>. QED
    BY Zenon, <1>2, <1>4, <2>1, Killed
<1>. QED
  BY Zenon, <1>3, <1>4 DEF StopsWith, KillOwned

(* A row with a sandbox that was stopping and goes on or is over.          *)
Settled(s) ==
    \E st \in {"stopping", "completed", "failed"}, l \in {row.lease, FALSE}, j \in {row.assigned, "none"} :
        Reads(s, st, row.sbx, l, j, row.term)

(* The writes of a settling handler.                                       *)
LEMMA SettledRows ==
  ASSUME Base, row.status = "stopping", NEW g \in Stage
  PROVE  /\ Settled(row) /\ Settled(CleanupRetry(row))
         /\ Settled([row EXCEPT !.status = "failed", !.stage = g])
         /\ Settled([row EXCEPT !.status = "failed", !.lease = FALSE, !.stage = g])
         /\ row.retries < RetryMax => Settled([row EXCEPT !.retries = @ + 1, !.stage = g])
<1>0. row \in Row
  BY TheRow
<1>1. Reads(row, "stopping", row.sbx, row.lease, row.assigned, row.term)
  BY Zenon, TheRow
<1>2. Reads(CleanupRetry(row), "stopping", row.sbx, row.lease, row.assigned, row.term)
  BY Zenon, <1>0, CleanupRow
<1>3. Reads([row EXCEPT !.status = "failed", !.stage = g], "failed", row.sbx, row.lease, row.assigned, row.term)
  BY ZenonT(30), <1>0 DEF Reads, Row, Status
<1>4. Reads([row EXCEPT !.status = "failed", !.lease = FALSE, !.stage = g], "failed", row.sbx, FALSE,
            row.assigned, row.term)
  BY ZenonT(30), <1>0 DEF Reads, Row, Status
<1>5. ASSUME row.retries < RetryMax
      PROVE  Reads([row EXCEPT !.retries = @ + 1, !.stage = g], "stopping", row.sbx, row.lease, row.assigned, row.term)
  <2>1. row.retries + 1 \in 0 .. RetryMax
    BY Zenon, <1>0, <1>5, RowFields, BumpedCount
  <2>. QED
    BY ZenonT(30), <1>0, <2>1 DEF Reads, Row
<1>6. \A s, st, l, j :
         (/\ st \in {"stopping", "completed", "failed"} /\ l \in {row.lease, FALSE}
          /\ j \in {row.assigned, "none"} /\ Reads(s, st, row.sbx, l, j, row.term)) => Settled(s)
  BY Zenon DEF Settled
<1>. QED
  BY Zenon, <1>1, <1>2, <1>3, <1>4, <1>5, <1>6

(* The end of a handler that let go of the sandbox.                        *)
Over(s) ==
    /\ UNCHANGED <<starts, watch, loops, github, crashes>>
    /\ holder' = Free /\ phase' \in {"up", phase} /\ fresh' \in {fresh, {}}
    /\ s \in SandboxStop /\ StopsWith(s) /\ GivesUp(s)

(* stopRunner returns.                                                     *)
LEMMA StopReturns ==
  ASSUME Base, FinishStop
  PROVE  /\ holder \in {"stop"} \X {"none", "own", "other"} /\ row.status = "stopping"
         /\ \E s \in SandboxStop :
              /\ Over(s)
              /\ \/ Settled(row')
                 \/ /\ s = "ok" /\ HasJob /\ holder[2] = "other"
                    /\ Reads(row', "queued", 0, FALSE, "none", "none")
<1>1. row \in Row /\ holder \in {"stop"} \X {"none", "own", "other"} /\ row.status = "stopping"
  <2>1. holder \in {"stop"} \X {"none", "own", "other"} => holder # Free
    BY DEF Free
  <2>. QED
    BY Zenon, <2>1, TheRow DEF FinishStop, Base, Held
<1>2. PICK s \in SandboxStop, g \in GitHubCleanup :
         /\ StopsWith(s)
         /\ \/ StopSandboxFails(s)
            \/ s = "ok" /\ StopCleanupFails(g)
            \/ s = "ok" /\ g = "ok" /\ HasJob /\ holder[2] = "other" /\ StopMismatch
            \/ s = "ok" /\ g = "ok" /\ ~(HasJob /\ holder[2] = "other") /\ StopEnds
         /\ GivesUp(s)
  BY Zenon DEF FinishStop
<1>3. holder' = Free /\ phase' \in {"up", phase} /\ UNCHANGED <<starts, watch, loops, github, crashes>>
  BY Zenon DEF FinishStop
<1>4. \A r : PersistOrLog(r) /\ Settled(r) => fresh' \in {fresh, {}} /\ Settled(row')
  <2>1. Settled(row)
    BY Zenon, <1>1, SettledRows DEF Stage
  <2>. QED
    BY Zenon, <2>1 DEF PersistOrLog, Persist, Settled
<1>5. CASE StopSandboxFails(s)
  <2>1. /\ Settled([row EXCEPT !.status = "failed", !.stage = "stop"])
        /\ row.retries < RetryMax => Settled([row EXCEPT !.retries = @ + 1, !.stage = "stop"])
    BY Zenon, <1>1, SettledRows DEF Stage
  <2>. QED
    BY Zenon, <1>1, <1>2, <1>3, <1>4, <1>5, <2>1 DEF StopSandboxFails, Over
<1>6. CASE StopCleanupFails(g)
  <2>1. Settled(CleanupRetry(row)) /\ Settled([row EXCEPT !.status = "failed", !.stage = "cleanup"])
    BY Zenon, <1>1, SettledRows DEF Stage
  <2>. QED
    BY Zenon, <1>1, <1>2, <1>3, <1>4, <1>6, <2>1 DEF StopCleanupFails, Over
<1>7. CASE s = "ok" /\ HasJob /\ holder[2] = "other" /\ StopMismatch
  <2>1. Reads(AsNew(row), "queued", 0, FALSE, "none", "none")
    BY Zenon, <1>1, NewRow
  <2>2. Reads([row EXCEPT !.status = "completed", !.assigned = "none", !.stage = "none", !.deferred = "no"],
              "completed", row.sbx, row.lease, "none", row.term)
    BY ZenonT(30), <1>1 DEF Reads, Row, Status, Stage
  <2>3. Settled([row EXCEPT !.status = "completed", !.assigned = "none", !.stage = "none", !.deferred = "no"])
    BY Zenon, <2>2 DEF Settled
  <2>4. fresh' \in {fresh, {}} /\ (Settled(row') \/ row' = AsNew(row))
    <3>1. Settled(row)
      BY Zenon, <1>1, SettledRows DEF Stage
    <3>. QED
      BY ZenonT(30), <1>4, <1>7, <2>3, <3>1 DEF StopMismatch, PersistOrLog, Persist, Settled
  <2>. QED
    BY Zenon, <1>1, <1>2, <1>3, <1>7, <2>1, <2>4 DEF Over
<1>8. CASE StopEnds
  <2>1. Reads([row EXCEPT !.status = "completed", !.stage = "none", !.deferred = "no"],
              "completed", row.sbx, row.lease, row.assigned, row.term)
    BY ZenonT(30), <1>1 DEF Reads, Row, Status, Stage
  <2>2. Reads([row EXCEPT !.status = "failed", !.deferred = "no"],
              "failed", row.sbx, row.lease, row.assigned, row.term)
    BY ZenonT(30), <1>1 DEF Reads, Row, Status
  <2>3. /\ Settled([row EXCEPT !.status = "completed", !.stage = "none", !.deferred = "no"])
        /\ Settled([row EXCEPT !.status = "failed", !.deferred = "no"])
    BY Zenon, <2>1, <2>2 DEF Settled
  <2>. QED
    BY Zenon, <1>1, <1>2, <1>3, <1>4, <1>8, <2>3 DEF StopEnds, Over
<1>. QED
  BY Zenon, <1>2, <1>5, <1>6, <1>7, <1>8

(* failAndStopRunner returns.                                              *)
LEMMA ForceReturns ==
  ASSUME Base, FinishForce
  PROVE  /\ holder \in {"force"} \X {"timeout", "recovery"} /\ row.status = "stopping"
         /\ \E s \in SandboxStop : Over(s) /\ Settled(row')
<1>1. row \in Row /\ holder \in {"force"} \X {"timeout", "recovery"} /\ row.status = "stopping"
  <2>1. holder \in {"force"} \X {"timeout", "recovery"} => holder # Free
    BY DEF Free
  <2>. QED
    BY Zenon, <2>1, TheRow DEF FinishForce, Base, Held
<1>2. PICK s \in SandboxStop, g \in GitHubCleanup :
         /\ StopsWith(s)
         /\ PersistOrLog(
              IF s # "ok" THEN [row EXCEPT !.status = "failed", !.stage = "stop"]
              ELSE IF CleanupRetries(row, g) THEN CleanupRetry(row)
              ELSE [row EXCEPT !.status = "failed", !.lease = FALSE,
                               !.stage = IF g = "ok" THEN @ ELSE "cleanup"])
         /\ GivesUp(s)
  BY Zenon DEF FinishForce
<1>3. holder' = Free /\ phase' \in {"up", phase} /\ UNCHANGED <<starts, watch, loops, github, crashes>>
  BY Zenon DEF FinishForce
<1>4. row.stage \in Stage /\ "stop" \in Stage /\ "cleanup" \in Stage
  BY Zenon, <1>1, RowFields DEF Stage
<1>5. [row EXCEPT !.status = "failed", !.lease = FALSE, !.stage = IF g = "ok" THEN @ ELSE "cleanup"]
      \in {[row EXCEPT !.status = "failed", !.lease = FALSE, !.stage = row.stage],
           [row EXCEPT !.status = "failed", !.lease = FALSE, !.stage = "cleanup"]}
  BY Zenon, <1>1 DEF Row
<1>6. /\ Settled(row) /\ Settled(CleanupRetry(row))
      /\ Settled([row EXCEPT !.status = "failed", !.stage = "stop"])
      /\ Settled([row EXCEPT !.status = "failed", !.lease = FALSE, !.stage = row.stage])
      /\ Settled([row EXCEPT !.status = "failed", !.lease = FALSE, !.stage = "cleanup"])
  BY Zenon, <1>1, <1>4, SettledRows
<1>7. \A r : PersistOrLog(r) /\ Settled(r) => fresh' \in {fresh, {}} /\ Settled(row')
  <2>1. Settled(row)
    BY Zenon, <1>6
  <2>. QED
    BY Zenon, <2>1 DEF PersistOrLog, Persist, Settled
<1>8. fresh' \in {fresh, {}} /\ Settled(row')
  BY Zenon, <1>2, <1>5, <1>6, <1>7
<1>. QED
  BY Zenon, <1>1, <1>2, <1>3, <1>8 DEF Over

(* A runner that ended without a job sends the request back to the queue,  *)
(* or fails it.                                                            *)
Released(s) ==
    \E st \in {"queued", "failed"} :
        Reads(s, st, 0, FALSE, row.assigned, IF st = "queued" THEN "none" ELSE row.term)

(* retryRunnerExitedWithoutJob does so, or nothing.                        *)
LEMMA ReleasedRow ==
  ASSUME Base, NEW c \in Row, c.assigned = row.assigned, c.term = row.term
  PROVE  ExitedWithoutJob(c) = c \/ Released(ExitedWithoutJob(c))
<1>. DEFINE f == ApplyFailure(c, "retryable", "exit")
<1>1. PICK st \in {"queued", "failed"} : Reads(f, st, 0, FALSE, row.assigned, row.term)
  BY Zenon, FailureRow DEF Stage, Failure
<1>. HIDE DEF f
<1>2. CASE HasJob /\ c.assigned = "none"
  <2>1. ExitedWithoutJob(c) = [f EXCEPT !.term = IF f.status = "queued" THEN "none" ELSE @]
    BY Zenon, <1>2 DEF ExitedWithoutJob, f
  <2>2. Reads([f EXCEPT !.term = IF f.status = "queued" THEN "none" ELSE @], st, 0, FALSE, row.assigned,
              IF st = "queued" THEN "none" ELSE row.term)
    BY ZenonT(30), <1>1 DEF Reads, Row
  <2>. QED
    BY Zenon, <2>1, <2>2 DEF Released
<1>. QED
  BY Zenon, <1>2 DEF ExitedWithoutJob

(* runnerExitedForAttempt returns.                                         *)
LEMMA ExitReturns ==
  ASSUME Base, FinishExit
  PROVE  /\ holder \in {"exit"} \X {"zero", "nonzero", "error"} /\ row.status = "stopping"
         /\ \E s \in SandboxStop : Over(s) /\ (Settled(row') \/ (s = "ok" /\ Released(row')))
<1>1. row \in Row /\ holder \in {"exit"} \X {"zero", "nonzero", "error"} /\ row.status = "stopping"
  <2>1. holder \in {"exit"} \X {"zero", "nonzero", "error"} => holder # Free
    BY DEF Free
  <2>. QED
    BY Zenon, <2>1, TheRow DEF FinishExit, Base, Held
<1>2. PICK s \in SandboxStop, g \in GitHubCleanup :
         StopsWith(s) /\ PersistOrLog(ExitOutcome(holder[2], s, g)) /\ GivesUp(s)
  BY Zenon DEF FinishExit
<1>3. holder' = Free /\ phase' \in {"up", phase} /\ UNCHANGED <<starts, watch, loops, github, crashes>>
  BY Zenon DEF FinishExit
<1>. DEFINE closed == [row EXCEPT !.status = IF holder[2] = "zero" /\ s = "ok" THEN "completed" ELSE "failed"]
<1>4. Settled(closed) /\ closed \in Row /\ closed.assigned = row.assigned /\ closed.term = row.term
  <2>1. PICK st \in {"completed", "failed"} : closed = [row EXCEPT !.status = st]
    BY Zenon
  <2>. HIDE DEF closed
  <2>2. Reads(closed, st, row.sbx, row.lease, row.assigned, row.term)
    BY Zenon, <1>1, <2>1 DEF Reads, Row, Status
  <2>. QED
    BY Zenon, <2>2 DEF Settled, Reads
<1>5. Settled(row) /\ Settled(CleanupRetry(row))
  BY Zenon, <1>1, SettledRows DEF Stage
<1>6. Settled([row EXCEPT !.status = "failed", !.stage = IF holder[2] = "error" THEN @ ELSE "cleanup"])
  <2>1. row.stage \in Stage /\ "cleanup" \in Stage
    BY Zenon, <1>1, RowFields DEF Stage
  <2>2. PICK t \in Stage : [row EXCEPT !.status = "failed", !.stage = IF holder[2] = "error" THEN @ ELSE "cleanup"]
                           = [row EXCEPT !.status = "failed", !.stage = t]
    BY Zenon, <1>1, <2>1 DEF Row
  <2>. QED
    BY Zenon, <1>1, <2>2, SettledRows
<1>7. ExitedWithoutJob(closed) = closed \/ Released(ExitedWithoutJob(closed))
  BY Zenon, <1>4, ReleasedRow
<1>8. Settled(ExitOutcome(holder[2], s, g)) \/ (s = "ok" /\ Released(ExitOutcome(holder[2], s, g)))
  BY Zenon, <1>4, <1>5, <1>6, <1>7 DEF ExitOutcome
<1>9. fresh' \in {fresh, {}} /\ (Settled(row') \/ (s = "ok" /\ Released(row')))
  BY ZenonT(30), <1>2, <1>5, <1>8 DEF PersistOrLog, Persist, Settled, Released
<1>. QED
  BY Zenon, <1>1, <1>2, <1>3, <1>9 DEF Over

(* A handler that returns keeps the base.                                  *)
LEMMA OverBase ==
  ASSUME Base, NEW s \in SandboxStop, Over(s), row' \in Row, row'.sbx \in {0, row.sbx}
  PROVE  Base'
<1>1. /\ sandbox' \in [Attempt -> {"none", "live", "gone"}]
      /\ process' \in [Attempt -> {"none", "idle", "own", "other", "exited"}]
      /\ \A c \in Attempt : sandbox'[c] = sandbox[c] \/ (c = row.sbx /\ sandbox'[c] = "gone")
      /\ abandoned' \subseteq Attempt
  BY Zenon, StopCalled DEF Over
<1>2. /\ UNCHANGED <<start, before, watch, saw, mismatch, job, sent, crashes>>
      /\ holder' = Free /\ phase' \in {"up", phase} /\ fresh' \in {fresh, {}}
  BY Zenon DEF Over, starts, loops, github
<1>3. Free \in Holder
  BY Zenon DEF Holder
<1>4. TypeOK'
  BY Zenon, <1>1, <1>2, <1>3 DEF Base, TypeOK
<1>5. \A b \in Attempt : b # 0
  BY LifecycleConstants DEF Attempt
<1>6. Begun'
  BY Zenon, <1>1, <1>2, <1>5 DEF Base, Begun
<1>. QED
  BY Zenon, <1>2, <1>4, <1>6 DEF Base, Held

(* A handler that writes the row and holds the lock, as far as it goes.    *)
Kept == row' = row /\ holder' = holder

(* The holder a handler leaves has its place among the handlers.           *)
LEMMA Holders ==
  /\ Free \in Holder
  /\ \A j \in {"none", "own", "other"} : <<"stop", j>> \in Holder /\ <<"stop", j>> # Free
  /\ \A s \in {"timeout", "recovery"} : <<"force", s>> \in Holder /\ <<"force", s>> # Free
  /\ \A c \in {"zero", "nonzero", "error"} : <<"exit", c>> \in Holder /\ <<"exit", c>> # Free
BY DEF Holder, Free

(* What stopRunner and failAndStopRunner do to the row keeps the base.     *)
LEMMA StopBase ==
  ASSUME Base, holder = Free, Calm, mismatch' \in BOOLEAN, phase' \in {"up", phase},
         saw' \in [Loops -> {"none", "idle", "unused"} \cup InFlightStatus],
         \/ \E j \in {"none", "own", "other"}, ours \in BOOLEAN : StopRunner(j, ours)
         \/ \E s \in {"timeout", "recovery"} : ForceStop(s)
  PROVE  Base' /\ Orderly(row, row')
<1>1. CASE \E j \in {"none", "own", "other"}, ours \in BOOLEAN : StopRunner(j, ours)
  <2>1. PICK j \in {"none", "own", "other"}, ours \in BOOLEAN : StopRunner(j, ours)
    BY Zenon, <1>1
  <2>2. /\ fresh' \subseteq {Reconciler} \cup Attempt /\ row' \in Row /\ row'.sbx = row.sbx
        /\ holder' \in Holder /\ (holder' # Free => row'.status = "stopping")
    BY Zenon, <2>1, Stops, TheRow, Holders DEF Reads, Base, TypeOK
  <2>3. Orderly(row, row')
    BY Zenon, <2>1, Stops DEF Reads, Orderly
  <2>. QED
    BY Zenon, <2>2, <2>3, CalmBase
<1>2. CASE \E s \in {"timeout", "recovery"} : ForceStop(s)
  <2>1. PICK s \in {"timeout", "recovery"} : ForceStop(s)
    BY Zenon, <1>2
  <2>2. /\ fresh' \subseteq {Reconciler} \cup Attempt /\ row' \in Row /\ row'.sbx = row.sbx
        /\ holder' \in Holder /\ (holder' # Free => row'.status = "stopping")
    BY ZenonT(30), <2>1, Forces, TheRow, Holders DEF Reads, Base, TypeOK
  <2>3. Orderly(row, row')
    BY Zenon, <2>1, Forces DEF Reads, Orderly
  <2>. QED
    BY Zenon, <2>2, <2>3, CalmBase
<1>. QED
  BY Zenon, <1>1, <1>2

(* A tick of a loop: what it does depends on what it listed.               *)
LEMMA Looped ==
  ASSUME Base, NEW l \in Loops, LoopNext(l)
  PROVE  /\ Calm /\ phase' = phase /\ phase = "up" /\ mismatch' = mismatch
         /\ \E x \in {"none", "idle", "unused"} \cup InFlightStatus :
              /\ saw' = [saw EXCEPT ![l] = x]
              /\ l = "sweeper" \/ x \in {"none", "stopping"} \/ saw[l] = "idle"
         /\ \/ Kept /\ fresh' = fresh
            \/ holder = Free /\ StopRunner("none", FALSE)
            \/ holder = Free /\ saw[l] \in {"running", "idle"} /\ ForceStop("timeout")
            \/ holder = Free /\ saw[l] = "creating" /\ RetryOrFail /\ holder' = holder
            \/ /\ holder = Free /\ saw[l] = "idle" /\ row.assigned = "none" /\ holder' = holder
               /\ row.status \notin {"completed", "stopping"} /\ fresh' = {}
               /\ Reads(row', row.status, row.sbx, row.lease, "marker", row.term)
<1>1. CASE List(l)
  <2>1. row.status \in InFlightStatus /\ (l # "sweeper" => row.status = "stopping")
    BY Zenon, <1>1 DEF List, InFlightStatus
  <2>. QED
    BY Zenon, <1>1, <2>1 DEF List, Calm, Kept, Up
<1>2. CASE SweepCreating(l)
  BY Zenon, <1>2 DEF SweepCreating, Calm, Locked
<1>3. CASE SweepRunning(l)
  BY Zenon, <1>3 DEF SweepRunning, Calm, Locked
<1>4. CASE SweepStopping(l)
  BY Zenon, <1>4 DEF SweepStopping, Calm, Locked
<1>5. CASE SweepAsk(l)
  <2>1. CASE row' = [row EXCEPT !.assigned = "marker"] /\ row.assigned = "none" /\ fresh' = {}
             /\ row.status \notin {"completed", "stopping"}
    <3>1. Reads(row', row.status, row.sbx, row.lease, "marker", row.term)
      BY ZenonT(30), <2>1 DEF Base, TypeOK, Reads, Row
    <3>. QED
      BY Zenon, <1>5, <2>1, <3>1 DEF SweepAsk, Calm, Locked
  <2>2. CASE UNCHANGED <<row, fresh>>
    BY Zenon, <1>5, <2>2 DEF SweepAsk, Calm, Kept, Locked
  <2>. QED
    BY Zenon, <1>5, <2>1, <2>2 DEF SweepAsk, PersistOrLog, Persist
<1>6. CASE SweepIdle(l)
  BY Zenon, <1>6 DEF SweepIdle, Calm, Locked
<1>7. CASE SweepNothing(l)
  BY Zenon, <1>7 DEF SweepNothing, Calm, Kept, Up
<1>. QED
  BY Zenon, <1>1, <1>2, <1>3, <1>4, <1>5, <1>6, <1>7 DEF LoopNext

(* retryOrFail.                                                            *)
LEMMA RetriedOrFailed ==
  ASSUME Base, RetryOrFail
  PROVE  /\ fresh' \in {fresh, {}}
         /\ \/ row' = row
            \/ /\ row.status \notin {"completed", "failed"}
               /\ \E st \in {"queued", "failed"} : Reads(row', st, 0, FALSE, row.assigned, row.term)
<1>1. \E st \in {"queued", "failed"} :
        Reads(ApplyFailure(row, "retryable", "start"), st, 0, FALSE, row.assigned, row.term)
  BY Zenon, TheRow, FailureRow DEF Stage, Failure
<1>. QED
  BY Zenon, <1>1 DEF RetryOrFail, PersistOrLog, Persist

(* A tick of a loop keeps the base and writes the row in order.            *)
LEMMA LoopedBase ==
  ASSUME Base, NEW l \in Loops, LoopNext(l)
  PROVE  Base' /\ Orderly(row, row')
<1>1. /\ Calm /\ phase' \in {"up", phase} /\ mismatch' \in BOOLEAN
      /\ saw' \in [Loops -> {"none", "idle", "unused"} \cup InFlightStatus]
  <2>1. mismatch \in BOOLEAN /\ saw \in [Loops -> {"none", "idle", "unused"} \cup InFlightStatus]
    BY Zenon DEF Base, TypeOK
  <2>2. PICK x \in {"none", "idle", "unused"} \cup InFlightStatus : saw' = [saw EXCEPT ![l] = x]
    BY Zenon, Looped
  <2>3. saw' \in [Loops -> {"none", "idle", "unused"} \cup InFlightStatus]
    BY <2>1, <2>2
  <2>. QED
    BY Zenon, <2>1, <2>3, Looped
<1>2. CASE holder = Free /\ StopRunner("none", FALSE)
  BY Zenon, <1>1, <1>2, StopBase
<1>3. CASE holder = Free /\ ForceStop("timeout")
  BY Zenon, <1>1, <1>3, StopBase
<1>4. CASE holder = Free /\ RetryOrFail /\ holder' = holder
  <2>1. row' \in Row /\ row'.sbx \in {0, row.sbx} /\ fresh' \subseteq {Reconciler} \cup Attempt
    BY Zenon, <1>4, RetriedOrFailed, TheRow DEF Reads, Base, TypeOK
  <2>2. Orderly(row, row')
    BY Zenon, <1>4, RetriedOrFailed DEF Reads, Orderly
  <2>. QED
    BY Zenon, <1>1, <1>4, <2>1, <2>2, CalmBase, Holders
<1>5. CASE /\ holder = Free /\ holder' = holder /\ row.status \notin {"completed", "stopping"} /\ fresh' = {}
           /\ Reads(row', row.status, row.sbx, row.lease, "marker", row.term)
  <2>1. row' \in Row /\ row'.sbx = row.sbx /\ fresh' \subseteq {Reconciler} \cup Attempt /\ Orderly(row, row')
    BY Zenon, <1>5 DEF Reads, Orderly
  <2>. QED
    BY Zenon, <1>1, <1>5, <2>1, CalmBase, Holders
<1>6. CASE Kept /\ fresh' = fresh
  <2>1. /\ row' \in Row /\ row'.sbx = row.sbx /\ fresh' \subseteq {Reconciler} \cup Attempt
        /\ holder' \in Holder /\ (holder' # Free => row'.status = "stopping") /\ Orderly(row, row')
    BY Zenon, <1>6, TheRow DEF Kept, Orderly, Base, TypeOK, Held
  <2>. QED
    BY Zenon, <1>1, <2>1, CalmBase
<1>. QED
  BY Zenon, <1>2, <1>3, <1>4, <1>5, <1>6, Looped

(* A step of a handler that takes the lock only for itself.                *)
Brief ==
    /\ Calm /\ saw' = saw /\ mismatch' \in BOOLEAN /\ phase' = phase /\ phase = "up"
    /\ holder' = holder /\ holder = Free /\ fresh' \subseteq {Reconciler} \cup Attempt

(* Such a step keeps the base, provided the row it writes names no new     *)
(* sandbox.                                                                *)
LEMMA BriefBase ==
  ASSUME Base, Brief, row' \in Row, row'.sbx \in {0, row.sbx}
  PROVE  Base'
<1>1. /\ Calm /\ saw' \in [Loops -> {"none", "idle", "unused"} \cup InFlightStatus]
      /\ mismatch' \in BOOLEAN /\ phase' \in {"up", phase} /\ holder' \in Holder /\ holder' = Free
      /\ fresh' \subseteq {Reconciler} \cup Attempt
  BY Zenon, Holders DEF Base, TypeOK, Brief
<1>. QED
  BY Zenon, <1>1, CalmBase

(* reconcileMismatchedCompletedJobs and completeIfWorkflowJobCompleted.    *)
LEMMA Reconciled ==
  ASSUME Base, ReconcileNext
  PROVE  /\ Brief
         /\ \/ row' = row
            \/ /\ row.status = "completed" /\ row.assigned = "other"
               /\ \/ Reads(row', "queued", 0, FALSE, "none", "none")
                  \/ Reads(row', "completed", row.sbx, row.lease, "none", row.term)
            \/ row.status = "failed" /\ Reads(row', "completed", row.sbx, FALSE, "none", row.term)
<1>0. row \in Row /\ fresh \subseteq {Reconciler} \cup Attempt /\ mismatch \in BOOLEAN
  BY Zenon DEF Base, TypeOK
<1>1. CASE ReconcileMismatch
  <2>1. Reads(AsNew(row), "queued", 0, FALSE, "none", "none")
    BY Zenon, <1>0, NewRow
  <2>2. Reads([row EXCEPT !.assigned = "none"], row.status, row.sbx, row.lease, "none", row.term)
    BY Zenon, <1>0 DEF Reads, Row
  <2>3. Brief
    BY Zenon, <1>0, <1>1 DEF ReconcileMismatch, PersistOrLog, Persist, Brief, Calm, Locked
  <2>. QED
    BY Zenon, <1>1, <2>1, <2>2, <2>3 DEF ReconcileMismatch, Mismatched, PersistOrLog, Persist
<1>2. CASE ReadFailed
  BY Zenon, <1>0, <1>2 DEF ReadFailed, Brief, Calm, Locked, loops
<1>3. CASE CompleteFailed
  <2>1. Reads(row', "completed", row.sbx, FALSE, "none", row.term)
    BY ZenonT(30), <1>0, <1>3 DEF CompleteFailed, Persist, Reads, Row, Status, Stage
  <2>. QED
    BY Zenon, <1>0, <1>3, <2>1 DEF CompleteFailed, Persist, Brief, Calm, Locked, Reclaimable, loops
<1>. QED
  BY Zenon, <1>1, <1>2, <1>3 DEF ReconcileNext

(* The reconciler keeps the base and writes the row in order.              *)
LEMMA ReconciledBase ==
  ASSUME Base, ReconcileNext
  PROVE  Base' /\ Orderly(row, row')
<1>1. row' \in Row /\ row'.sbx \in {0, row.sbx}
  BY Zenon, Reconciled, TheRow DEF Reads
<1>2. Orderly(row, row')
  BY Zenon, Reconciled DEF Reads, Orderly
<1>. QED
  BY Zenon, <1>1, <1>2, Reconciled, BriefBase

(* Webhooks, the runner's output and the administrator.                    *)
LEMMA Requested ==
  ASSUME Base, RequestNext \/ \E a \in Attempt : JobStarted(a)
  PROVE  \/ /\ Brief /\ row.status \notin {"completed", "stopping"}
            /\ \E j \in {"own", "other", "marker"} :
                 /\ Reads(row', row.status, row.sbx, row.lease, j, row.term)
                 /\ j = "other" => <<"other", "started">> \in sent
         \/ /\ Brief /\ Administrator /\ row.status \in {"failed", "queued"}
            /\ Reads(row', "queued", 0, FALSE, "none", "none")
         \/ /\ Calm /\ saw' = saw /\ mismatch' = mismatch /\ phase' = phase /\ phase = "up" /\ holder = Free
            /\ \E j \in {"none", "own", "other"}, ours \in BOOLEAN :
                 /\ StopRunner(j, ours)
                 /\ j = "none" => Administrator
                 /\ j = "other" => <<"other", "done">> \in sent
<1>0. row \in Row /\ fresh \subseteq {Reconciler} \cup Attempt /\ mismatch \in BOOLEAN
  BY Zenon DEF Base, TypeOK
<1>1. \A j \in {"none", "marker", "own", "other"} :
        Reads([row EXCEPT !.assigned = j], row.status, row.sbx, row.lease, j, row.term)
  BY Zenon, <1>0 DEF Reads, Row
<1>2. ASSUME NEW j \in {"own", "other"}, JobInProgress(j)
      PROVE  /\ Brief /\ row.status \notin {"completed", "stopping"}
             /\ Reads(row', row.status, row.sbx, row.lease, j, row.term) /\ <<j, "started">> \in sent
  BY Zenon, <1>0, <1>1, <1>2 DEF JobInProgress, Persist, Brief, Calm, Locked, loops
<1>3. ASSUME NEW j \in {"own", "other"}, JobCompleted(j)
      PROVE  /\ Calm /\ saw' = saw /\ mismatch' = mismatch /\ phase' = phase /\ phase = "up" /\ holder = Free
             /\ \E ours \in BOOLEAN : StopRunner(j, ours)
             /\ j = "other" => <<"other", "done">> \in sent
  BY Zenon, <1>3 DEF JobCompleted, Calm, Locked, loops
<1>4. ASSUME NEW a \in Attempt, JobStarted(a)
      PROVE  /\ Brief /\ row.status \notin {"completed", "stopping"}
             /\ Reads(row', row.status, row.sbx, row.lease, "marker", row.term)
  BY Zenon, <1>0, <1>1, <1>4 DEF JobStarted, Persist, Brief, Calm, Locked, loops
<1>5. CASE ManualStop
  <2>1. /\ Calm /\ saw' = saw /\ mismatch' = mismatch /\ phase' = phase /\ phase = "up" /\ holder = Free
        /\ StopRunner("none", FALSE) /\ Administrator
    BY Zenon, <1>5 DEF ManualStop, Calm, Locked, loops
  <2>. QED
    BY Zenon, <2>1
<1>6. CASE RetryRequest
  <2>1. row.status \in {"failed", "queued"}
    BY Zenon, <1>6 DEF RetryRequest
  <2>2. holder = Free
    BY Zenon, <2>1 DEF Base, Held
  <2>3. Reads(AsNew(row), "queued", 0, FALSE, "none", "none")
    BY Zenon, <1>0, NewRow
  <2>. QED
    BY Zenon, <1>0, <1>6, <2>1, <2>2, <2>3 DEF RetryRequest, Persist, Brief, Calm, Up, loops
<1>. QED
  BY Zenon, <1>2, <1>3, <1>4, <1>5, <1>6 DEF RequestNext

(* Webhooks, the runner's output and the administrator do, too.            *)
LEMMA RequestedBase ==
  ASSUME Base, RequestNext \/ \E a \in Attempt : JobStarted(a)
  PROVE  Base' /\ Orderly(row, row')
<1>1. CASE /\ Brief /\ row.status \notin {"completed", "stopping"}
           /\ \E j \in {"own", "other", "marker"} : Reads(row', row.status, row.sbx, row.lease, j, row.term)
  <2>1. row' \in Row /\ row'.sbx \in {0, row.sbx} /\ Orderly(row, row')
    BY Zenon, <1>1 DEF Reads, Orderly
  <2>. QED
    BY Zenon, <1>1, <2>1, BriefBase
<1>2. CASE /\ Brief /\ row.status \in {"failed", "queued"} /\ Reads(row', "queued", 0, FALSE, "none", "none")
  <2>1. row' \in Row /\ row'.sbx \in {0, row.sbx} /\ Orderly(row, row')
    BY Zenon, <1>2 DEF Reads, Orderly
  <2>. QED
    BY Zenon, <1>2, <2>1, BriefBase
<1>3. CASE /\ Calm /\ saw' = saw /\ mismatch' = mismatch /\ phase' = phase /\ phase = "up" /\ holder = Free
           /\ \E j \in {"none", "own", "other"}, ours \in BOOLEAN : StopRunner(j, ours)
  <2>1. /\ mismatch' \in BOOLEAN /\ phase' \in {"up", phase}
        /\ saw' \in [Loops -> {"none", "idle", "unused"} \cup InFlightStatus]
    BY Zenon, <1>3 DEF Base, TypeOK
  <2>. QED
    BY Zenon, <1>3, <2>1, StopBase
<1>. QED
  BY Zenon, <1>1, <1>2, <1>3, Requested

(* A step that starts nothing and ends sandboxes at most.                  *)
Quiet ==
    /\ UNCHANGED <<starts, watch, abandoned, loops, crashes>>
    /\ fresh' \in {fresh, {}} /\ phase' \in {"up", phase} /\ holder' = holder
    /\ row' \in Row /\ row'.sbx \in {0, row.sbx}
    /\ sandbox' \in [Attempt -> {"none", "live", "gone"}]
    /\ process' \in [Attempt -> {"none", "idle", "own", "other", "exited"}]
    /\ \A c \in Attempt : sandbox'[c] = sandbox[c] \/ (sandbox[c] = "live" /\ sandbox'[c] = "gone")
    /\ job' \in {"none", "waiting", "queued", "in_progress", "completed"}
    /\ sent' \subseteq {<<"own", "started">>, <<"own", "ours">>, <<"other", "started">>, <<"other", "done">>}

(* Such a step keeps the base.                                             *)
LEMMA QuietBase ==
  ASSUME Base, Quiet, holder = Free \/ row' = row
  PROVE  Base'
<1>1. UNCHANGED <<start, before, watch, abandoned, saw, mismatch, crashes, holder>>
  BY Zenon DEF Quiet, starts, loops
<1>2. TypeOK'
  BY Zenon, <1>1 DEF Base, TypeOK, Quiet
<1>3. \A b \in Attempt : b # 0
  BY LifecycleConstants DEF Attempt
<1>4. Begun'
  BY ZenonT(30), <1>1, <1>3 DEF Base, Begun, Quiet
<1>5. Held'
  BY Zenon, <1>1 DEF Base, Held
<1>. QED
  BY Zenon, <1>2, <1>4, <1>5 DEF Base

(* GitHub and the provider: another job is given only where there are any. *)
LEMMA WorldMoved ==
  ASSUME Base, WorldNext
  PROVE  /\ Quiet /\ row' = row /\ UNCHANGED <<fresh, phase>>
         /\ \A c \in Attempt : process'[c] = "other" => process[c] = "other" \/ OtherJobs
         /\ \A x \in {"started", "done"} : <<"other", x>> \in sent' =>
              <<"other", x>> \in sent \/ OtherJobs \/ \E c \in Attempt : process[c] = "other"
<1>0. /\ row \in Row /\ row.sbx \in {0, row.sbx}
      /\ start \in [Attempt -> StartState]
      /\ sandbox \in [Attempt -> {"none", "live", "gone"}]
      /\ process \in [Attempt -> {"none", "idle", "own", "other", "exited"}]
      /\ job \in {"none", "waiting", "queued", "in_progress", "completed"}
      /\ sent \subseteq {<<"own", "started">>, <<"own", "ours">>, <<"other", "started">>, <<"other", "done">>}
  BY Zenon DEF Base, TypeOK
<1>1. ASSUME NEW a \in Attempt, ProcessExits(a)
      PROVE  /\ Quiet /\ row' = row /\ UNCHANGED <<fresh, phase>>
             /\ \A c \in Attempt : process'[c] = "other" => process[c] = "other"
             /\ \A x \in {"started", "done"} : <<"other", x>> \in sent' =>
                  <<"other", x>> \in sent \/ process[a] = "other"
  <2>1. /\ process' = [process EXCEPT ![a] = "exited"] /\ job' \in {job, "completed"}
        /\ sent' = sent \cup IF process[a] = "other" THEN {<<"other", "done">>} ELSE {}
        /\ UNCHANGED <<row, starts, fresh, sandbox, watch, abandoned, holder, loops, phase, crashes>>
    BY Zenon, <1>1 DEF ProcessExits
  <2>2. /\ process' \in [Attempt -> {"none", "idle", "own", "other", "exited"}]
        /\ \A c \in Attempt : process'[c] = "other" => process[c] = "other"
    BY <1>0, <2>1
  <2>. QED
    BY Zenon, <1>0, <2>1, <2>2 DEF Quiet
<1>2. ASSUME NEW a \in Attempt, SandboxExpires(a)
      PROVE  /\ Quiet /\ row' = row /\ UNCHANGED <<fresh, phase, sent>>
             /\ \A c \in Attempt : process'[c] = "other" => process[c] = "other"
  <2>1. /\ sandbox' \in [Attempt -> {"none", "live", "gone"}]
        /\ process' \in [Attempt -> {"none", "idle", "own", "other", "exited"}]
        /\ \A c \in Attempt : sandbox'[c] = sandbox[c] \/ (sandbox[c] = "live" /\ sandbox'[c] = "gone")
        /\ \A c \in Attempt : process'[c] \in {process[c], "exited"}
    BY Zenon, <1>2, Killed DEF SandboxExpires
  <2>. QED
    BY Zenon, <1>0, <1>2, <2>1 DEF SandboxExpires, Quiet, github
<1>3. ASSUME NEW a \in Attempt, NEW j \in {"own", "other"}, TakeJob(a, j)
      PROVE  /\ Quiet /\ row' = row /\ UNCHANGED <<fresh, phase>>
             /\ \A c \in Attempt : process'[c] = "other" => process[c] = "other" \/ OtherJobs
             /\ \A x \in {"started", "done"} : <<"other", x>> \in sent' => <<"other", x>> \in sent \/ OtherJobs
  <2>1. /\ process' = [process EXCEPT ![a] = j] /\ job' \in {job, "in_progress"} /\ (j = "own" \/ OtherJobs)
        /\ sent' = sent \cup IF j = "own" THEN {<<"own", "started">>, <<"own", "ours">>}
                             ELSE {<<"other", "started">>}
        /\ UNCHANGED <<row, starts, fresh, sandbox, watch, abandoned, holder, loops, phase, crashes>>
    BY Zenon, <1>3 DEF TakeJob
  <2>2. /\ process' \in [Attempt -> {"none", "idle", "own", "other", "exited"}]
        /\ \A c \in Attempt : process'[c] = "other" => process[c] = "other" \/ OtherJobs
    BY <1>0, <2>1
  <2>3. \A x : <<"other", x>> \notin {<<"own", "started">>, <<"own", "ours">>}
    BY SMT
  <2>. QED
    BY Zenon, <1>0, <2>1, <2>2, <2>3 DEF Quiet
<1>4. ASSUME JobMoves
      PROVE  /\ Quiet /\ row' = row /\ UNCHANGED <<fresh, phase, process>>
             /\ \A x \in {"started", "done"} : <<"other", x>> \in sent' => <<"other", x>> \in sent
  <2>1. \A x : <<"other", x>> # <<"own", "started">>
    BY SMT
  <2>. QED
    BY Zenon, <1>0, <1>4, <2>1 DEF JobMoves, Quiet, provider
<1>. QED
  BY Zenon, <1>1, <1>2, <1>3, <1>4 DEF WorldNext

(* A crash leaves the row and what the provider has.                       *)
LEMMA Crashed ==
  ASSUME Base, Crash
  PROVE  /\ Base' /\ UNCHANGED <<row, process, abandoned, github>>
         /\ crashes' > 0 /\ phase' = "recovering" /\ holder' = Free /\ saw' = [l \in Loops |-> "none"]
         /\ \A a \in Attempt : start'[a] = IF start[a] = "idle" THEN "idle" ELSE "done"
         /\ \A a \in Attempt : watch'[a] = "none"
         /\ \A a \in Attempt : sandbox'[a] = sandbox[a] \/ (start[a] = "starting" /\ sandbox'[a] = "live")
<1>1. crashes' \in 0 .. MaxCrashes /\ crashes' > 0
  <2>1. crashes \in 0 .. MaxCrashes
    BY Zenon DEF Base, TypeOK
  <2>. QED
    BY <2>1, LifecycleConstants DEF Crash
<1>2. /\ start' \in [Attempt -> StartState] /\ before' \in [Attempt -> {0} \cup Attempt]
      /\ watch' \in [Attempt -> {"none", "armed", "nonzero", "error"}]
      /\ \A a \in Attempt : start'[a] = IF start[a] = "idle" THEN "idle" ELSE "done"
      /\ \A a \in Attempt : watch'[a] = "none"
      /\ saw' \in [Loops -> {"none", "idle", "unused"} \cup InFlightStatus]
  BY DEF Crash, StartState
<1>3. /\ sandbox' \in [Attempt -> {"none", "live", "gone"}]
      /\ \A a \in Attempt : sandbox'[a] = sandbox[a] \/ (start[a] = "starting" /\ sandbox'[a] = "live")
  <2>1. sandbox \in [Attempt -> {"none", "live", "gone"}]
    BY Zenon DEF Base, TypeOK
  <2>2. PICK landed \in SUBSET {a \in Attempt : start[a] = "starting"} :
         sandbox' = [a \in Attempt |-> IF a \in landed THEN "live" ELSE sandbox[a]]
    BY Zenon DEF Crash
  <2>. QED
    BY <2>1, <2>2
<1>4. UNCHANGED <<row, process, abandoned, github>> /\ holder' = Free /\ phase' = "recovering" /\ fresh' = {}
      /\ mismatch' = FALSE /\ saw' = [l \in Loops |-> "none"]
  BY Zenon DEF Crash
<1>5. TypeOK'
  BY Zenon, <1>1, <1>2, <1>3, <1>4, Holders DEF Base, TypeOK, github
<1>6. Begun'
  BY ZenonT(30), <1>2, <1>3, <1>4 DEF Base, Begun
<1>. QED
  BY Zenon, <1>1, <1>2, <1>3, <1>4, <1>5, <1>6 DEF Base, Held

(* What Recover does: it leaves the row, lets go of a lease, stops, starts *)
(* over, or takes up the one sandbox it found.                             *)
LEMMA Recoveries ==
  ASSUME Base, RecoverNext
  PROVE  /\ phase = "recovering" /\ holder = Free /\ phase' \in {"up", phase}
         /\ UNCHANGED <<starts, abandoned, loops, github, crashes>>
         /\ \/ /\ UNCHANGED <<provider, watch>>
               /\ \/ \E j \in {"none", "own"}, ours \in BOOLEAN : StopRunner(j, ours)
                  \/ \E s \in {"timeout", "recovery"} : ForceStop(s)
            \/ /\ Quiet /\ UNCHANGED provider
               /\ \/ row' = row
                  \/ row.status = "queued" /\ Reads(row', "queued", row.sbx, FALSE, row.assigned, row.term)
                  \/ /\ row.status = "creating" /\ Found = {}
                     /\ Reads(row', "queued", 0, FALSE, row.assigned, row.term)
            \/ /\ Quiet /\ row.status = "creating" /\ \E b \in Attempt : Found = {b} /\ sandbox'[b] = "gone"
               /\ row' = row \/ Reads(row', "queued", 0, FALSE, row.assigned, row.term)
               /\ \A c \in Attempt : process'[c] \in {process[c], "exited"}
            \/ /\ row.status \in {"creating", "running"} /\ UNCHANGED <<provider, holder>> /\ fresh' = {}
               /\ \E b \in Attempt :
                    /\ Found = {b} /\ watch' = [watch EXCEPT ![b] = "armed"]
                    /\ Reads(row', "running", b, FALSE, row.assigned, row.term)
<1>0. /\ row \in Row /\ row.sbx \in {0, row.sbx}
      /\ sandbox \in [Attempt -> {"none", "live", "gone"}]
      /\ process \in [Attempt -> {"none", "idle", "own", "other", "exited"}]
      /\ job \in {"none", "waiting", "queued", "in_progress", "completed"}
      /\ sent \subseteq {<<"own", "started">>, <<"own", "ours">>, <<"other", "started">>, <<"other", "done">>}
  BY Zenon DEF Base, TypeOK
<1>1. CASE RecoverNothing
  BY Zenon, <1>0, <1>1 DEF RecoverNothing, Recovering, Recovered, Quiet, provider, github
<1>2. CASE RecoverQueued
  <2>1. Reads(row', "queued", row.sbx, FALSE, row.assigned, row.term)
    BY ZenonT(30), <1>0, <1>2 DEF RecoverQueued, Persist, Reads, Row
  <2>2. Quiet /\ UNCHANGED provider
    BY Zenon, <1>0, <1>2, <2>1 DEF RecoverQueued, Recovered, Persist, Reads, Quiet, provider, github
  <2>. QED
    BY Zenon, <1>2, <2>1, <2>2 DEF RecoverQueued, Recovering, Recovered, provider
<1>3. CASE RecoverStop
  <2>1. (<<"own", "ours">> \in sent) \in BOOLEAN
    BY SMT
  <2>. QED
    BY Zenon, <1>3, <2>1 DEF RecoverStop, Recovering, Recovered, provider
<1>4. CASE RecoverTimeout
  BY Zenon, <1>4 DEF RecoverTimeout, GoesOn, Recovering, Recovered, provider
<1>5. CASE Reconnect
  <2>1. PICK b \in Attempt :
         /\ Found = {b} /\ watch' = [watch EXCEPT ![b] = "armed"]
         /\ Persist([row EXCEPT !.status = "running", !.sbx = b, !.lease = FALSE,
                                !.creating = IF @ = 0 THEN b ELSE @,
                                !.stage = "none", !.deferred = "no"])
    BY Zenon, <1>5 DEF Reconnect
  <2>2. Reads(row', "running", b, FALSE, row.assigned, row.term)
    BY ZenonT(30), <1>0, <2>1 DEF Persist, Reads, Row, Status, Stage
  <2>. QED
    BY Zenon, <1>5, <2>1, <2>2 DEF Reconnect, GoesOn, Recovering, Recovered, Persist, provider
<1>6. InterruptedCreation => fresh' \in {fresh, {}}
        /\ (row' = row \/ Reads(row', "queued", 0, FALSE, row.assigned, row.term))
  <2>1. Reads([row EXCEPT !.status = "queued", !.sbx = 0, !.lease = FALSE, !.creating = 0, !.stage = "none",
                          !.deferred = "no"], "queued", 0, FALSE, row.assigned, row.term)
    BY ZenonT(30), <1>0 DEF Reads, Row, Status, Stage
  <2>. QED
    BY Zenon, <2>1 DEF InterruptedCreation, PersistOrLog, Persist
<1>7. CASE RecoverMissing
  <2>1. /\ Recovering /\ Found = {} /\ phase' \in {"up", phase}
        /\ UNCHANGED <<starts, provider, watch, loops, github, crashes>>
        /\ \/ ForceStop("recovery")
           \/ row.status = "creating" /\ InterruptedCreation /\ UNCHANGED holder
    BY Zenon, <1>7 DEF RecoverMissing, GoesOn, Recovered
  <2>2. CASE ForceStop("recovery")
    BY Zenon, <2>1, <2>2 DEF Recovering, provider
  <2>3. CASE row.status = "creating" /\ InterruptedCreation /\ UNCHANGED holder
    <3>1. Quiet
      BY Zenon, <1>0, <1>6, <2>1, <2>3 DEF Reads, Quiet, provider, github
    <3>. QED
      BY Zenon, <1>6, <2>1, <2>3, <3>1 DEF Recovering, provider
  <2>. QED
    BY Zenon, <2>1, <2>2, <2>3
<1>8. CASE RecoverUnlaunched
  <2>1. PICK b \in Attempt : Found = {b} /\ Kill(b)
    BY Zenon, <1>8 DEF RecoverUnlaunched
  <2>2. sandbox[b] = "live"
    BY Zenon, <2>1 DEF Found
  <2>3. /\ Recovering /\ phase' \in {"up", phase} /\ row.status = "creating" /\ InterruptedCreation
        /\ UNCHANGED <<starts, watch, abandoned, holder, loops, github, crashes>>
    BY Zenon, <1>8 DEF RecoverUnlaunched, GoesOn, Recovered
  <2>4. /\ sandbox' \in [Attempt -> {"none", "live", "gone"}]
        /\ process' \in [Attempt -> {"none", "idle", "own", "other", "exited"}]
        /\ sandbox'[b] = "gone"
        /\ \A c \in Attempt : sandbox'[c] = sandbox[c] \/ (sandbox[c] = "live" /\ sandbox'[c] = "gone")
        /\ \A c \in Attempt : process'[c] \in {process[c], "exited"}
    BY Zenon, <2>1, <2>2, Killed
  <2>5. Quiet
    BY Zenon, <1>0, <1>6, <2>3, <2>4 DEF Reads, Quiet, github
  <2>. QED
    BY Zenon, <1>6, <2>1, <2>3, <2>4, <2>5 DEF Recovering
<1>. QED
  BY Zenon, <1>1, <1>2, <1>3, <1>4, <1>5, <1>7, <1>8 DEF RecoverNext

(* Recover keeps the base.                                                 *)
LEMMA RecoveriesBase ==
  ASSUME Base, RecoverNext
  PROVE  Base' /\ Orderly(row, row')
<1>1. /\ phase = "recovering" /\ holder = Free /\ phase' \in {"up", phase}
      /\ UNCHANGED <<starts, abandoned, loops, github, crashes>>
  BY Zenon, Recoveries
<1>2. CASE /\ UNCHANGED <<provider, watch>>
           /\ \/ \E j \in {"none", "own"}, ours \in BOOLEAN : StopRunner(j, ours)
              \/ \E s \in {"timeout", "recovery"} : ForceStop(s)
  <2>1. Calm
    BY Zenon, <1>1, <1>2 DEF Calm
  <2>2. mismatch' \in BOOLEAN /\ saw' \in [Loops -> {"none", "idle", "unused"} \cup InFlightStatus]
    BY Zenon, <1>1 DEF Base, TypeOK, loops
  <2>3. \/ \E j \in {"none", "own", "other"}, ours \in BOOLEAN : StopRunner(j, ours)
        \/ \E s \in {"timeout", "recovery"} : ForceStop(s)
    BY Zenon, <1>2
  <2>. QED
    BY Zenon, <1>1, <2>1, <2>2, <2>3, StopBase
<1>3. CASE Quiet /\ (row' = row \/ Reads(row', "queued", row.sbx, FALSE, row.assigned, row.term)
                     \/ Reads(row', "queued", 0, FALSE, row.assigned, row.term))
           /\ (row' = row \/ row.status \in {"queued", "creating"})
  <2>1. Orderly(row, row')
    BY Zenon, <1>3 DEF Reads, Orderly
  <2>. QED
    BY Zenon, <1>1, <1>3, <2>1, QuietBase
<1>4. CASE /\ row.status \in {"creating", "running"} /\ UNCHANGED <<provider, holder>> /\ fresh' = {}
           /\ \E b \in Attempt :
                /\ Found = {b} /\ watch' = [watch EXCEPT ![b] = "armed"]
                /\ Reads(row', "running", b, FALSE, row.assigned, row.term)
  <2>1. PICK b \in Attempt :
                /\ Found = {b} /\ watch' = [watch EXCEPT ![b] = "armed"]
                /\ Reads(row', "running", b, FALSE, row.assigned, row.term)
    BY Zenon, <1>4
  <2>2. sandbox[b] = "live"
    BY Zenon, <2>1 DEF Found
  <2>3. start[b] = "done"
    BY Zenon, <1>1, <2>2 DEF Base, Begun
  <2>4. Orderly(row, row') /\ row' \in Row /\ row'.sbx = b
    BY Zenon, <1>4, <2>1 DEF Reads, Orderly
  <2>5. watch \in [Attempt -> {"none", "armed", "nonzero", "error"}]
    BY Zenon DEF Base, TypeOK
  <2>6. /\ watch' \in [Attempt -> {"none", "armed", "nonzero", "error"}]
        /\ \A c \in Attempt \ {b} : watch'[c] = watch[c]
    BY <2>1, <2>5
  <2>7. UNCHANGED <<start, before, sandbox, process, abandoned, holder, saw, mismatch, job, sent, crashes>>
    BY Zenon, <1>1, <1>4 DEF starts, provider, loops, github
  <2>8. TypeOK'
    BY ZenonT(30), <1>1, <1>4, <2>4, <2>6, <2>7 DEF Base, TypeOK
  <2>9. Begun'
    BY Zenon, <1>1, <2>3, <2>4, <2>6, <2>7 DEF Base, Begun
  <2>. QED
    BY Zenon, <1>1, <2>4, <2>7, <2>8, <2>9 DEF Base, Held
<1>. QED
  BY Zenon, <1>2, <1>3, <1>4, Recoveries

(* A step of startRunner keeps the base.                                   *)
LEMMA StartedBase ==
  ASSUME Base, NEW a \in Attempt, StartNext(a)
  PROVE  Base' /\ Orderly(row, row')
<1>0. row' = row => row' \in Row /\ row'.sbx \in {0, row.sbx} /\ Orderly(row, row')
        /\ (holder = Free \/ row'.status = "stopping")
  BY Zenon, TheRow DEF Orderly, Base, Held
<1>1. CASE Claim(a)
  <2>1. row' \in Row /\ row'.sbx \in {0, row.sbx} /\ Orderly(row, row')
    BY Zenon, <1>1, Claimed DEF Reads, Orderly
  <2>2. holder = Free
    BY Zenon, <1>1, Claimed DEF Base, Held
  <2>. QED
    BY Zenon, <1>1, <2>1, <2>2, Claimed, TurnBase DEF StartState
<1>2. CASE Admit(a)
  <2>1. row' \in Row /\ row'.sbx \in {0, row.sbx} /\ Orderly(row, row') /\ holder = Free
    BY Zenon, <1>0, <1>2, Admitted DEF Reads, Orderly, Admit, Locked
  <2>. QED
    BY Zenon, <1>2, <2>1, Admitted, TurnBase DEF StartState
<1>3. CASE Leave(a)
  <2>1. row' \in Row /\ row'.sbx \in {0, row.sbx} /\ Orderly(row, row') /\ holder = Free
    BY Zenon, <1>3, Left DEF Reads, Orderly, Leave, Locked
  <2>. QED
    BY Zenon, <1>3, <2>1, Left, TurnBase DEF StartState
<1>4. CASE ReadBefore(a) \/ Prepare(a)
  BY Zenon, <1>0, <1>4, Went, TurnBase DEF StartState
<1>5. CASE Check(a)
  <2>1. row' \in Row /\ row'.sbx \in {0, row.sbx} /\ Orderly(row, row')
    BY Zenon, <1>0, <1>5, Checked DEF Reads, Orderly
  <2>. QED
    BY Zenon, <1>5, <2>1, Checked, TurnBase DEF StartState
<1>6. CASE DeferCreating(a)
  <2>1. row' \in Row /\ row'.sbx \in {0, row.sbx} /\ Orderly(row, row')
    BY Zenon, <1>0, <1>6, Deferred DEF Reads, Orderly
  <2>. QED
    BY Zenon, <1>6, <2>1, Deferred, TurnBase DEF StartState
<1>7. CASE FailStart(a)
  <2>1. row' \in Row /\ row'.sbx \in {0, row.sbx} /\ Orderly(row, row')
    BY Zenon, <1>0, <1>7, FailedStart DEF Reads, Orderly
  <2>. QED
    BY Zenon, <1>7, <2>1, FailedStart, TurnBase DEF StartState
<1>8. CASE CreateSandbox(a) \/ LaunchRunner(a) \/ StartFails(a) \/ Discard(a)
  <2>1. \E pc \in StartState \ {"idle"} : Handles(a, pc) /\ start[a] \in {"starting", "provisioned", "discard"}
    BY Zenon, <1>8, Handled DEF StartState
  <2>2. row' = row
    BY Zenon, <2>1 DEF Handles
  <2>. QED
    BY Zenon, <1>0, <2>1, <2>2, HandlesBase
<1>9. CASE Adopt(a)
  <2>1. Orderly(row, row')
    BY Zenon, <1>0, <1>9, Adopted DEF Reads, Orderly
  <2>. QED
    BY Zenon, <1>9, <2>1, AdoptedBase
<1>. QED
  BY Zenon, <1>1, <1>2, <1>3, <1>4, <1>5, <1>6, <1>7, <1>8, <1>9 DEF StartNext

(* A handler that returns keeps the base.                                  *)
LEMMA FinishedBase ==
  ASSUME Base, FinishNext
  PROVE  Base' /\ Orderly(row, row')
<1>1. row.status = "stopping" /\ \E s \in SandboxStop :
        Over(s) /\ (Settled(row') \/ Reads(row', "queued", 0, FALSE, "none", "none") \/ Released(row'))
  BY Zenon, StopReturns, ForceReturns, ExitReturns DEF FinishNext
<1>2. row' \in Row /\ row'.sbx \in {0, row.sbx} /\ Orderly(row, row')
  BY Zenon, <1>1 DEF Settled, Released, Reads, Orderly
<1>. QED
  BY Zenon, <1>1, <1>2, OverBase

(* Every step keeps the base, and writes the row in order.                 *)
LEMMA StepBase ==
  ASSUME Base, [Next]_vars
  PROVE  Base' /\ Orderly(row, row')
<1>0. row' = row => Orderly(row, row')
  BY Zenon DEF Orderly
<1>1. ASSUME NEW a \in Attempt, WatcherNext(a)
      PROVE  Base' /\ Orderly(row, row')
  <2>1. CASE JobStarted(a)
    BY Zenon, <2>1, RequestedBase
  <2>2. CASE (\E code \in {"zero", "nonzero", "error"} : RunnerExited(a, code)) \/ BusyChecked(a)
    <3>1. Orderly(row, row')
      BY Zenon, <1>0, <2>2, Exited DEF Reads, Orderly
    <3>. QED
      BY Zenon, <2>2, <3>1, ExitedBase
  <2>. QED
    BY Zenon, <1>1, <2>1, <2>2 DEF WatcherNext
<1>2. CASE WorldNext
  BY Zenon, <1>0, <1>2, WorldMoved, QuietBase
<1>3. CASE Crash
  BY Zenon, <1>0, <1>3, Crashed
<1>4. CASE UNCHANGED vars
  BY Zenon, <1>0, <1>4 DEF vars, Base, TypeOK, Held, Begun
<1>. QED
  BY ZenonT(30), <1>1, <1>2, <1>3, <1>4, StartedBase, FinishedBase, LoopedBase, ReconciledBase, RequestedBase,
     RecoveriesBase DEF Next

(* The first state.                                                        *)
LEMMA InitBase ==
  ASSUME Init
  PROVE  Base
<1>1. row \in Row
  <2>1. 0 \in 0 .. RetryMax
    BY LifecycleConstants
  <2>. QED
    BY Zenon, <2>1 DEF Init, Row, Status, Stage
<1>2. /\ start \in [Attempt -> StartState] /\ before \in [Attempt -> {0} \cup Attempt]
      /\ sandbox \in [Attempt -> {"none", "live", "gone"}]
      /\ process \in [Attempt -> {"none", "idle", "own", "other", "exited"}]
      /\ watch \in [Attempt -> {"none", "armed", "nonzero", "error"}]
      /\ saw \in [Loops -> {"none", "idle", "unused"} \cup InFlightStatus]
      /\ \A a \in Attempt : start[a] = "idle" /\ sandbox[a] = "none" /\ watch[a] = "none"
  BY DEF Init, StartState
<1>3. crashes \in 0 .. MaxCrashes /\ \A a \in Attempt : a # 0
  BY LifecycleConstants DEF Init, Attempt
<1>4. job \in {"none", "waiting", "queued", "in_progress", "completed"} /\ row.sbx = 0
  BY Zenon DEF Init
<1>. QED
  BY Zenon, <1>1, <1>2, <1>3, <1>4, Holders DEF Init, Base, TypeOK, Held, Begun

(* The types hold in every state.                                          *)
LEMMA AlwaysBase == Spec => []Base
<1>1. Init => Base
  BY InitBase
<1>2. Base /\ [Next]_vars => Base'
  BY StepBase
<1>. QED
  BY <1>1, <1>2, PTL DEF Spec

(* Every variable keeps its shape for any number of claims, retries and    *)
(* crashes; RetryCount stays within RetryMaxAttempts.                      *)
THEOREM LifecycleTypes == Spec => []TypeOK
<1>1. Base => TypeOK
  BY DEF Base
<1>. QED
  BY <1>1, AlwaysBase, PTL

(* A completed row is queued again only when its runner did another job.   *)
THEOREM CompletionIsFinal == Spec => CompletedIsFinal
<1>1. Base /\ [Next]_vars =>
        [row.status = "completed" /\ row'.status # "completed" =>
           row.assigned = "other" /\ row'.status = "queued"]_vars
  BY Zenon, StepBase DEF Orderly
<1>. QED
  BY <1>1, AlwaysBase, PTL DEF Spec, CompletedIsFinal

(* setTerminationSource's first source stays until the row is queued.      *)
THEOREM FirstOwnerKept == Spec => TerminationOwnerKept
<1>1. Base /\ [Next]_vars =>
        [row.term # "none" /\ row'.term # row.term => row'.term = "none" /\ row'.status = "queued"]_vars
  BY Zenon, StepBase DEF Orderly
<1>. QED
  BY <1>1, AlwaysBase, PTL DEF Spec, TerminationOwnerKept

(* What may become of a row that nobody admits.                            *)
Unasked(r, s) ==
    /\ s.status \in {"creating", "running"} => r.status \in {"creating", "running"}
    /\ \/ CountedAs(s.status) = CountedAs(r.status)
       \/ CountedAs(s.status) \in UnaskedMoves(CountedAs(r.status))

(* The writes the handlers make.                                           *)
LEMMA UnaskedWrites ==
  ASSUME NEW r \in Row, NEW s \in Row
  PROVE  /\ s.status = r.status => Unasked(r, s)
         /\ s.status \in {"queued", "failed", "stopping"} /\ r.status # "completed" => Unasked(r, s)
         /\ s.status = "completed" /\ r.status # "queued" => Unasked(r, s)
         /\ s.status = "queued" => Unasked(r, s)
         /\ s.status = "running" /\ r.status \in {"creating", "running"} => Unasked(r, s)
<1>1. r.status \in Status /\ s.status \in Status
  BY Zenon, RowFields
<1>2. \A x, y \in Status :
        /\ x = y => CountedAs(y) = CountedAs(x)
        /\ y \in {"queued", "failed", "stopping"} /\ x # "completed" =>
             CountedAs(y) = CountedAs(x) \/ CountedAs(y) \in UnaskedMoves(CountedAs(x))
        /\ y = "completed" /\ x # "queued" =>
             CountedAs(y) = CountedAs(x) \/ CountedAs(y) \in UnaskedMoves(CountedAs(x))
        /\ y = "queued" => CountedAs(y) = CountedAs(x) \/ CountedAs(y) \in UnaskedMoves(CountedAs(x))
        /\ y = "running" /\ x \in {"creating", "running"} => CountedAs(y) = CountedAs(x)
  BY DEF CountedAs, UnaskedMoves, Status
<1>. QED
  BY Zenon, <1>1, <1>2 DEF Unasked

(* stopRunner and failAndStopRunner ask nobody.                            *)
LEMMA StopUnasked ==
  ASSUME Base, Base',
         \/ \E j \in {"none", "own", "other"}, ours \in BOOLEAN : StopRunner(j, ours)
         \/ \E s \in {"timeout", "recovery"} : ForceStop(s)
  PROVE  Unasked(row, row')
<1>1. row \in Row /\ row' \in Row
  BY Zenon DEF Base, TypeOK
<1>2. \/ row' = row \/ row'.status = row.status
      \/ row.status # "completed" /\ row'.status = "stopping"
  BY Zenon, Stops, Forces DEF Reads
<1>. QED
  BY Zenon, <1>1, <1>2, UnaskedWrites

(* A step of startRunner admits the row from the queue or asks nobody.     *)
LEMMA StartAsks ==
  ASSUME Base, Base', NEW a \in Attempt, StartNext(a)
  PROVE  \/ Unasked(row, row')
         \/ /\ row.status = "queued" /\ row'.status = "creating"
            /\ start[a] = "claimed" /\ start'[a] = "creating"
<1>0. row \in Row /\ row' \in Row /\ start \in [Attempt -> StartState]
  BY Zenon DEF Base, TypeOK
<1>1. CASE Claim(a)
  BY Zenon, <1>0, <1>1, Claimed, UnaskedWrites DEF Reads
<1>2. CASE Admit(a)
  <2>1. Turn(a, "creating") => start'[a] = "creating"
    BY <1>0 DEF Turn
  <2>. QED
    BY Zenon, <1>0, <1>2, <2>1, Admitted, UnaskedWrites DEF Reads
<1>3. CASE Leave(a)
  BY Zenon, <1>0, <1>3, Left, UnaskedWrites DEF Reads
<1>4. CASE ReadBefore(a) \/ Prepare(a)
  BY Zenon, <1>0, <1>4, Went, UnaskedWrites
<1>5. CASE Check(a)
  BY Zenon, <1>0, <1>5, Checked, UnaskedWrites DEF Reads
<1>6. CASE DeferCreating(a)
  BY Zenon, <1>0, <1>6, Deferred, UnaskedWrites DEF Reads
<1>7. CASE FailStart(a)
  BY Zenon, <1>0, <1>7, FailedStart, UnaskedWrites DEF Reads
<1>8. CASE CreateSandbox(a) \/ LaunchRunner(a) \/ StartFails(a) \/ Discard(a)
  <2>1. row' = row
    BY Zenon, <1>8, Handled DEF Handles
  <2>. QED
    BY Zenon, <1>0, <2>1, UnaskedWrites
<1>9. CASE Adopt(a)
  BY Zenon, <1>0, <1>9, Adopted, UnaskedWrites DEF Reads
<1>. QED
  BY ZenonT(30), <1>1, <1>2, <1>3, <1>4, <1>5, <1>6, <1>7, <1>8, <1>9 DEF StartNext

(* The other steps ask nobody.                                             *)
LEMMA OthersUnasked ==
  ASSUME Base, Base',
         \/ UNCHANGED vars \/ FinishNext \/ ReconcileNext \/ RequestNext \/ WorldNext \/ Crash \/ RecoverNext
         \/ \E a \in Attempt : WatcherNext(a)
         \/ \E l \in Loops : LoopNext(l)
  PROVE  Unasked(row, row')
<1>0. row \in Row /\ row' \in Row /\ (row' = row => Unasked(row, row'))
  BY Zenon, UnaskedWrites DEF Base, TypeOK
<1>1. CASE UNCHANGED vars \/ WorldNext \/ Crash
  BY Zenon, <1>0, <1>1, WorldMoved, Crashed DEF vars
<1>2. CASE FinishNext
  <2>1. row.status = "stopping" /\ (Settled(row') \/ Reads(row', "queued", 0, FALSE, "none", "none") \/ Released(row'))
    BY Zenon, <1>2, StopReturns, ForceReturns, ExitReturns DEF FinishNext
  <2>2. row'.status \in {"stopping", "completed", "failed", "queued"}
    BY Zenon, <2>1 DEF Settled, Released, Reads
  <2>. QED
    BY Zenon, <1>0, <2>1, <2>2, UnaskedWrites
<1>3. CASE ReconcileNext
  BY Zenon, <1>0, <1>3, Reconciled, UnaskedWrites DEF Reads
<1>4. CASE RequestNext \/ \E a \in Attempt : JobStarted(a)
  <2>1. CASE \E j \in {"none", "own", "other"}, ours \in BOOLEAN : StopRunner(j, ours)
    BY Zenon, <2>1, StopUnasked
  <2>. QED
    BY Zenon, <1>0, <1>4, <2>1, Requested, UnaskedWrites DEF Reads
<1>5. ASSUME NEW a \in Attempt, WatcherNext(a)
      PROVE  Unasked(row, row')
  <2>1. CASE (\E code \in {"zero", "nonzero", "error"} : RunnerExited(a, code)) \/ BusyChecked(a)
    <3>1. \/ row' = row
          \/ row.status \in {"creating", "running"} /\ row'.status \in {"running", "stopping"}
      BY Zenon, <2>1, Exited DEF Reads
    <3>. QED
      BY Zenon, <1>0, <3>1, UnaskedWrites
  <2>. QED
    BY Zenon, <1>4, <1>5, <2>1 DEF WatcherNext
<1>6. ASSUME NEW l \in Loops, LoopNext(l)
      PROVE  Unasked(row, row')
  <2>1. CASE StopRunner("none", FALSE) \/ ForceStop("timeout")
    BY Zenon, <2>1, StopUnasked
  <2>2. CASE RetryOrFail
    BY Zenon, <1>0, <2>2, RetriedOrFailed, UnaskedWrites DEF Reads
  <2>. QED
    BY Zenon, <1>0, <1>6, <2>1, <2>2, Looped, UnaskedWrites DEF Reads, Kept
<1>7. CASE RecoverNext
  <2>1. CASE \/ \E j \in {"none", "own"}, ours \in BOOLEAN : StopRunner(j, ours)
             \/ \E s \in {"timeout", "recovery"} : ForceStop(s)
    BY Zenon, <2>1, StopUnasked
  <2>2. CASE \/ row' = row \/ row'.status = "queued"
             \/ row.status \in {"creating", "running"} /\ row'.status = "running"
    BY Zenon, <1>0, <2>2, UnaskedWrites
  <2>. QED
    BY Zenon, <1>7, <2>1, <2>2, Recoveries DEF Reads
<1>. QED
  BY Zenon, <1>1, <1>2, <1>3, <1>4, <1>5, <1>6, <1>7

(* A row is creating or running only because the capacity section admitted *)
(* it, and everything else that happens to it is a move RunnerCapacity     *)
(* allows its environment: for any number of claims, whatever fails, who   *)
(* intervenes and when runnerd crashes.                                    *)
THEOREM CapacityIsAsked == Spec => CapacityAsked
<1>1. CountedAs("creating") \in UnaskedMoves(CountedAs("queued"))
  BY DEF CountedAs, UnaskedMoves
<1>2. ASSUME Base, Base', [Next]_vars
      PROVE  [/\ row'.status \in {"creating", "running"} /\ row.status \notin {"creating", "running"} =>
                   /\ row.status = "queued" /\ row'.status = "creating"
                   /\ \E a \in Attempt : start[a] = "claimed" /\ start'[a] = "creating"
              /\ \/ CountedAs(row'.status) = CountedAs(row.status)
                 \/ CountedAs(row'.status) \in UnaskedMoves(CountedAs(row.status))]_vars
  <2>1. CASE Unasked(row, row')
    BY Zenon, <2>1 DEF Unasked
  <2>2. CASE \E a \in Attempt : /\ row.status = "queued" /\ row'.status = "creating"
                                /\ start[a] = "claimed" /\ start'[a] = "creating"
    BY Zenon, <1>1, <2>2
  <2>. QED
    BY Zenon, <1>2, <2>1, <2>2, StartAsks, OthersUnasked DEF Next
<1>. QED
  BY <1>2, AlwaysBase, PTL DEF Spec, CapacityAsked

(* Only its own callback ends a watcher, or a crash.                       *)
LEMMA WatcherEnds ==
  ASSUME Base, [Next]_vars, NEW a \in Attempt, watch[a] # "none", watch'[a] = "none", crashes' = crashes
  PROVE  (\E code \in {"zero", "nonzero", "error"} : RunnerExited(a, code)) \/ BusyChecked(a)
<1>0. watch' # watch /\ watch \in [Attempt -> {"none", "armed", "nonzero", "error"}]
  BY Zenon DEF Base, TypeOK
<1>1. ASSUME NEW b \in Attempt, StartNext(b)
      PROVE  FALSE
  <2>1. CASE Adopt(b)
    <3>1. watch' = watch \/ watch' = [watch EXCEPT ![b] = "armed"]
      BY Zenon, <2>1, Adopted
    <3>. QED
      BY <1>0, <3>1
  <2>2. CASE CreateSandbox(b) \/ LaunchRunner(b) \/ StartFails(b) \/ Discard(b)
    BY Zenon, <1>0, <2>2, Handled DEF Handles
  <2>3. CASE ~(Adopt(b) \/ CreateSandbox(b) \/ LaunchRunner(b) \/ StartFails(b) \/ Discard(b))
    <3>1. \E pc : Turn(b, pc)
      BY Zenon, <1>1, <2>3, Claimed, Admitted, Left, Went, Checked, Deferred, FailedStart DEF StartNext
    <3>. QED
      BY Zenon, <1>0, <3>1 DEF Turn
  <2>. QED
    BY Zenon, <2>1, <2>2, <2>3
<1>2. ASSUME NEW b \in Attempt, (\E code \in {"zero", "nonzero", "error"} : RunnerExited(b, code)) \/ BusyChecked(b)
      PROVE  b = a
  <2>1. \E x : watch' = [watch EXCEPT ![b] = x]
    BY Zenon, <1>2, Exited
  <2>. QED
    BY <1>0, <2>1
<1>3. ~FinishNext
  BY Zenon, <1>0, StopReturns, ForceReturns, ExitReturns DEF FinishNext, Over
<1>4. ~(\E l \in Loops : LoopNext(l)) /\ ~ReconcileNext
  BY Zenon, <1>0, Looped, Reconciled DEF Brief, Calm
<1>5. ~RequestNext /\ ~\E b \in Attempt : JobStarted(b)
  BY Zenon, <1>0, Requested DEF Brief, Calm
<1>6. ~WorldNext
  BY Zenon, <1>0, WorldMoved DEF Quiet
<1>7. ~Crash
  <2>1. crashes \in Nat
    BY DEF Base, TypeOK
  <2>. QED
    BY <2>1 DEF Crash
<1>8. ASSUME RecoverNext
      PROVE  FALSE
  <2>1. watch' = watch \/ \E b \in Attempt : watch' = [watch EXCEPT ![b] = "armed"]
    BY Zenon, <1>8, Recoveries DEF Quiet
  <2>. QED
    BY <1>0, <2>1
<1>9. watch' # watch => ~UNCHANGED vars
  BY Zenon DEF vars
<1>. QED
  BY Zenon, <1>0, <1>1, <1>2, <1>3, <1>4, <1>5, <1>6, <1>7, <1>8, <1>9 DEF Next, WatcherNext

(* attempt.matches: the exit callback of an attempt writes the row only    *)
(* while the row names its sandbox, however late it runs.                  *)
THEOREM StaleExitsIgnored == Spec => StaleExitIgnored
<1>1. ASSUME Base, [Next]_vars, NEW a \in Attempt, watch[a] # "none", watch'[a] = "none",
             crashes' = crashes, row' # row
      PROVE  row.sbx = a
  BY Zenon, <1>1, WatcherEnds, Exited
<1>2. Base /\ [Next]_vars =>
        [\A a \in Attempt : watch[a] # "none" /\ watch'[a] = "none" /\ crashes' = crashes /\ row' # row
                            => row.sbx = a]_vars
  BY Zenon, <1>1
<1>. QED
  BY <1>2, AlwaysBase, PTL DEF Spec, StaleExitIgnored

-----------------------------------------------------------------------------
(* Leases                                                                  *)

(* A start that has not written creating yet.                              *)
Early == {"claimed", "refused", "leaving"}

(* The lease of a queued row is that of such a start.                      *)
Worked == row.status = "queued" /\ row.lease => \E a \in Attempt : start[a] \in Early

Undisturbed == crashes = 0 => phase = "up" /\ Worked

(* A step that leases nothing and takes no start out of its early part.    *)
LEMMA StillWorked ==
  ASSUME Worked, row'.status = "queued" /\ row'.lease => row.status = "queued" /\ row.lease,
         \A a \in Attempt : start[a] \in Early => start'[a] \in Early
  PROVE  Worked'
BY Zenon DEF Worked

(* A start gives its lease back when it leaves, unless a write fails.      *)
LEMMA StartsWorked ==
  ASSUME Base, ~WriteFails, Worked, NEW a \in Attempt, StartNext(a)
  PROVE  Worked'
<1>0. start \in [Attempt -> StartState]
  BY Zenon DEF Base, TypeOK
<1>1. \A pc : start' = [start EXCEPT ![a] = pc] => start'[a] = pc /\ \A b \in Attempt \ {a} : start'[b] = start[b]
  BY <1>0
<1>2. \A pc : Turn(a, pc) => start'[a] = pc /\ \A b \in Attempt \ {a} : start'[b] = start[b]
  BY Zenon, <1>1 DEF Turn
<1>3. row' = row => (row'.status = "queued" /\ row'.lease => row.status = "queued" /\ row.lease)
  BY Zenon
<1>4. CASE Claim(a)
  BY Zenon, <1>2, <1>4, Claimed DEF Worked, Early
<1>5. CASE Admit(a)
  BY Zenon, <1>2, <1>5, Admitted DEF Worked, Early, Reads
<1>6. CASE Leave(a)
  BY Zenon, <1>6, Left DEF Worked, Reads
<1>7. CASE ReadBefore(a) \/ Prepare(a)
  <2>1. row' = row /\ \A b \in Attempt : start[b] \in Early => start'[b] \in Early
    BY Zenon, <1>2, <1>7, Went DEF Early
  <2>. QED
    BY Zenon, <2>1 DEF Worked
<1>8. CASE Check(a)
  <2>1. \A b \in Attempt : start[b] \in Early => start'[b] \in Early
    BY Zenon, <1>2, <1>8, Checked DEF Early
  <2>. QED
    BY Zenon, <1>8, <2>1, Checked DEF Worked, Reads
<1>9. CASE DeferCreating(a)
  <2>1. \A b \in Attempt : start[b] \in Early => start'[b] \in Early
    BY Zenon, <1>2, <1>9, Deferred DEF Early
  <2>. QED
    BY Zenon, <1>9, <2>1, Deferred DEF Worked, Reads
<1>10. CASE FailStart(a)
  <2>1. row'.lease = FALSE
    BY Zenon, <1>10, FailedStart DEF Reads
  <2>. QED
    BY Zenon, <2>1 DEF Worked
<1>11. CASE CreateSandbox(a) \/ LaunchRunner(a) \/ StartFails(a) \/ Discard(a)
  <2>1. row' = row /\ \A b \in Attempt : start[b] \in Early => start'[b] \in Early
    BY ZenonT(30), <1>1, <1>11, Handled DEF Handles, Early
  <2>. QED
    BY Zenon, <2>1 DEF Worked
<1>12. CASE Adopt(a)
  <2>1. \A b \in Attempt : start[b] \in Early => start'[b] \in Early
    BY Zenon, <1>1, <1>12, Adopted DEF Early
  <2>. QED
    BY Zenon, <1>12, <2>1, Adopted DEF Worked, Reads
<1>. QED
  BY Zenon, <1>4, <1>5, <1>6, <1>7, <1>8, <1>9, <1>10, <1>11, <1>12 DEF StartNext

(* Nobody but a start leases the row, and nobody but a crash stops one.    *)
LEMMA OthersWorked ==
  ASSUME Base, Worked, NEW b \in Attempt,
         \/ WatcherNext(b) \/ FinishNext \/ \E l \in Loops : LoopNext(l)
         \/ ReconcileNext \/ RequestNext \/ WorldNext \/ UNCHANGED vars
  PROVE  Worked' /\ phase' \in {"up", phase} /\ crashes' = crashes
<1>1. row' = row => (row'.status = "queued" /\ row'.lease => row.status = "queued" /\ row.lease)
  BY Zenon
<1>2. start' = start => \A a \in Attempt : start[a] \in Early => start'[a] \in Early
  BY Zenon
<1>3. CASE (\E code \in {"zero", "nonzero", "error"} : RunnerExited(b, code)) \/ BusyChecked(b)
  <2>1. start' = start \/ start' = [start EXCEPT ![b] = "done"]
    BY Zenon, <1>3, Exited
  <2>2. start[b] \in {"watching", "done"} /\ start \in [Attempt -> StartState]
    BY ZenonT(30), <1>3, Exited DEF Base, Begun, TypeOK
  <2>3. \A a \in Attempt : start[a] \in Early => start'[a] \in Early
    BY <2>1, <2>2 DEF Early
  <2>4. row'.status = "queued" /\ row'.lease => row.status = "queued" /\ row.lease
    BY Zenon, <1>1, <1>3, Exited DEF Reads
  <2>. QED
    BY Zenon, <1>3, <2>3, <2>4, StillWorked, Exited
<1>4. CASE FinishNext
  <2>1. \E s \in SandboxStop :
          Over(s) /\ (Settled(row') \/ Reads(row', "queued", 0, FALSE, "none", "none") \/ Released(row'))
    BY Zenon, <1>4, StopReturns, ForceReturns, ExitReturns DEF FinishNext
  <2>2. start' = start /\ phase' \in {"up", phase} /\ crashes' = crashes
    BY Zenon, <2>1 DEF Over, starts
  <2>3. row'.status = "queued" /\ row'.lease => row.status = "queued" /\ row.lease
    BY Zenon, <2>1 DEF Settled, Released, Reads
  <2>. QED
    BY Zenon, <1>2, <2>2, <2>3, StillWorked
<1>5. \A j \in {"none", "own", "other"}, ours \in BOOLEAN : StopRunner(j, ours) =>
        (row'.status = "queued" /\ row'.lease => row.status = "queued" /\ row.lease)
  BY Zenon, <1>1, Stops DEF Reads
<1>6. CASE \E l \in Loops : LoopNext(l)
  <2>1. PICK l \in Loops : LoopNext(l)
    BY Zenon, <1>6
  <2>2. start' = start /\ phase' \in {"up", phase} /\ crashes' = crashes
    BY Zenon, <2>1, Looped DEF Calm, starts
  <2>3. ForceStop("timeout") => (row'.status = "queued" /\ row'.lease => row.status = "queued" /\ row.lease)
    BY Zenon, <1>1, Forces DEF Reads
  <2>4. RetryOrFail => (row'.status = "queued" /\ row'.lease => row.status = "queued" /\ row.lease)
    BY Zenon, <1>1, RetriedOrFailed DEF Reads
  <2>5. row'.status = "queued" /\ row'.lease => row.status = "queued" /\ row.lease
    BY ZenonT(30), <1>1, <1>5, <2>1, <2>3, <2>4, Looped DEF Reads, Kept
  <2>. QED
    BY Zenon, <1>2, <2>2, <2>5, StillWorked
<1>7. CASE ReconcileNext
  <2>1. start' = start /\ phase' \in {"up", phase} /\ crashes' = crashes
    BY Zenon, <1>7, Reconciled DEF Brief, Calm, starts
  <2>2. row'.status = "queued" /\ row'.lease => row.status = "queued" /\ row.lease
    BY Zenon, <1>1, <1>7, Reconciled DEF Reads
  <2>. QED
    BY Zenon, <1>2, <2>1, <2>2, StillWorked
<1>8. CASE RequestNext \/ JobStarted(b)
  <2>1. start' = start /\ phase' \in {"up", phase} /\ crashes' = crashes
    BY Zenon, <1>8, Requested DEF Brief, Calm, starts
  <2>2. row'.status = "queued" /\ row'.lease => row.status = "queued" /\ row.lease
    BY Zenon, <1>5, <1>8, Requested DEF Reads
  <2>. QED
    BY Zenon, <1>2, <2>1, <2>2, StillWorked
<1>9. CASE WorldNext
  BY Zenon, <1>1, <1>2, <1>9, WorldMoved, StillWorked DEF Quiet, starts
<1>10. CASE UNCHANGED vars
  BY Zenon, <1>10 DEF vars, Worked
<1>. QED
  BY Zenon, <1>3, <1>4, <1>6, <1>7, <1>8, <1>9, <1>10 DEF WatcherNext

(* While no write fails and until the first crash, a queued row that is    *)
(* leased has a start on it, so ClaimNextRunnable does not pass it by for  *)
(* nothing.  Where a write can fail, failStart only logs it and the lease  *)
(* stays; a crash leaves the lease until Recover lets go of it.            *)
THEOREM LeasesAreWorked ==
  ASSUME WriteFails = FALSE
  PROVE  Spec => [](crashes = 0 => LeaseIsWorked)
<1>1. Init => Undisturbed
  BY DEF Init, Undisturbed, Worked
<1>2. Base /\ Undisturbed /\ [Next]_vars => Undisturbed'
  <2>. SUFFICES ASSUME Base, Undisturbed, [Next]_vars, crashes' = 0
                PROVE  phase' = "up" /\ Worked'
    BY Zenon DEF Undisturbed
  <2>0. PICK b : b \in Attempt
    BY LifecycleConstants DEF Attempt
  <2>1. ~Crash
    BY Crashed
  <2>2. ~RecoverNext
    BY Zenon, Recoveries DEF Undisturbed
  <2>3. ASSUME NEW a \in Attempt, StartNext(a)
        PROVE  phase' = phase /\ crashes' = crashes
    BY Zenon, <2>3, Claimed, Admitted, Left, Went, Checked, Deferred, FailedStart, Handled, Adopted
       DEF StartNext, Turn, Handles
  <2>4. CASE \E a \in Attempt : StartNext(a)
    BY Zenon, <2>3, <2>4, StartsWorked DEF Undisturbed
  <2>5. CASE \E a \in Attempt : WatcherNext(a)
    <3>1. PICK a \in Attempt : WatcherNext(a)
      BY Zenon, <2>5
    <3>2. crashes' = crashes
      BY Zenon, <3>1, Exited, Requested DEF WatcherNext, Brief, Calm
    <3>. QED
      BY Zenon, <3>1, <3>2, OthersWorked DEF Undisturbed
  <2>6. CASE \/ FinishNext \/ \E l \in Loops : LoopNext(l)
             \/ ReconcileNext \/ RequestNext \/ WorldNext \/ UNCHANGED vars
    <3>1. crashes' = crashes
      BY Zenon, <2>6, StopReturns, ForceReturns, ExitReturns, Looped, Reconciled, Requested, WorldMoved
         DEF FinishNext, Over, Brief, Calm, Quiet, vars
    <3>. QED
      BY Zenon, <2>0, <2>6, <3>1, OthersWorked DEF Undisturbed
  <2>. QED
    BY Zenon, <2>1, <2>2, <2>4, <2>5, <2>6 DEF Next
<1>3. Undisturbed => (crashes = 0 => LeaseIsWorked)
  BY Zenon DEF Undisturbed, Worked, Early, LeaseIsWorked
<1>. QED
  BY <1>1, <1>2, <1>3, AlwaysBase, PTL DEF Spec

-----------------------------------------------------------------------------
(* Sandboxes                                                               *)

(* What the rest assumes: the runner is given no job but its own, nobody   *)
(* stops or retries by hand, a start writes creating within its lease, and *)
(* the sweeper does not time a row out.                                    *)
Ordinary == ~OtherJobs /\ ~Administrator /\ ~LeaseExpires /\ "sweeper" \notin Loops

(* Then nothing here is ever about another job, and the reconciler lists   *)
(* stopping rows only.                                                     *)
Own ==
    /\ row.assigned # "other" /\ holder # <<"stop", "other">>
    /\ \A a \in Attempt : process[a] # "other"
    /\ \A x \in {"started", "done"} : <<"other", x>> \notin sent
    /\ \A l \in Loops : saw[l] \in {"none", "stopping"}

(* A start that works on the row, and one that has a sandbox in hand.      *)
Working == StartState \ {"idle", "watching", "done"}
Handling == {"provisioned", "started", "discard"}

Active == {a \in Attempt : start[a] \in Working}
Live == {a \in Attempt : sandbox[a] = "live"} \ abandoned

(* A crash took the sandbox from its start, and no start will follow until *)
(* the row is queued again.                                                *)
Orphaned ==
    crashes # 0 /\ row.sbx = 0 /\ Active = {} /\ row.status \notin {"queued", "running"}

(* One start at a time works on the row, and only while the row names no   *)
(* sandbox; the one live sandbox is the row's, or the start's, or orphaned.*)
Alone ==
    /\ \A a, b \in Active : a = b
    /\ \A a \in Active :
         /\ row.sbx = 0 /\ phase = "up"
         /\ row.status = "queued" => row.lease /\ start[a] \in Early
         /\ start[a] \in Early => row.status \notin {"creating", "running"}
    /\ row.status \in {"queued", "creating"} => row.sbx = 0
    /\ row.status = "running" => row.sbx # 0
    /\ holder \in {"exit"} \X {"zero", "nonzero", "error"} => row.sbx # 0
    /\ \A a \in Live : row.sbx = a \/ start[a] \in Handling \/ Orphaned
    /\ \A a, b \in Live : a = b

(* A step that gives no job and lists nothing.                             *)
LEMMA OwnKept ==
  ASSUME Own, row'.assigned # "other", holder' \in {holder, Free},
         \A a \in Attempt : process'[a] \in {process[a], "idle", "exited"},
         sent' = sent, saw' = saw
  PROVE  Own'
<1>1. Free # <<"stop", "other">>
  BY SMT DEF Free
<1>. QED
  BY Zenon, <1>1 DEF Own

(* A stop that is not for another job.                                     *)
LEMMA OwnStops ==
  ASSUME Base, Own, Calm, saw' = saw,
         \/ \E j \in {"none", "own"}, ours \in BOOLEAN : StopRunner(j, ours)
         \/ \E s \in {"timeout", "recovery"} : ForceStop(s)
  PROVE  Own'
<1>1. /\ \A j \in {"none", "own"} : <<"stop", j>> # <<"stop", "other">>
      /\ \A s : <<"force", s>> # <<"stop", "other">>
  BY SMT
<1>2. CASE \E j \in {"none", "own"}, ours \in BOOLEAN : StopRunner(j, ours)
  BY Zenon, <1>1, <1>2, Stops DEF Own, Reads, Calm, provider, github
<1>3. CASE \E s \in {"timeout", "recovery"} : ForceStop(s)
  BY Zenon, <1>1, <1>3, Forces DEF Own, Reads, Calm, provider, github
<1>. QED
  BY Zenon, <1>2, <1>3

(* No step of startRunner makes the request another job's.                 *)
LEMMA OwnStarts ==
  ASSUME Base, Own, NEW a \in Attempt, StartNext(a)
  PROVE  Own'
<1>1. CASE Adopt(a)
  <2>1. row'.assigned = row.assigned
    BY Zenon, <1>1, Adopted DEF Reads
  <2>. QED
    BY Zenon, <1>1, <2>1, Adopted, OwnKept DEF Own, provider, loops, github
<1>2. CASE CreateSandbox(a) \/ LaunchRunner(a) \/ StartFails(a) \/ Discard(a)
  BY Zenon, <1>2, Handled, OwnKept DEF Own, Handles, loops, github
<1>3. CASE ~(Adopt(a) \/ CreateSandbox(a) \/ LaunchRunner(a) \/ StartFails(a) \/ Discard(a))
  <2>1. \E pc : Turn(a, pc)
    BY Zenon, <1>3, Claimed, Admitted, Left, Went, Checked, Deferred, FailedStart DEF StartNext
  <2>2. row'.assigned \in {row.assigned, "own"}
    BY Zenon, <1>3, Claimed, Admitted, Left, Went, Checked, Deferred, FailedStart DEF StartNext, Reads
  <2>. QED
    BY Zenon, <2>1, <2>2, OwnKept DEF Own, Turn, provider, loops, github
<1>. QED
  BY Zenon, <1>1, <1>2, <1>3

(* Nor does any other step.                                                *)
LEMMA OwnStep ==
  ASSUME Ordinary, Base, Own, [Next]_vars
  PROVE  Own'
<1>1. ASSUME NEW a \in Attempt, (\E code \in {"zero", "nonzero", "error"} : RunnerExited(a, code)) \/ BusyChecked(a)
      PROVE  Own'
  <2>1. row'.assigned # "other"
    BY Zenon, <1>1, Exited DEF Reads, Own
  <2>2. holder' # <<"stop", "other">>
    <3>1. \A c : c \in {"exit"} \X {"zero", "nonzero", "error"} => c # <<"stop", "other">>
      BY SMT
    <3>. QED
      BY Zenon, <1>1, <3>1, Exited DEF Own
  <2>3. UNCHANGED <<process, sent, saw>>
    BY Zenon, <1>1, Exited DEF provider, loops, github
  <2>. QED
    BY Zenon, <2>1, <2>2, <2>3 DEF Own
<1>2. CASE FinishNext
  <2>0. holder # <<"stop", "other">>
    BY Zenon DEF Own
  <2>1. PICK s \in SandboxStop :
          Over(s) /\ (Settled(row') \/ Reads(row', "queued", 0, FALSE, "none", "none") \/ Released(row'))
    BY Zenon, <1>2, StopReturns, ForceReturns, ExitReturns DEF FinishNext
  <2>2. row'.assigned # "other"
    BY Zenon, <2>1 DEF Settled, Released, Reads, Own
  <2>3. holder' = Free /\ sent' = sent /\ saw' = saw /\ \A c \in Attempt : process'[c] \in {process[c], "exited"}
    BY Zenon, <2>1, StopCalled DEF Over, loops, github
  <2>. QED
    BY Zenon, <2>2, <2>3, OwnKept
<1>3. ASSUME NEW l \in Loops, LoopNext(l)
      PROVE  Own'
  <2>1. Calm /\ saw[l] \in {"none", "stopping"} /\ l # "sweeper"
    BY Zenon, <1>3, Looped DEF Own, Ordinary
  <2>2. \/ row' = row /\ holder' = holder
        \/ StopRunner("none", FALSE)
    BY Zenon, <1>3, <2>1, Looped DEF Kept
  <2>3. row'.assigned # "other" /\ holder' # <<"stop", "other">>
    <3>1. <<"stop", "none">> # <<"stop", "other">>
      BY SMT
    <3>. QED
      BY Zenon, <2>2, <3>1, Stops DEF Own, Reads
  <2>4. \A k \in Loops : saw'[k] \in {"none", "stopping"}
    <3>1. PICK x \in {"none", "stopping"} : saw' = [saw EXCEPT ![l] = x]
      BY Zenon, <1>3, <2>1, Looped
    <3>2. saw \in [Loops -> {"none", "idle", "unused"} \cup InFlightStatus]
      BY Zenon DEF Base, TypeOK
    <3>. QED
      BY <3>1, <3>2 DEF Own
  <2>. QED
    BY Zenon, <2>1, <2>3, <2>4 DEF Own, Calm, provider, github
<1>4. CASE ReconcileNext
  <2>1. row'.assigned # "other"
    BY Zenon, <1>4, Reconciled DEF Own, Reads
  <2>. QED
    BY Zenon, <1>4, <2>1, Reconciled, OwnKept DEF Brief, Calm, provider, github
<1>5. ASSUME RequestNext \/ \E a \in Attempt : JobStarted(a)
      PROVE  Own'
  <2>1. CASE Brief /\ row'.assigned # "other"
    BY Zenon, <2>1, OwnKept DEF Brief, Calm, provider, github
  <2>2. CASE /\ Calm /\ saw' = saw
             /\ \E j \in {"none", "own"}, ours \in BOOLEAN : StopRunner(j, ours)
    BY Zenon, <2>2, OwnStops
  <2>3. <<"other", "started">> \notin sent /\ <<"other", "done">> \notin sent
    BY Zenon DEF Own
  <2>. QED
    BY Zenon, <1>5, <2>1, <2>2, <2>3, Requested DEF Reads, Ordinary
<1>6. CASE WorldNext
  BY Zenon, <1>6, WorldMoved DEF Own, Ordinary, Quiet, loops
<1>7. CASE Crash
  <2>1. \A l \in Loops : saw'[l] = "none"
    BY <1>7, Crashed
  <2>2. Free # <<"stop", "other">>
    BY SMT DEF Free
  <2>. QED
    BY Zenon, <1>7, <2>1, <2>2, Crashed DEF Own, github
<1>8. CASE RecoverNext
  <2>1. CASE /\ UNCHANGED <<provider, watch>>
             /\ \/ \E j \in {"none", "own"}, ours \in BOOLEAN : StopRunner(j, ours)
                \/ \E s \in {"timeout", "recovery"} : ForceStop(s)
    BY Zenon, <1>8, <2>1, Recoveries, OwnStops DEF Calm, loops
  <2>2. CASE ~(/\ UNCHANGED <<provider, watch>>
               /\ \/ \E j \in {"none", "own"}, ours \in BOOLEAN : StopRunner(j, ours)
                  \/ \E s \in {"timeout", "recovery"} : ForceStop(s))
    <3>1. row'.assigned = row.assigned /\ \A c \in Attempt : process'[c] \in {process[c], "exited"}
      BY Zenon, <1>8, <2>2, Recoveries DEF Reads, provider
    <3>2. holder' = holder /\ sent' = sent /\ saw' = saw
      BY Zenon, <1>8, <2>2, Recoveries DEF Quiet, loops, github
    <3>. QED
      BY Zenon, <3>1, <3>2, OwnKept DEF Own
  <2>. QED
    BY Zenon, <2>1, <2>2
<1>9. CASE UNCHANGED vars
  BY Zenon, <1>9 DEF vars, Own
<1>. QED
  BY Zenon, <1>1, <1>2, <1>3, <1>4, <1>5, <1>6, <1>7, <1>8, <1>9, OwnStarts DEF Next, WatcherNext

(* A start without a sandbox in hand works while nothing is live.          *)
LEMMA WorksAlone ==
  ASSUME Base, Alone, NEW a \in Active
  PROVE  /\ \A c \in Live : c = a /\ start[a] \in Handling
         /\ row.sbx = 0 /\ row.status # "running" /\ phase = "up"
         /\ holder \notin {"exit"} \X {"zero", "nonzero", "error"}
<1>1. \A b \in Attempt : b # 0
  BY LifecycleConstants DEF Attempt
<1>2. \A c \in Live : c \in Attempt /\ (start[c] \in Handling => c \in Active)
  BY Zenon DEF Live, Active, Handling, Working, StartState
<1>3. ~Orphaned /\ row.sbx = 0 /\ phase = "up"
  BY Zenon DEF Orphaned, Alone
<1>4. \A c \in Live : c = a /\ start[a] \in Handling
  BY Zenon, <1>1, <1>2, <1>3 DEF Alone
<1>. QED
  BY Zenon, <1>3, <1>4 DEF Alone

(* While no start works, what is live is the row's sandbox, or orphaned.   *)
LEMMA RowsAlone ==
  ASSUME Base, Alone, Active = {}
  PROVE  \A c \in Live : row.sbx = c \/ Orphaned
<1>1. \A c \in Live : start[c] \in Handling => c \in Active
  BY Zenon DEF Live, Active, Handling, Working, StartState
<1>. QED
  BY Zenon, <1>1 DEF Alone

(* A step that leaves the starts at work and the row's sandbox, and queues *)
(* nothing.                                                                *)
LEMMA AloneKept ==
  ASSUME Base, Alone, row'.sbx = row.sbx, crashes' = crashes, phase' \in {"up", phase},
         Live' \subseteq Live, Active' = Active, \A a \in Active : start'[a] = start[a],
         \/ row'.status = row.status /\ row'.lease = row.lease
         \/ row'.status \in {"stopping", "completed", "failed"},
         holder' \in {"exit"} \X {"zero", "nonzero", "error"} => row'.sbx # 0
  PROVE  Alone'
<1>1. \A c \in Live : start[c] \in Handling => c \in Active
  BY Zenon DEF Live, Active, Handling, Working, StartState
<1>2. Orphaned => Orphaned'
  BY Zenon DEF Orphaned
<1>3. \A a \in Live' : row'.sbx = a \/ start'[a] \in Handling \/ Orphaned'
  BY Zenon, <1>1, <1>2 DEF Alone
<1>4. \A a \in Active' :
         /\ row'.sbx = 0 /\ phase' = "up"
         /\ row'.status = "queued" => row'.lease /\ start'[a] \in Early
         /\ start'[a] \in Early => row'.status \notin {"creating", "running"}
  BY Zenon DEF Alone
<1>5. /\ row'.status \in {"queued", "creating"} => row'.sbx = 0
      /\ row'.status = "running" => row'.sbx # 0
  BY Zenon DEF Alone
<1>6. (\A a, b \in Active' : a = b) /\ (\A a, b \in Live' : a = b)
  BY Zenon DEF Alone
<1>. QED
  BY Zenon, <1>3, <1>4, <1>5, <1>6 DEF Alone

(* A step after which no start works and nothing is live.                  *)
LEMMA AloneEmpty ==
  ASSUME Active' = {}, Live' = {}, row'.sbx = 0, row'.status # "running",
         holder' \notin {"exit"} \X {"zero", "nonzero", "error"}
  PROVE  Alone'
BY Zenon DEF Alone

(* A step after which one start works, with what is live in hand.          *)
LEMMA AloneWorks ==
  ASSUME NEW a \in Attempt, Active' = {a}, \A c \in Live' : c = a /\ start'[a] \in Handling,
         row'.sbx = 0, phase' = "up", row'.status # "running",
         row'.status = "queued" => row'.lease /\ start'[a] \in Early,
         start'[a] \in Early => row'.status # "creating",
         holder' \notin {"exit"} \X {"zero", "nonzero", "error"}
  PROVE  Alone'
<1>1. \A b \in Active' : b = a
  BY Zenon
<1>. QED
  BY Zenon, <1>1 DEF Alone

(* A step after which the row owns what is live.                           *)
LEMMA AloneOwned ==
  ASSUME NEW a \in Attempt, Active' = {}, \A c \in Live' : c = a, row'.sbx = a, row'.status = "running"
  PROVE  Alone'
<1>1. a # 0
  BY LifecycleConstants DEF Attempt
<1>. QED
  BY Zenon, <1>1 DEF Alone

(* The starts at work after a step of one of them.                         *)
LEMMA NowActive ==
  ASSUME Base, Alone, NEW a \in Attempt, a \in Active \/ Active = {}, NEW pc \in StartState,
         start' = [start EXCEPT ![a] = pc]
  PROVE  start'[a] = pc /\ Active' = IF pc \in Working THEN {a} ELSE {}
<1>1. start \in [Attempt -> StartState] /\ \A b \in Active : b = a
  BY Zenon DEF Base, TypeOK, Alone
<1>2. start'[a] = pc /\ \A b \in Attempt \ {a} : start'[b] = start[b]
  BY <1>1
<1>3. \A b \in Attempt \ {a} : start[b] \notin Working
  BY Zenon, <1>1 DEF Active
<1>. QED
  BY Zenon, <1>2, <1>3 DEF Active

(* A start at work that returns without a sandbox leaves nothing behind.   *)
LEMMA StartOver ==
  ASSUME Base, Alone, NEW a \in Active, Turn(a, "done"), start[a] \notin Handling,
         row'.sbx = 0, row'.status # "running"
  PROVE  Alone'
<1>0. a \in Attempt
  BY Zenon DEF Active
<1>1. Active' = {}
  BY Zenon, <1>0, NowActive DEF Turn, StartState, Working
<1>2. Live' = {}
  <2>1. Live' = Live
    BY Zenon DEF Turn, provider, Live
  <2>. QED
    BY Zenon, <2>1, WorksAlone
<1>3. holder' \notin {"exit"} \X {"zero", "nonzero", "error"}
  BY Zenon, WorksAlone DEF Turn
<1>. QED
  BY Zenon, <1>1, <1>2, <1>3, AloneEmpty

(* A start at work that goes on without a sandbox.                         *)
LEMMA StartOn ==
  ASSUME Base, Alone, NEW a \in Active, NEW pc \in Working \ Early, Turn(a, pc),
         start[a] \notin Handling, row'.sbx = 0, row'.status \notin {"queued", "running"}
  PROVE  Alone'
<1>0. a \in Attempt /\ pc \in StartState
  BY Zenon DEF Active, Working
<1>1. Active' = {a} /\ start'[a] = pc
  BY Zenon, <1>0, NowActive DEF Turn
<1>2. Live' = {}
  <2>1. Live' = Live
    BY Zenon DEF Turn, provider, Live
  <2>. QED
    BY Zenon, <2>1, WorksAlone
<1>3. holder' \notin {"exit"} \X {"zero", "nonzero", "error"} /\ phase' = "up"
  BY Zenon, WorksAlone DEF Turn
<1>. QED
  BY Zenon, <1>0, <1>1, <1>2, <1>3, AloneWorks

(* ClaimNextRunnable and the first critical section.                       *)
LEMMA ClaimsAlone ==
  ASSUME Ordinary, Base, Alone, NEW a \in Attempt, Claim(a) \/ Admit(a)
  PROVE  Alone'
<1>1. CASE Claim(a)
  <2>1. row.status = "queued" /\ row.lease = FALSE
    BY Zenon, <1>1, Claimed, TheRow DEF Ordinary
  <2>2. Active = {} /\ row.sbx = 0
    BY Zenon, <2>1 DEF Alone
  <2>3. Live = {}
    <3>1. \A c \in Live : c \in Attempt
      BY Zenon DEF Live
    <3>2. \A b \in Attempt : b # 0
      BY LifecycleConstants DEF Attempt
    <3>. QED
      BY Zenon, <2>1, <2>2, <3>1, <3>2, RowsAlone DEF Orphaned
  <2>4. Active' = {a} /\ start'[a] = "claimed"
    BY Zenon, <1>1, <2>2, NowActive, Claimed DEF Turn, StartState, Working
  <2>5. Live' = {} /\ phase' = "up" /\ holder' = holder
    BY Zenon, <1>1, <2>3, Claimed DEF Turn, provider, Live
  <2>6. holder = Free /\ Free \notin {"exit"} \X {"zero", "nonzero", "error"}
    <3>1. Free \notin {"exit"} \X {"zero", "nonzero", "error"}
      BY SMT DEF Free
    <3>. QED
      BY Zenon, <2>1, <3>1 DEF Base, Held
  <2>7. row'.status = "queued" /\ row'.sbx = 0 /\ row'.lease = TRUE
    BY Zenon, <1>1, <2>2, Claimed DEF Reads
  <2>. QED
    BY Zenon, <2>4, <2>5, <2>6, <2>7, AloneWorks DEF Early
<1>2. CASE Admit(a)
  <2>1. start[a] = "claimed" /\ a \in Active /\ start[a] \in Early
    BY Zenon, <1>2, Admitted DEF Active, Working, StartState, Early
  <2>2. row.sbx = 0 /\ row.status \notin {"creating", "running"} /\ (row.status = "queued" => row.lease)
    BY Zenon, <2>1 DEF Alone
  <2>3. CASE row.status # "queued" /\ Turn(a, "done") /\ row' = row
    BY Zenon, <2>1, <2>2, <2>3, StartOver DEF Handling, Early
  <2>4. CASE row.status = "queued" /\ (Turn(a, "refused") \/ Turn(a, "leaving")) /\ row' = row
    <3>1. PICK pc \in {"refused", "leaving"} : Turn(a, pc)
      BY Zenon, <2>4
    <3>2. pc \in StartState /\ pc \in Working /\ pc \in Early
      BY Zenon, <3>1 DEF StartState, Working, Early
    <3>3. Active' = {a} /\ start'[a] = pc
      BY Zenon, <2>1, <3>1, <3>2, NowActive DEF Turn
    <3>4. Live' = {}
      <4>1. Live' = Live
        BY Zenon, <3>1 DEF Turn, provider, Live
      <4>. QED
        BY Zenon, <2>1, <4>1, WorksAlone DEF Handling, Early
    <3>5. holder' \notin {"exit"} \X {"zero", "nonzero", "error"} /\ phase' = "up"
      BY Zenon, <2>1, <3>1, WorksAlone DEF Turn
    <3>. QED
      BY Zenon, <2>2, <2>4, <3>2, <3>3, <3>4, <3>5, AloneWorks
  <2>5. CASE /\ row.status = "queued" /\ Turn(a, "creating")
             /\ Reads(row', "creating", row.sbx, TRUE, row.assigned, row.term)
    <3>1. row'.sbx = 0 /\ row'.status = "creating"
      BY Zenon, <2>2, <2>5 DEF Reads
    <3>2. "creating" \in Working \ Early /\ start[a] \notin Handling
      BY Zenon, <2>1 DEF Working, StartState, Early, Handling
    <3>. QED
      BY Zenon, <2>1, <2>5, <3>1, <3>2, StartOn
  <2>. QED
    BY Zenon, <1>2, <2>3, <2>4, <2>5, Admitted
<1>. QED
  BY Zenon, <1>1, <1>2

(* The steps of a start before it has a sandbox, and after it gave it up.  *)
LEMMA TurnsAlone ==
  ASSUME Base, Alone, NEW a \in Attempt,
         \/ Leave(a) \/ ReadBefore(a) \/ Prepare(a) \/ Check(a) \/ DeferCreating(a) \/ FailStart(a)
  PROVE  Alone'
<1>1. start[a] \in {"leaving", "creating", "ready", "checking", "yielding", "refused", "failing"}
  BY Zenon, Left, Went, Checked, Deferred, FailedStart
<1>2. a \in Active /\ start[a] \notin Handling
  BY Zenon, <1>1 DEF Active, Working, StartState, Handling
<1>3. row.sbx = 0 /\ row.status # "running"
  BY Zenon, <1>2, WorksAlone
<1>4. CASE Leave(a)
  <2>1. row'.sbx = 0 /\ row'.status # "running"
    BY Zenon, <1>3, <1>4, Left DEF Reads
  <2>. QED
    BY Zenon, <1>2, <1>4, <2>1, Left, StartOver
<1>5. start[a] \notin Early => row.status # "queued"
  BY Zenon, <1>2 DEF Alone
<1>6. CASE ReadBefore(a) \/ Prepare(a)
  <2>1. PICK pc \in {"checking", "ready", "failing", "yielding", "starting"} : Turn(a, pc)
    BY Zenon, <1>6, Went
  <2>2. pc \in Working \ Early /\ start[a] \notin Early /\ row' = row
    BY Zenon, <1>6, Went DEF Working, StartState, Early
  <2>. QED
    BY Zenon, <1>2, <1>3, <1>5, <2>1, <2>2, StartOn
<1>7. CASE Check(a)
  <2>1. CASE row' = row /\ \E pc \in {"ready", "failing"} : Turn(a, pc)
    <3>1. PICK pc \in {"ready", "failing"} : Turn(a, pc)
      BY Zenon, <2>1
    <3>2. pc \in Working \ Early /\ start[a] \notin Early /\ row' = row
      BY Zenon, <1>7, <2>1, Checked DEF Working, StartState, Early
    <3>. QED
      BY Zenon, <1>2, <1>3, <1>5, <3>1, <3>2, StartOn
  <2>2. CASE Turn(a, "done")
    <3>1. row'.sbx = 0 /\ row'.status # "running"
      BY Zenon, <1>3, <1>7, Checked DEF Reads
    <3>. QED
      BY Zenon, <1>2, <2>2, <3>1, StartOver
  <2>. QED
    BY Zenon, <1>7, <2>1, <2>2, Checked
<1>8. CASE DeferCreating(a)
  <2>1. row'.sbx = 0 /\ row'.status # "running"
    BY Zenon, <1>3, <1>8, Deferred DEF Reads
  <2>. QED
    BY Zenon, <1>2, <1>8, <2>1, Deferred, StartOver
<1>9. CASE FailStart(a)
  <2>1. row'.sbx = 0 /\ row'.status # "running"
    BY Zenon, <1>3, <1>9, FailedStart DEF Reads
  <2>. QED
    BY Zenon, <1>2, <1>9, <2>1, FailedStart, StartOver
<1>. QED
  BY Zenon, <1>4, <1>6, <1>7, <1>8, <1>9

(* The steps of a start with the sandbox it creates.                       *)
LEMMA HandlesAlone ==
  ASSUME Base, Alone, NEW a \in Attempt,
         CreateSandbox(a) \/ LaunchRunner(a) \/ StartFails(a) \/ Discard(a)
  PROVE  Alone'
<1>1. start[a] \in {"starting", "provisioned", "discard"}
  BY Zenon, Handled
<1>2. a \in Active /\ start[a] \notin Early
  BY Zenon, <1>1 DEF Active, Working, StartState, Early
<1>3. row.sbx = 0 /\ row.status \notin {"running", "queued"} /\ phase = "up"
      /\ holder \notin {"exit"} \X {"zero", "nonzero", "error"}
  BY Zenon, <1>2, WorksAlone DEF Alone
<1>4. PICK pc \in {"provisioned", "started", "failing", "done"} : Handles(a, pc)
  BY Zenon, Handled
<1>5. UNCHANGED <<row, holder, phase>> /\ start' = [start EXCEPT ![a] = pc]
      /\ \A b \in Attempt \ {a} : sandbox'[b] = sandbox[b] /\ (b \in abandoned => b \in abandoned')
  BY Zenon, <1>4 DEF Handles
<1>6. start'[a] = pc /\ Active' = IF pc \in Working THEN {a} ELSE {}
  <2>1. pc \in StartState
    BY Zenon, <1>4 DEF StartState
  <2>. QED
    BY Zenon, <1>2, <1>5, <2>1, NowActive
<1>7. \A c \in Live' : c = a
  BY Zenon, <1>2, <1>5, WorksAlone DEF Live
<1>8. CASE pc \in {"provisioned", "started"}
  <2>1. pc \in Working /\ pc \in Handling /\ pc \notin Early
    BY Zenon, <1>8 DEF Working, StartState, Handling, Early
  <2>. QED
    BY Zenon, <1>3, <1>5, <1>6, <1>7, <2>1, AloneWorks
<1>9. CASE pc \in {"failing", "done"}
  <2>1. a \notin Live'
    <3>1. CASE sandbox'[a] = "gone" \/ a \in abandoned'
      BY Zenon, <3>1 DEF Live
    <3>2. CASE start[a] = "starting" /\ sandbox' = sandbox /\ abandoned' = abandoned
      <4>1. Live' = Live
        BY Zenon, <3>2 DEF Live
      <4>. QED
        BY Zenon, <1>2, <3>2, <4>1, WorksAlone DEF Handling
    <3>3. start'[a] \notin {"provisioned", "started"}
      BY Zenon, <1>6, <1>9
    <3>4. \A x \in {"provisioned", "started"} : Handles(a, x) => start'[a] = x
      BY Zenon, <1>2, NowActive DEF Handles, StartState
    <3>. QED
      BY ZenonT(30), <3>1, <3>2, <3>3, <3>4, Handled
  <2>2. Live' = {}
    BY Zenon, <1>7, <2>1
  <2>3. CASE pc = "failing"
    <3>1. pc \in Working /\ pc \notin Early
      BY Zenon, <2>3 DEF Working, StartState, Early
    <3>. QED
      BY ZenonT(30), <1>3, <1>5, <1>6, <2>2, <3>1, AloneWorks
  <2>4. CASE pc = "done"
    <3>1. pc \notin Working
      BY Zenon, <2>4 DEF Working
    <3>. QED
      BY Zenon, <1>3, <1>5, <1>6, <2>2, <3>1, AloneEmpty
  <2>. QED
    BY Zenon, <1>9, <2>3, <2>4
<1>. QED
  BY Zenon, <1>8, <1>9

(* The critical section after StartRunner.                                 *)
LEMMA AdoptsAlone ==
  ASSUME Base, Alone, NEW a \in Attempt, Adopt(a)
  PROVE  Alone'
<1>1. a \in Active /\ start[a] \notin Early
  BY Zenon, Adopted DEF Active, Working, StartState, Early
<1>2. row.sbx = 0 /\ row.status \notin {"running", "queued"} /\ phase = "up"
      /\ holder \notin {"exit"} \X {"zero", "nonzero", "error"}
  BY Zenon, <1>1, WorksAlone DEF Alone
<1>3. \A c \in Live' : c = a
  <2>1. Live' = Live
    BY Zenon, Adopted DEF provider, Live
  <2>. QED
    BY Zenon, <1>1, <2>1, WorksAlone
<1>4. CASE /\ Reads(row', "running", a, FALSE, row.assigned, row.term)
           /\ start' = [start EXCEPT ![a] = "watching"]
  <2>1. Active' = {}
    BY Zenon, <1>1, <1>4, NowActive DEF StartState, Working
  <2>. QED
    BY Zenon, <1>3, <1>4, <2>1, AloneOwned DEF Reads
<1>5. CASE start' = [start EXCEPT ![a] = "discard"] /\ UNCHANGED row
  <2>1. Active' = {a} /\ start'[a] = "discard"
    BY Zenon, <1>1, <1>5, NowActive DEF StartState, Working
  <2>2. "discard" \in Handling /\ "discard" \notin Early
    BY Zenon DEF Handling, Early
  <2>3. UNCHANGED <<holder, phase>>
    BY Zenon, Adopted
  <2>. QED
    BY Zenon, <1>2, <1>3, <1>5, <2>1, <2>2, <2>3, AloneWorks
<1>. QED
  BY Zenon, <1>4, <1>5, Adopted

(* A handler that leaves the row's sandbox alone and queues nothing.       *)
LEMMA CalmAlone ==
  ASSUME Base, Alone, UNCHANGED <<start, crashes>>, phase' \in {"up", phase}, row'.sbx = row.sbx,
         Live' \subseteq Live,
         \/ row'.status = row.status /\ row'.lease = row.lease
         \/ row'.status \in {"stopping", "completed", "failed"},
         holder' \in {"exit"} \X {"zero", "nonzero", "error"} => row'.sbx # 0
  PROVE  Alone'
<1>1. Active' = Active /\ \A a \in Active : start'[a] = start[a]
  BY Zenon DEF Active
<1>. QED
  BY Zenon, <1>1, AloneKept

(* A stop that begins.                                                     *)
LEMMA StopsAlone ==
  ASSUME Base, Alone, UNCHANGED <<start, crashes>>, phase' \in {"up", phase}, Live' \subseteq Live,
         \/ \E j \in {"none", "own", "other"}, ours \in BOOLEAN : StopRunner(j, ours)
         \/ \E s \in {"timeout", "recovery"} : ForceStop(s)
  PROVE  Alone'
<1>1. /\ row'.sbx = row.sbx
      /\ \/ row'.status = row.status /\ row'.lease = row.lease
         \/ row'.status \in {"stopping", "completed", "failed"}
      /\ holder' = holder \/ \E x \in {"stop", "force"}, y \in {"none", "own", "other", "timeout", "recovery"} :
                                holder' = <<x, y>>
  <2>1. CASE \E j \in {"none", "own", "other"}, ours \in BOOLEAN : StopRunner(j, ours)
    <3>1. PICK j \in {"none", "own", "other"}, ours \in BOOLEAN : StopRunner(j, ours)
      BY Zenon, <2>1
    <3>2. holder' = holder \/ holder' = <<"stop", j>>
      BY Zenon, <3>1, Stops
    <3>. QED
      BY Zenon, <3>1, <3>2, Stops DEF Reads
  <2>2. CASE \E s \in {"timeout", "recovery"} : ForceStop(s)
    <3>1. PICK s \in {"timeout", "recovery"} : ForceStop(s)
      BY Zenon, <2>2
    <3>2. holder' = holder \/ holder' = <<"force", s>>
      BY Zenon, <3>1, Forces
    <3>. QED
      BY Zenon, <3>1, <3>2, Forces DEF Reads
  <2>. QED
    BY Zenon, <2>1, <2>2
<1>2. holder' = holder \/ holder' \notin {"exit"} \X {"zero", "nonzero", "error"}
  BY SMT, <1>1
<1>3. holder' \in {"exit"} \X {"zero", "nonzero", "error"} => row'.sbx # 0
  BY Zenon, <1>1, <1>2 DEF Alone
<1>. QED
  BY Zenon, <1>1, <1>3, CalmAlone

(* A handler that returns: the queue gets the request back only with its   *)
(* sandbox stopped.                                                        *)
LEMMA FinishedAlone ==
  ASSUME Base, Own, Alone, FinishNext
  PROVE  Alone'
<1>0. Free \notin {"exit"} \X {"zero", "nonzero", "error"}
  BY SMT DEF Free
<1>1. ASSUME NEW s \in SandboxStop, Over(s)
      PROVE  /\ Live' \subseteq Live /\ UNCHANGED <<start, crashes>> /\ phase' \in {"up", phase}
             /\ holder' \notin {"exit"} \X {"zero", "nonzero", "error"}
             /\ s = "ok" => \A c \in Attempt : c = row.sbx => sandbox'[c] = "gone"
  BY Zenon, <1>0, <1>1, StopCalled DEF Over, Live, starts
<1>2. CASE \E s \in SandboxStop : Over(s) /\ Settled(row')
  <2>1. PICK s \in SandboxStop : Over(s) /\ Settled(row')
    BY Zenon, <1>2
  <2>2. row'.sbx = row.sbx /\ row'.status \in {"stopping", "completed", "failed"}
    BY Zenon, <2>1 DEF Settled, Reads
  <2>. QED
    BY Zenon, <1>1, <2>1, <2>2, CalmAlone
<1>3. CASE /\ holder \in {"exit"} \X {"zero", "nonzero", "error"}
           /\ \E s \in SandboxStop : Over(s) /\ s = "ok" /\ Released(row')
  <2>1. PICK s \in SandboxStop : Over(s) /\ s = "ok" /\ Released(row')
    BY Zenon, <1>3
  <2>2. row.sbx # 0
    BY Zenon, <1>3 DEF Alone
  <2>3. Active = {}
    BY Zenon, <2>2 DEF Alone
  <2>4. \A c \in Live : row.sbx = c
    BY Zenon, <2>2, <2>3, RowsAlone DEF Orphaned
  <2>5. Live' = {}
    BY Zenon, <1>1, <2>1, <2>4 DEF Live
  <2>6. Active' = {}
    BY Zenon, <1>1, <2>1, <2>3 DEF Active
  <2>7. row'.sbx = 0 /\ row'.status # "running"
    BY Zenon, <2>1 DEF Released, Reads
  <2>. QED
    BY Zenon, <1>1, <2>1, <2>5, <2>6, <2>7, AloneEmpty
<1>4. FinishStop => holder[2] # "other"
  <2>1. holder \in {"stop"} \X {"none", "own", "other"} /\ holder # <<"stop", "other">> => holder[2] # "other"
    BY SMT
  <2>. QED
    BY Zenon, <2>1 DEF FinishStop, Own
<1>. QED
  BY Zenon, <1>2, <1>3, <1>4, StopReturns, ForceReturns, ExitReturns DEF FinishNext

(* The exit callback of an attempt.                                        *)
LEMMA ExitedAlone ==
  ASSUME Base, Alone, NEW a \in Attempt,
         (\E code \in {"zero", "nonzero", "error"} : RunnerExited(a, code)) \/ BusyChecked(a)
  PROVE  Alone'
<1>1. start[a] \in {"watching", "done"} /\ start \in [Attempt -> StartState]
  BY Zenon, Exited DEF Base, Begun, TypeOK
<1>2. start' = start \/ start' = [start EXCEPT ![a] = "done"]
  BY Zenon, Exited
<1>3. start'[a] \in {"watching", "done"} /\ \A b \in Attempt \ {a} : start'[b] = start[b]
  BY <1>1, <1>2
<1>4. Active' = Active /\ a \notin Active
  BY Zenon, <1>1, <1>3 DEF Active, Working
<1>5. \A b \in Active : start'[b] = start[b]
  BY Zenon, <1>3, <1>4 DEF Active
<1>6. Live' = Live /\ UNCHANGED <<crashes, phase>>
  BY Zenon, Exited DEF provider, Live
<1>7. a # 0
  BY LifecycleConstants DEF Attempt
<1>8. /\ row'.sbx = row.sbx
      /\ \/ row'.status = row.status /\ row'.lease = row.lease
         \/ row'.status \in {"stopping", "completed", "failed"}
      /\ holder' = holder \/ row.sbx = a
  BY Zenon, <1>7, Exited DEF Reads, Alone
<1>9. holder' \in {"exit"} \X {"zero", "nonzero", "error"} => row'.sbx # 0
  BY Zenon, <1>7, <1>8 DEF Alone
<1>. QED
  BY Zenon, <1>4, <1>5, <1>6, <1>8, <1>9, AloneKept

(* The loops, the webhooks, the runner's output, GitHub and the provider.  *)
LEMMA OutsideAlone ==
  ASSUME Ordinary, Base, Own, Alone,
         \/ \E l \in Loops : LoopNext(l)
         \/ \E a \in Attempt : JobStarted(a)
         \/ ReconcileNext \/ RequestNext \/ WorldNext \/ UNCHANGED vars
  PROVE  Alone'
<1>1. holder' = holder /\ row'.sbx = row.sbx =>
        (holder' \in {"exit"} \X {"zero", "nonzero", "error"} => row'.sbx # 0)
  BY Zenon DEF Alone
<1>2. Calm => Live' \subseteq Live /\ UNCHANGED <<start, crashes>>
  BY Zenon DEF Calm, provider, starts, Live
<1>3. CASE \E l \in Loops : LoopNext(l)
  <2>1. PICK l \in Loops : LoopNext(l)
    BY Zenon, <1>3
  <2>2. saw[l] \in {"none", "stopping"}
    BY Zenon DEF Own
  <2>3. Calm /\ phase' = phase /\ (Kept \/ StopRunner("none", FALSE))
    BY Zenon, <2>1, <2>2, Looped
  <2>. QED
    BY Zenon, <1>1, <1>2, <2>3, CalmAlone, StopsAlone DEF Kept
<1>4. CASE ReconcileNext
  <2>1. /\ Brief /\ row'.sbx = row.sbx
        /\ \/ row'.status = row.status /\ row'.lease = row.lease
           \/ row'.status \in {"stopping", "completed", "failed"}
    BY Zenon, <1>4, Reconciled DEF Own, Reads
  <2>. QED
    BY Zenon, <1>1, <1>2, <2>1, CalmAlone DEF Brief
<1>5. CASE RequestNext \/ \E a \in Attempt : JobStarted(a)
  <2>1. CASE /\ Brief /\ \E j : Reads(row', row.status, row.sbx, row.lease, j, row.term)
    <3>1. row'.sbx = row.sbx /\ row'.status = row.status /\ row'.lease = row.lease
      BY Zenon, <2>1 DEF Reads
    <3>. QED
      BY Zenon, <1>1, <1>2, <2>1, <3>1, CalmAlone DEF Brief
  <2>2. CASE /\ Calm /\ phase' = phase
             /\ \E j \in {"none", "own", "other"}, ours \in BOOLEAN : StopRunner(j, ours)
    BY Zenon, <1>2, <2>2, StopsAlone
  <2>. QED
    BY Zenon, <1>5, <2>1, <2>2, Requested DEF Ordinary
<1>6. CASE WorldNext
  <2>1. Live' \subseteq Live /\ UNCHANGED <<start, crashes, row, phase, holder>>
    BY Zenon, <1>6, WorldMoved DEF Quiet, Live, starts
  <2>. QED
    BY Zenon, <1>1, <2>1, CalmAlone
<1>7. CASE UNCHANGED vars
  <2>1. Live' = Live /\ UNCHANGED <<start, crashes, row, phase, holder>>
    BY Zenon, <1>7 DEF vars, Live
  <2>. QED
    BY Zenon, <1>1, <2>1, CalmAlone
<1>. QED
  BY Zenon, <1>3, <1>4, <1>5, <1>6, <1>7

(* A crash orphans the sandbox of the start at work.                       *)
LEMMA CrashAlone ==
  ASSUME Base, Alone, Crash
  PROVE  Alone'
<1>1. Active' = {}
  <2>1. \A b \in Attempt : start'[b] \in {"idle", "done"}
    BY Zenon, Crashed
  <2>. QED
    BY Zenon, <2>1 DEF Active, Working
<1>2. row' = row /\ crashes' # 0 /\ holder' \notin {"exit"} \X {"zero", "nonzero", "error"}
  <2>1. Free \notin {"exit"} \X {"zero", "nonzero", "error"}
    BY SMT DEF Free
  <2>2. crashes' # 0
    BY Crashed
  <2>. QED
    BY Zenon, <2>1, <2>2, Crashed
<1>3. \A c \in Live' : c \in Live \/ (c \in Attempt /\ start[c] = "starting")
  BY Zenon, Crashed DEF Live
<1>4. \A c \in Attempt : start[c] = "starting" => c \in Active
  BY Zenon DEF Active, Working, StartState
<1>5. ASSUME Active # {}
      PROVE  (\A c \in Live' : Orphaned') /\ (\A c, d \in Live' : c = d)
  <2>1. PICK a : a \in Active
    BY Zenon, <1>5
  <2>2. row.sbx = 0 /\ row.status # "running"
    BY Zenon, <2>1, WorksAlone
  <2>3. \A c \in Live' : c = a /\ start[a] \notin Early
    <3>1. \A c \in Live : c = a /\ start[a] \in Handling
      BY Zenon, <2>1, WorksAlone
    <3>2. \A c \in Active : c = a
      BY Zenon, <2>1 DEF Alone
    <3>. QED
      BY Zenon, <1>3, <1>4, <3>1, <3>2 DEF Handling, Early
  <2>4. start[a] \notin Early => row.status # "queued"
    BY Zenon, <2>1 DEF Alone
  <2>. QED
    BY Zenon, <1>1, <1>2, <2>2, <2>3, <2>4 DEF Orphaned
<1>6. ASSUME Active = {}
      PROVE  (\A c \in Live' : row'.sbx = c \/ Orphaned') /\ (\A c, d \in Live' : c = d)
  <2>1. \A c \in Live' : c \in Live
    BY Zenon, <1>3, <1>4, <1>6
  <2>2. Orphaned => Orphaned'
    BY Zenon, <1>1, <1>2 DEF Orphaned
  <2>. QED
    BY ZenonT(30), <1>2, <1>6, <2>1, <2>2, RowsAlone DEF Alone
<1>7. (\A c \in Live' : row'.sbx = c \/ Orphaned') /\ (\A c, d \in Live' : c = d)
  BY Zenon, <1>5, <1>6
<1>8. /\ row'.status \in {"queued", "creating"} => row'.sbx = 0
      /\ row'.status = "running" => row'.sbx # 0
  BY Zenon, <1>2 DEF Alone
<1>. QED
  BY Zenon, <1>1, <1>2, <1>7, <1>8 DEF Alone

(* Recover starts over only when no sandbox of the request is left, and    *)
(* takes up the only one there is.                                         *)
LEMMA RecoversAlone ==
  ASSUME Base, Alone, RecoverNext
  PROVE  Alone'
<1>1. Active = {} /\ Active' = {}
  <2>1. \A a \in Attempt : start[a] \in {"idle", "done"} /\ start'[a] = start[a]
    BY Zenon, Recoveries DEF Base, Begun, starts
  <2>. QED
    BY Zenon, <2>1 DEF Active, Working
<1>2. UNCHANGED <<start, crashes, abandoned>> /\ phase' \in {"up", phase} /\ holder = Free
  BY Zenon, Recoveries DEF starts
<1>3. Free \notin {"exit"} \X {"zero", "nonzero", "error"} /\ \A b \in Attempt : b # 0
  BY LifecycleConstants DEF Free, Attempt
<1>4. CASE /\ UNCHANGED <<provider, watch>>
           /\ \/ \E j \in {"none", "own"}, ours \in BOOLEAN : StopRunner(j, ours)
              \/ \E s \in {"timeout", "recovery"} : ForceStop(s)
  <2>1. Live' \subseteq Live
    BY Zenon, <1>4 DEF provider, Live
  <2>. QED
    BY Zenon, <1>2, <1>4, <2>1, StopsAlone
<1>5. Quiet => Live' \subseteq Live /\ holder' = Free
  BY Zenon, <1>2 DEF Quiet, Live
<1>6. CASE Quiet /\ row' = row
  BY Zenon, <1>2, <1>3, <1>5, <1>6, CalmAlone
<1>7. CASE Quiet /\ row.status = "queued" /\ Reads(row', "queued", row.sbx, FALSE, row.assigned, row.term)
  <2>1. row.sbx = 0
    BY Zenon, <1>7 DEF Alone
  <2>2. Live = {}
    <3>1. \A c \in Live : c \in Attempt
      BY Zenon DEF Live
    <3>. QED
      BY Zenon, <1>1, <1>3, <1>7, <2>1, <3>1, RowsAlone DEF Orphaned
  <2>3. Live' = {} /\ row'.sbx = 0 /\ row'.status # "running"
    BY Zenon, <1>5, <1>7, <2>1, <2>2 DEF Reads
  <2>. QED
    BY ZenonT(30), <1>1, <1>3, <1>5, <1>7, <2>3, AloneEmpty
<1>8. row.status = "creating" => Found = {b \in Attempt : sandbox[b] = "live"}
  BY Zenon DEF Alone, Found
<1>9. CASE /\ Quiet /\ row.status = "creating" /\ Reads(row', "queued", 0, FALSE, row.assigned, row.term)
           /\ Found = {} \/ \E b \in Attempt : Found = {b} /\ sandbox'[b] = "gone"
  <2>1. \A c \in Live' : c \in Found /\ sandbox'[c] # "gone"
    <3>1. \A c \in Live' : c \in Live /\ sandbox'[c] = "live"
      BY Zenon, <1>5, <1>9 DEF Live
    <3>. QED
      BY Zenon, <1>8, <1>9, <3>1 DEF Live
  <2>2. Live' = {} /\ row'.sbx = 0 /\ row'.status # "running"
    BY Zenon, <1>9, <2>1 DEF Reads
  <2>. QED
    BY Zenon, <1>1, <1>3, <1>5, <1>9, <2>2, AloneEmpty
<1>10. CASE /\ row.status \in {"creating", "running"} /\ UNCHANGED <<provider, holder>>
            /\ \E b \in Attempt : Found = {b} /\ Reads(row', "running", b, FALSE, row.assigned, row.term)
  <2>1. PICK b \in Attempt : Found = {b} /\ Reads(row', "running", b, FALSE, row.assigned, row.term)
    BY Zenon, <1>10
  <2>2. Live' = Live
    BY Zenon, <1>10 DEF provider, Live
  <2>3. \A c \in Live : c = b
    <3>1. CASE row.sbx = 0
      BY Zenon, <2>1, <3>1 DEF Found, Live
    <3>2. CASE row.sbx # 0
      <4>1. b = row.sbx
        BY Zenon, <2>1, <3>2 DEF Found
      <4>. QED
        BY Zenon, <1>1, <3>2, <4>1, RowsAlone DEF Orphaned
    <3>. QED
      BY Zenon, <3>1, <3>2
  <2>. QED
    BY Zenon, <1>1, <2>1, <2>2, <2>3, AloneOwned DEF Reads
<1>. QED
  BY Zenon, <1>4, <1>6, <1>7, <1>9, <1>10, Recoveries

(* Every step keeps a start alone.                                         *)
LEMMA StepAlone ==
  ASSUME Ordinary, Base, Own, Alone, [Next]_vars
  PROVE  Alone'
<1>1. ASSUME NEW a \in Attempt, StartNext(a)
      PROVE  Alone'
  BY Zenon, <1>1, ClaimsAlone, TurnsAlone, HandlesAlone, AdoptsAlone DEF StartNext
<1>. QED
  BY Zenon, <1>1, FinishedAlone, ExitedAlone, OutsideAlone, CrashAlone, RecoversAlone DEF Next, WatcherNext

(* So it is always.                                                        *)
LEMMA AlwaysAlone ==
  ASSUME Ordinary
  PROVE  Spec => [](Base /\ Own /\ Alone)
<1>1. Init => Base /\ Own /\ Alone
  <2>. SUFFICES ASSUME Init
                PROVE  Base /\ Own /\ Alone
    OBVIOUS
  <2>1. Active = {} /\ Live = {} /\ row.sbx = 0 /\ row.status = "queued" /\ row.assigned = "none"
    <3>1. \A a \in Attempt : start[a] = "idle" /\ sandbox[a] = "none"
      BY DEF Init
    <3>. QED
      BY Zenon, <3>1 DEF Active, Live, Working, Init
  <2>2. holder \notin {"exit"} \X {"zero", "nonzero", "error"} /\ holder # <<"stop", "other">>
    BY SMT DEF Init, Free
  <2>3. Alone
    BY Zenon, <2>1, <2>2 DEF Alone
  <2>4. \A l \in Loops : saw[l] \in {"none", "stopping"}
    BY DEF Init
  <2>5. \A a \in Attempt : process[a] # "other"
    BY DEF Init
  <2>6. Own
    BY Zenon, <2>1, <2>2, <2>4, <2>5 DEF Own, Init
  <2>. QED
    BY Zenon, <2>3, <2>6, InitBase
<1>2. Base /\ Own /\ Alone /\ [Next]_vars => Base' /\ Own' /\ Alone'
  BY Zenon, StepBase, OwnStep, StepAlone
<1>. QED
  BY <1>1, <1>2, PTL DEF Spec

(* Until runnerd crashes, a live sandbox that no failed kill gave up on is *)
(* the row's, or that of the start that created it, whatever fails and     *)
(* however often the request is retried; database writes may fail.  The    *)
(* four assumptions are those of Ordinary, and none can go: the sweeper    *)
(* times a row out under its start, a job that another runner did or a     *)
(* retry by hand queues the row under it, and a start that lost its lease  *)
(* fails the row of the next one.                                          *)
THEOREM NoSandboxLost ==
  ASSUME Ordinary
  PROVE  Spec => []SandboxAccounted
<1>1. Alone => SandboxAccounted
  BY Zenon DEF Alone, Live, Orphaned, Handling, SandboxAccounted
<1>. QED
  BY <1>1, AlwaysAlone, PTL

(* However often runnerd crashes and recovers, the request never has two   *)
(* live sandboxes that nobody gave up on, with runners in them or not.     *)
THEOREM OneRunner ==
  ASSUME Ordinary
  PROVE  Spec => []OneRunnerPerRequest
<1>1. Alone => OneRunnerPerRequest
  BY Zenon DEF Alone, Live, OneRunnerPerRequest
<1>. QED
  BY <1>1, AlwaysAlone, PTL

=============================================================================
