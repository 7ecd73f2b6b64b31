----------------------- MODULE DeploymentWorkerProofs -----------------------
(***************************************************************************)
(* What DeploymentWorker keeps for any number of handlers, revisions,      *)
(* requests and crashes.                                                   *)
(*                                                                         *)
(* The argument.  An actor whose copy is not stale knows what the row says *)
(* (Knows), so a write that the version lets through starts from a known   *)
(* status.  From this come the types, the two action properties and the    *)
(* table of moves that DeploymentAdmission counts with.  The provider runs *)
(* a sandbox only for the row's attempt, and none while the row is queued  *)
(* or over (SandboxInv): whoever gives the sandbox up in the row has       *)
(* closed it, or has waited for its deadline.  A retry keeps that when the *)
(* row it queues again names no sandbox, which is RetryAfterCleanup.       *)
(***************************************************************************)
EXTENDS DeploymentWorker, TLAPS

Held == {"apply", "undoCreate", "undoneCreate", "stuckCreate",
         "undoApply", "undoneApply", "stuckApply"}
Building == {"create", "created", "partial", "drop"} \cup Held
JobOnly == {"plan", "recover", "probe", "observed"} \cup Building
Closing == {"close", "closed", "unclosed"}

(* Nothing but a retry or the retention changes the row any more.          *)
Over == row.status \in Terminal \cup {"pruned"} /\ row.sbx = 0

RowInv ==
    /\ row.sbx \in {0, row.attempt}
    /\ row.attempt <= row.rev
    /\ row.status \in {"queued", "planning"} => row.attempt < row.rev /\ row.sbx = 0
    /\ row.status = "creating" => row.attempt # 0
    /\ row.status = "running" => row.sbx # 0
    /\ row.status = "pruned" => row.sbx = 0

(* What the row says while the copy of x is up to date.                    *)
Knows(x) ==
    /\ pc[x] = "plan" => row.status = "planning"
    /\ pc[x] \in {"create", "created", "partial"} =>
          row.status = "creating" /\ row.sbx = 0 /\ att[x] = row.attempt
    /\ pc[x] \in Held => row.status = "creating" /\ att[x] = row.sbx
    /\ pc[x] = "recover" => row.status = "creating"
    /\ pc[x] \in {"probe", "observed"} => row.status = "running"
    /\ pc[x] = "lookup" =>
          row.status \in {"creating", "stopping"} /\ row.sbx = 0 /\ row.attempt # 0
    /\ pc[x] = "mark" => row.status \in {"creating", "stopping"}
    /\ pc[x] \in Closing => row.status = "stopping" /\ att[x] = row.sbx

ActorInv(x) ==
    /\ x # "job" => pc[x] \notin JobOnly
    /\ pc[x] \in Building => att[x] # 0
    /\ pc[x] \in Building \cup {"plan"} => row.status # "running"
    /\ att[x] <= row.attempt
    /\ pc[x] \in Closing /\ att[x] # 0 /\ att[x] = row.attempt =>
          row.status \notin {"creating", "running"}
    /\ pc[x] = "unclosed" => att[x] # 0
    /\ pc[x] = "retry" => Over \/ row.rev >= 2
    /\ x \notin stale => Knows(x)

BaseInv == TypeOK /\ RowInv /\ \A x \in Actor : ActorInv(x)

-----------------------------------------------------------------------------
(* Rows                                                                    *)

(* A new status keeps what the row is about.                               *)
LEMMA MovedRow ==
  ASSUME NEW r \in Row, NEW st \in Status
  PROVE  /\ Moved(r, st) \in Row
         /\ Moved(r, st).status = st /\ Moved(r, st).sbx = r.sbx
         /\ Moved(r, st).attempt = r.attempt /\ Moved(r, st).rev = r.rev
         /\ st = "stopping" /\ r.status \in {"failed", "stopping"} /\ r.failure # "none" =>
              Moved(r, st).failure = r.failure
BY Zenon DEF Moved, Row, Failure, Status

(* A failure says so.                                                      *)
LEMMA FailedRow ==
  ASSUME NEW r \in Row, NEW s \in {0} \cup Attempt, NEW g \in Failure
  PROVE  /\ Failed(r, s, g) \in Row
         /\ Failed(r, s, g).status = "failed" /\ Failed(r, s, g).sbx = s
         /\ Failed(r, s, g).attempt = r.attempt /\ Failed(r, s, g).rev = r.rev
         /\ Failed(r, s, g).failure = g
BY Zenon DEF Failed, Row, Failure, Status

(* The sandbox of a row is named or given up.                              *)
LEMMA NamedRow ==
  ASSUME NEW r \in Row, NEW s \in {0} \cup Attempt
  PROVE  /\ [r EXCEPT !.sbx = s] \in Row
         /\ [r EXCEPT !.sbx = s].status = r.status /\ [r EXCEPT !.sbx = s].sbx = s
         /\ [r EXCEPT !.sbx = s].attempt = r.attempt /\ [r EXCEPT !.sbx = s].rev = r.rev
         /\ [r EXCEPT !.sbx = s].failure = r.failure
BY DEF Row

(* The fields of a row.                                                    *)
LEMMA RowFields ==
  ASSUME NEW r \in Row
  PROVE  /\ r.status \in Status \cup {"pruned"} /\ r.sbx \in {0} \cup Attempt
         /\ r.attempt \in {0} \cup Attempt /\ r.rev \in 1 .. MaxRevisions
         /\ r.failure \in Failure
         /\ r.attempt \in Nat /\ r.sbx \in Nat /\ r.rev \in Nat
<1>1. /\ r.status \in Status \cup {"pruned"} /\ r.sbx \in {0} \cup Attempt
      /\ r.attempt \in {0} \cup Attempt /\ r.rev \in 1 .. MaxRevisions
      /\ r.failure \in Failure
  BY Zenon DEF Row
<1>2. \A n \in {0} \cup Attempt : n \in Nat
  BY BoundsAssumption DEF Attempt
<1>3. \A n \in 1 .. MaxRevisions : n \in Nat
  BY BoundsAssumption
<1>. QED
  BY Zenon, <1>1, <1>2, <1>3

-----------------------------------------------------------------------------
(* One actor's step                                                        *)

(* Where the steps of x lead the row, as the others see it.                *)
Onward(x) ==
    /\ row'.rev >= row.rev
    /\ Over => Over' \/ row'.rev >= 2
    /\ x # "job" => (row'.status = "running" => row.status = "running")
    /\ \/ row'.attempt > row.attempt
       \/ /\ row'.attempt = row.attempt
          /\ row'.status \in {"creating", "running"} => row.status \in {"creating", "running"}

Alone(x) ==
    /\ Write(x, row') \/ Read(x) \/ Keep
    /\ \A y \in Actor \ {x} : pc'[y] = pc[y] /\ att'[y] = att[y]

(* What holds of the others goes on to hold.                               *)
LEMMA OthersGoOn ==
  ASSUME BaseInv, TypeOK', NEW x \in Actor, Alone(x), Onward(x), NEW y \in Actor \ {x}
  PROVE  ActorInv(y)'
<1>1. ActorInv(y) /\ pc'[y] = pc[y] /\ att'[y] = att[y] /\ y \in Actor /\ y # x
  BY Zenon DEF BaseInv, Alone
<1>2. row \in Row /\ row' \in Row /\ att[y] \in {0} \cup Attempt
  BY Zenon, <1>1 DEF BaseInv, TypeOK
<1>3. /\ row.attempt \in Nat /\ row'.attempt \in Nat /\ row.rev \in Nat /\ row'.rev \in Nat
      /\ att[y] \in Nat
  BY <1>2, RowFields, BoundsAssumption DEF Attempt
<1>4. y \notin stale' => Knows(y)'
  <2>. SUFFICES ASSUME y \notin stale' PROVE Knows(y)'
    BY Zenon
  <2>1. CASE Write(x, row')
    <3>1. pc'[y] = "idle"
      BY Zenon, <1>1, <2>1 DEF Write
    <3>. QED
      BY Zenon, <3>1 DEF Knows, Held, Closing
  <2>2. CASE Read(x) \/ Keep
    <3>1. row' = row /\ y \notin stale
      BY Zenon, <1>1, <2>2 DEF Read, Keep
    <3>. QED
      BY Zenon, <1>1, <3>1 DEF Knows, ActorInv
  <2>. QED
    BY Zenon, <2>1, <2>2 DEF Alone
<1>5. att'[y] <= row'.attempt
  BY <1>1, <1>3 DEF ActorInv, Onward
<1>6. pc'[y] = "retry" => Over' \/ row'.rev >= 2
  BY <1>1, <1>3 DEF ActorInv, Onward
<1>7. pc'[y] \in Closing /\ att'[y] # 0 /\ att'[y] = row'.attempt =>
          row'.status \notin {"creating", "running"}
  BY <1>1, <1>3 DEF ActorInv, Onward
<1>8. /\ y # "job" => pc'[y] \notin JobOnly
      /\ pc'[y] \in Building => att'[y] # 0
      /\ pc'[y] = "unclosed" => att'[y] # 0
  BY Zenon, <1>1 DEF ActorInv
<1>9. pc'[y] \in Building \cup {"plan"} => row'.status # "running"
  BY Zenon, <1>1 DEF ActorInv, Onward, JobOnly
<1>. QED
  BY Zenon, <1>4, <1>5, <1>6, <1>7, <1>8, <1>9 DEF ActorInv

(* The actor goes to l with attempt a in hand.                             *)
Turn(x, l, a) ==
    /\ pc' \in [Actor -> PC] /\ att' \in [Actor -> {0} \cup Attempt]
    /\ expired' \in [Actor -> BOOLEAN] /\ after' \in [Actor -> {"idle", "retry"}]
    /\ pc'[x] = l /\ att'[x] = a
    /\ \A y \in Actor \ {x} : pc'[y] = pc[y] /\ att'[y] = att[y]

(* Leaving, calling Stop and going on are such turns.                      *)
LEMMA Turns ==
  ASSUME TypeOK, NEW x \in Actor
  PROVE  /\ \A l \in PC : Leave(x, l) => Turn(x, l, 0)
         /\ \A e \in BOOLEAN, l \in {"idle", "retry"} : EnterStop(x, e, l) => Turn(x, "stop", 0)
         /\ \A l \in PC : Goto(x, l) /\ UNCHANGED <<att, expired, after>> => Turn(x, l, att[x])
         /\ \A l \in PC, e \in BOOLEAN :
              Goto(x, l) /\ att' = [att EXCEPT ![x] = 0] /\ expired' = [expired EXCEPT ![x] = e]
              /\ UNCHANGED after => Turn(x, l, 0)
         /\ \A l \in PC, a \in {0} \cup Attempt :
              Goto(x, l) /\ att' = [att EXCEPT ![x] = a] /\ UNCHANGED <<expired, after>> => Turn(x, l, a)
         /\ UNCHANGED actor => Turn(x, pc[x], att[x])
<1>1. ASSUME NEW l \in PC, Leave(x, l) PROVE Turn(x, l, 0)
  BY <1>1 DEF TypeOK, Leave, Goto, Turn
<1>2. ASSUME NEW e \in BOOLEAN, NEW l \in {"idle", "retry"}, EnterStop(x, e, l)
      PROVE  Turn(x, "stop", 0)
  BY <1>2 DEF TypeOK, EnterStop, Goto, Turn, PC
<1>3. ASSUME NEW l \in PC, Goto(x, l), UNCHANGED <<att, expired, after>> PROVE Turn(x, l, att[x])
  BY <1>3 DEF TypeOK, Goto, Turn
<1>4. ASSUME NEW l \in PC, NEW a \in {0} \cup Attempt, Goto(x, l), att' = [att EXCEPT ![x] = a],
             UNCHANGED <<expired, after>>
      PROVE  Turn(x, l, a)
  BY <1>4 DEF TypeOK, Goto, Turn
<1>5. ASSUME UNCHANGED actor PROVE Turn(x, pc[x], att[x])
  BY <1>5 DEF TypeOK, Turn, actor
<1>6. ASSUME NEW l \in PC, NEW e \in BOOLEAN, Goto(x, l), att' = [att EXCEPT ![x] = 0],
             expired' = [expired EXCEPT ![x] = e], UNCHANGED after
      PROVE  Turn(x, l, 0)
  BY <1>6 DEF TypeOK, Goto, Turn
<1>. QED
  BY Zenon, <1>1, <1>2, <1>3, <1>4, <1>5, <1>6

RestTyped ==
    /\ sandbox \in [Attempt -> {"none", "pending", "live", "gone"}]
    /\ clock \in {"early", "expired", "late"}
    /\ requests \in 0 .. MaxRequests
    /\ crashes \in 0 .. MaxCrashes

Sees(x) == Write(x, row') \/ Read(x) \/ Keep

(* A step of one actor keeps the invariant.                                *)
LEMMA ActorStep ==
  ASSUME BaseInv, NEW x \in Actor, NEW l, NEW a, Turn(x, l, a), Sees(x),
         row' \in Row, RowInv', Onward(x), RestTyped', ActorInv(x)'
  PROVE  BaseInv'
<1>1. stale' \subseteq Actor
  BY Zenon DEF Sees, Write, Read, Keep, BaseInv, TypeOK
<1>2. TypeOK'
  BY Zenon, <1>1 DEF Turn, RestTyped, TypeOK
<1>3. Alone(x)
  BY Zenon DEF Turn, Sees, Alone
<1>. QED
  BY Zenon, <1>2, <1>3, OthersGoOn DEF BaseInv

(* An actor with nothing in hand.                                          *)
LEMMA EmptyHanded ==
  ASSUME NEW x \in Actor, row' \in Row, pc'[x] \in {"idle", "stop"}, att'[x] = 0
  PROVE  ActorInv(x)'
<1>1. 0 <= row'.attempt
  BY RowFields
<1>2. pc'[x] \notin JobOnly \cup Building \cup Closing \cup Held
           \cup {"plan", "create", "created", "partial", "recover", "probe", "lookup", "mark", "retry", "unclosed"}
  BY Zenon DEF JobOnly, Building, Held, Closing
<1>3. Knows(x)'
  BY Zenon, <1>2 DEF Knows
<1>. QED
  BY Zenon, <1>1, <1>2, <1>3 DEF ActorInv

(* The row stays as it is.                                                 *)
LEMMA RowStays ==
  ASSUME BaseInv, NEW x \in Actor, Read(x) \/ Keep
  PROVE  Sees(x) /\ row' = row /\ row' \in Row /\ RowInv' /\ Onward(x)
<1>1. row' = row /\ row \in Row
  BY Zenon DEF Read, Keep, BaseInv, TypeOK
<1>2. RowInv'
  BY Zenon, <1>1 DEF RowInv, BaseInv
<1>3. Onward(x)
  BY <1>1, RowFields DEF Onward, Over
<1>. QED
  BY Zenon, <1>1, <1>2, <1>3 DEF Sees

(* Cleanup: the row is stopping or over, with the sandbox or without.      *)
LEMMA RowSettles ==
  ASSUME BaseInv, NEW x \in Actor, ~Over, row' \in Row,
         row'.status \in {"stopping", "failed", "completed", "expired"},
         row'.sbx \in {0, row.attempt}, row'.attempt = row.attempt, row'.rev = row.rev
  PROVE  RowInv' /\ Onward(x)
<1>1. row \in Row /\ row.attempt <= row.rev
  BY Zenon DEF BaseInv, TypeOK, RowInv
<1>2. RowInv'
  BY <1>1 DEF RowInv
<1>3. row'.rev >= row.rev
  BY <1>1, RowFields
<1>. QED
  BY Zenon, <1>2, <1>3 DEF Onward

(* The row takes the sandbox of its attempt.                               *)
LEMMA RowNames ==
  ASSUME BaseInv, NEW x \in Actor, row.status \in {"creating", "stopping"}, row.attempt # 0,
         row' = [row EXCEPT !.sbx = row.attempt]
  PROVE  row' \in Row /\ RowInv' /\ Onward(x) /\ row'.status = row.status
         /\ row'.sbx = row.attempt /\ row'.attempt = row.attempt
<1>1. row \in Row /\ row.attempt <= row.rev
  BY Zenon DEF BaseInv, TypeOK, RowInv
<1>2. row.attempt \in {0} \cup Attempt /\ row.rev \in Nat
  BY Zenon, <1>1, RowFields
<1>3. /\ row' \in Row /\ row'.status = row.status /\ row'.sbx = row.attempt
      /\ row'.attempt = row.attempt /\ row'.rev = row.rev
  BY Zenon, <1>1, <1>2, NamedRow
<1>4. RowInv'
  BY Zenon, <1>1, <1>3 DEF RowInv
<1>5. ~Over
  BY Zenon DEF Over, Terminal
<1>6. row'.rev >= row.rev
  BY <1>2, <1>3
<1>. QED
  BY Zenon, <1>3, <1>4, <1>5, <1>6 DEF Onward

(* A row before its attempt is counted.                                    *)
LEMMA RowQueues ==
  ASSUME BaseInv, NEW x \in Actor, row.status \in {"queued", "planning"},
         NEW st \in {"queued", "planning"}, row' = Moved(row, st)
  PROVE  row' \in Row /\ RowInv' /\ Onward(x) /\ row'.status = st
<1>1. row \in Row /\ row.attempt <= row.rev /\ row.attempt < row.rev /\ row.sbx = 0
  BY Zenon DEF BaseInv, TypeOK, RowInv
<1>2. st \in Status
  BY Zenon DEF Status
<1>3. /\ row' \in Row /\ row'.status = st /\ row'.sbx = row.sbx
      /\ row'.attempt = row.attempt /\ row'.rev = row.rev
  BY Zenon, <1>1, <1>2, MovedRow
<1>4. RowInv'
  BY Zenon, <1>1, <1>3 DEF RowInv
<1>5. ~Over
  BY Zenon DEF Over, Terminal
<1>6. row'.rev >= row.rev
  BY <1>1, <1>3, RowFields
<1>. QED
  BY Zenon, <1>3, <1>4, <1>5, <1>6 DEF Onward

(* The actor returns, or calls Stop, without a write.                      *)
LEMMA Quits ==
  ASSUME BaseInv, NEW x \in Actor, NEW l \in {"idle", "stop"}, Turn(x, l, 0),
         Read(x) \/ Keep, RestTyped'
  PROVE  BaseInv'
<1>1. Sees(x) /\ row' \in Row /\ RowInv' /\ Onward(x)
  BY Zenon, RowStays
<1>2. ActorInv(x)'
  BY Zenon, <1>1, EmptyHanded DEF Turn
<1>. QED
  BY Zenon, <1>1, <1>2, ActorStep

(* The actor writes the row, and returns or calls Stop.                    *)
LEMMA WritesAndQuits ==
  ASSUME BaseInv, NEW x \in Actor, NEW l \in {"idle", "stop"}, Turn(x, l, 0),
         Write(x, row'), row' \in Row, RowInv', Onward(x), RestTyped'
  PROVE  BaseInv'
<1>1. ActorInv(x)'
  BY Zenon, EmptyHanded DEF Turn
<1>. QED
  BY Zenon, <1>1, ActorStep DEF Sees

(* The actor goes on without a write.                                      *)
LEMMA GoesOn ==
  ASSUME BaseInv, NEW x \in Actor, NEW l, NEW a, Turn(x, l, a),
         Read(x) \/ Keep, RestTyped', ActorInv(x)'
  PROVE  BaseInv'
BY Zenon, RowStays, ActorStep

(* What is left alone keeps its type.                                      *)
LEMMA RestStays == BaseInv /\ UNCHANGED <<sandbox, clock, requests, crashes>> => RestTyped'
BY Zenon DEF BaseInv, TypeOK, RestTyped

(* What the actor of a step knows.                                         *)
LEMMA KnownFacts ==
  ASSUME BaseInv, NEW x \in Actor
  PROVE  /\ TypeOK /\ RowInv /\ ActorInv(x) /\ row \in Row
         /\ Fresh(x) => Knows(x)
         /\ row.status \in Status \cup {"pruned"} /\ row.sbx \in {0} \cup Attempt
         /\ row.attempt \in {0} \cup Attempt /\ att[x] \in {0} \cup Attempt
<1>1. TypeOK /\ RowInv /\ ActorInv(x) /\ row \in Row /\ att[x] \in {0} \cup Attempt
  BY Zenon DEF BaseInv, TypeOK
<1>. QED
  BY Zenon, <1>1, RowFields DEF Fresh, ActorInv

(* The first move on a listed row.                                         *)
LEMMA AdvanceKeeps == BaseInv /\ Advance => BaseInv'
<1>. SUFFICES ASSUME BaseInv, Advance PROVE BaseInv'
  BY Zenon
<1>0. "job" \in Actor /\ {"idle", "recover", "probe", "plan", "stop"} \subseteq PC
  BY Zenon DEF Actor, PC
<1>1. /\ TypeOK /\ RowInv /\ ActorInv("job") /\ row \in Row /\ RestTyped' /\ pc["job"] = "idle"
      /\ att["job"] <= row.attempt
  BY Zenon, <1>0, KnownFacts, RestStays DEF Advance, ActorInv
<1>2. CASE row.status = "creating" /\ Read("job") /\ Goto("job", "recover")
           /\ UNCHANGED <<att, expired, after>>
  <2>1. Turn("job", "recover", att["job"]) /\ row' = row
    BY Zenon, <1>0, <1>1, <1>2, Turns DEF Read
  <2>2. ActorInv("job")'
    BY Zenon, <1>1, <1>2, <2>1 DEF Turn, ActorInv, Knows, Building, Held, Closing
  <2>. QED
    BY Zenon, <1>0, <1>1, <1>2, <2>1, <2>2, GoesOn
<1>3. CASE row.status = "planning" /\ Write("job", Moved(row, "queued")) /\ UNCHANGED actor
  <2>1. Turn("job", "idle", att["job"])
    BY Zenon, <1>0, <1>1, <1>3, Turns
  <2>2. row' = Moved(row, "queued") /\ Write("job", row')
    BY Zenon, <1>3 DEF Write
  <2>3. row' \in Row /\ RowInv' /\ Onward("job") /\ row'.attempt = row.attempt
    BY Zenon, <1>0, <1>1, <1>3, <2>2, RowQueues, MovedRow DEF Status
  <2>4. ActorInv("job")'
    BY Zenon, <1>1, <2>1, <2>3 DEF Turn, ActorInv, Knows, Building, Held, Closing
  <2>. QED
    BY Zenon, <1>0, <1>1, <2>1, <2>2, <2>3, <2>4, ActorStep DEF Sees
<1>4. CASE Keep /\ \E e \in BOOLEAN : EnterStop("job", e, "idle")
  <2>1. Turn("job", "stop", 0)
    BY Zenon, <1>0, <1>1, <1>4, Turns
  <2>. QED
    BY Zenon, <1>0, <1>1, <1>4, <2>1, Quits
<1>5. CASE row.status = "queued" /\ Write("job", Moved(row, "planning")) /\ Goto("job", "plan")
           /\ UNCHANGED <<att, expired, after>>
  <2>1. Turn("job", "plan", att["job"])
    BY Zenon, <1>0, <1>1, <1>5, Turns
  <2>2. row' = Moved(row, "planning") /\ Write("job", row')
    BY Zenon, <1>5 DEF Write
  <2>3. row' \in Row /\ RowInv' /\ Onward("job") /\ row'.attempt = row.attempt
        /\ row'.status = "planning"
    BY Zenon, <1>0, <1>1, <1>5, <2>2, RowQueues, MovedRow DEF Status
  <2>4. ActorInv("job")'
    BY Zenon, <1>1, <2>1, <2>3 DEF Turn, ActorInv, Knows, Building, Held, Closing
  <2>. QED
    BY Zenon, <1>0, <1>1, <2>1, <2>2, <2>3, <2>4, ActorStep DEF Sees
<1>6. CASE row.status = "running" /\ Read("job") /\ Goto("job", "probe")
           /\ UNCHANGED <<att, expired, after>>
  <2>1. Turn("job", "probe", att["job"]) /\ row' = row
    BY Zenon, <1>0, <1>1, <1>6, Turns DEF Read
  <2>2. ActorInv("job")'
    BY Zenon, <1>1, <1>6, <2>1 DEF Turn, ActorInv, Knows, Building, Held, Closing
  <2>. QED
    BY Zenon, <1>0, <1>1, <1>6, <2>1, <2>2, GoesOn
<1>7. \/ row.status = "creating" \/ row.status = "planning"
      \/ row.status \notin {"creating", "planning"} /\ Expired
      \/ row.status = "queued" /\ ~Expired
      \/ row.status \in {"failed", "stopping"} /\ ~Expired
      \/ row.status = "running" /\ ~Expired
  BY Zenon DEF Advance, Listed, Status, Terminal
<1>. QED
  BY Zenon, <1>2, <1>3, <1>4, <1>5, <1>6, <1>7 DEF Advance

(* A row that a failure ends.                                              *)
LEMMA RowFails ==
  ASSUME BaseInv, NEW x \in Actor, ~Over, NEW s \in {0, row.attempt}, NEW g \in Failure,
         row' = Failed(row, s, g)
  PROVE  row' \in Row /\ RowInv' /\ Onward(x) /\ row'.attempt = row.attempt
<1>1. row \in Row /\ s \in {0} \cup Attempt
  BY Zenon, KnownFacts
<1>2. /\ row' \in Row /\ row'.status = "failed" /\ row'.sbx = s
      /\ row'.attempt = row.attempt /\ row'.rev = row.rev
  BY SMT, <1>1, FailedRow
<1>. QED
  BY Zenon, <1>2, RowSettles

(* The attempt is in the row before the provider is asked.                 *)
LEMMA PlanKeeps == BaseInv /\ Plan => BaseInv'
<1>. SUFFICES ASSUME BaseInv, Plan PROVE BaseInv'
  BY Zenon
<1>0. "job" \in Actor /\ {"idle", "create"} \subseteq PC
  BY Zenon DEF Actor, PC
<1>1. /\ TypeOK /\ RowInv /\ ActorInv("job") /\ row \in Row /\ RestTyped' /\ pc["job"] = "plan"
      /\ Fresh("job") => row.status = "planning"
  BY Zenon, <1>0, KnownFacts, RestStays DEF Plan, Knows
<1>2. CASE /\ Fresh("job")
           /\ Write("job", [Moved(row, "creating") EXCEPT !.attempt = @ + 1])
           /\ Goto("job", "create")
           /\ att' = [att EXCEPT !["job"] = row.attempt + 1]
           /\ UNCHANGED <<expired, after>>
  <2>. DEFINE r == Moved(row, "creating")
  <2>1. r \in Row /\ r.status = "creating" /\ r.sbx = row.sbx /\ r.attempt = row.attempt /\ r.rev = row.rev
    BY Zenon, <1>1, MovedRow DEF Status
  <2>2. row' = [r EXCEPT !.attempt = @ + 1] /\ Write("job", row')
    BY Zenon, <1>2 DEF Write
  <2>. HIDE DEF r
  <2>3. row.attempt < row.rev /\ row.sbx = 0
    BY Zenon, <1>1, <1>2 DEF RowInv
  <2>4. row.attempt \in Nat /\ row.rev \in 1 .. MaxRevisions /\ MaxRevisions \in Nat
    BY Zenon, <1>1, RowFields, BoundsAssumption
  <2>5. row.attempt + 1 \in Attempt /\ row.attempt + 1 # 0 /\ row.attempt + 1 > row.attempt
        /\ row.attempt + 1 <= row.rev
    BY <2>3, <2>4 DEF Attempt
  <2>6. /\ row' \in Row /\ row'.status = "creating" /\ row'.sbx = 0 /\ row'.rev = row.rev
        /\ row'.attempt = row.attempt + 1
    BY Zenon, <2>1, <2>2, <2>3, <2>5 DEF Row
  <2>7. RowInv'
    BY Zenon, <2>5, <2>6 DEF RowInv
  <2>8. Onward("job")
    <3>1. ~Over
      BY Zenon, <1>1, <1>2 DEF Over, Terminal
    <3>2. row'.rev >= row.rev
      BY <2>4, <2>6
    <3>. QED
      BY Zenon, <2>5, <2>6, <3>1, <3>2 DEF Onward
  <2>9. Turn("job", "create", row.attempt + 1)
    BY Zenon, <1>0, <1>1, <1>2, <2>5, Turns
  <2>10. row.attempt + 1 <= row.attempt + 1
    BY <2>4
  <2>11. ActorInv("job")'
    BY Zenon, <2>5, <2>6, <2>9, <2>10 DEF Turn, ActorInv, Knows, Building, Held, Closing
  <2>. QED
    BY Zenon, <1>0, <1>1, <2>2, <2>6, <2>7, <2>8, <2>9, <2>11, ActorStep DEF Sees
<1>3. CASE Fresh("job") /\ Write("job", Failed(row, row.sbx, "execution")) /\ Return("job")
  <2>1. Turn("job", "idle", 0)
    BY Zenon, <1>0, <1>1, <1>3, Turns DEF Return
  <2>2. ~Over
    BY Zenon, <1>1, <1>3 DEF Over, Terminal
  <2>3. row' \in Row /\ RowInv' /\ Onward("job") /\ Write("job", row')
    BY Zenon, <1>0, <1>1, <1>3, <2>2, RowFails DEF Write, RowInv, Failure
  <2>. QED
    BY Zenon, <1>0, <1>1, <2>1, <2>3, WritesAndQuits
<1>4. CASE Keep /\ Return("job")
  <2>1. Turn("job", "idle", 0)
    BY Zenon, <1>0, <1>1, <1>4, Turns DEF Return
  <2>. QED
    BY Zenon, <1>0, <1>1, <1>4, <2>1, Quits
<1>. QED
  BY Zenon, <1>2, <1>3, <1>4 DEF Plan

(* What the provider may leave keeps its type.                             *)
LEMMA SandboxTyped ==
  ASSUME BaseInv, UNCHANGED <<clock, requests, crashes>>, NEW a,
         NEW s \in {"none", "pending", "live", "gone"}, sandbox' = [sandbox EXCEPT ![a] = s]
  PROVE  RestTyped'
<1>1. sandbox' \in [Attempt -> {"none", "pending", "live", "gone"}]
  BY Zenon DEF BaseInv, TypeOK
<1>. QED
  BY Zenon, <1>1 DEF BaseInv, TypeOK, RestTyped

(* A creation refused, left unknown, or answered.                          *)
LEMMA CreateKeeps == BaseInv /\ (CreateRefused \/ CreateUnknown \/ CreateReturns) => BaseInv'
<1>. SUFFICES ASSUME BaseInv, CreateRefused \/ CreateUnknown \/ CreateReturns PROVE BaseInv'
  BY Zenon
<1>0. "job" \in Actor /\ {"idle", "created", "partial"} \subseteq PC
  BY Zenon DEF Actor, PC
<1>1. /\ TypeOK /\ ActorInv("job") /\ row \in Row /\ pc["job"] = "create"
      /\ Fresh("job") => Knows("job") /\ row.status = "creating"
  BY Zenon, <1>0, KnownFacts DEF CreateRefused, CreateUnknown, CreateReturns, Knows
<1>2. ASSUME Return("job") PROVE Turn("job", "idle", 0)
  BY Zenon, <1>0, <1>1, <1>2, Turns DEF Return
<1>3. CASE CreateRefused
  <2>1. RestTyped' /\ Return("job")
    BY Zenon, <1>3, RestStays DEF CreateRefused
  <2>2. CASE Fresh("job") /\ Write("job", Failed(row, 0, "execution"))
    <3>1. ~Over
      BY Zenon, <1>1, <2>2 DEF Over, Terminal
    <3>2. row' \in Row /\ RowInv' /\ Onward("job") /\ Write("job", row')
      BY Zenon, <1>0, <2>2, <3>1, RowFails DEF Write, Failure
    <3>. QED
      BY Zenon, <1>0, <1>2, <2>1, <3>2, WritesAndQuits
  <2>3. CASE Keep
    BY Zenon, <1>0, <1>2, <2>1, <2>3, Quits
  <2>. QED
    BY Zenon, <1>3, <2>2, <2>3 DEF CreateRefused
<1>4. CASE CreateUnknown
  <2>1. RestTyped'
    BY Zenon, <1>4, SandboxTyped DEF CreateUnknown, CreationLeft
  <2>. QED
    BY Zenon, <1>0, <1>2, <1>4, <2>1, Quits DEF CreateUnknown
<1>5. CASE CreateReturns
  <2>1. RestTyped' /\ Keep
    BY Zenon, <1>5, SandboxTyped DEF CreateReturns
  <2>2. PICK l \in {"created", "partial"} : Turn("job", l, att["job"])
    BY Zenon, <1>0, <1>1, <1>5, Turns DEF CreateReturns
  <2>3. row' = row /\ stale' = stale
    BY Zenon, <2>1 DEF Keep
  <2>4. ActorInv("job")'
    BY Zenon, <1>1, <2>2, <2>3 DEF Turn, ActorInv, Knows, Fresh, Building, Held, Closing
  <2>. QED
    BY Zenon, <1>0, <2>1, <2>2, <2>4, GoesOn
<1>. QED
  BY Zenon, <1>3, <1>4, <1>5

(* The sandbox goes into the row, or the version refuses it.               *)
LEMMA SaveKeeps == BaseInv /\ SaveSandbox => BaseInv'
<1>. SUFFICES ASSUME BaseInv, SaveSandbox PROVE BaseInv'
  BY Zenon
<1>0. "job" \in Actor /\ {"idle", "apply", "undoCreate", "drop"} \subseteq PC
  BY Zenon DEF Actor, PC
<1>1. /\ TypeOK /\ RowInv /\ ActorInv("job") /\ row \in Row /\ RestTyped'
      /\ pc["job"] \in {"created", "partial"} /\ att["job"] # 0 /\ att["job"] <= row.attempt
      /\ Fresh("job") => row.status = "creating" /\ row.sbx = 0 /\ att["job"] = row.attempt
  BY Zenon, <1>0, KnownFacts, RestStays DEF SaveSandbox, ActorInv, Knows, Building
<1>2. CASE Fresh("job")
  <2>1. PICK l \in {"apply", "undoCreate"} : Turn("job", l, att["job"])
    BY Zenon, <1>0, <1>1, <1>2, Turns DEF SaveSandbox
  <2>2. row' = [row EXCEPT !.sbx = row.attempt] /\ Write("job", row')
    BY Zenon, <1>1, <1>2 DEF SaveSandbox, Write
  <2>3. row' \in Row /\ RowInv' /\ Onward("job") /\ row'.status = "creating"
        /\ row'.sbx = row.attempt /\ row'.attempt = row.attempt
    BY Zenon, <1>0, <1>1, <1>2, <2>2, RowNames
  <2>4. ActorInv("job")'
    BY Zenon, <1>1, <1>2, <2>1, <2>3 DEF Turn, ActorInv, Knows, Building, Held, Closing
  <2>. QED
    BY Zenon, <1>0, <1>1, <2>1, <2>2, <2>3, <2>4, ActorStep DEF Sees
<1>3. CASE ~Fresh("job")
  <2>1. Keep /\ (Return("job") \/ (Goto("job", "drop") /\ UNCHANGED <<att, expired, after>>))
    BY Zenon, <1>3 DEF SaveSandbox
  <2>2. Turn("job", "idle", 0) \/ Turn("job", "drop", att["job"])
    BY Zenon, <1>0, <1>1, <2>1, Turns DEF Return
  <2>3. CASE Turn("job", "idle", 0)
    BY Zenon, <1>0, <1>1, <2>1, <2>3, Quits
  <2>4. CASE Turn("job", "drop", att["job"])
    <3>1. row' = row /\ stale' = stale
      BY Zenon, <2>1 DEF Keep
    <3>2. ActorInv("job")'
      BY Zenon, <1>1, <1>3, <2>4, <3>1 DEF Turn, ActorInv, Knows, Building, Held, Closing
    <3>. QED
      BY Zenon, <1>0, <1>1, <2>1, <2>4, <3>2, GoesOn
  <2>. QED
    BY Zenon, <2>2, <2>3, <2>4
<1>. QED
  BY Zenon, <1>2, <1>3

(* The program runs, or it does not.                                       *)
LEMMA ApplyKeeps == BaseInv /\ (ApplyFails \/ ApplySucceeds) => BaseInv'
<1>. SUFFICES ASSUME BaseInv, ApplyFails \/ ApplySucceeds PROVE BaseInv'
  BY Zenon
<1>0. "job" \in Actor /\ {"idle", "undoApply", "drop"} \subseteq PC
  BY Zenon DEF Actor, PC
<1>1. /\ TypeOK /\ RowInv /\ ActorInv("job") /\ row \in Row /\ RestTyped'
      /\ pc["job"] = "apply" /\ att["job"] # 0 /\ att["job"] <= row.attempt
      /\ Fresh("job") => row.status = "creating" /\ att["job"] = row.sbx
  BY Zenon, <1>0, KnownFacts, RestStays DEF ApplyFails, ApplySucceeds, ActorInv, Knows, Building, Held
<1>2. ASSUME NEW l \in {"undoApply", "drop"}, Keep, Goto("job", l), UNCHANGED <<att, expired, after>>,
             l = "undoApply" \/ ~Fresh("job")
      PROVE  BaseInv'
  <2>1. Turn("job", l, att["job"])
    BY Zenon, <1>0, <1>1, <1>2, Turns
  <2>2. row' = row /\ stale' = stale
    BY Zenon, <1>2 DEF Keep
  <2>3. ActorInv("job")'
    BY Zenon, <1>1, <1>2, <2>1, <2>2 DEF Turn, ActorInv, Knows, Fresh, Building, Held, Closing
  <2>. QED
    BY Zenon, <1>0, <1>1, <1>2, <2>1, <2>3, GoesOn
<1>3. CASE Fresh("job") /\ Write("job", Moved(row, "running")) /\ Return("job")
  <2>1. Turn("job", "idle", 0)
    BY Zenon, <1>0, <1>1, <1>3, Turns DEF Return
  <2>2. row' = Moved(row, "running") /\ Write("job", row')
    BY Zenon, <1>3 DEF Write
  <2>3. /\ row' \in Row /\ row'.status = "running" /\ row'.sbx = row.sbx
        /\ row'.attempt = row.attempt /\ row'.rev = row.rev
    BY Zenon, <1>1, <2>2, MovedRow DEF Status
  <2>4. RowInv'
    BY Zenon, <1>1, <1>3, <2>3 DEF RowInv
  <2>5. Onward("job")
    <3>1. ~Over
      BY Zenon, <1>1, <1>3 DEF Over, Terminal
    <3>2. row'.rev >= row.rev
      BY <1>1, <2>3, RowFields
    <3>. QED
      BY Zenon, <1>1, <1>3, <2>3, <3>1, <3>2 DEF Onward
  <2>. QED
    BY Zenon, <1>0, <1>1, <2>1, <2>2, <2>3, <2>4, <2>5, WritesAndQuits
<1>. QED
  BY Zenon, <1>2, <1>3 DEF ApplyFails, ApplySucceeds

(* A close that succeeds or fails.                                         *)
LEMMA CloseTurns ==
  ASSUME BaseInv, NEW x \in Actor, NEW a \in {0} \cup Attempt, NEW d \in PC, NEW f \in PC,
         Closes(x, a, d, f), UNCHANGED <<clock, att, expired, after, requests, crashes>>
  PROVE  /\ Turn(x, d, att[x]) \/ (Turn(x, f, att[x]) /\ a # 0)
         /\ RestTyped'
<1>1. Turn(x, d, att[x]) \/ (Turn(x, f, att[x]) /\ a # 0)
  BY Zenon, KnownFacts, Turns DEF Closes
<1>2. \/ UNCHANGED sandbox
      \/ sandbox' = [sandbox EXCEPT ![a] = "gone"]
  BY Zenon DEF Closes
<1>3. RestTyped'
  BY Zenon, <1>2, RestStays, SandboxTyped
<1>. QED
  BY Zenon, <1>1, <1>3

(* closeAttempt.                                                           *)
LEMMA UndoKeeps == BaseInv /\ Undo => BaseInv'
<1>. SUFFICES ASSUME BaseInv, Undo PROVE BaseInv'
  BY Zenon
<1>0. "job" \in Actor /\ {"undoneCreate", "stuckCreate", "undoneApply", "stuckApply"} \subseteq PC
  BY Zenon DEF Actor, PC
<1>1. /\ TypeOK /\ ActorInv("job") /\ pc["job"] \in {"undoCreate", "undoApply"} /\ Keep
      /\ att["job"] \in {0} \cup Attempt
  BY Zenon, <1>0, KnownFacts DEF Undo
<1>2. PICK l \in {"undoneCreate", "stuckCreate", "undoneApply", "stuckApply"} :
        Turn("job", l, att["job"]) /\ RestTyped'
  BY Zenon, <1>0, <1>1, CloseTurns DEF Undo
<1>3. row' = row /\ stale' = stale
  BY Zenon, <1>1 DEF Keep
<1>4. ActorInv("job")'
  BY Zenon, <1>1, <1>2, <1>3 DEF Turn, ActorInv, Knows, Fresh, Building, Held, Closing
<1>. QED
  BY Zenon, <1>0, <1>1, <1>2, <1>4, GoesOn

(* The outcome of closeAttempt in the row.                                 *)
LEMMA UndoneRow ==
  ASSUME BaseInv, pc["job"] \in {"undoneCreate", "stuckCreate", "undoneApply", "stuckApply"}
  PROVE  /\ Undone \in Row /\ Undone.status \in {"failed", "expired"} /\ Undone.sbx \in {0, row.sbx}
         /\ Undone.attempt = row.attempt /\ Undone.rev = row.rev
<1>0. "job" \in Actor
  BY Zenon DEF Actor
<1>1. row \in Row /\ row.sbx \in {0} \cup Attempt /\ 0 \in {0} \cup Attempt
  BY Zenon, <1>0, KnownFacts
<1>. DEFINE Outcome(r) == /\ r \in Row /\ r.status \in {"failed", "expired"} /\ r.sbx \in {0, row.sbx}
                          /\ r.attempt = row.attempt /\ r.rev = row.rev
<1>2. ASSUME NEW s \in {0, row.sbx}, NEW g \in Failure PROVE Outcome(Failed(row, s, g))
  <2>1. s \in {0} \cup Attempt
    BY Zenon, <1>1
  <2>. QED
    BY SMT, <1>1, <2>1, FailedRow
<1>3. Outcome([Moved(row, "expired") EXCEPT !.sbx = 0])
  <2>1. "expired" \in Status
    BY Zenon DEF Status
  <2>2. PICK m \in Row : /\ m = Moved(row, "expired") /\ m.status = "expired"
                         /\ m.attempt = row.attempt /\ m.rev = row.rev
    BY Zenon, <1>1, <2>1, MovedRow
  <2>3. LET r == [m EXCEPT !.sbx = 0]
        IN r \in Row /\ r.status = "expired" /\ r.sbx = 0 /\ r.attempt = row.attempt /\ r.rev = row.rev
    BY Zenon, <1>1, <2>2, NamedRow
  <2>. QED
    BY Zenon, <2>2, <2>3
<1>4. \/ \E s \in {0, row.sbx}, g \in Failure : Undone = Failed(row, s, g)
      \/ Undone = [Moved(row, "expired") EXCEPT !.sbx = 0]
  <2>1. {"execution", "expiry_cleanup"} \subseteq Failure
    BY Zenon DEF Failure
  <2>2. CASE pc["job"] = "undoneCreate"
    BY Zenon, <2>1, <2>2 DEF Undone
  <2>3. CASE pc["job"] = "stuckCreate"
    BY <2>1, <2>3 DEF Undone
  <2>4. CASE pc["job"] = "undoneApply"
    BY <2>1, <2>4 DEF Undone
  <2>5. CASE pc["job"] = "stuckApply"
    BY <2>1, <2>5 DEF Undone
  <2>. QED
    BY Zenon, <2>2, <2>3, <2>4, <2>5
<1>5. Outcome(Undone)
  <2>. HIDE DEF Outcome
  <2>. QED
    BY Zenon, <1>2, <1>3, <1>4
<1>. QED
  BY Zenon, <1>5

(* ... is written by a Process whose copy is up to date.                   *)
LEMMA UndoneKeeps == BaseInv /\ (ReportUndone \/ Drop) => BaseInv'
<1>. SUFFICES ASSUME BaseInv, ReportUndone \/ Drop PROVE BaseInv'
  BY Zenon
<1>0. "job" \in Actor /\ "idle" \in PC
  BY Zenon DEF Actor, PC
<1>1. /\ TypeOK /\ RowInv /\ row \in Row /\ Turn("job", "idle", 0)
      /\ pc["job"] \in Held /\ Fresh("job") => row.status = "creating"
  BY Zenon, <1>0, KnownFacts, Turns DEF ReportUndone, Drop, Return, Knows
<1>2. CASE ReportUndone
  <2>1. RestTyped' /\ pc["job"] \in {"undoneCreate", "stuckCreate", "undoneApply", "stuckApply"}
    BY Zenon, <1>2, RestStays DEF ReportUndone
  <2>2. CASE Fresh("job") /\ Write("job", Undone)
    <3>1. ~Over
      BY Zenon, <1>1, <2>1, <2>2 DEF Over, Terminal, Held
    <3>2. /\ Undone \in Row /\ Undone.status \in {"failed", "expired"} /\ Undone.sbx \in {0, row.sbx}
          /\ Undone.attempt = row.attempt /\ Undone.rev = row.rev
      BY Zenon, <2>1, UndoneRow
    <3>3. row' = Undone /\ Write("job", row')
      BY Zenon, <2>2 DEF Write
    <3>4. /\ row' \in Row /\ row'.status \in {"stopping", "failed", "completed", "expired"}
          /\ row'.sbx \in {0, row.attempt} /\ row'.attempt = row.attempt /\ row'.rev = row.rev
      BY Zenon, <1>1, <3>2, <3>3 DEF RowInv
    <3>5. RowInv' /\ Onward("job")
      BY Zenon, <1>0, <3>1, <3>4, RowSettles
    <3>. QED
      BY Zenon, <1>0, <1>1, <2>1, <3>3, <3>4, <3>5, WritesAndQuits
  <2>3. CASE Keep
    BY Zenon, <1>0, <1>1, <2>1, <2>3, Quits
  <2>. QED
    BY Zenon, <1>2, <2>2, <2>3 DEF ReportUndone
<1>3. CASE Drop
  <2>1. sandbox \in [Attempt -> {"none", "pending", "live", "gone"}] /\ att["job"] \in {0} \cup Attempt
    BY Zenon, <1>0, <1>1 DEF TypeOK
  <2>2. att["job"] \in Attempt
    BY Zenon, <1>0, <1>3, <2>1, KnownFacts DEF Drop, ActorInv, Building
  <2>3. RestTyped' /\ Keep
    BY Zenon, <1>3, <2>1, <2>2, SandboxTyped DEF Drop
  <2>. QED
    BY Zenon, <1>0, <1>1, <2>3, Quits
<1>. QED
  BY Zenon, <1>2, <1>3

(* recoverCreating and checkRunning.                                       *)
LEMMA RecoverKeeps == BaseInv /\ (Recover \/ Probe) => BaseInv'
<1>. SUFFICES ASSUME BaseInv, Recover \/ Probe PROVE BaseInv'
  BY Zenon
<1>0. /\ "job" \in Actor /\ {"idle", "recover", "observed", "stop"} \subseteq PC
      /\ {"recovery", "process_exit"} \subseteq Failure /\ Expired \in BOOLEAN
  BY Zenon DEF Actor, PC, Failure, Expired
<1>1. /\ TypeOK /\ RowInv /\ ActorInv("job") /\ row \in Row /\ RestTyped'
      /\ pc["job"] \in {"recover", "probe"} /\ row.sbx \in {0, row.attempt}
      /\ Fresh("job") => row.status = IF pc["job"] = "recover" THEN "creating" ELSE "running"
  BY Zenon, <1>0, KnownFacts, RestStays DEF Recover, Probe, Knows, RowInv
<1>2. ASSUME Return("job"), Keep PROVE BaseInv'
  <2>1. Turn("job", "idle", 0)
    BY Zenon, <1>0, <1>1, <1>2, Turns DEF Return
  <2>. QED
    BY Zenon, <1>0, <1>1, <1>2, <2>1, Quits
<1>3. ASSUME pc["job"] = "probe", Keep, Goto("job", "observed"), att' = [att EXCEPT !["job"] = 0],
             expired' = [expired EXCEPT !["job"] = TRUE], UNCHANGED after
      PROVE  BaseInv'
  <2>1. Turn("job", "observed", 0)
    BY Zenon, <1>0, <1>1, <1>3, Turns
  <2>2. row' = row /\ stale' = stale /\ 0 <= row.attempt /\ (Fresh("job") => row.status = "running")
    BY <1>1, <1>3, RowFields DEF Keep
  <2>3. ActorInv("job")'
    BY Zenon, <1>0, <2>1, <2>2 DEF Turn, ActorInv, Knows, Fresh, Building, Held, Closing
  <2>. QED
    BY Zenon, <1>0, <1>1, <1>3, <2>1, <2>3, GoesOn
<1>4. ASSUME Fresh("job"), NEW s \in {0, row.attempt}, NEW f \in Failure, Write("job", Failed(row, s, f)),
             Return("job") \/ \E e \in BOOLEAN : EnterStop("job", e, "idle")
      PROVE  BaseInv'
  <2>1. PICK l \in {"idle", "stop"} : Turn("job", l, 0)
    BY Zenon, <1>0, <1>1, <1>4, Turns DEF Return
  <2>2. ~Over
    BY Zenon, <1>1, <1>4 DEF Over, Terminal
  <2>3. row' \in Row /\ RowInv' /\ Onward("job") /\ Write("job", row')
    BY Zenon, <1>0, <1>4, <2>2, RowFails DEF Write
  <2>. QED
    BY Zenon, <1>0, <1>1, <2>1, <2>3, WritesAndQuits
<1>5. ASSUME Fresh("job"), pc["job"] = "recover", Write("job", [row EXCEPT !.sbx = row.attempt]),
             UNCHANGED actor
      PROVE  BaseInv'
  <2>1. Turn("job", "recover", att["job"])
    BY Zenon, <1>0, <1>1, <1>5, Turns
  <2>2. row.status = "creating" /\ row.attempt # 0
    BY Zenon, <1>1, <1>5 DEF RowInv
  <2>3. /\ row' \in Row /\ RowInv' /\ Onward("job") /\ row'.status = "creating"
        /\ row'.attempt = row.attempt /\ Write("job", row')
    BY Zenon, <1>0, <1>5, <2>2, RowNames DEF Write
  <2>4. ActorInv("job")'
    BY Zenon, <1>1, <2>1, <2>3 DEF Turn, ActorInv, Knows, Building, Held, Closing
  <2>. QED
    BY Zenon, <1>0, <1>1, <2>1, <2>3, <2>4, ActorStep DEF Sees
<1>. QED
  BY Zenon, <1>0, <1>1, <1>2, <1>3, <1>4, <1>5 DEF Recover, Probe

(* The row becomes stopping, and its sandbox is to be closed.              *)
LEMMA StopMarks ==
  ASSUME BaseInv, NEW x \in Actor, ~Over, row.status \in Status, Write(x, Moved(row, "stopping")),
         Goto(x, "close"), att' = [att EXCEPT ![x] = row.sbx], UNCHANGED <<expired, after>>,
         UNCHANGED <<sandbox, clock, requests, crashes>>
  PROVE  BaseInv'
<1>0. TypeOK /\ RowInv /\ row \in Row /\ row.sbx \in {0} \cup Attempt /\ "close" \in PC /\ "stopping" \in Status
  BY Zenon, KnownFacts DEF PC, Status
<1>1. Turn(x, "close", row.sbx) /\ RestTyped'
  BY Zenon, <1>0, Turns, RestStays
<1>2. row' = Moved(row, "stopping") /\ Write(x, row')
  BY Zenon DEF Write
<1>3. /\ row' \in Row /\ row'.status = "stopping" /\ row'.sbx = row.sbx
      /\ row'.attempt = row.attempt /\ row'.rev = row.rev
  BY Zenon, <1>0, <1>2, MovedRow
<1>4. row.sbx \in {0, row.attempt}
  BY Zenon, <1>0 DEF RowInv
<1>5. RowInv' /\ Onward(x)
  BY Zenon, <1>3, <1>4, RowSettles
<1>6. row.sbx <= row.attempt
  BY <1>0, <1>4, RowFields
<1>7. ActorInv(x)'
  BY Zenon, <1>1, <1>3, <1>6 DEF Turn, ActorInv, Knows, JobOnly, Building, Held, Closing
<1>. QED
  BY Zenon, <1>1, <1>2, <1>3, <1>5, <1>7, ActorStep DEF Sees

(* Stop reads the row.                                                     *)
LEMMA StopReadKeeps == ASSUME BaseInv, NEW x \in Actor, StopRead(x) PROVE BaseInv'
<1>0. {"idle", "retry", "lookup", "close"} \subseteq PC
  BY Zenon DEF PC
<1>1. /\ TypeOK /\ RowInv /\ ActorInv(x) /\ row \in Row /\ RestTyped' /\ pc[x] \in {"stop", "observed"}
      /\ after[x] \in {"idle", "retry"} /\ att[x] <= row.attempt /\ row.attempt \in Nat
  BY Zenon, KnownFacts, RestStays, RowFields DEF StopRead, TypeOK, ActorInv
<1>2. CASE Keep /\ Return(x)
  <2>1. Turn(x, "idle", 0)
    BY Zenon, <1>0, <1>1, <1>2, Turns DEF Return
  <2>. QED
    BY Zenon, <1>1, <1>2, <2>1, Quits
<1>3. CASE row.status \in Terminal /\ row.sbx = 0 /\ Read(x) /\ Leave(x, after[x])
  <2>1. Turn(x, after[x], 0)
    BY Zenon, <1>0, <1>1, <1>3, Turns
  <2>2. row' = row /\ Over /\ 0 <= row.attempt
    BY <1>1, <1>3 DEF Read, Over
  <2>3. Over'
    BY Zenon, <2>2 DEF Over
  <2>4. ActorInv(x)'
    BY Zenon, <1>1, <2>1, <2>2, <2>3 DEF Turn, ActorInv, Knows, JobOnly, Building, Held, Closing
  <2>. QED
    BY Zenon, <1>1, <1>3, <2>1, <2>4, GoesOn
<1>4. CASE /\ row.status \in {"creating", "stopping"} /\ row.sbx = 0 /\ row.attempt > 0
           /\ Read(x) /\ Goto(x, "lookup") /\ UNCHANGED <<att, expired, after>>
  <2>1. Turn(x, "lookup", att[x])
    BY Zenon, <1>0, <1>1, <1>4, Turns
  <2>2. row' = row /\ row.attempt # 0
    BY <1>1, <1>4 DEF Read
  <2>3. ActorInv(x)'
    BY Zenon, <1>1, <1>4, <2>1, <2>2 DEF Turn, ActorInv, Knows, JobOnly, Building, Held, Closing
  <2>. QED
    BY Zenon, <1>1, <1>4, <2>1, <2>3, GoesOn
<1>5. CASE /\ row.status \in Status /\ ~ (row.status \in Terminal /\ row.sbx = 0)
           /\ Write(x, Moved(row, "stopping")) /\ Goto(x, "close")
           /\ att' = [att EXCEPT ![x] = row.sbx] /\ UNCHANGED <<expired, after>>
  <2>1. ~Over
    BY Zenon, <1>5 DEF Over, Status, Terminal
  <2>. QED
    BY Zenon, <1>5, <2>1, StopMarks DEF StopRead
<1>. QED
  BY Zenon, <1>2, <1>3, <1>4, <1>5 DEF StopRead

(* Reconcile by the operation id of the attempt, and the mark after it.    *)
LEMMA LookupKeeps == ASSUME BaseInv, NEW x \in Actor, Lookup(x) \/ Mark(x) PROVE BaseInv'
<1>0. {"idle", "mark"} \subseteq PC
  BY Zenon DEF PC
<1>1. /\ TypeOK /\ RowInv /\ ActorInv(x) /\ row \in Row /\ RestTyped' /\ att[x] <= row.attempt
      /\ Fresh(x) => row.status \in {"creating", "stopping"}
      /\ Fresh(x) /\ pc[x] = "lookup" => row.attempt # 0
  BY Zenon, KnownFacts, RestStays DEF Lookup, Mark, ActorInv, Knows
<1>2. ASSUME Keep, Return(x) PROVE BaseInv'
  <2>1. Turn(x, "idle", 0)
    BY Zenon, <1>0, <1>1, <1>2, Turns DEF Return
  <2>. QED
    BY Zenon, <1>1, <1>2, <2>1, Quits
<1>3. ASSUME Fresh(x), Keep, Goto(x, "mark"), UNCHANGED <<att, expired, after>> PROVE BaseInv'
  <2>1. Turn(x, "mark", att[x])
    BY Zenon, <1>0, <1>1, <1>3, Turns
  <2>2. row' = row
    BY Zenon, <1>3 DEF Keep
  <2>3. ActorInv(x)'
    BY Zenon, <1>1, <1>3, <2>1, <2>2 DEF Turn, ActorInv, Knows, JobOnly, Building, Held, Closing
  <2>. QED
    BY Zenon, <1>1, <1>3, <2>1, <2>3, GoesOn
<1>4. ASSUME Fresh(x), pc[x] = "lookup", Write(x, [row EXCEPT !.sbx = row.attempt]), Goto(x, "mark"),
             UNCHANGED <<att, expired, after>>
      PROVE  BaseInv'
  <2>1. Turn(x, "mark", att[x])
    BY Zenon, <1>0, <1>1, <1>4, Turns
  <2>2. /\ row' \in Row /\ RowInv' /\ Onward(x) /\ row'.status \in {"creating", "stopping"}
        /\ row'.attempt = row.attempt /\ Write(x, row')
    BY Zenon, <1>1, <1>4, RowNames DEF Write
  <2>3. ActorInv(x)'
    BY Zenon, <1>1, <2>1, <2>2 DEF Turn, ActorInv, Knows, JobOnly, Building, Held, Closing
  <2>. QED
    BY Zenon, <1>1, <2>1, <2>2, <2>3, ActorStep DEF Sees
<1>5. CASE Lookup(x)
  BY Zenon, <1>2, <1>3, <1>4, <1>5 DEF Lookup
<1>6. CASE Mark(x)
  <2>1. Fresh(x) => ~Over /\ row.status \in Status
    BY Zenon, <1>1 DEF Over, Terminal, Status
  <2>. QED
    BY Zenon, <1>2, <1>6, <2>1, StopMarks DEF Mark
<1>. QED
  BY Zenon, <1>5, <1>6

(* What Stop leaves in the row when the sandbox is closed.                 *)
LEMMA StoppedRow ==
  ASSUME BaseInv, NEW x \in Actor
  PROVE  /\ Stopped(x) \in Row /\ Stopped(x).status \in Terminal /\ Stopped(x).sbx = 0
         /\ Stopped(x).attempt = row.attempt /\ Stopped(x).rev = row.rev
         /\ PreserveFailed => Stopped(x).status = "failed" /\ Stopped(x).failure = row.failure
<1>1. row \in Row /\ 0 \in {0} \cup Attempt /\ {"expired", "completed", "failed"} \subseteq Status \cap Terminal
  BY Zenon, KnownFacts DEF Status, Terminal
<1>2. CASE PreserveFailed
  <2>1. Stopped(x) = [row EXCEPT !.status = "failed", !.sbx = 0]
    BY Zenon, <1>2 DEF Stopped
  <2>3. LET r == [row EXCEPT !.status = "failed", !.sbx = 0]
        IN /\ r \in Row /\ r.status = "failed" /\ r.sbx = 0
           /\ r.attempt = row.attempt /\ r.rev = row.rev /\ r.failure = row.failure
    BY Zenon, <1>1 DEF Row, Status
  <2>. QED
    BY Zenon, <1>1, <2>1, <2>3
<1>3. CASE ~PreserveFailed
  <2>1. PICK st \in {"expired", "completed"} : Stopped(x) = [Moved(row, st) EXCEPT !.sbx = 0]
    BY <1>3 DEF Stopped
  <2>2. PICK m \in Row : /\ m = Moved(row, st) /\ m.status = st
                         /\ m.attempt = row.attempt /\ m.rev = row.rev
    BY ZenonT(30), <1>1, MovedRow
  <2>3. LET r == [m EXCEPT !.sbx = 0]
        IN r \in Row /\ r.status = st /\ r.sbx = 0 /\ r.attempt = row.attempt /\ r.rev = row.rev
    BY Zenon, <1>1, <2>2, NamedRow
  <2>4. Stopped(x) = [m EXCEPT !.sbx = 0]
    BY Zenon, <2>1, <2>2
  <2>. QED
    BY Zenon, <1>1, <1>3, <2>3, <2>4
<1>. QED
  BY Zenon, <1>2, <1>3

(* The sandbox is closed, and the outcome goes into the row.               *)
LEMMA CloseKeeps == ASSUME BaseInv, NEW x \in Actor, CloseSandbox(x) PROVE BaseInv'
<1>0. {"closed", "unclosed"} \subseteq PC
  BY Zenon DEF PC
<1>1. /\ TypeOK /\ ActorInv(x) /\ pc[x] = "close" /\ Keep /\ att[x] \in {0} \cup Attempt
      /\ Closes(x, att[x], "closed", "unclosed")
  BY Zenon, KnownFacts DEF CloseSandbox
<1>2. PICK l \in {"closed", "unclosed"} :
        Turn(x, l, att[x]) /\ RestTyped' /\ (l = "unclosed" => att[x] # 0)
  BY Zenon, <1>0, <1>1, CloseTurns DEF CloseSandbox
<1>3. row' = row /\ stale' = stale
  BY Zenon, <1>1 DEF Keep
<1>4. ActorInv(x)'
  BY Zenon, <1>1, <1>2, <1>3 DEF Turn, ActorInv, Knows, Fresh, JobOnly, Building, Held, Closing
<1>. QED
  BY Zenon, <1>1, <1>2, <1>4, GoesOn

(* The outcome of Stop goes into the row.                                  *)
LEMMA ReportKeeps == ASSUME BaseInv, NEW x \in Actor, StopReport(x) PROVE BaseInv'
<1>0. {"idle", "retry"} \subseteq PC
  BY Zenon DEF PC
<1>1. /\ TypeOK /\ RowInv /\ ActorInv(x) /\ row \in Row /\ RestTyped' /\ pc[x] \in {"closed", "unclosed"}
      /\ after[x] \in {"idle", "retry"} /\ row.sbx \in {0, row.attempt}
      /\ Fresh(x) => row.status = "stopping"
  BY Zenon, KnownFacts, RestStays DEF StopReport, TypeOK, RowInv, Knows, Closing
<1>2. Fresh(x) => ~Over
  BY Zenon, <1>1 DEF Over, Terminal
<1>3. CASE Fresh(x) /\ Write(x, Stopped(x)) /\ Leave(x, after[x])
  <2>1. Turn(x, after[x], 0)
    BY Zenon, <1>0, <1>1, <1>3, Turns
  <2>2. row' = Stopped(x) /\ Write(x, row')
    BY Zenon, <1>3 DEF Write
  <2>3. /\ row' \in Row /\ row'.status \in Terminal /\ row'.sbx = 0
        /\ row'.attempt = row.attempt /\ row'.rev = row.rev
    BY Zenon, <2>2, StoppedRow
  <2>4. RowInv' /\ Onward(x)
    BY Zenon, <1>2, <1>3, <2>3, RowSettles DEF Terminal
  <2>5. Over' /\ 0 <= row'.attempt
    BY <2>3, RowFields DEF Over
  <2>6. ActorInv(x)'
    BY Zenon, <1>1, <2>1, <2>5 DEF Turn, ActorInv, Knows, JobOnly, Building, Held, Closing
  <2>. QED
    BY Zenon, <1>1, <2>1, <2>2, <2>3, <2>4, <2>6, ActorStep DEF Sees
<1>4. ASSUME Fresh(x), NEW g \in Failure, Write(x, Failed(row, row.sbx, g)), Return(x) PROVE BaseInv'
  <2>1. Turn(x, "idle", 0)
    BY Zenon, <1>0, <1>1, <1>4, Turns DEF Return
  <2>2. row' \in Row /\ RowInv' /\ Onward(x) /\ Write(x, row')
    BY Zenon, <1>1, <1>2, <1>4, RowFails DEF Write
  <2>. QED
    BY Zenon, <1>1, <2>1, <2>2, WritesAndQuits
<1>5. CASE Keep /\ Return(x)
  <2>1. Turn(x, "idle", 0)
    BY Zenon, <1>0, <1>1, <1>5, Turns DEF Return
  <2>. QED
    BY Zenon, <1>1, <1>5, <2>1, Quits
<1>6. (IF ExpiryCleanup(x) THEN "expiry_cleanup" ELSE "cleanup") \in Failure
  BY Zenon DEF Failure
<1>. QED
  BY Zenon, <1>3, <1>4, <1>5, <1>6 DEF StopReport

(* The requests are counted.                                               *)
LEMMA RequestTyped == BaseInv /\ Request => requests' \in 0 .. MaxRequests
BY BoundsAssumption DEF BaseInv, TypeOK, Request

(* The handler of a stop.                                                  *)
LEMMA StopRequestKeeps == ASSUME BaseInv, NEW h \in Handlers, StopRequest(h) PROVE BaseInv'
<1>0. h \in Actor
  BY Zenon DEF Actor
<1>1. TypeOK /\ RowInv /\ row \in Row /\ row.status \in Status /\ ~Over
  BY Zenon, <1>0, KnownFacts DEF StopRequest, Over, Status, Terminal
<1>2. RestTyped'
  BY Zenon, <1>1, RequestTyped DEF StopRequest, RestTyped, TypeOK
<1>3. Turn(h, "stop", 0)
  BY Zenon, <1>0, <1>1, Turns DEF StopRequest
<1>4. PICK st \in {"completed", "failed", "stopping"} :
        row' = [row EXCEPT !.status = st] /\ Write(h, row')
  BY Zenon DEF StopRequest, Write
<1>5. /\ row' \in Row /\ row'.status = st /\ row'.sbx = row.sbx
      /\ row'.attempt = row.attempt /\ row'.rev = row.rev
  BY <1>1, <1>4 DEF Row, Status
<1>6. RowInv' /\ Onward(h)
  <2>1. row'.sbx \in {0, row.attempt}
    BY Zenon, <1>1, <1>5 DEF RowInv
  <2>. QED
    BY Zenon, <1>0, <1>1, <1>5, <2>1, RowSettles
<1>. QED
  BY Zenon, <1>0, <1>2, <1>3, <1>4, <1>5, <1>6, WritesAndQuits

(* RetryDeployment.                                                        *)
LEMMA RequeuedRow ==
  ASSUME BaseInv, NEW h \in Handlers, Requeue(h), row.status \in Terminal
  PROVE  /\ row' \in Row /\ RowInv' /\ Onward(h) /\ Write(h, row') /\ Turn(h, "idle", 0)
         /\ row'.status = "queued" /\ row'.attempt = row.attempt /\ row'.rev = row.rev + 1
<1>0. h \in Actor /\ "idle" \in PC
  BY Zenon DEF Actor, PC
<1>1. TypeOK /\ RowInv /\ row \in Row
  BY Zenon, <1>0, KnownFacts
<1>2. row.rev \in 1 .. MaxRevisions /\ row.rev < MaxRevisions /\ MaxRevisions \in Nat /\ row.attempt \in Nat
  BY Zenon, <1>1, RowFields, BoundsAssumption DEF Requeue
<1>3. row.rev + 1 \in 1 .. MaxRevisions /\ row.rev + 1 >= row.rev /\ row.rev + 1 >= 2
  BY <1>2
<1>4. row' = [row EXCEPT !.status = "queued", !.sbx = 0, !.rev = @ + 1, !.failure = "none"]
      /\ Write(h, row')
  BY Zenon DEF Requeue, Write
<1>5. /\ row' \in Row /\ row'.status = "queued" /\ row'.sbx = 0
      /\ row'.attempt = row.attempt /\ row'.rev = row.rev + 1
  BY Zenon, <1>1, <1>3, <1>4 DEF Row, Status, Failure
<1>6. row.attempt <= row.rev + 1 /\ row.attempt < row.rev + 1
  BY <1>1, <1>2 DEF RowInv
<1>7. RowInv'
  BY Zenon, <1>5, <1>6 DEF RowInv
<1>8. Onward(h)
  BY Zenon, <1>3, <1>5 DEF Onward
<1>9. Turn(h, "idle", 0)
  BY Zenon, <1>0, <1>1, Turns DEF Requeue, Return
<1>. QED
  BY Zenon, <1>4, <1>5, <1>7, <1>8, <1>9

(* The handler of a retry.                                                 *)
LEMMA RetryKeeps ==
  ASSUME BaseInv, NEW h \in Handlers, RetryRequest(h) \/ RetryAfterStop(h)
  PROVE  BaseInv'
<1>0. h \in Actor /\ {"idle", "stop"} \subseteq PC
  BY Zenon DEF Actor, PC
<1>1. TypeOK
  BY Zenon, <1>0, KnownFacts
<1>2. ASSUME clock' \in {"early", "expired", "late"} PROVE RestTyped'
  BY Zenon, <1>1, <1>2, RequestTyped DEF RetryRequest, RetryAfterStop, RestTyped, TypeOK
<1>3. CASE row.status \in Terminal /\ Requeue(h)
  <2>1. RestTyped'
    BY Zenon, <1>2, <1>3 DEF Requeue
  <2>. QED
    BY Zenon, <1>0, <1>3, <2>1, RequeuedRow, WritesAndQuits
<1>4. ASSUME Keep, UNCHANGED clock, NEW l \in {"idle", "stop"}, Turn(h, l, 0) PROVE BaseInv'
  <2>1. RestTyped'
    BY Zenon, <1>1, <1>2, <1>4 DEF TypeOK
  <2>. QED
    BY Zenon, <1>0, <1>4, <2>1, Quits
<1>5. CASE Keep /\ UNCHANGED clock /\ (EnterStop(h, FALSE, "retry") \/ Return(h))
  <2>1. \E l \in {"idle", "stop"} : Turn(h, l, 0)
    BY Zenon, <1>0, <1>1, <1>5, Turns DEF Return
  <2>. QED
    BY Zenon, <1>4, <1>5, <2>1
<1>. QED
  BY Zenon, <1>3, <1>5 DEF RetryRequest, RetryAfterStop

(* The retention, the provider, the clock and crashes.                     *)
LEMMA EnvironmentKeeps == BaseInv /\ (Prune \/ Provider \/ Expire \/ Late \/ Crash) => BaseInv'
<1>. SUFFICES ASSUME BaseInv, Prune \/ Provider \/ Expire \/ Late \/ Crash PROVE BaseInv'
  BY Zenon
<1>1. TypeOK /\ RowInv /\ row \in Row /\ \A x \in Actor : ActorInv(x)
  BY Zenon DEF BaseInv, TypeOK
<1>2. ASSUME UNCHANGED <<row, actor, stale>>, RestTyped' PROVE BaseInv'
  <2>1. TypeOK' /\ RowInv'
    BY Zenon, <1>1, <1>2 DEF TypeOK, RestTyped, RowInv, actor
  <2>2. ASSUME NEW x \in Actor PROVE ActorInv(x)'
    BY Zenon, <1>1, <1>2 DEF ActorInv, Knows, Over, actor
  <2>. QED
    BY Zenon, <2>1, <2>2 DEF BaseInv
<1>3. CASE Prune
  <2>1. /\ row' \in Row /\ row'.status = "pruned" /\ row'.sbx = 0
        /\ row'.attempt = row.attempt /\ row'.rev = row.rev /\ row.sbx = 0
    BY <1>1, <1>3 DEF Prune, Row
  <2>2. TypeOK' /\ RowInv'
    BY Zenon, <1>1, <1>3, <2>1 DEF TypeOK, RowInv, Prune, actor
  <2>3. ASSUME NEW x \in Actor PROVE ActorInv(x)'
    <3>1. pc'[x] = pc[x] /\ att'[x] = att[x]
      BY Zenon, <1>3 DEF Prune, actor
    <3>2. x \notin stale' => pc'[x] = "idle"
      BY Zenon, <1>3, <3>1 DEF Prune
    <3>3. x \notin stale' => Knows(x)'
      BY Zenon, <3>2 DEF Knows, Held, Closing
    <3>4. Over'
      BY Zenon, <2>1 DEF Over
    <3>. QED
      BY Zenon, <1>1, <2>1, <3>1, <3>3, <3>4 DEF ActorInv
  <2>. QED
    BY Zenon, <2>2, <2>3 DEF BaseInv
<1>4. CASE Provider
  <2>1. PICK a \in Attempt, s \in {"none", "pending", "live", "gone"} :
          sandbox' = [sandbox EXCEPT ![a] = s] /\ UNCHANGED <<row, clock, actor, stale, requests, crashes>>
    BY Zenon, <1>4 DEF Provider, Lands, SandboxEnds
  <2>2. RestTyped'
    BY Zenon, <2>1, SandboxTyped
  <2>. QED
    BY Zenon, <1>2, <2>1, <2>2
<1>5. CASE Expire \/ Late
  BY Zenon, <1>1, <1>2, <1>5 DEF Expire, Late, TypeOK, RestTyped
<1>6. CASE Crash
  <2>1. crashes' \in 0 .. MaxCrashes
    BY <1>1, <1>6, BoundsAssumption DEF TypeOK, Crash
  <2>2. sandbox' \in [Attempt -> {"none", "pending", "live", "gone"}]
    BY <1>1, <1>6 DEF TypeOK, Crash, CreationLeft
  <2>3. row' = row
    BY Zenon, <1>6 DEF Crash
  <2>4. pc' \in [Actor -> PC] /\ att' \in [Actor -> {0} \cup Attempt]
        /\ expired' \in [Actor -> BOOLEAN] /\ after' \in [Actor -> {"idle", "retry"}] /\ stale' \subseteq Actor
    BY Zenon, <1>6 DEF Crash, PC
  <2>5. TypeOK' /\ RowInv'
    BY Zenon, <1>1, <1>6, <2>1, <2>2, <2>3, <2>4 DEF TypeOK, RowInv, Crash
  <2>6. ASSUME NEW x \in Actor PROVE ActorInv(x)'
    BY Zenon, <1>1, <1>6, <2>3, EmptyHanded DEF Crash
  <2>. QED
    BY Zenon, <2>5, <2>6 DEF BaseInv
<1>. QED
  BY Zenon, <1>3, <1>4, <1>5, <1>6

(* The invariant of the row and its actors.                                *)
LEMMA BaseInit == Init => BaseInv
<1>. SUFFICES ASSUME Init PROVE BaseInv
  BY Zenon
<1>1. row \in Row /\ row.status = "queued" /\ row.sbx = 0 /\ row.attempt = 0 /\ row.rev = 1
  BY BoundsAssumption DEF Init, Row, Status, Failure
<1>2. RowInv
  BY <1>1 DEF RowInv
<1>3. "idle" \in PC
  BY Zenon DEF PC
<1>4. TypeOK
  BY <1>1, <1>3, BoundsAssumption DEF Init, TypeOK
<1>5. 0 <= row.attempt
  BY <1>1
<1>6. ASSUME NEW x \in Actor PROVE ActorInv(x)
  BY Zenon, <1>1, <1>5 DEF Init, ActorInv, Knows, JobOnly, Building, Held, Closing
<1>. QED
  BY Zenon, <1>2, <1>4, <1>6 DEF BaseInv

(* Stop as a whole.                                                        *)
LEMMA StopKeeps == ASSUME BaseInv, NEW x \in Actor, Stop(x) PROVE BaseInv'
BY Zenon, StopReadKeeps, LookupKeeps, CloseKeeps, ReportKeeps DEF Stop

(* Every step keeps the invariant of the row and its actors.               *)
LEMMA BaseStep == BaseInv /\ [Next]_vars => BaseInv'
<1>. SUFFICES ASSUME BaseInv, [Next]_vars PROVE BaseInv'
  BY Zenon
<1>1. "job" \in Actor /\ \A h \in Handlers : h \in Actor
  BY Zenon DEF Actor
<1>2. CASE Job
  BY Zenon, <1>1, <1>2, AdvanceKeeps, PlanKeeps, CreateKeeps, SaveKeeps, ApplyKeeps, UndoKeeps,
     UndoneKeeps, RecoverKeeps, StopKeeps DEF Job, Process
<1>3. ASSUME NEW h \in Handlers, Handler(h) PROVE BaseInv'
  BY Zenon, <1>1, <1>3, StopRequestKeeps, RetryKeeps, StopKeeps DEF Handler
<1>4. CASE UNCHANGED vars
  <2>1. TypeOK' /\ RowInv'
    BY Zenon, <1>4 DEF vars, BaseInv, TypeOK, RowInv
  <2>2. ASSUME NEW x \in Actor PROVE ActorInv(x)'
    BY Zenon, <1>4 DEF vars, BaseInv, ActorInv, Knows, Over
  <2>. QED
    BY Zenon, <2>1, <2>2 DEF BaseInv
<1>. QED
  BY Zenon, <1>2, <1>3, <1>4, EnvironmentKeeps DEF Next

(* The row, the sandboxes and the actors keep their types; in particular   *)
(* attempts never outnumber revisions, so that Process never counts beyond *)
(* them whatever stops, retries and crashes come in between.               *)
THEOREM WorkerTypes == Spec => []TypeOK
<1>1. BaseInv => TypeOK
  BY DEF BaseInv
<1>. QED
  BY BaseInit, BaseStep, <1>1, PTL DEF Spec

-----------------------------------------------------------------------------
(* Failures are kept                                                       *)

(* Nobody in Process writes a row that has failed or is being stopped: the *)
(* version has moved.                                                      *)
LEMMA FailedNotProcessed ==
  ASSUME BaseInv, row.status \in {"failed", "stopping"},
         Advance \/ Process \/ Recover \/ Probe
  PROVE  row' = row
<1>0. "job" \in Actor
  BY Zenon DEF Actor
<1>1. Fresh("job") => Knows("job")
  BY Zenon, <1>0, KnownFacts
<1>2. CASE Advance
  BY Zenon, <1>2 DEF Advance, Read, Keep
<1>3. CASE Plan \/ CreateRefused \/ CreateUnknown \/ CreateReturns
  BY Zenon, <1>1, <1>3 DEF Plan, CreateRefused, CreateUnknown, CreateReturns, Knows, Keep
<1>4. CASE SaveSandbox \/ ApplyFails \/ ApplySucceeds
  BY Zenon, <1>1, <1>4 DEF SaveSandbox, ApplyFails, ApplySucceeds, Knows, Keep, Held
<1>5. CASE Undo \/ ReportUndone \/ Drop
  BY Zenon, <1>1, <1>5 DEF Undo, ReportUndone, Drop, Knows, Keep, Held
<1>6. CASE Recover \/ Probe
  BY Zenon, <1>1, <1>6 DEF Recover, Probe, Knows, Keep
<1>. QED
  BY Zenon, <1>2, <1>3, <1>4, <1>5, <1>6 DEF Process

(* The failure stays, or a cleanup that failed takes its place.            *)
KeptOrCleanup ==
    /\ row'.status \in {"failed", "stopping", "pruned"}
    /\ \/ row'.failure = row.failure
       \/ /\ row.status = "stopping" /\ row.sbx # 0
          /\ row'.status = "failed" /\ row'.sbx = row.sbx
          /\ row'.failure = "cleanup"

(* Stop keeps the failure it cleans up after, unless it fails to.          *)
LEMMA FailureStopped ==
  ASSUME BaseInv, NEW x \in Actor, Stop(x), row.status \in {"failed", "stopping"}, PreserveFailed
  PROVE  KeptOrCleanup
<1>1. row \in Row /\ row.failure # "none" /\ RowInv /\ ActorInv(x) /\ (Fresh(x) => Knows(x)) /\ "stopping" \in Status
      /\ row.sbx \in {0} \cup Attempt /\ row.attempt \in {0} \cup Attempt
  BY Zenon, KnownFacts DEF PreserveFailed, Status
<1>2. ASSUME row' = row PROVE KeptOrCleanup
  BY Zenon, <1>2 DEF KeptOrCleanup
<1>3. ASSUME row' = Moved(row, "stopping") PROVE KeptOrCleanup
  BY Zenon, <1>1, <1>3, MovedRow DEF KeptOrCleanup
<1>4. ASSUME row' = [row EXCEPT !.sbx = row.attempt] PROVE KeptOrCleanup
  BY ZenonT(60), <1>1, <1>4, NamedRow DEF KeptOrCleanup
<1>5. ASSUME row.status = "stopping", row.sbx # 0, row' = Failed(row, row.sbx, "cleanup")
      PROVE  KeptOrCleanup
  <2>1. "cleanup" \in Failure
    BY Zenon DEF Failure
  <2>2. ASSUME NEW g \in Failure
        PROVE  /\ Failed(row, row.sbx, g).status = "failed" /\ Failed(row, row.sbx, g).sbx = row.sbx
               /\ Failed(row, row.sbx, g).failure = g
    BY Zenon, <1>1 DEF Failed, Row
  <2>3. row'.status = "failed" /\ row'.sbx = row.sbx /\ row'.failure = "cleanup"
    BY Zenon, <1>5, <2>1, <2>2
  <2>. QED
    BY Zenon, <1>5, <2>3 DEF KeptOrCleanup
<1>6. ASSUME row' = Stopped(x) PROVE KeptOrCleanup
  BY Zenon, <1>6, StoppedRow DEF KeptOrCleanup
<1>7. CASE StopRead(x)
  BY Zenon, <1>2, <1>3, <1>7 DEF StopRead, Read, Keep, Write
<1>8. CASE Lookup(x) \/ Mark(x)
  BY Zenon, <1>2, <1>3, <1>4, <1>8 DEF Lookup, Mark, Keep, Write
<1>9. CASE CloseSandbox(x)
  BY Zenon, <1>2, <1>9 DEF CloseSandbox, Keep
<1>10. CASE StopReport(x)
  <2>1. pc[x] \in Closing
    BY Zenon, <1>10 DEF StopReport, Closing
  <2>2. Fresh(x) => row.status = "stopping" /\ (pc[x] = "unclosed" => row.sbx # 0)
    BY Zenon, <1>1, <2>1 DEF Knows, ActorInv, Closing
  <2>3. ~ExpiryCleanup(x)
    BY Zenon DEF ExpiryCleanup, PreserveFailed
  <2>4. \/ Keep
        \/ row' = Stopped(x)
        \/ Fresh(x) /\ pc[x] = "unclosed" /\ row' = Failed(row, row.sbx, "cleanup")
    BY Zenon, <1>10, <2>3 DEF StopReport, Write
  <2>. QED
    BY Zenon, <1>2, <1>5, <1>6, <2>2, <2>4 DEF Keep
<1>. QED
  BY Zenon, <1>7, <1>8, <1>9, <1>10 DEF Stop

(* transition, fail and Stop keep the failure that a cleanup is about:     *)
(* until a retry, a deployment that failed is failed or stopping whoever   *)
(* stops it, and its stage and reason stay until a cleanup fails, which    *)
(* puts its own there and keeps the sandbox it could not close.            *)
THEOREM FailuresAreKept == Spec => FailureKept
<1>. DEFINE Kept == /\ row.status \in {"failed", "stopping"} /\ PreserveFailed
                    /\ row'.rev = row.rev
                    => KeptOrCleanup
<1>1. ASSUME BaseInv, [Next]_vars PROVE Kept
  <2>. SUFFICES ASSUME row.status \in {"failed", "stopping"}, PreserveFailed, row'.rev = row.rev
                PROVE  KeptOrCleanup
    BY Zenon
  <2>1. row \in Row /\ "job" \in Actor /\ \A h \in Handlers : h \in Actor
    BY Zenon, <1>1 DEF BaseInv, TypeOK, Actor
  <2>2. ASSUME row' = row PROVE KeptOrCleanup
    BY Zenon, <2>2 DEF KeptOrCleanup
  <2>3. CASE Job
    BY Zenon, <1>1, <2>1, <2>2, <2>3, FailedNotProcessed, FailureStopped DEF Job
  <2>4. ASSUME NEW h \in Handlers, Stop(h) PROVE KeptOrCleanup
    BY Zenon, <1>1, <2>1, <2>4, FailureStopped
  <2>5. ASSUME NEW h \in Handlers, StopRequest(h) PROVE KeptOrCleanup
    <3>1. \E st \in {"failed", "stopping"} : row' = [row EXCEPT !.status = st]
      BY <2>5 DEF StopRequest, Write
    <3>2. row'.status \in {"failed", "stopping"} /\ row'.failure = row.failure
      BY <2>1, <3>1 DEF Row
    <3>. QED
      BY Zenon, <3>2 DEF KeptOrCleanup
  <2>6. ASSUME NEW h \in Handlers, RetryRequest(h) \/ RetryAfterStop(h) PROVE row' = row
    <3>1. row.rev + 1 # row.rev
      BY <2>1, RowFields
    <3>2. row.status \in Terminal /\ Requeue(h) => row'.rev = row.rev + 1
      BY Zenon, <1>1, RequeuedRow
    <3>. QED
      BY Zenon, <2>6, <3>1, <3>2 DEF RetryRequest, RetryAfterStop, Keep
  <2>7. CASE Prune
    <3>1. row' = [row EXCEPT !.status = "pruned"]
      BY Zenon, <2>7 DEF Prune
    <3>2. row'.status = "pruned" /\ row'.failure = row.failure
      BY <2>1, <3>1 DEF Row
    <3>. QED
      BY Zenon, <3>2 DEF KeptOrCleanup
  <2>8. CASE Provider \/ Expire \/ Late \/ Crash \/ UNCHANGED vars
    BY Zenon, <2>2, <2>8 DEF Provider, Lands, SandboxEnds, Expire, Late, Crash, vars
  <2>. QED
    BY Zenon, <1>1, <2>2, <2>3, <2>4, <2>5, <2>6, <2>7, <2>8 DEF Next, Handler
<1>. QED
  BY BaseInit, BaseStep, <1>1, PTL DEF Spec, FailureKept, KeptOrCleanup

-----------------------------------------------------------------------------
(* A running deployment is left alone                                      *)

(* While the row says running, whoever works on a sandbox works on an      *)
(* earlier one.                                                            *)
LEMMA RunningLeftAlone ==
  ASSUME BaseInv, [Next]_vars, row.status = "running", pc' # pc
  PROVE  sandbox'[row.sbx] = sandbox[row.sbx]
<1>0. "job" \in Actor /\ \A h \in Handlers : h \in Actor
  BY Zenon DEF Actor
<1>1. TypeOK /\ RowInv /\ row.sbx # 0 /\ row.sbx = row.attempt
  BY Zenon DEF BaseInv, RowInv
<1>2. ActorInv("job") /\ pc["job"] \notin Building
  BY Zenon, <1>0 DEF BaseInv, ActorInv
<1>3. ASSUME UNCHANGED sandbox PROVE sandbox'[row.sbx] = sandbox[row.sbx]
  BY Zenon, <1>3
<1>4. CASE Advance \/ Plan \/ Recover \/ Probe
  BY Zenon, <1>3, <1>4 DEF Advance, Plan, Recover, Probe
<1>5. CASE CreateRefused \/ CreateUnknown \/ CreateReturns \/ SaveSandbox \/ ApplyFails \/ ApplySucceeds
           \/ Undo \/ ReportUndone \/ Drop
  BY Zenon, <1>2, <1>5 DEF CreateRefused, CreateUnknown, CreateReturns, SaveSandbox, ApplyFails,
     ApplySucceeds, Undo, ReportUndone, Drop, Building, Held
<1>6. ASSUME NEW x \in Actor, Stop(x) PROVE sandbox'[row.sbx] = sandbox[row.sbx]
  <2>1. CASE StopRead(x) \/ Lookup(x) \/ Mark(x) \/ StopReport(x)
    BY Zenon, <1>3, <2>1 DEF StopRead, Lookup, Mark, StopReport
  <2>2. CASE CloseSandbox(x)
    <3>1. pc[x] \in Closing /\ ActorInv(x)
      BY Zenon, <2>2 DEF CloseSandbox, Closing, BaseInv
    <3>2. att[x] = 0 \/ att[x] # row.sbx
      BY Zenon, <1>1, <3>1 DEF ActorInv
    <3>3. UNCHANGED sandbox \/ (att[x] # 0 /\ sandbox' = [sandbox EXCEPT ![att[x]] = "gone"])
      BY Zenon, <2>2 DEF CloseSandbox, Closes
    <3>4. sandbox \in [Attempt -> {"none", "pending", "live", "gone"}] /\ row.sbx \in Attempt
      BY Zenon, <1>1, RowFields DEF TypeOK
    <3>. QED
      BY Zenon, <1>3, <3>2, <3>3, <3>4
  <2>. QED
    BY Zenon, <1>6, <2>1, <2>2 DEF Stop
<1>7. ASSUME NEW h \in Handlers, StopRequest(h) \/ RetryRequest(h) \/ RetryAfterStop(h)
      PROVE  UNCHANGED sandbox
  BY Zenon, <1>7 DEF StopRequest, RetryRequest, RetryAfterStop
<1>8. CASE Crash
  BY Zenon, <1>2, <1>8 DEF Crash, Building
<1>9. CASE Prune \/ Provider \/ Expire \/ Late \/ UNCHANGED vars
  BY Zenon, <1>9 DEF Prune, Provider, Lands, SandboxEnds, Expire, Late, vars, actor
<1>. QED
  BY Zenon, <1>0, <1>3, <1>4, <1>5, <1>6, <1>7, <1>8, <1>9 DEF Next, Job, Process, Handler

(* A handler leaves the scheduler's operation where it is.                 *)
LEMMA HandlersApart ==
  ASSUME BaseInv, NEW h \in Handlers, Handler(h)
  PROVE  pc'["job"] = pc["job"]
<1>1. pc \in [Actor -> PC] /\ "job" \in Actor /\ h \in Actor /\ h # "job"
  BY Zenon, HandlersAssumption DEF BaseInv, TypeOK, Actor
<1>2. \A l : Goto(h, l) => pc'["job"] = pc["job"]
  BY Zenon, <1>1 DEF Goto
<1>3. CASE StopRequest(h) \/ RetryRequest(h) \/ RetryAfterStop(h)
  BY Zenon, <1>2, <1>3 DEF StopRequest, RetryRequest, RetryAfterStop, Requeue, Return, Leave, EnterStop
<1>4. CASE Stop(h)
  BY Zenon, <1>2, <1>4 DEF Stop, StopRead, Lookup, Mark, CloseSandbox, Closes, StopReport, Return, Leave
<1>. QED
  BY Zenon, <1>3, <1>4 DEF Handler

(* What a probe came to is written to the version that was probed.         *)
LEMMA ProbeApplies ==
  ASSUME BaseInv, [Next]_vars, pc["job"] \in {"probe", "observed"}, pc'["job"] # pc["job"], row' # row
  PROVE  row.status = "running"
<1>1. Fresh("job") => row.status = "running"
  BY Zenon, KnownFacts DEF Knows, Actor
<1>2. CASE Probe
  BY Zenon, <1>1, <1>2 DEF Probe, Keep
<1>3. CASE StopRead("job")
  <2>1. pc["job"] = "observed"
    BY Zenon, <1>3 DEF StopRead
  <2>2. AsObserved("job")
    BY Zenon, <1>3 DEF StopRead, Keep
  <2>. QED
    BY Zenon, <1>1, <2>1, <2>2 DEF AsObserved
<1>4. ~ (Advance \/ Process \/ Recover \/ Lookup("job") \/ Mark("job") \/ CloseSandbox("job") \/ StopReport("job"))
  BY Zenon DEF Advance, Process, Plan, CreateRefused, CreateUnknown, CreateReturns, SaveSandbox, ApplyFails,
     ApplySucceeds, Undo, ReportUndone, Drop, Recover, Lookup, Mark, CloseSandbox, StopReport
<1>5. ~ \E h \in Handlers : Handler(h)
  BY Zenon, HandlersApart
<1>6. ~ (Prune \/ Provider \/ Expire \/ Late \/ Crash \/ UNCHANGED vars)
  BY Zenon DEF Prune, Provider, Lands, SandboxEnds, Expire, Late, Crash, vars, actor
<1>. QED
  BY Zenon, <1>2, <1>3, <1>4, <1>5, <1>6 DEF Next, Job, Stop

(* While the row says running, no operation of runnerd closes the sandbox  *)
(* it names: Stop moves the row first, and what is left of an earlier      *)
(* Process or Stop has another attempt in hand or is fenced.  And what     *)
(* checkRunning makes of a probe is applied to a running row only: its     *)
(* write and its Stop both compare the version that was probed.            *)
THEOREM RunningIsUndisturbed == Spec => RunningUndisturbed
<1>1. ASSUME BaseInv, [Next]_vars
      PROVE  /\ row.status = "running" /\ row' = row /\ pc' # pc => sandbox'[row.sbx] = sandbox[row.sbx]
             /\ pc["job"] \in {"probe", "observed"} /\ pc'["job"] # pc["job"] /\ row' # row
                  => row.status = "running"
  BY Zenon, <1>1, RunningLeftAlone, ProbeApplies
<1>. QED
  BY BaseInit, BaseStep, <1>1, PTL DEF Spec, RunningUndisturbed

-----------------------------------------------------------------------------
(* The table of moves                                                      *)

Busy == {"planning", "creating", "running", "stopping"}
Ended == {"completed", "expired"}

(* A deployment that completed or expired names no sandbox.                *)
EndedClean == row.status \in Ended => row.sbx = 0

(* What an operation or the stop handler makes of row r.                   *)
Worked(r, s) ==
    /\ s.rev = r.rev
    /\ \/ s.status = r.status /\ s.sbx = r.sbx
       \/ r.status = "queued" /\ s.status \in Busy \cup Ended /\ r.sbx = 0 /\ s.sbx = 0
       \/ r.status \in Busy /\ s.status \in Busy /\ (r.sbx = 0 \/ s.sbx # 0)
       \/ r.status \in Busy /\ s.status = "queued" /\ r.sbx = 0 /\ s.sbx = 0
       \/ r.status \in Busy /\ s.status = "failed" /\ s.sbx \in {0, r.sbx}
       \/ r.status \in Busy /\ s.status \in Ended /\ s.sbx = 0
       \/ r.status = "failed" /\ r.sbx # 0 /\ s.status \in Busy /\ s.sbx = r.sbx

(* A retry, or the retention.                                              *)
Reopened(r, s) == r.status \in Terminal /\ s.status = "queued" /\ s.sbx = 0 /\ s.rev = r.rev + 1
Deleted(r, s) == r.status \in Terminal /\ r.sbx = 0 /\ s.status = "pruned" /\ s.sbx = 0 /\ s.rev = r.rev

Entries == [status : {"queued", "busy", "failed", "ended", "pruned"}, sandbox : BOOLEAN, rev : Nat]

Outcomes == {"queued", "failed", "ended"}

(* The fields of the entry of a row.                                       *)
LEMMA TabledFields ==
  ASSUME NEW r \in Row
  PROVE  /\ Tabled(r) \in Entries /\ Tabled(r).rev = r.rev
         /\ Tabled(r).sandbox <=> r.sbx # 0
         /\ r.status \in Busy => Tabled(r).status = "busy"
         /\ r.status \in Ended => Tabled(r).status = "ended"
         /\ r.status \in {"queued", "failed", "pruned"} => Tabled(r).status = r.status
<1>0. r.rev \in Nat /\ r.status \in {"queued", "failed", "pruned"} \cup Busy \cup Ended
  BY Zenon, RowFields DEF Status, Busy, Ended
<1>1. Tabled(r).rev = r.rev
  BY Zenon DEF Tabled
<1>2. Tabled(r).sandbox <=> r.sbx # 0
  BY Zenon DEF Tabled
<1>3. r.status \in Busy => Tabled(r).status = "busy"
  BY Zenon DEF Tabled, Busy
<1>4. r.status \in Ended => Tabled(r).status = "ended"
  BY Zenon DEF Tabled, Ended
<1>5. r.status \in {"queued", "failed", "pruned"} => Tabled(r).status = r.status
  BY SMT DEF Tabled
<1>6. Tabled(r).status \in {"queued", "busy", "failed", "ended", "pruned"}
  BY Zenon, <1>0, <1>3, <1>4, <1>5
<1>7. Tabled(r) \in Entries
  BY Zenon, <1>0, <1>1, <1>2, <1>6 DEF Tabled, Entries
<1>. QED
  BY Zenon, <1>1, <1>2, <1>3, <1>4, <1>5, <1>7

(* What is written into an entry.                                          *)
LEMMA EntryEmptied ==
  ASSUME NEW t \in Entries, NEW u \in Entries, u.status = t.status, u.rev = t.rev, ~u.sandbox
  PROVE  u = [t EXCEPT !.sandbox = FALSE]
BY SMT DEF Entries

(* ... its status.                                                         *)
LEMMA EntryRenamed ==
  ASSUME NEW t \in Entries, NEW st \in Outcomes
  PROVE  /\ [t EXCEPT !.status = st] \in Entries
         /\ [t EXCEPT !.status = st].status = st /\ [t EXCEPT !.status = st].rev = t.rev
BY Zenon DEF Entries, Outcomes

(* The table, by what an entry says before and after.                      *)
LEMMA EntryMoves ==
  ASSUME NEW t \in Entries, NEW u \in Entries, u.rev = t.rev,
         \/ t.status = "queued" /\ u.status \in {"busy", "ended"} /\ u.sandbox = t.sandbox
         \/ t.status = "busy" /\ ~t.sandbox /\ u.status = "busy" /\ u.sandbox
         \/ t.status = "busy" /\ ~t.sandbox /\ u.status \in {"queued", "failed", "ended"} /\ ~u.sandbox
         \/ t.status = "busy" /\ t.sandbox /\ u.status = "failed"
         \/ t.status = "busy" /\ t.sandbox /\ u.status = "ended" /\ ~u.sandbox
         \/ t.status = "failed" /\ t.sandbox /\ u.status = "busy" /\ u.sandbox
  PROVE  u \in Moves(t)
<1>0. ASSUME NEW st \in {"failed", "ended"}, t.status = "busy", t.sandbox, u.status = st, ~u.sandbox
      PROVE  u \in Moves(t)
  <2>0. st \in Outcomes
    BY Zenon DEF Outcomes
  <2>1. PICK m \in Entries : /\ m = [t EXCEPT !.status = st] /\ m.status = st
                             /\ m.rev = t.rev
    BY Zenon, <2>0, EntryRenamed
  <2>2. u = [m EXCEPT !.sandbox = FALSE]
    BY Zenon, <1>0, <2>1, EntryEmptied
  <2>3. Moves(t) = {[t EXCEPT !.status = "failed"],
                    [[t EXCEPT !.status = "failed"] EXCEPT !.sandbox = FALSE],
                    [[t EXCEPT !.status = "ended"] EXCEPT !.sandbox = FALSE]}
    BY SMT, <1>0 DEF Moves
  <2>. QED
    BY Zenon, <2>1, <2>2, <2>3
<1>1. CASE t.status = "queued" /\ u.status \in {"busy", "ended"} /\ u.sandbox = t.sandbox
  BY SMT, <1>1 DEF Entries, Moves
<1>2. CASE t.status = "busy" /\ ~t.sandbox /\ u.status = "busy" /\ u.sandbox
  BY SMT, <1>2 DEF Entries, Moves
<1>3. CASE t.status = "busy" /\ ~t.sandbox /\ u.status \in {"queued", "failed", "ended"} /\ ~u.sandbox
  BY SMT, <1>3 DEF Entries, Moves
<1>4. CASE t.status = "busy" /\ t.sandbox /\ u.status = "failed"
  <2>1. CASE u.sandbox
    BY SMT, <1>4, <2>1 DEF Entries, Moves
  <2>2. CASE ~u.sandbox
    BY SMT, <1>0, <1>4, <2>2
  <2>. QED
    BY Zenon, <2>1, <2>2
<1>5. CASE t.status = "busy" /\ t.sandbox /\ u.status = "ended" /\ ~u.sandbox
  BY SMT, <1>0, <1>5
<1>6. CASE t.status = "failed" /\ t.sandbox /\ u.status = "busy" /\ u.sandbox
  BY SMT, <1>6 DEF Entries, Moves
<1>. QED
  BY Zenon, <1>1, <1>2, <1>3, <1>4, <1>5, <1>6

(* What an operation makes of a row is in the table.                       *)
LEMMA WorkedMoves ==
  ASSUME NEW r \in Row, NEW s \in Row, Worked(r, s)
  PROVE  Tabled(s) = Tabled(r) \/ Tabled(s) \in Moves(Tabled(r))
<1>. DEFINE t == Tabled(r)
            u == Tabled(s)
<1>1. t \in Entries /\ u \in Entries /\ u.rev = t.rev
  BY Zenon, TabledFields DEF Worked
<1>2. (t.sandbox <=> r.sbx # 0) /\ (u.sandbox <=> s.sbx # 0)
  BY Zenon, TabledFields
<1>3. CASE s.status = r.status /\ s.sbx = r.sbx
  BY Zenon, <1>3 DEF Tabled, Worked
<1>4. CASE r.status = "queued" /\ s.status \in Busy \cup Ended /\ r.sbx = 0 /\ s.sbx = 0
  <2>1. t.status = "queued" /\ u.status \in {"busy", "ended"} /\ ~t.sandbox /\ ~u.sandbox
    BY Zenon, <1>2, <1>4, TabledFields
  <2>2. u.sandbox = t.sandbox
    BY Zenon, <1>4 DEF Tabled
  <2>. HIDE DEF t, u
  <2>3. u \in Moves(t)
    BY Zenon, <1>1, <2>1, <2>2, EntryMoves
  <2>. QED
    BY Zenon, <2>3 DEF t, u
<1>5. CASE r.status \in Busy /\ s.status \in Busy /\ (r.sbx = 0 \/ s.sbx # 0)
  <2>1. t.status = "busy" /\ u.status = "busy" /\ (t.sandbox => u.sandbox)
    BY Zenon, <1>2, <1>5, TabledFields
  <2>. HIDE DEF t, u
  <2>2. CASE t.sandbox <=> u.sandbox
    <3>1. t = u
      BY SMT, <1>1, <2>1, <2>2 DEF Entries
    <3>. QED
      BY Zenon, <3>1 DEF t, u
  <2>3. CASE ~t.sandbox /\ u.sandbox
    <3>1. u \in Moves(t)
      BY Zenon, <1>1, <2>1, <2>3, EntryMoves
    <3>. QED
      BY Zenon, <3>1 DEF t, u
  <2>. QED
    BY Zenon, <2>1, <2>2, <2>3
<1>6. CASE r.status \in Busy /\ s.status = "queued" /\ r.sbx = 0 /\ s.sbx = 0
  <2>1. t.status = "busy" /\ u.status = "queued" /\ ~t.sandbox /\ ~u.sandbox
    BY Zenon, <1>2, <1>6, TabledFields
  <2>. HIDE DEF t, u
  <2>2. u \in Moves(t)
    BY Zenon, <1>1, <2>1, EntryMoves
  <2>. QED
    BY Zenon, <2>2 DEF t, u
<1>7. CASE r.status \in Busy /\ s.status = "failed" /\ s.sbx \in {0, r.sbx}
  <2>1. t.status = "busy" /\ u.status = "failed" /\ (t.sandbox \/ ~u.sandbox)
    BY Zenon, <1>2, <1>7, TabledFields
  <2>. HIDE DEF t, u
  <2>2. u \in Moves(t)
    BY Zenon, <1>1, <2>1, EntryMoves
  <2>. QED
    BY Zenon, <2>2 DEF t, u
<1>8. CASE r.status \in Busy /\ s.status \in Ended /\ s.sbx = 0
  <2>1. t.status = "busy" /\ u.status = "ended" /\ ~u.sandbox
    BY Zenon, <1>2, <1>8, TabledFields
  <2>. HIDE DEF t, u
  <2>2. u \in Moves(t)
    BY Zenon, <1>1, <2>1, EntryMoves
  <2>. QED
    BY Zenon, <2>2 DEF t, u
<1>9. CASE r.status = "failed" /\ r.sbx # 0 /\ s.status \in Busy /\ s.sbx = r.sbx
  <2>1. t.status = "failed" /\ u.status = "busy" /\ t.sandbox /\ u.sandbox
    BY Zenon, <1>2, <1>9, TabledFields
  <2>. HIDE DEF t, u
  <2>2. u \in Moves(t)
    BY Zenon, <1>1, <2>1, EntryMoves
  <2>. QED
    BY Zenon, <2>2 DEF t, u
<1>. QED
  BY Zenon, <1>3, <1>4, <1>5, <1>6, <1>7, <1>8, <1>9 DEF Worked

(* A row that stays, moves, fails or takes its sandbox.                    *)
LEMMA WorkedForms ==
  ASSUME NEW r \in Row
  PROVE  /\ Worked(r, r)
         /\ r.status = "queued" /\ r.sbx = 0 => \A st \in Busy : Worked(r, Moved(r, st))
         /\ r.status \in Busy => \A st \in Busy : Worked(r, Moved(r, st))
         /\ r.status = "failed" /\ r.sbx # 0 => \A st \in Busy : Worked(r, Moved(r, st))
         /\ r.status \in Busy /\ r.sbx = 0 => Worked(r, Moved(r, "queued"))
         /\ r.status \in Busy => \A g \in Failure : Worked(r, Failed(r, 0, g)) /\ Worked(r, Failed(r, r.sbx, g))
         /\ r.status \in Busy => \A a \in Attempt : Worked(r, [r EXCEPT !.sbx = a])
<1>1. r.sbx \in {0} \cup Attempt /\ 0 \in {0} \cup Attempt /\ Busy \subseteq Status /\ "queued" \in Status
  BY Zenon, RowFields DEF Busy, Status
<1>2. Worked(r, r)
  BY Zenon DEF Worked
<1>3. ASSUME NEW st \in Busy,
             (r.status = "queued" /\ r.sbx = 0) \/ r.status \in Busy \/ (r.status = "failed" /\ r.sbx # 0)
      PROVE  Worked(r, Moved(r, st))
  BY Zenon, <1>1, <1>3, MovedRow DEF Worked
<1>4. r.status \in Busy /\ r.sbx = 0 => Worked(r, Moved(r, "queued"))
  BY Zenon, <1>1, MovedRow DEF Worked
<1>5. ASSUME NEW g \in Failure, NEW c \in {0, r.sbx}, r.status \in Busy PROVE Worked(r, Failed(r, c, g))
  <2>1. c \in {0} \cup Attempt
    BY Zenon, <1>1
  <2>2. /\ Failed(r, c, g).status = "failed" /\ Failed(r, c, g).sbx = c
        /\ Failed(r, c, g).rev = r.rev
    BY ZenonT(30), <2>1, FailedRow
  <2>. QED
    BY ZenonT(30), <1>5, <2>2 DEF Worked
<1>6. ASSUME NEW a \in Attempt, r.status \in Busy PROVE Worked(r, [r EXCEPT !.sbx = a])
  <2>1. a \in {0} \cup Attempt /\ a # 0
    BY BoundsAssumption DEF Attempt
  <2>2. /\ [r EXCEPT !.sbx = a].status = r.status /\ [r EXCEPT !.sbx = a].sbx = a
        /\ [r EXCEPT !.sbx = a].rev = r.rev
    BY Zenon, <2>1, NamedRow
  <2>. QED
    BY Zenon, <1>6, <2>1, <2>2 DEF Worked
<1>. QED
  BY Zenon, <1>2, <1>3, <1>4, <1>5, <1>6

(* The scheduler's operation before Stop.                                  *)
LEMMA ProcessWorks ==
  ASSUME BaseInv, Advance \/ Process \/ Recover \/ Probe
  PROVE  Worked(row, row')
<1>0. "job" \in Actor
  BY Zenon DEF Actor
<1>1. /\ RowInv /\ row \in Row /\ (Fresh("job") => Knows("job")) /\ ActorInv("job")
      /\ row.sbx \in {0} \cup Attempt /\ row.attempt \in {0} \cup Attempt /\ att["job"] \in {0} \cup Attempt
  BY Zenon, <1>0, KnownFacts
<1>2. "planning" \in Busy /\ "creating" \in Busy /\ "running" \in Busy /\ "stopping" \in Busy
      /\ {"execution", "recovery", "process_exit"} \subseteq Failure
  BY Zenon DEF Busy, Failure
<1>3. Keep \/ Read("job") => Worked(row, row')
  BY Zenon, <1>1, WorkedForms DEF Keep, Read
<1>4. CASE Advance
  <2>1. row.status = "queued" \/ row.status = "planning" => row.sbx = 0
    BY Zenon, <1>1 DEF RowInv
  <2>2. row.status = "planning" /\ Write("job", Moved(row, "queued")) => Worked(row, row')
    BY Zenon, <1>1, <1>2, <2>1, WorkedForms DEF Write
  <2>3. row.status = "queued" /\ Write("job", Moved(row, "planning")) => Worked(row, row')
    BY Zenon, <1>1, <1>2, <2>1, WorkedForms DEF Write
  <2>4. \/ Keep \/ Read("job")
        \/ row.status = "planning" /\ Write("job", Moved(row, "queued"))
        \/ row.status = "queued" /\ Write("job", Moved(row, "planning"))
    <3>1. row.status \in {"queued", "planning", "creating", "running", "stopping", "failed"}
      BY Zenon, <1>4 DEF Advance, Listed, Status, Terminal
    <3>2. CASE row.status \in {"creating", "planning"}
      BY Zenon, <1>4, <3>2 DEF Advance
    <3>3. CASE row.status \notin {"creating", "planning"} /\ Expired
      BY Zenon, <1>4, <3>3 DEF Advance
    <3>4. CASE row.status = "queued" /\ ~Expired
      BY Zenon, <1>4, <3>4 DEF Advance
    <3>5. CASE row.status \in {"failed", "stopping", "running"} /\ ~Expired
      BY Zenon, <1>4, <3>5 DEF Advance
    <3>. QED
      BY Zenon, <3>1, <3>2, <3>3, <3>4, <3>5
  <2>. QED
    BY Zenon, <1>3, <2>2, <2>3, <2>4
<1>5. CASE Plan
  <2>1. CASE Fresh("job") /\ row' = [Moved(row, "creating") EXCEPT !.attempt = @ + 1]
    <3>1. row.status = "planning" /\ "creating" \in Status
      BY Zenon, <1>1, <1>5, <2>1 DEF Knows, Plan, Status
    <3>2. PICK m \in Row : /\ m = Moved(row, "creating") /\ m.status = "creating"
                           /\ m.sbx = row.sbx /\ m.rev = row.rev
      BY Zenon, <1>1, <3>1, MovedRow
    <3>3. row' = [m EXCEPT !.attempt = @ + 1]
      BY Zenon, <2>1, <3>2
    <3>4. row'.status = "creating" /\ row'.sbx = row.sbx /\ row'.rev = row.rev
      BY SMT, <3>2, <3>3 DEF Row
    <3>. QED
      BY Zenon, <1>2, <3>1, <3>4 DEF Worked
  <2>2. CASE Fresh("job") /\ row' = Failed(row, row.sbx, "execution")
    <3>1. row.status \in Busy
      BY Zenon, <1>1, <1>2, <1>5, <2>2 DEF Knows, Plan
    <3>. QED
      BY Zenon, <1>1, <1>2, <2>2, <3>1, WorkedForms
  <2>. QED
    BY Zenon, <1>3, <1>5, <2>1, <2>2 DEF Plan, Write
<1>6. CASE CreateRefused
  <2>1. Fresh("job") => row.status \in Busy
    BY Zenon, <1>1, <1>2, <1>6 DEF Knows, CreateRefused
  <2>2. Keep \/ (Fresh("job") /\ row' = Failed(row, 0, "execution"))
    BY Zenon, <1>6 DEF CreateRefused, Write
  <2>. QED
    BY Zenon, <1>1, <1>2, <1>3, <2>1, <2>2, WorkedForms
<1>7. CASE SaveSandbox
  <2>1. Fresh("job") => row.status \in Busy
    BY Zenon, <1>1, <1>2, <1>7 DEF Knows, SaveSandbox
  <2>2. att["job"] \in Attempt
    BY Zenon, <1>1, <1>7 DEF ActorInv, SaveSandbox, Building
  <2>3. Keep \/ (Fresh("job") /\ row' = [row EXCEPT !.sbx = att["job"]])
    BY Zenon, <1>7 DEF SaveSandbox, Write
  <2>. QED
    BY Zenon, <1>1, <1>3, <2>1, <2>2, <2>3, WorkedForms
<1>8. CASE ApplySucceeds
  <2>1. Fresh("job") => row.status \in Busy
    BY Zenon, <1>1, <1>2, <1>8 DEF Knows, ApplySucceeds, Held
  <2>2. Keep \/ (Fresh("job") /\ row' = Moved(row, "running"))
    BY Zenon, <1>8 DEF ApplySucceeds, Write
  <2>. QED
    BY Zenon, <1>1, <1>2, <1>3, <2>1, <2>2, WorkedForms
<1>9. CASE ReportUndone
  <2>1. Fresh("job") => row.status \in Busy
    BY Zenon, <1>1, <1>2, <1>9 DEF Knows, ReportUndone, Held
  <2>2. Keep \/ (Fresh("job") /\ row' = Undone)
    BY Zenon, <1>9 DEF ReportUndone, Write
  <2>3. /\ pc["job"] \in {"undoneCreate", "stuckCreate", "undoneApply", "stuckApply"}
        /\ Undone.status = "expired" => Undone.sbx = 0
    BY SMT, <1>1, <1>9 DEF ReportUndone, Undone, Failed, Moved, Row
  <2>4. Undone.status \in {"failed", "expired"} /\ Undone.sbx \in {0, row.sbx} /\ Undone.rev = row.rev
    BY Zenon, <2>3, UndoneRow
  <2>5. CASE Fresh("job") /\ row' = Undone
    BY Zenon, <2>1, <2>3, <2>4, <2>5 DEF Worked, Ended
  <2>. QED
    BY Zenon, <1>3, <2>2, <2>5
<1>10. CASE Recover
  <2>1. Fresh("job") => row.status \in Busy /\ row.attempt # 0
    BY Zenon, <1>1, <1>2, <1>10 DEF Knows, Recover, RowInv
  <2>2. \/ Keep
        \/ Fresh("job") /\ row' = Failed(row, row.sbx, "recovery")
        \/ Fresh("job") /\ row' = Failed(row, 0, "recovery")
        \/ Fresh("job") /\ row' = [row EXCEPT !.sbx = row.attempt]
    BY Zenon, <1>10 DEF Recover, Write
  <2>3. Fresh("job") => row.attempt \in Attempt
    BY Zenon, <1>1, <2>1
  <2>. QED
    BY Zenon, <1>1, <1>2, <1>3, <2>1, <2>2, <2>3, WorkedForms
<1>11. CASE Probe
  <2>1. Fresh("job") => row.status \in Busy
    BY Zenon, <1>1, <1>2, <1>11 DEF Knows, Probe
  <2>2. Keep \/ (Fresh("job") /\ row' = Failed(row, row.sbx, "process_exit"))
    BY Zenon, <1>11 DEF Probe, Write
  <2>. QED
    BY Zenon, <1>1, <1>2, <1>3, <2>1, <2>2, WorkedForms
<1>12. CASE CreateUnknown \/ CreateReturns \/ ApplyFails \/ Undo \/ Drop
  BY Zenon, <1>3, <1>12 DEF CreateUnknown, CreateReturns, ApplyFails, Undo, Drop
<1>. QED
  BY Zenon, <1>4, <1>5, <1>6, <1>7, <1>8, <1>9, <1>10, <1>11, <1>12 DEF Process

(* Stop.                                                                   *)
LEMMA StopWorks ==
  ASSUME BaseInv, EndedClean, NEW x \in Actor, Stop(x)
  PROVE  Worked(row, row')
<1>1. /\ RowInv /\ row \in Row /\ (Fresh(x) => Knows(x))
      /\ row.sbx \in {0} \cup Attempt /\ row.attempt \in {0} \cup Attempt
  BY Zenon, KnownFacts
<1>2. "creating" \in Busy /\ "stopping" \in Busy
  BY Zenon DEF Busy
<1>3. Keep \/ Read(x) => Worked(row, row')
  BY Zenon, <1>1, WorkedForms DEF Keep, Read
<1>4. CASE StopRead(x)
  <2>1. \/ Keep \/ Read(x)
        \/ /\ row.status \in Status /\ ~ (row.status \in Terminal /\ row.sbx = 0)
           /\ row' = Moved(row, "stopping")
    BY Zenon, <1>4 DEF StopRead, Write
  <2>2. CASE /\ row.status \in Status /\ ~ (row.status \in Terminal /\ row.sbx = 0)
             /\ row' = Moved(row, "stopping")
    <3>1. \/ row.status = "queued" /\ row.sbx = 0
          \/ row.status \in Busy
          \/ row.status = "failed" /\ row.sbx # 0
      BY Zenon, <1>1, <2>2 DEF RowInv, EndedClean, Status, Terminal, Busy, Ended
    <3>. QED
      BY Zenon, <1>1, <1>2, <2>2, <3>1, WorkedForms
  <2>. QED
    BY Zenon, <1>3, <2>1, <2>2
<1>5. CASE Lookup(x)
  <2>1. Fresh(x) => row.status \in Busy /\ row.attempt \in Attempt
    BY Zenon, <1>1, <1>2, <1>5 DEF Knows, Lookup
  <2>2. Keep \/ (Fresh(x) /\ row' = [row EXCEPT !.sbx = row.attempt])
    BY Zenon, <1>5 DEF Lookup, Write
  <2>. QED
    BY Zenon, <1>1, <1>3, <2>1, <2>2, WorkedForms
<1>6. CASE Mark(x)
  <2>1. Fresh(x) => row.status \in Busy
    BY Zenon, <1>1, <1>2, <1>6 DEF Knows, Mark
  <2>2. Keep \/ (Fresh(x) /\ row' = Moved(row, "stopping"))
    BY Zenon, <1>6 DEF Mark, Write
  <2>. QED
    BY Zenon, <1>1, <1>2, <1>3, <2>1, <2>2, WorkedForms
<1>7. CASE CloseSandbox(x)
  BY Zenon, <1>3, <1>7 DEF CloseSandbox
<1>8. CASE StopReport(x)
  <2>1. Fresh(x) => row.status \in Busy
    BY Zenon, <1>1, <1>2, <1>8 DEF Knows, StopReport, Closing
  <2>2. \/ Keep
        \/ Fresh(x) /\ row' = Stopped(x)
        \/ Fresh(x) /\ \E g \in Failure : row' = Failed(row, row.sbx, g)
    <3>1. (IF ExpiryCleanup(x) THEN "expiry_cleanup" ELSE "cleanup") \in Failure
      BY Zenon DEF Failure
    <3>. QED
      BY Zenon, <1>8, <3>1 DEF StopReport, Write
  <2>3. CASE Fresh(x) /\ row' = Stopped(x)
    <3>1. row'.status \in Terminal /\ row'.sbx = 0 /\ row'.rev = row.rev
      BY Zenon, <2>3, StoppedRow
    <3>. QED
      BY Zenon, <2>1, <2>3, <3>1 DEF Worked, Terminal, Ended
  <2>. QED
    BY Zenon, <1>1, <1>3, <2>1, <2>2, <2>3, WorkedForms
<1>. QED
  BY Zenon, <1>4, <1>5, <1>6, <1>7, <1>8 DEF Stop

(* The stop handler.                                                       *)
LEMMA StopRequestWorks ==
  ASSUME BaseInv, EndedClean, NEW h \in Handlers, StopRequest(h)
  PROVE  Worked(row, row')
<1>1. RowInv /\ row \in Row
  BY Zenon DEF BaseInv, TypeOK
<1>2. PICK st : /\ row' = [row EXCEPT !.status = st]
                /\ st = CASE row.status = "queued" -> "completed"
                          [] row.status = "failed" -> "failed"
                          [] OTHER -> "stopping"
  BY Zenon DEF StopRequest, Write
<1>3. row'.status = st /\ row'.sbx = row.sbx /\ row'.rev = row.rev
  BY SMT, <1>1, <1>2 DEF Row
<1>4. row.status \in Status /\ ~ (row.status \in Terminal /\ row.sbx = 0)
  BY Zenon DEF StopRequest
<1>5. CASE row.status = "queued"
  <2>1. st = "completed" /\ row.sbx = 0
    BY Zenon, <1>1, <1>2, <1>5 DEF RowInv
  <2>. QED
    BY Zenon, <1>3, <1>5, <2>1 DEF Worked, Ended
<1>6. CASE row.status = "failed"
  <2>1. st = "failed"
    BY SMT, <1>2, <1>6
  <2>. QED
    BY Zenon, <1>3, <1>6, <2>1 DEF Worked
<1>7. CASE row.status \notin {"queued", "failed"}
  <2>1. st = "stopping"
    BY SMT, <1>2, <1>7
  <2>2. row.status \in Busy /\ st \in Busy
    BY Zenon, <1>4, <1>7, <2>1 DEF EndedClean, Status, Terminal, Busy, Ended
  <2>3. row.sbx = 0 \/ row'.sbx # 0
    BY Zenon, <1>3
  <2>. QED
    BY Zenon, <1>3, <2>2, <2>3 DEF Worked
<1>. QED
  BY Zenon, <1>5, <1>6, <1>7

(* Every step is of one of the three kinds.                                *)
LEMMA StepKinds ==
  ASSUME BaseInv, EndedClean, [Next]_vars
  PROVE  Worked(row, row') \/ Reopened(row, row') \/ Deleted(row, row')
<1>1. row \in Row /\ "job" \in Actor /\ \A h \in Handlers : h \in Actor
  BY Zenon DEF BaseInv, TypeOK, Actor
<1>2. row' = row => Worked(row, row')
  BY Zenon, <1>1, WorkedForms
<1>3. CASE Job
  BY Zenon, <1>1, <1>3, ProcessWorks, StopWorks DEF Job
<1>4. ASSUME NEW h \in Handlers, Handler(h) PROVE Worked(row, row') \/ Reopened(row, row')
  <2>1. CASE RetryRequest(h) \/ RetryAfterStop(h)
    <3>1. ASSUME row.status \in Terminal, Requeue(h) PROVE Reopened(row, row')
      <4>1. row'.status = "queued" /\ row'.rev = row.rev + 1 /\ RowInv'
        BY Zenon, <3>1, RequeuedRow
      <4>. QED
        BY Zenon, <3>1, <4>1 DEF Reopened, RowInv
    <3>. QED
      BY Zenon, <1>2, <2>1, <3>1 DEF RetryRequest, RetryAfterStop, Keep
  <2>. QED
    BY Zenon, <1>1, <1>4, <2>1, StopWorks, StopRequestWorks DEF Handler
<1>5. CASE Prune
  <2>1. row' = [row EXCEPT !.status = "pruned"] /\ row.status \in Terminal /\ row.sbx = 0
    BY Zenon, <1>5 DEF Prune
  <2>2. row'.status = "pruned" /\ row'.sbx = row.sbx /\ row'.rev = row.rev
    BY SMT, <1>1, <2>1 DEF Row
  <2>. QED
    BY Zenon, <2>1, <2>2 DEF Deleted
<1>6. CASE Provider \/ Expire \/ Late \/ Crash \/ UNCHANGED vars
  BY Zenon, <1>2, <1>6 DEF Provider, Lands, SandboxEnds, Expire, Late, Crash, vars
<1>. QED
  BY Zenon, <1>3, <1>4, <1>5, <1>6 DEF Next

(* ... and keeps a deployment that ended without a sandbox.                *)
LEMMA EndedStep ==
  ASSUME BaseInv, EndedClean, [Next]_vars
  PROVE  EndedClean'
<1>1. Ended \cap ({"queued", "failed", "pruned"} \cup Busy) = {}
  BY SMT DEF Ended, Busy
<1>. QED
  BY Zenon, <1>1, StepKinds DEF EndedClean, Worked, Reopened, Deleted

(* An entry whose sandbox is given up.                                     *)
LEMMA EntryClears ==
  ASSUME NEW t \in Entries
  PROVE  /\ [t EXCEPT !.sandbox = FALSE] \in Entries
         /\ [t EXCEPT !.sandbox = FALSE].status = t.status
         /\ [t EXCEPT !.sandbox = FALSE].rev = t.rev /\ ~[t EXCEPT !.sandbox = FALSE].sandbox
BY Zenon DEF Entries

(* The next revision of an entry.                                          *)
LEMMA EntryRevised ==
  ASSUME NEW t \in Entries, NEW u \in Entries, u.status = t.status, u.sandbox <=> t.sandbox,
         u.rev = t.rev + 1
  PROVE  u = [t EXCEPT !.rev = @ + 1]
BY SMT DEF Entries

(* A retry in the table.                                                   *)
LEMMA ReopenedEntry ==
  ASSUME NEW r \in Row, NEW s \in Row, Reopened(r, s)
  PROVE  /\ Tabled(r).status \in Final
         /\ Tabled(s) = [Tabled(r) EXCEPT !.status = "queued", !.sandbox = FALSE, !.rev = @ + 1]
<1>. DEFINE t == Tabled(r)
            u == Tabled(s)
<1>1. t \in Entries /\ u \in Entries /\ u.rev = t.rev + 1 /\ u.status = "queued" /\ ~u.sandbox
  BY Zenon, TabledFields DEF Reopened
<1>2. t.status \in Final
  BY Zenon, TabledFields DEF Reopened, Terminal, Final, Ended
<1>. HIDE DEF t, u
<1>3. u = [t EXCEPT !.status = "queued", !.sandbox = FALSE, !.rev = @ + 1]
  <2>0. "queued" \in Outcomes
    BY Zenon DEF Outcomes
  <2>1. PICK m \in Entries : m = [t EXCEPT !.status = "queued"] /\ m.status = "queued" /\ m.rev = t.rev
    BY Zenon, <1>1, <2>0, EntryRenamed
  <2>2. PICK e \in Entries : /\ e = [m EXCEPT !.sandbox = FALSE] /\ e.status = "queued"
                             /\ e.rev = t.rev /\ ~e.sandbox
    BY ZenonT(30), <2>1, EntryClears
  <2>3. u = [e EXCEPT !.rev = @ + 1]
    BY Zenon, <1>1, <2>2, EntryRevised
  <2>4. [t EXCEPT !.status = "queued", !.sandbox = FALSE, !.rev = @ + 1]
          = [[[t EXCEPT !.status = "queued"] EXCEPT !.sandbox = FALSE] EXCEPT !.rev = @ + 1]
    BY SMT
  <2>. QED
    BY Zenon, <2>1, <2>2, <2>3, <2>4
<1>. QED
  BY Zenon, <1>2, <1>3 DEF t, u

(* A deletion in the table.                                                *)
LEMMA DeletedEntry ==
  ASSUME NEW r \in Row, NEW s \in Row, Deleted(r, s)
  PROVE  /\ Tabled(r).status \in Final /\ ~Tabled(r).sandbox
         /\ Tabled(s) = [Tabled(r) EXCEPT !.status = "pruned"]
<1>. DEFINE t == Tabled(r)
            u == Tabled(s)
<1>1. t \in Entries /\ u \in Entries /\ u.rev = t.rev /\ u.status = "pruned" /\ ~u.sandbox /\ ~t.sandbox
  BY Zenon, TabledFields DEF Deleted
<1>2. t.status \in Final
  BY Zenon, TabledFields DEF Deleted, Terminal, Final, Ended
<1>. HIDE DEF t, u
<1>3. u = [t EXCEPT !.status = "pruned"]
  BY SMT, <1>1 DEF Entries
<1>. QED
  BY Zenon, <1>1, <1>2, <1>3 DEF t, u

(* What operations, handlers and the retention make of the row is what     *)
(* DeploymentAdmission lets its rows do: a move of the table, a retry of a *)
(* final row, which opens the next revision, or the deletion of one that   *)
(* names no sandbox.  What is proved there of the quota and of the history *)
(* is therefore proved of rows that the worker runs.                       *)
THEOREM MovesAreTabled == Spec => MovesAsTabled
<1>1. Init => EndedClean
  BY DEF Init, EndedClean, Ended
<1>2. BaseInv /\ EndedClean /\ [Next]_vars => EndedClean'
  BY Zenon, EndedStep
<1>. DEFINE was == Tabled(row)
            is == Tabled(row')
            Move == \/ is = was
                    \/ is \in Moves(was)
                    \/ /\ was.status \in Final
                       /\ is = [was EXCEPT !.status = "queued", !.sandbox = FALSE, !.rev = @ + 1]
                    \/ /\ was.status \in Final /\ ~was.sandbox
                       /\ is = [was EXCEPT !.status = "pruned"]
<1>3. ASSUME BaseInv, EndedClean, [Next]_vars PROVE Move
  <2>1. row \in Row /\ row' \in Row
    BY Zenon, <1>3, BaseStep DEF BaseInv, TypeOK
  <2>2. CASE Worked(row, row')
    BY Zenon, <2>1, <2>2, WorkedMoves
  <2>3. CASE Reopened(row, row')
    BY Zenon, <2>1, <2>3, ReopenedEntry
  <2>4. CASE Deleted(row, row')
    BY Zenon, <2>1, <2>4, DeletedEntry
  <2>. QED
    BY Zenon, <1>3, <2>2, <2>3, <2>4, StepKinds
<1>4. BaseInv /\ EndedClean /\ [Next]_vars => Move
  BY Zenon, <1>3
<1>. QED
  BY BaseInit, BaseStep, <1>1, <1>2, <1>4, PTL DEF Spec, MovesAsTabled

(* Within a revision no write makes the deployment count towards its       *)
(* scope's quota again once it does not.                                   *)
NoPlaceTaken == [][row'.rev = row.rev /\ Counts(Tabled(row')) => Counts(Tabled(row))]_vars

(* Only a retry, whose transaction asks checkDeploymentQuota, takes a      *)
(* place: Process, recovery, Stop and the stop handler write rows of a     *)
(* deployment that still counts, however late they write.                  *)
THEOREM PlacesAreNotTaken == Spec => NoPlaceTaken
<1>1. Init => EndedClean
  BY DEF Init, EndedClean, Ended
<1>2. BaseInv /\ EndedClean /\ [Next]_vars => EndedClean'
  BY Zenon, EndedStep
<1>3. ASSUME BaseInv, EndedClean, [Next]_vars, row'.rev = row.rev, Counts(Tabled(row'))
      PROVE  Counts(Tabled(row))
  <2>1. row \in Row /\ row' \in Row
    BY Zenon, <1>3, BaseStep DEF BaseInv, TypeOK
  <2>2. row'.rev # row.rev + 1
    BY <1>3, <2>1, RowFields
  <2>3. row'.status \in {"queued"} \cup Busy \/ (row'.status = "failed" /\ row'.sbx # 0)
    <3>1. row'.status \in {"queued", "failed", "pruned"} \cup Busy \cup Ended
      BY Zenon, <2>1, RowFields DEF Status, Busy, Ended
    <3>2. row'.status \notin Ended \cup {"pruned"} /\ (row'.status = "failed" => row'.sbx # 0)
      BY Zenon, <1>3, <2>1, TabledFields DEF Counts
    <3>. QED
      BY Zenon, <3>1, <3>2
  <2>4. row.status \in {"queued"} \cup Busy \/ (row.status = "failed" /\ row.sbx # 0)
    <3>1. Worked(row, row') \/ Deleted(row, row')
      BY Zenon, <1>3, <2>2, StepKinds DEF Reopened
    <3>2. "pruned" \notin {"queued"} \cup Busy /\ "failed" \notin {"queued"} \cup Busy
          /\ Ended \cap ({"queued", "failed"} \cup Busy) = {}
      BY SMT DEF Busy, Ended
    <3>. QED
      BY Zenon, <2>3, <3>1, <3>2 DEF Worked, Deleted
  <2>. QED
    BY Zenon, <2>1, <2>4, TabledFields DEF Counts
<1>4. BaseInv /\ EndedClean /\ [Next]_vars
        => (row'.rev = row.rev /\ Counts(Tabled(row')) => Counts(Tabled(row)))
  BY Zenon, <1>3
<1>. QED
  BY BaseInit, BaseStep, <1>1, <1>2, <1>4, PTL DEF Spec, NoPlaceTaken

-----------------------------------------------------------------------------
(* Sandboxes                                                               *)

(* The provider runs the sandbox of a, or may still start it.              *)
Running(a) == sandbox[a] \in {"pending", "live"}
Quiet == \A a \in Attempt : ~Running(a)

Marked == {"mark"} \cup Closing

(* Only the row's attempt has a sandbox, and none where the row does not   *)
(* lead to it.                                                             *)
RowQuiet ==
    /\ \A a \in Attempt : Running(a) => a = row.attempt
    /\ row.status \in {"queued", "planning"} \/ Over => Quiet
    /\ clock = "late" => Quiet

(* What Process may rely on, whatever the handlers do to the row.          *)
JobSure ==
    /\ clock = "late" => pc["job"] \notin {"plan", "create", "created", "partial", "apply"}
    /\ pc["job"] = "create" =>
          /\ row.status \in {"creating", "stopping"} /\ row.sbx = 0
          /\ att["job"] = row.attempt /\ Quiet
    /\ pc["job"] \in {"undoneCreate", "undoneApply"} => ~Running(att["job"])

(* Whoever is about to give the sandbox up has closed it.                  *)
Certain(x) ==
    x \notin stale =>
        /\ pc[x] \in Marked /\ row.sbx = 0 => Quiet
        /\ pc[x] = "closed" => Quiet
        /\ pc["job"] = "create" => pc[x] \notin Marked

SandboxInv == RowQuiet /\ JobSure /\ \A x \in Actor : Certain(x)

JobRisk == {"plan", "create", "created", "partial", "apply", "undoneCreate", "undoneApply"}

Shrinks == \A a \in Attempt : Running(a)' => Running(a)

(* No sandbox is started.                                                  *)
LEMMA NothingStarts ==
  /\ UNCHANGED sandbox => Shrinks
  /\ Shrinks /\ Quiet => Quiet'
BY Zenon DEF Shrinks, Running, Quiet

(* What holds of the others goes on to hold.                               *)
LEMMA SandboxStep ==
  ASSUME SandboxInv, NEW x \in Actor, NEW l, NEW a, Turn(x, l, a), Sees(x), Shrinks,
         RowQuiet', JobSure', Certain(x)',
         pc'["job"] = "create" => pc["job"] = "create" \/ Write(x, row')
  PROVE  SandboxInv'
<1>. SUFFICES ASSUME NEW y \in Actor, y # x PROVE Certain(y)'
  BY Zenon DEF SandboxInv
<1>1. pc'[y] = pc[y] /\ Certain(y)
  BY Zenon DEF Turn, SandboxInv
<1>. SUFFICES ASSUME y \notin stale'
              PROVE  /\ pc'[y] \in Marked /\ row'.sbx = 0 => Quiet'
                     /\ pc'[y] = "closed" => Quiet'
                     /\ pc'["job"] = "create" => pc'[y] \notin Marked
  BY Zenon DEF Certain
<1>2. CASE Write(x, row')
  <2>1. pc'[y] = "idle"
    BY Zenon, <1>1, <1>2 DEF Write
  <2>. QED
    BY Zenon, <2>1 DEF Marked, Closing
<1>3. CASE (Read(x) \/ Keep) /\ ~Write(x, row')
  <2>1. row' = row /\ y \notin stale
    BY Zenon, <1>3 DEF Read, Keep
  <2>. QED
    BY Zenon, <1>1, <1>3, <2>1, NothingStarts DEF Certain
<1>. QED
  BY Zenon, <1>2, <1>3 DEF Sees

(* The row changes, or not, and no sandbox is given up.                    *)
LEMMA RowStaysQuiet ==
  ASSUME SandboxInv, Shrinks, clock' = clock, row'.attempt = row.attempt,
         row'.status \in {"queued", "planning"} \/ Over' => Quiet
  PROVE  RowQuiet'
BY Zenon, NothingStarts DEF SandboxInv, RowQuiet, Shrinks

(* ... in particular where the row does not change at all.                 *)
LEMMA SameRowQuiet ==
  ASSUME SandboxInv, Shrinks, clock' = clock, row' = row
  PROVE  RowQuiet'
BY Zenon, RowStaysQuiet DEF SandboxInv, RowQuiet, Over

(* A handler's step leaves Process where it is.                            *)
LEMMA JobStaysSure ==
  ASSUME SandboxInv, Shrinks, clock' = "late" => clock = "late",
         pc'["job"] = pc["job"], att'["job"] = att["job"], pc["job"] \in Building => att["job"] \in Attempt,
         pc["job"] = "create" =>
            row'.status \in {"creating", "stopping"} /\ row'.sbx = 0 /\ row'.attempt = row.attempt
  PROVE  JobSure'
<1>1. pc["job"] \in {"undoneCreate", "undoneApply"} => ~Running(att["job"])'
  BY Zenon DEF SandboxInv, JobSure, Shrinks, Running, Building, Held
<1>. QED
  BY Zenon, <1>1, NothingStarts DEF SandboxInv, JobSure, Running

(* An actor with nothing to be sure of.                                    *)
LEMMA NothingAtRisk ==
  ASSUME NEW x \in Actor
  PROVE  /\ pc'[x] \notin Marked => Certain(x)'
         /\ x = "job" /\ pc'[x] \notin JobRisk => JobSure'
BY Zenon DEF Certain, Marked, Closing, JobSure, JobRisk

(* The attempt in the hands of Process.                                    *)
LEMMA InHand ==
  ASSUME BaseInv, pc["job"] \in Building
  PROVE  att["job"] \in Attempt
BY Zenon DEF BaseInv, ActorInv, TypeOK, Actor

(* A step that leaves the row and takes no risk.                           *)
LEMMA CalmStep ==
  ASSUME BaseInv, SandboxInv, NEW x \in Actor, NEW l, NEW a, Turn(x, l, a), Read(x) \/ Keep,
         Shrinks, clock' = clock, l \notin Marked, x = "job" => l \notin JobRisk
  PROVE  SandboxInv'
<1>1. row' = row /\ Sees(x)
  BY Zenon DEF Read, Keep, Sees
<1>2. RowQuiet'
  BY Zenon, <1>1, SameRowQuiet
<1>3. pc'[x] = l /\ Certain(x)'
  BY Zenon, NothingAtRisk DEF Turn
<1>4. JobSure' /\ (pc'["job"] = "create" => pc["job"] = "create")
  <2>1. CASE x = "job"
    BY Zenon, <1>3, <2>1, NothingAtRisk DEF JobRisk
  <2>2. CASE x # "job"
    <3>1. pc'["job"] = pc["job"] /\ att'["job"] = att["job"]
      BY Zenon, <2>2 DEF Turn, Actor
    <3>. QED
      BY Zenon, <1>1, <3>1, JobStaysSure, InHand DEF SandboxInv, JobSure
  <2>. QED
    BY Zenon, <2>1, <2>2
<1>. QED
  BY Zenon, <1>1, <1>2, <1>3, <1>4, SandboxStep

(* A write after which the row still leads to every sandbox.               *)
LEMMA CalmWrite ==
  ASSUME BaseInv, SandboxInv, NEW x \in Actor, NEW l, NEW a, Turn(x, l, a), Write(x, row'),
         UNCHANGED <<sandbox, clock>>, row'.attempt = row.attempt,
         row'.status \in {"queued", "planning"} \/ Over' => Quiet,
         l \notin Marked, x = "job" => l \notin JobRisk,
         x # "job" /\ pc["job"] = "create" =>
            row'.status \in {"creating", "stopping"} /\ row'.sbx = 0
  PROVE  SandboxInv'
<1>1. Sees(x) /\ Shrinks
  BY Zenon, NothingStarts DEF Sees
<1>2. RowQuiet'
  BY Zenon, <1>1, RowStaysQuiet
<1>3. pc'[x] = l /\ Certain(x)'
  BY Zenon, NothingAtRisk DEF Turn
<1>4. JobSure'
  <2>1. CASE x = "job"
    BY Zenon, <1>3, <2>1, NothingAtRisk
  <2>2. CASE x # "job"
    <3>1. pc'["job"] = pc["job"] /\ att'["job"] = att["job"]
      BY Zenon, <2>2 DEF Turn, Actor
    <3>. QED
      BY Zenon, <1>1, <2>2, <3>1, JobStaysSure, InHand
  <2>. QED
    BY Zenon, <2>1, <2>2
<1>. QED
  BY Zenon, <1>1, <1>2, <1>3, <1>4, SandboxStep

(* A sandbox that is closed, or ends, starts nothing.                      *)
LEMMA ClosingShrinks ==
  ASSUME BaseInv, NEW a,
         \/ UNCHANGED sandbox \/ sandbox' = [sandbox EXCEPT ![a] = "gone"]
         \/ sandbox' = [sandbox EXCEPT ![a] = sandbox[a]]
  PROVE  Shrinks
<1>1. sandbox \in [Attempt -> {"none", "pending", "live", "gone"}]
  BY Zenon DEF BaseInv, TypeOK
<1>. QED
  BY <1>1 DEF Shrinks, Running

(* The first move on a listed row.                                         *)
LEMMA AdvanceSafe == BaseInv /\ SandboxInv /\ Advance => SandboxInv'
<1>. SUFFICES ASSUME BaseInv, SandboxInv, Advance PROVE SandboxInv'
  BY Zenon
<1>0. /\ "job" \in Actor /\ {"idle", "recover", "probe", "plan", "stop"} \subseteq PC
      /\ {"idle", "recover", "probe", "stop"} \cap (Marked \cup JobRisk) = {} /\ "plan" \notin Marked
      /\ {"queued", "planning"} \subseteq Status
  BY Zenon DEF Actor, PC, Marked, Closing, JobRisk, Status
<1>1. /\ TypeOK /\ row \in Row /\ pc["job"] = "idle" /\ Shrinks /\ clock' = clock /\ UNCHANGED sandbox
      /\ row.status \in {"queued", "planning"} => Quiet
  BY Zenon, <1>0, KnownFacts, NothingStarts DEF Advance, SandboxInv, RowQuiet
<1>2. CASE Read("job") /\ UNCHANGED <<att, expired, after>>
           /\ (Goto("job", "recover") \/ Goto("job", "probe"))
  <2>1. \E l \in {"recover", "probe"} : Turn("job", l, att["job"])
    BY Zenon, <1>0, <1>1, <1>2, Turns
  <2>. QED
    BY Zenon, <1>0, <1>1, <1>2, <2>1, CalmStep
<1>3. CASE row.status = "planning" /\ Write("job", Moved(row, "queued")) /\ UNCHANGED actor
  <2>1. Turn("job", "idle", att["job"])
    BY Zenon, <1>0, <1>1, <1>3, Turns
  <2>2. row' = Moved(row, "queued") /\ Write("job", row')
    BY Zenon, <1>3 DEF Write
  <2>3. row'.attempt = row.attempt
    BY Zenon, <1>0, <1>1, <2>2, MovedRow
  <2>. QED
    BY Zenon, <1>0, <1>1, <1>3, <2>1, <2>2, <2>3, CalmWrite
<1>4. CASE Keep /\ \E e \in BOOLEAN : EnterStop("job", e, "idle")
  <2>1. Turn("job", "stop", 0)
    BY Zenon, <1>0, <1>1, <1>4, Turns
  <2>. QED
    BY Zenon, <1>0, <1>1, <1>4, <2>1, CalmStep
<1>5. CASE row.status = "queued" /\ Write("job", Moved(row, "planning")) /\ Goto("job", "plan")
           /\ UNCHANGED <<att, expired, after>> /\ ~Expired
  <2>1. Turn("job", "plan", att["job"])
    BY Zenon, <1>0, <1>1, <1>5, Turns
  <2>2. row' = Moved(row, "planning") /\ Write("job", row')
    BY Zenon, <1>5 DEF Write
  <2>3. row'.attempt = row.attempt
    BY Zenon, <1>0, <1>1, <2>2, MovedRow
  <2>4. RowQuiet'
    BY Zenon, <1>1, <1>5, <2>3, RowStaysQuiet
  <2>5. pc'["job"] = "plan" /\ clock' # "late"
    BY Zenon, <1>1, <1>5, <2>1 DEF Turn, Expired
  <2>6. JobSure' /\ Certain("job")'
    BY Zenon, <1>0, <2>5, NothingAtRisk DEF JobSure
  <2>. QED
    BY Zenon, <1>0, <1>1, <2>1, <2>2, <2>4, <2>5, <2>6, SandboxStep DEF Sees
<1>7. \/ row.status = "creating" \/ row.status = "planning"
      \/ row.status \notin {"creating", "planning"} /\ Expired
      \/ row.status = "queued" /\ ~Expired
      \/ row.status \in {"failed", "stopping"} /\ ~Expired
      \/ row.status = "running" /\ ~Expired
  BY Zenon DEF Advance, Listed, Status, Terminal
<1>. QED
  BY Zenon, <1>2, <1>3, <1>4, <1>5, <1>7 DEF Advance

(* A failure of a row: the sandbox is still named, or there is none.       *)
LEMMA FailureSafe ==
  ASSUME BaseInv, SandboxInv, NEW x \in Actor, NEW l \in {"idle", "stop"}, Turn(x, l, 0),
         NEW s \in {0, row.attempt}, NEW g \in Failure, Write(x, Failed(row, s, g)),
         UNCHANGED <<sandbox, clock>>, s = 0 => Quiet, x # "job" => pc["job"] # "create"
  PROVE  SandboxInv'
<1>1. row \in Row /\ s \in {0} \cup Attempt /\ l \notin Marked \cup JobRisk
  BY Zenon, KnownFacts DEF Marked, Closing, JobRisk
<1>2. row' = Failed(row, s, g) /\ Write(x, row')
  BY Zenon DEF Write
<1>3. row'.status = "failed" /\ row'.sbx = s /\ row'.attempt = row.attempt
  BY SMT, <1>1, <1>2, FailedRow
<1>4. row'.status \in {"queued", "planning"} \/ Over' => Quiet
  BY Zenon, <1>3 DEF Over
<1>. QED
  BY Zenon, <1>1, <1>2, <1>3, <1>4, CalmWrite

(* Before its first sandbox.                                               *)
LEMMA PlanSafe == BaseInv /\ SandboxInv /\ Plan => SandboxInv'
<1>. SUFFICES ASSUME BaseInv, SandboxInv, Plan PROVE SandboxInv'
  BY Zenon
<1>0. /\ "job" \in Actor /\ {"idle", "create"} \subseteq PC /\ "execution" \in Failure
      /\ "idle" \notin Marked \cup JobRisk /\ "create" \notin Marked /\ "creating" \in Status
  BY Zenon DEF Actor, PC, Failure, Marked, Closing, JobRisk, Status
<1>1. /\ TypeOK /\ RowInv /\ row \in Row /\ pc["job"] = "plan" /\ Shrinks /\ UNCHANGED <<sandbox, clock>>
      /\ Fresh("job") => row.status = "planning" /\ Quiet
      /\ clock # "late"
  BY Zenon, <1>0, KnownFacts, NothingStarts DEF Plan, Knows, SandboxInv, RowQuiet, JobSure
<1>2. CASE /\ Fresh("job")
           /\ Write("job", [Moved(row, "creating") EXCEPT !.attempt = @ + 1])
           /\ Goto("job", "create")
           /\ att' = [att EXCEPT !["job"] = row.attempt + 1]
           /\ UNCHANGED <<expired, after>>
  <2>. DEFINE r == Moved(row, "creating")
  <2>1. r \in Row /\ r.status = "creating" /\ r.sbx = row.sbx /\ r.attempt = row.attempt
    BY Zenon, <1>0, <1>1, MovedRow
  <2>2. row' = [r EXCEPT !.attempt = @ + 1] /\ Write("job", row')
    BY Zenon, <1>2 DEF Write
  <2>. HIDE DEF r
  <2>3. row.attempt < row.rev /\ row.sbx = 0
    BY Zenon, <1>1, <1>2 DEF RowInv
  <2>4. row.attempt + 1 \in Attempt
    BY <1>1, <2>3, RowFields, BoundsAssumption DEF Attempt
  <2>5. row'.status = "creating" /\ row'.sbx = 0 /\ row'.attempt = row.attempt + 1
    BY Zenon, <2>1, <2>2, <2>3 DEF Row
  <2>6. Turn("job", "create", row.attempt + 1)
    BY Zenon, <1>0, <1>1, <1>2, <2>4, Turns
  <2>7. Quiet' /\ ~Over'
    BY Zenon, <1>1, <1>2, <2>5, NothingStarts DEF Over, Terminal
  <2>8. RowQuiet'
    BY Zenon, <2>7 DEF RowQuiet, Quiet
  <2>9. pc'["job"] = "create" /\ att'["job"] = row'.attempt /\ clock' # "late"
    BY Zenon, <1>1, <2>5, <2>6 DEF Turn
  <2>10. JobSure' /\ Certain("job")'
    BY Zenon, <1>0, <2>5, <2>7, <2>9, NothingAtRisk DEF JobSure
  <2>. QED
    BY Zenon, <1>0, <1>1, <2>2, <2>6, <2>8, <2>10, SandboxStep DEF Sees
<1>3. CASE Fresh("job") /\ Write("job", Failed(row, row.sbx, "execution")) /\ Return("job")
  <2>1. Turn("job", "idle", 0) /\ row.sbx \in {0, row.attempt}
    BY Zenon, <1>0, <1>1, <1>3, Turns DEF Return, RowInv
  <2>. QED
    BY Zenon, <1>0, <1>1, <1>3, <2>1, FailureSafe
<1>4. CASE Keep /\ Return("job")
  <2>1. Turn("job", "idle", 0)
    BY Zenon, <1>0, <1>1, <1>4, Turns DEF Return
  <2>. QED
    BY Zenon, <1>0, <1>1, <1>4, <2>1, CalmStep
<1>. QED
  BY Zenon, <1>2, <1>3, <1>4 DEF Plan

(* A sandbox is started only while the row leads to it and nobody is about *)
(* to give it up.                                                          *)
LEMMA CreationSafe ==
  ASSUME BaseInv, SandboxInv, pc["job"] = "create",
         \E s \in {"none", "pending", "live"} : sandbox' = [sandbox EXCEPT ![att["job"]] = s],
         row' = row, clock' = clock, pc'["job"] \in {"idle", "created", "partial"},
         \A x \in Actor : x \notin stale' => x \notin stale \/ pc'[x] = "idle",
         \A x \in Actor \ {"job"} : pc'[x] = pc[x] \/ pc'[x] = "idle"
  PROVE  SandboxInv'
<1>1. /\ row.status \in {"creating", "stopping"} /\ row.sbx = 0 /\ att["job"] = row.attempt /\ Quiet
      /\ clock # "late" /\ \A x \in Actor : x \notin stale => pc[x] \notin Marked
  BY Zenon DEF SandboxInv, JobSure, Certain
<1>2. att["job"] \in Attempt /\ sandbox \in [Attempt -> {"none", "pending", "live", "gone"}]
  BY Zenon, InHand DEF Building, BaseInv, TypeOK
<1>3. \A a \in Attempt : Running(a)' => a = row.attempt
  BY Zenon, <1>1, <1>2 DEF Running, Quiet
<1>4. RowQuiet'
  BY Zenon, <1>1, <1>3 DEF RowQuiet, Over, Terminal
<1>5. JobSure'
  BY Zenon, <1>1 DEF JobSure
<1>6. ASSUME NEW x \in Actor, x \notin stale' PROVE pc'[x] \notin Marked
  BY Zenon, <1>1, <1>6 DEF Marked, Closing
<1>. QED
  BY Zenon, <1>4, <1>5, <1>6 DEF SandboxInv, Certain, Marked, Closing

(* A creation refused, left unknown, or answered.                          *)
LEMMA CreateSafe ==
  BaseInv /\ SandboxInv /\ (CreateRefused \/ CreateUnknown \/ CreateReturns) => SandboxInv'
<1>. SUFFICES ASSUME BaseInv, SandboxInv, CreateRefused \/ CreateUnknown \/ CreateReturns
              PROVE  SandboxInv'
  BY Zenon
<1>0. /\ "job" \in Actor /\ {"idle", "created", "partial"} \subseteq PC /\ "execution" \in Failure
      /\ "idle" \notin Marked \cup JobRisk
  BY Zenon DEF Actor, PC, Failure, Marked, Closing, JobRisk
<1>1. TypeOK /\ pc["job"] = "create" /\ Quiet /\ clock' = clock
  BY Zenon DEF BaseInv, SandboxInv, JobSure, CreateRefused, CreateUnknown, CreateReturns
<1>2. ASSUME Return("job") PROVE Turn("job", "idle", 0)
  BY Zenon, <1>0, <1>1, <1>2, Turns DEF Return
<1>3. CASE CreateRefused
  <2>1. Turn("job", "idle", 0) /\ UNCHANGED sandbox /\ Shrinks
    BY Zenon, <1>2, <1>3, NothingStarts DEF CreateRefused
  <2>2. CASE Write("job", Failed(row, 0, "execution"))
    BY Zenon, <1>0, <1>1, <2>1, <2>2, FailureSafe
  <2>3. CASE Keep
    BY Zenon, <1>0, <1>1, <2>1, <2>3, CalmStep
  <2>. QED
    BY Zenon, <1>3, <2>2, <2>3 DEF CreateRefused
<1>4. CASE CreateUnknown \/ CreateReturns
  <2>1. \/ Turn("job", "idle", 0)
        \/ \E l \in {"created", "partial"} : Turn("job", l, att["job"])
    BY Zenon, <1>0, <1>1, <1>2, <1>4, Turns DEF CreateUnknown, CreateReturns
  <2>2. pc'["job"] \in {"idle", "created", "partial"} /\ \A x \in Actor \ {"job"} : pc'[x] = pc[x]
    BY Zenon, <2>1 DEF Turn
  <2>3. row' = row /\ stale' = stale
    BY Zenon, <1>4 DEF CreateUnknown, CreateReturns, Keep
  <2>4. \E s \in {"none", "pending", "live"} : sandbox' = [sandbox EXCEPT ![att["job"]] = s]
    BY Zenon, <1>4 DEF CreateUnknown, CreateReturns, CreationLeft
  <2>. QED
    BY Zenon, <1>1, <2>2, <2>3, <2>4, CreationSafe
<1>. QED
  BY Zenon, <1>3, <1>4

(* The sandbox goes into the row, and the program runs or does not.        *)
LEMMA ApplySafe ==
  BaseInv /\ SandboxInv /\ (SaveSandbox \/ ApplyFails \/ ApplySucceeds) => SandboxInv'
<1>. SUFFICES ASSUME BaseInv, SandboxInv, SaveSandbox \/ ApplyFails \/ ApplySucceeds
              PROVE  SandboxInv'
  BY Zenon
<1>0. /\ "job" \in Actor /\ {"idle", "apply", "undoCreate", "undoApply", "drop"} \subseteq PC
      /\ {"idle", "undoApply", "drop"} \cap (Marked \cup JobRisk) = {}
      /\ {"apply", "undoCreate"} \cap Marked = {} /\ "running" \in Status
  BY Zenon DEF Actor, PC, Marked, Closing, JobRisk, Status
<1>1. /\ TypeOK /\ RowInv /\ row \in Row /\ Shrinks /\ UNCHANGED <<sandbox, clock>>
      /\ pc["job"] \in {"created", "partial", "apply"} /\ pc["job"] \in {"created", "apply"} => clock # "late"
      /\ Fresh("job") => Knows("job")
  BY Zenon, <1>0, KnownFacts, NothingStarts
     DEF SaveSandbox, ApplyFails, ApplySucceeds, SandboxInv, JobSure
<1>2. ASSUME NEW l \in {"idle", "undoApply", "drop"}, NEW a, Turn("job", l, a), Keep PROVE SandboxInv'
  BY Zenon, <1>0, <1>1, <1>2, CalmStep
<1>3. CASE SaveSandbox /\ Fresh("job")
  <2>1. PICK l \in {"apply", "undoCreate"} : Turn("job", l, att["job"])
    BY Zenon, <1>0, <1>1, <1>3, Turns DEF SaveSandbox
  <2>2. row.status = "creating" /\ att["job"] = row.attempt
    BY Zenon, <1>1, <1>3 DEF SaveSandbox, Knows
  <2>3. row.attempt # 0 /\ row' = [row EXCEPT !.sbx = row.attempt] /\ Write("job", row')
    BY Zenon, <1>1, <1>3, <2>2 DEF SaveSandbox, Write, RowInv
  <2>4. row'.status = "creating" /\ row'.sbx # 0 /\ row'.attempt = row.attempt
    BY Zenon, <1>0, <2>2, <2>3, RowNames
  <2>5. RowQuiet'
    BY Zenon, <1>1, <2>4, RowStaysQuiet DEF Over
  <2>6. pc'["job"] = l /\ clock' # "late"
    BY Zenon, <1>1, <1>3, <2>1 DEF Turn, SaveSandbox, SandboxInv, JobSure
  <2>7. JobSure' /\ Certain("job")'
    BY Zenon, <1>0, <2>6, NothingAtRisk DEF JobSure
  <2>. QED
    BY Zenon, <1>0, <1>1, <2>1, <2>3, <2>5, <2>6, <2>7, SandboxStep DEF Sees
<1>4. CASE SaveSandbox /\ ~Fresh("job")
  <2>1. Keep /\ (Turn("job", "idle", 0) \/ Turn("job", "drop", att["job"]))
    BY Zenon, <1>0, <1>1, <1>4, Turns DEF SaveSandbox, Return
  <2>. QED
    BY Zenon, <1>2, <2>1
<1>5. CASE ApplyFails \/ (ApplySucceeds /\ ~Fresh("job"))
  <2>1. Keep /\ \E l \in {"undoApply", "drop"} : Turn("job", l, att["job"])
    BY Zenon, <1>0, <1>1, <1>5, Turns DEF ApplyFails, ApplySucceeds
  <2>. QED
    BY Zenon, <1>2, <2>1
<1>6. CASE ApplySucceeds /\ Fresh("job")
  <2>1. Turn("job", "idle", 0)
    BY Zenon, <1>0, <1>1, <1>6, Turns DEF ApplySucceeds, Return
  <2>2. row' = Moved(row, "running") /\ Write("job", row')
    BY Zenon, <1>6 DEF ApplySucceeds, Write
  <2>3. row'.status = "running" /\ row'.attempt = row.attempt
    BY Zenon, <1>0, <1>1, <2>2, MovedRow
  <2>4. row'.status \in {"queued", "planning"} \/ Over' => Quiet
    BY Zenon, <2>3 DEF Over, Terminal
  <2>. QED
    BY Zenon, <1>0, <1>1, <2>1, <2>2, <2>3, <2>4, CalmWrite
<1>. QED
  BY Zenon, <1>3, <1>4, <1>5, <1>6

(* closeAttempt.                                                           *)
LEMMA UndoSafe == BaseInv /\ SandboxInv /\ (Undo \/ Drop) => SandboxInv'
<1>. SUFFICES ASSUME BaseInv, SandboxInv, Undo \/ Drop PROVE SandboxInv'
  BY Zenon
<1>0. /\ "job" \in Actor /\ {"idle", "undoneCreate", "stuckCreate", "undoneApply", "stuckApply"} \subseteq PC
      /\ {"idle", "stuckCreate", "stuckApply"} \cap (Marked \cup JobRisk) = {}
      /\ {"undoneCreate", "undoneApply"} \cap Marked = {}
  BY Zenon DEF Actor, PC, Marked, Closing, JobRisk
<1>1. /\ TypeOK /\ Keep /\ clock' = clock /\ att["job"] \in Attempt
      /\ sandbox \in [Attempt -> {"none", "pending", "live", "gone"}]
  BY Zenon, InHand DEF BaseInv, TypeOK, Undo, Drop, Building, Held
<1>2. Shrinks
  <2>1. \/ UNCHANGED sandbox \/ sandbox' = [sandbox EXCEPT ![att["job"]] = "gone"]
        \/ sandbox' = [sandbox EXCEPT ![att["job"]] = sandbox[att["job"]]]
    BY Zenon DEF Undo, Drop, Closes
  <2>. QED
    BY Zenon, <2>1, ClosingShrinks
<1>3. CASE Drop
  <2>1. Turn("job", "idle", 0)
    BY Zenon, <1>0, <1>1, <1>3, Turns DEF Drop, Return
  <2>. QED
    BY Zenon, <1>0, <1>1, <1>2, <2>1, CalmStep
<1>4. CASE Undo
  <2>1. \/ \E l \in {"stuckCreate", "stuckApply"} : Turn("job", l, att["job"])
        \/ /\ \E l \in {"undoneCreate", "undoneApply"} : Turn("job", l, att["job"])
           /\ sandbox' = [sandbox EXCEPT ![att["job"]] = "gone"]
    <3>1. att["job"] # 0
      BY <1>1, BoundsAssumption DEF Attempt
    <3>. QED
      BY Zenon, <1>0, <1>1, <1>4, <3>1, Turns DEF Undo, Closes
  <2>2. CASE \E l \in {"stuckCreate", "stuckApply"} : Turn("job", l, att["job"])
    BY Zenon, <1>0, <1>1, <1>2, <2>2, CalmStep
  <2>3. ASSUME NEW l \in {"undoneCreate", "undoneApply"}, Turn("job", l, att["job"]),
               sandbox' = [sandbox EXCEPT ![att["job"]] = "gone"]
        PROVE  SandboxInv'
    <3>1. row' = row /\ Sees("job") /\ pc'["job"] = l /\ att'["job"] = att["job"]
      BY Zenon, <1>1, <2>3 DEF Keep, Sees, Turn
    <3>2. RowQuiet'
      BY Zenon, <1>1, <1>2, <3>1, SameRowQuiet
    <3>3. sandbox'[att["job"]] = "gone"
      BY Zenon, <1>1, <2>3
    <3>4. ~Running(att["job"])'
      BY Zenon, <3>1, <3>3 DEF Running
    <3>5. JobSure' /\ Certain("job")'
      BY Zenon, <1>0, <3>1, <3>4, NothingAtRisk DEF JobSure
    <3>. QED
      BY Zenon, <1>0, <1>2, <2>3, <3>1, <3>2, <3>5, SandboxStep
  <2>. QED
    BY Zenon, <2>1, <2>2, <2>3
<1>. QED
  BY Zenon, <1>3, <1>4

(* The sandbox is given up only where closeAttempt succeeded.              *)
LEMMA UndoneSafe == BaseInv /\ SandboxInv /\ ReportUndone => SandboxInv'
<1>. SUFFICES ASSUME BaseInv, SandboxInv, ReportUndone PROVE SandboxInv'
  BY Zenon
<1>0. /\ "job" \in Actor /\ "idle" \in PC /\ "idle" \notin Marked \cup JobRisk
      /\ {"execution", "expiry_cleanup"} \subseteq Failure
  BY Zenon DEF Actor, PC, Marked, Closing, JobRisk, Failure
<1>1. /\ TypeOK /\ RowInv /\ pc["job"] \in Held /\ att["job"] # 0 /\ row.sbx \in {0, row.attempt}
      /\ Fresh("job") => att["job"] = row.sbx
  BY Zenon, <1>0, KnownFacts DEF ReportUndone, ActorInv, Knows, RowInv, Building, Held
<1>2. Turn("job", "idle", 0) /\ UNCHANGED <<sandbox, clock>> /\ Shrinks
  BY Zenon, <1>0, <1>1, Turns, NothingStarts DEF ReportUndone, Return
<1>3. CASE Keep
  BY Zenon, <1>0, <1>2, <1>3, CalmStep
<1>4. CASE Fresh("job") /\ Write("job", Undone) /\ pc["job"] \in {"undoneCreate", "undoneApply"}
  <2>1. ~Running(row.attempt)
    BY Zenon, <1>1, <1>4 DEF SandboxInv, JobSure
  <2>2. Quiet
    BY Zenon, <2>1 DEF SandboxInv, RowQuiet, Quiet
  <2>3. row' = Undone /\ Write("job", row')
    BY Zenon, <1>4 DEF Write
  <2>4. row'.attempt = row.attempt
    BY Zenon, <1>4, <2>3, UndoneRow
  <2>. QED
    BY Zenon, <1>0, <1>2, <2>2, <2>3, <2>4, CalmWrite
<1>5. CASE Fresh("job") /\ Write("job", Undone) /\ pc["job"] \in {"stuckCreate", "stuckApply"}
  <2>1. PICK g \in Failure : Undone = Failed(row, row.sbx, g)
    BY <1>0, <1>5 DEF Undone
  <2>2. row.sbx # 0 /\ Write("job", Failed(row, row.sbx, g))
    BY Zenon, <1>1, <1>5, <2>1
  <2>. QED
    BY Zenon, <1>0, <1>1, <1>2, <2>2, FailureSafe
<1>. QED
  BY Zenon, <1>3, <1>4, <1>5 DEF ReportUndone

(* recoverCreating and checkRunning.                                       *)
LEMMA RecoverSafe == BaseInv /\ SandboxInv /\ (Recover \/ Probe) => SandboxInv'
<1>. SUFFICES ASSUME BaseInv, SandboxInv, Recover \/ Probe PROVE SandboxInv'
  BY Zenon
<1>0. /\ "job" \in Actor /\ {"idle", "recover", "observed", "stop"} \subseteq PC
      /\ {"recovery", "process_exit"} \subseteq Failure
      /\ {"idle", "recover", "observed", "stop"} \cap (Marked \cup JobRisk) = {}
  BY Zenon DEF Actor, PC, Failure, Marked, Closing, JobRisk
<1>1. /\ TypeOK /\ RowInv /\ UNCHANGED <<sandbox, clock>> /\ Shrinks /\ row.sbx \in {0, row.attempt}
      /\ Fresh("job") => row.status = IF pc["job"] = "recover" THEN "creating" ELSE "running"
  BY Zenon, <1>0, KnownFacts, NothingStarts DEF Recover, Probe, Knows, RowInv
<1>2. ASSUME Keep,
             \/ Return("job")
             \/ /\ Goto("job", "observed") /\ att' = [att EXCEPT !["job"] = 0]
                /\ expired' = [expired EXCEPT !["job"] = TRUE] /\ UNCHANGED after
      PROVE  SandboxInv'
  <2>1. PICK l \in {"idle", "observed"} : Turn("job", l, 0)
    BY Zenon, <1>0, <1>1, <1>2, Turns DEF Return
  <2>2. l \notin Marked \cup JobRisk
    BY Zenon, <1>0
  <2>. QED
    BY Zenon, <1>0, <1>1, <1>2, <2>1, <2>2, CalmStep
<1>3. ASSUME NEW s \in {0, row.attempt}, NEW f \in Failure, Write("job", Failed(row, s, f)), s = 0 => Quiet,
             Return("job") \/ \E e \in BOOLEAN : EnterStop("job", e, "idle")
      PROVE  SandboxInv'
  <2>1. PICK l \in {"idle", "stop"} : Turn("job", l, 0)
    BY Zenon, <1>0, <1>1, <1>3, Turns DEF Return
  <2>. QED
    BY Zenon, <1>0, <1>1, <1>3, <2>1, FailureSafe
<1>4. ASSUME Fresh("job"), pc["job"] = "recover", Write("job", [row EXCEPT !.sbx = row.attempt]),
             UNCHANGED actor
      PROVE  SandboxInv'
  <2>1. Turn("job", "recover", att["job"])
    BY Zenon, <1>0, <1>1, <1>4, Turns
  <2>2. row.status = "creating" /\ row.attempt # 0
    BY Zenon, <1>1, <1>4 DEF RowInv
  <2>3. row'.status = "creating" /\ row'.attempt = row.attempt /\ Write("job", row')
    BY Zenon, <1>0, <1>4, <2>2, RowNames DEF Write
  <2>4. row'.status \in {"queued", "planning"} \/ Over' => Quiet
    BY Zenon, <2>3 DEF Over, Terminal
  <2>. QED
    BY Zenon, <1>0, <1>1, <2>1, <2>3, <2>4, CalmWrite
<1>5. clock = "late" => Quiet
  BY Zenon DEF SandboxInv, RowQuiet
<1>6. Expired \in BOOLEAN
  BY Zenon DEF Expired
<1>7. CASE Recover
  BY Zenon, <1>0, <1>1, <1>2, <1>3, <1>4, <1>5, <1>6, <1>7 DEF Recover
<1>8. CASE Probe
  <2>1. Fresh("job") => row.sbx # 0
    BY Zenon, <1>1, <1>8 DEF Probe, RowInv
  <2>. QED
    BY Zenon, <1>0, <1>1, <1>2, <1>3, <1>8, <2>1 DEF Probe
<1>. QED
  BY Zenon, <1>7, <1>8

(* A step of Stop, once it is known what x may be certain of.              *)
LEMMA StopStep ==
  ASSUME BaseInv, SandboxInv, NEW x \in Actor, NEW l \in Marked, NEW a, Turn(x, l, a), Sees(x),
         Shrinks, clock' = clock, RowQuiet', Certain(x)', row' = row \/ pc["job"] # "create"
  PROVE  SandboxInv'
<1>1. JobSure' /\ (pc'["job"] = "create" => pc["job"] = "create")
  <2>1. CASE x = "job"
    <3>1. pc'["job"] \notin JobRisk
      BY Zenon, <2>1 DEF Turn, Marked, Closing, JobRisk
    <3>. QED
      BY Zenon, <2>1, <3>1, NothingAtRisk DEF JobRisk
  <2>2. CASE x # "job"
    <3>1. pc'["job"] = pc["job"] /\ att'["job"] = att["job"]
      BY Zenon, <2>2 DEF Turn, Actor
    <3>. QED
      BY Zenon, <3>1, JobStaysSure, InHand DEF SandboxInv, JobSure
  <2>. QED
    BY Zenon, <2>1, <2>2
<1>. QED
  BY Zenon, <1>1, SandboxStep

(* The row becomes stopping while it leads to the sandbox, if there is one.*)
LEMMA MarkingSafe ==
  ASSUME BaseInv, SandboxInv, NEW x \in Actor, row.status \in Status, Write(x, Moved(row, "stopping")),
         Goto(x, "close"), att' = [att EXCEPT ![x] = row.sbx], UNCHANGED <<expired, after>>,
         UNCHANGED <<sandbox, clock>>, row.sbx = 0 => Quiet, pc["job"] # "create"
  PROVE  SandboxInv'
<1>0. "close" \in Marked \cap PC /\ "stopping" \in Status
  BY Zenon DEF Marked, Closing, PC, Status
<1>1. TypeOK /\ row \in Row /\ row.sbx \in {0} \cup Attempt
  BY Zenon, KnownFacts
<1>2. Turn(x, "close", row.sbx)
  BY Zenon, <1>0, <1>1, Turns
<1>3. row' = Moved(row, "stopping") /\ Sees(x) /\ Shrinks
  BY Zenon, NothingStarts DEF Write, Sees
<1>4. row'.status = "stopping" /\ row'.sbx = row.sbx /\ row'.attempt = row.attempt
  BY Zenon, <1>0, <1>1, <1>3, MovedRow
<1>5. RowQuiet'
  BY Zenon, <1>3, <1>4, RowStaysQuiet DEF Over, Terminal
<1>6. pc'[x] = "close" /\ pc'["job"] # "create"
  BY Zenon, <1>2 DEF Turn, Actor
<1>7. Certain(x)'
  BY Zenon, <1>3, <1>4, <1>6, NothingStarts DEF Certain
<1>. QED
  BY Zenon, <1>0, <1>2, <1>3, <1>5, <1>7, StopStep

(* Stop reads the row: where it names no sandbox, either none was created, *)
(* or the creation is looked up first.                                     *)
LEMMA StopReadSafe == ASSUME BaseInv, SandboxInv, NEW x \in Actor, StopRead(x) PROVE SandboxInv'
<1>0. /\ {"idle", "retry", "lookup"} \subseteq PC
      /\ {"idle", "retry", "lookup"} \cap (Marked \cup JobRisk) = {}
  BY Zenon DEF PC, Marked, Closing, JobRisk
<1>1. /\ TypeOK /\ RowInv /\ UNCHANGED <<sandbox, clock>> /\ Shrinks /\ after[x] \in {"idle", "retry"}
      /\ row.attempt \in {0} \cup Attempt
  BY Zenon, KnownFacts, NothingStarts, RowFields DEF StopRead, TypeOK
<1>2. ASSUME Read(x) \/ Keep, NEW l \in {"idle", "retry", "lookup"}, NEW a, Turn(x, l, a) PROVE SandboxInv'
  <2>1. l \notin Marked \cup JobRisk
    BY Zenon, <1>0
  <2>. QED
    BY Zenon, <1>1, <1>2, <2>1, CalmStep
<1>3. CASE (Read(x) \/ Keep) /\ (Return(x) \/ Leave(x, after[x]))
  <2>1. \E l \in {"idle", "retry"} : Turn(x, l, 0)
    BY Zenon, <1>0, <1>1, <1>3, Turns DEF Return
  <2>. QED
    BY Zenon, <1>2, <1>3, <2>1
<1>4. CASE Read(x) /\ Goto(x, "lookup") /\ UNCHANGED <<att, expired, after>>
  <2>1. Turn(x, "lookup", att[x])
    BY Zenon, <1>0, <1>1, <1>4, Turns
  <2>. QED
    BY Zenon, <1>2, <1>4, <2>1
<1>5. CASE /\ row.status \in Status
           /\ ~ (row.status \in Terminal /\ row.sbx = 0)
           /\ ~ (row.status \in {"creating", "stopping"} /\ row.sbx = 0 /\ row.attempt > 0)
           /\ Write(x, Moved(row, "stopping")) /\ Goto(x, "close")
           /\ att' = [att EXCEPT ![x] = row.sbx] /\ UNCHANGED <<expired, after>>
  <2>1. row.attempt \in Attempt => row.attempt > 0
    BY BoundsAssumption DEF Attempt
  <2>2. pc["job"] # "create"
    BY Zenon, <1>5, <2>1, InHand DEF SandboxInv, JobSure, Building
  <2>3. ASSUME row.sbx = 0 PROVE Quiet
    <3>1. CASE row.status \in {"queued", "planning"}
      BY Zenon, <3>1 DEF SandboxInv, RowQuiet
    <3>2. CASE row.attempt = 0
      <4>1. \A a \in Attempt : a # 0
        BY BoundsAssumption DEF Attempt
      <4>. QED
        BY Zenon, <3>2, <4>1 DEF SandboxInv, RowQuiet, Quiet
    <3>. QED
      BY Zenon, <1>1, <1>5, <2>1, <2>3, <3>1, <3>2 DEF RowInv, Status, Terminal
  <2>. QED
    BY Zenon, <1>1, <1>5, <2>2, <2>3, MarkingSafe
<1>. QED
  BY Zenon, <1>3, <1>4, <1>5 DEF StopRead

(* An attempt's creation is looked up: the row names the sandbox that is   *)
(* found; that there is none is believed after the deadline only.          *)
LEMMA LookupSafe == ASSUME BaseInv, SandboxInv, NEW x \in Actor, Lookup(x) PROVE SandboxInv'
<1>0. {"idle", "mark"} \subseteq PC /\ "idle" \notin Marked \cup JobRisk /\ "mark" \in Marked
  BY Zenon DEF PC, Marked, Closing, JobRisk
<1>1. /\ TypeOK /\ RowInv /\ UNCHANGED <<sandbox, clock>> /\ Shrinks /\ row.attempt \in {0} \cup Attempt
      /\ Fresh(x) => row.status \in {"creating", "stopping"} /\ row.attempt # 0
  BY Zenon, KnownFacts, NothingStarts, RowFields DEF Lookup, Knows
<1>2. CASE Keep /\ Return(x)
  <2>1. Turn(x, "idle", 0)
    BY Zenon, <1>0, <1>1, <1>2, Turns DEF Return
  <2>. QED
    BY Zenon, <1>0, <1>1, <1>2, <2>1, CalmStep
<1>3. ASSUME Goto(x, "mark"), UNCHANGED <<att, expired, after>>
      PROVE  Turn(x, "mark", att[x]) /\ pc'[x] = "mark" /\ (pc'["job"] = "create" => pc["job"] = "create")
  <2>1. Turn(x, "mark", att[x])
    BY Zenon, <1>0, <1>1, <1>3, Turns
  <2>. QED
    BY Zenon, <2>1 DEF Turn, Actor
<1>4. CASE /\ Fresh(x) /\ sandbox[row.attempt] = "live" /\ Write(x, [row EXCEPT !.sbx = row.attempt])
           /\ Goto(x, "mark") /\ UNCHANGED <<att, expired, after>>
  <2>1. pc["job"] # "create"
    BY Zenon, <1>1, <1>4 DEF SandboxInv, JobSure, Quiet, Running
  <2>2. Write(x, row') /\ Sees(x)
    BY Zenon, <1>4 DEF Write, Sees
  <2>3. row'.status \in {"creating", "stopping"} /\ row'.sbx # 0 /\ row'.attempt = row.attempt
    BY Zenon, <1>1, <1>4, <2>2, RowNames DEF Write
  <2>4. RowQuiet'
    BY Zenon, <1>1, <2>3, RowStaysQuiet DEF Over, Terminal
  <2>5. Certain(x)'
    BY Zenon, <1>3, <1>4, <2>1, <2>3 DEF Certain
  <2>. QED
    BY Zenon, <1>0, <1>1, <1>3, <1>4, <2>1, <2>2, <2>4, <2>5, StopStep
<1>5. CASE Keep /\ LookupEmpty /\ Goto(x, "mark") /\ UNCHANGED <<att, expired, after>>
  <2>1. row' = row /\ Sees(x)
    BY Zenon, <1>5 DEF Keep, Sees
  <2>2. Quiet /\ pc["job"] # "create"
    BY Zenon, <1>5 DEF LookupEmpty, SandboxInv, RowQuiet, JobSure
  <2>3. RowQuiet'
    BY Zenon, <1>1, <2>1, SameRowQuiet
  <2>4. Certain(x)'
    BY Zenon, <1>1, <1>3, <1>5, <2>2, NothingStarts DEF Certain
  <2>. QED
    BY Zenon, <1>0, <1>1, <1>3, <1>5, <2>1, <2>3, <2>4, StopStep
<1>. QED
  BY Zenon, <1>2, <1>4, <1>5 DEF Lookup

(* ... and the row becomes stopping.                                       *)
LEMMA MarkSafe == ASSUME BaseInv, SandboxInv, NEW x \in Actor, Mark(x) PROVE SandboxInv'
<1>0. "idle" \in PC /\ "idle" \notin Marked \cup JobRisk /\ "mark" \in Marked
  BY Zenon DEF PC, Marked, Closing, JobRisk
<1>1. /\ TypeOK /\ UNCHANGED <<sandbox, clock>> /\ Shrinks
      /\ Fresh(x) => row.status \in Status
  BY Zenon, KnownFacts, NothingStarts DEF Mark, Knows, Status
<1>2. CASE Keep /\ Return(x)
  <2>1. Turn(x, "idle", 0)
    BY Zenon, <1>0, <1>1, <1>2, Turns DEF Return
  <2>. QED
    BY Zenon, <1>0, <1>1, <1>2, <2>1, CalmStep
<1>3. CASE Fresh(x) /\ Mark(x)
  <2>1. (row.sbx = 0 => Quiet) /\ pc["job"] # "create"
    BY Zenon, <1>0, <1>3 DEF SandboxInv, Certain, Fresh, Mark
  <2>. QED
    BY Zenon, <1>1, <1>3, <2>1, MarkingSafe DEF Mark
<1>. QED
  BY Zenon, <1>2, <1>3 DEF Mark

(* The sandbox the row names is closed.                                    *)
LEMMA CloseSafe == ASSUME BaseInv, SandboxInv, NEW x \in Actor, CloseSandbox(x) PROVE SandboxInv'
<1>0. {"closed", "unclosed"} \subseteq PC \cap Marked /\ "close" \in Marked \cap Closing
  BY Zenon DEF PC, Marked, Closing
<1>1. /\ TypeOK /\ RowInv /\ pc[x] = "close" /\ Keep /\ att[x] \in {0} \cup Attempt /\ clock' = clock
      /\ Closes(x, att[x], "closed", "unclosed") /\ row' = row /\ stale' = stale
      /\ sandbox \in [Attempt -> {"none", "pending", "live", "gone"}] /\ pc \in [Actor -> PC]
  BY Zenon, KnownFacts DEF CloseSandbox, Keep, TypeOK
<1>2. PICK l \in {"closed", "unclosed"} : Turn(x, l, att[x])
  BY Zenon, <1>0, <1>1, CloseTurns DEF CloseSandbox
<1>3. Shrinks
  <2>1. UNCHANGED sandbox \/ sandbox' = [sandbox EXCEPT ![att[x]] = "gone"]
    BY Zenon, <1>1 DEF Closes
  <2>. QED
    BY Zenon, <2>1, ClosingShrinks
<1>4. RowQuiet' /\ Sees(x)
  BY Zenon, <1>1, <1>3, SameRowQuiet DEF Sees
<1>5. Certain(x)'
  <2>. SUFFICES ASSUME x \notin stale
                PROVE  /\ row.sbx = 0 => Quiet'
                       /\ pc'[x] = "closed" => Quiet'
                       /\ pc'["job"] # "create"
    BY Zenon, <1>1 DEF Certain
  <2>1. att[x] = row.sbx /\ row.sbx \in {0, row.attempt}
    BY Zenon, <1>0, <1>1, KnownFacts DEF Knows, Fresh, RowInv
  <2>2. (row.sbx = 0 => Quiet') /\ pc["job"] # "create"
    BY Zenon, <1>0, <1>1, <1>3, NothingStarts DEF SandboxInv, Certain
  <2>3. pc'["job"] # "create"
    BY Zenon, <1>2, <2>2 DEF Turn, Actor
  <2>4. ASSUME pc'[x] = "closed", row.sbx # 0 PROVE Quiet'
    <3>1. pc'[x] = "unclosed" \/ sandbox' = [sandbox EXCEPT ![att[x]] = "gone"]
      BY Zenon, <1>1, <2>1, <2>4 DEF Closes, Goto
    <3>2. ~Running(row.attempt)'
      BY ZenonT(30), <1>1, <2>1, <2>4, <3>1 DEF Running
    <3>. QED
      BY Zenon, <1>1, <1>4, <3>2 DEF RowQuiet, Quiet, Running
  <2>. QED
    BY Zenon, <2>2, <2>3, <2>4
<1>. QED
  BY Zenon, <1>0, <1>1, <1>2, <1>3, <1>4, <1>5, StopStep

(* Stop gives up in the row what it has closed, and keeps what it has not. *)
LEMMA ReportSafe == ASSUME BaseInv, SandboxInv, NEW x \in Actor, StopReport(x) PROVE SandboxInv'
<1>0. /\ {"idle", "retry"} \subseteq PC /\ {"idle", "retry"} \cap (Marked \cup JobRisk) = {}
      /\ {"closed", "unclosed"} \subseteq Marked \cap Closing
  BY Zenon DEF PC, Marked, Closing, JobRisk
<1>1. /\ TypeOK /\ RowInv /\ UNCHANGED <<sandbox, clock>> /\ Shrinks /\ pc[x] \in {"closed", "unclosed"}
      /\ after[x] \in {"idle", "retry"} /\ row.sbx \in {0, row.attempt}
      /\ Fresh(x) => pc["job"] # "create"
  BY Zenon, <1>0, KnownFacts, NothingStarts DEF StopReport, TypeOK, RowInv, SandboxInv, Certain, Fresh
<1>2. Return(x) => Turn(x, "idle", 0)
  BY Zenon, <1>0, <1>1, Turns DEF Return
<1>3. CASE pc[x] = "closed" /\ Fresh(x) /\ Write(x, Stopped(x)) /\ Leave(x, after[x])
  <2>1. Turn(x, after[x], 0) /\ after[x] \notin Marked \cup JobRisk
    BY Zenon, <1>0, <1>1, <1>3, Turns
  <2>2. row' = Stopped(x) /\ Write(x, row')
    BY Zenon, <1>3 DEF Write
  <2>3. row'.attempt = row.attempt
    BY Zenon, <2>2, StoppedRow
  <2>4. Quiet
    BY Zenon, <1>3 DEF SandboxInv, Certain, Fresh
  <2>. QED
    BY Zenon, <1>1, <1>3, <2>1, <2>2, <2>3, <2>4, CalmWrite
<1>4. ASSUME pc[x] = "unclosed", Fresh(x), NEW g \in Failure, Write(x, Failed(row, row.sbx, g)), Return(x)
      PROVE  SandboxInv'
  <2>1. row.sbx # 0
    BY Zenon, <1>0, <1>4, KnownFacts DEF ActorInv, Knows
  <2>. QED
    BY Zenon, <1>1, <1>2, <1>4, <2>1, FailureSafe
<1>5. CASE Keep /\ Return(x)
  BY Zenon, <1>0, <1>1, <1>2, <1>5, CalmStep
<1>6. (IF ExpiryCleanup(x) THEN "expiry_cleanup" ELSE "cleanup") \in Failure
  BY Zenon DEF Failure
<1>. QED
  BY Zenon, <1>3, <1>4, <1>5, <1>6 DEF StopReport

(* The handler of a stop completes at once only what has no sandbox yet.   *)
LEMMA StopRequestSafe ==
  ASSUME BaseInv, SandboxInv, NEW h \in Handlers, StopRequest(h) PROVE SandboxInv'
<1>0. h \in Actor /\ "stop" \notin Marked \cup JobRisk
  BY Zenon DEF Actor, Marked, Closing, JobRisk
<1>1. /\ TypeOK /\ row \in Row /\ UNCHANGED <<sandbox, clock>>
      /\ ~(row.status \in Terminal /\ row.sbx = 0)
  BY Zenon, <1>0, KnownFacts DEF StopRequest
<1>2. Turn(h, "stop", 0)
  BY Zenon, <1>0, <1>1, Turns DEF StopRequest
<1>3. PICK st \in {"completed", "failed", "stopping"} :
        /\ row' = [row EXCEPT !.status = st] /\ Write(h, row')
        /\ st = "completed" => row.status = "queued"
        /\ st = "failed" => row.status = "failed"
  BY Zenon DEF StopRequest, Write
<1>4. row'.status = st /\ row'.sbx = row.sbx /\ row'.attempt = row.attempt
  BY <1>1, <1>3 DEF Row, Status
<1>5. row'.status \in {"queued", "planning"} \/ Over' => Quiet
  BY Zenon, <1>1, <1>3, <1>4 DEF Over, Terminal, SandboxInv, RowQuiet
<1>6. pc["job"] = "create" => row'.status \in {"creating", "stopping"} /\ row'.sbx = 0
  BY Zenon, <1>3, <1>4 DEF SandboxInv, JobSure
<1>. QED
  BY Zenon, <1>0, <1>1, <1>2, <1>3, <1>4, <1>5, <1>6, CalmWrite

(* A retry of a row that names no sandbox starts with none.                *)
LEMMA RetrySafe ==
  ASSUME BaseInv, SandboxInv, NEW h \in Handlers, RetryRequest(h) \/ RetryAfterStop(h),
         row'.rev # row.rev => row.sbx = 0
  PROVE  SandboxInv'
<1>0. h \in Actor /\ {"idle", "stop"} \subseteq PC /\ {"idle", "stop"} \cap (Marked \cup JobRisk) = {}
  BY Zenon DEF Actor, PC, Marked, Closing, JobRisk
<1>1. TypeOK /\ row \in Row /\ UNCHANGED sandbox /\ Shrinks
  BY Zenon, <1>0, KnownFacts, NothingStarts DEF RetryRequest, RetryAfterStop
<1>2. CASE row.status \in Terminal /\ Requeue(h)
  <2>1. /\ Write(h, row') /\ Turn(h, "idle", 0) /\ clock' = "early"
        /\ row'.status = "queued" /\ row'.attempt = row.attempt /\ row'.rev = row.rev + 1
    BY Zenon, <1>2, RequeuedRow DEF Requeue
  <2>2. row'.rev # row.rev
    BY <1>1, <2>1, RowFields
  <2>3. Quiet
    BY Zenon, <1>2, <2>2 DEF SandboxInv, RowQuiet, Over
  <2>4. Quiet' /\ Sees(h)
    BY Zenon, <1>1, <2>1, <2>3, NothingStarts DEF Sees
  <2>5. RowQuiet'
    BY Zenon, <2>4 DEF RowQuiet, Quiet
  <2>6. pc'[h] = "idle" /\ Certain(h)'
    BY Zenon, <1>0, <2>1, NothingAtRisk DEF Turn
  <2>7. pc["job"] # "create"
    BY Zenon, <1>2 DEF SandboxInv, JobSure, Terminal
  <2>8. JobSure'
    <3>1. CASE h = "job"
      BY Zenon, <1>0, <2>6, <3>1, NothingAtRisk
    <3>2. CASE h # "job"
      <4>1. pc'["job"] = pc["job"] /\ att'["job"] = att["job"]
        BY Zenon, <2>1, <3>2 DEF Turn, Actor
      <4>. QED
        BY Zenon, <1>1, <2>1, <2>7, <4>1, JobStaysSure, InHand
    <3>. QED
      BY Zenon, <3>1, <3>2
  <2>. QED
    BY Zenon, <1>0, <1>1, <2>1, <2>4, <2>5, <2>6, <2>8, SandboxStep
<1>3. CASE Keep /\ UNCHANGED clock /\ (EnterStop(h, FALSE, "retry") \/ Return(h))
  <2>1. PICK l \in {"idle", "stop"} : Turn(h, l, 0)
    BY Zenon, <1>0, <1>1, <1>3, Turns DEF Return
  <2>2. l \notin Marked \cup JobRisk
    BY Zenon, <1>0
  <2>. QED
    BY Zenon, <1>0, <1>1, <1>3, <2>1, <2>2, CalmStep
<1>. QED
  BY Zenon, <1>2, <1>3 DEF RetryRequest, RetryAfterStop

(* While the row and its actors stay as they are, no sandbox is started.   *)
LEMMA RestSafe ==
  ASSUME BaseInv, SandboxInv, UNCHANGED <<row, actor, stale>>, Shrinks,
         clock' = "late" =>
            /\ Quiet
            /\ pc["job"] \notin {"plan", "create", "created", "partial", "apply"}
  PROVE  SandboxInv'
<1>1. row' = row /\ pc' = pc /\ att' = att /\ stale' = stale
  BY Zenon DEF actor
<1>2. Quiet => Quiet'
  BY Zenon, NothingStarts
<1>3. RowQuiet'
  BY Zenon, <1>1, <1>2 DEF SandboxInv, RowQuiet, Over, Shrinks
<1>4. pc["job"] \in {"undoneCreate", "undoneApply"} => ~Running(att["job"])'
  BY Zenon, <1>1, InHand DEF SandboxInv, JobSure, Shrinks, Running, Building, Held
<1>5. JobSure'
  BY Zenon, <1>1, <1>2, <1>4 DEF SandboxInv, JobSure, Running
<1>6. ASSUME NEW x \in Actor PROVE Certain(x)'
  BY Zenon, <1>1, <1>2 DEF SandboxInv, Certain
<1>. QED
  BY Zenon, <1>3, <1>5, <1>6 DEF SandboxInv

(* The retention, the provider, the clock and crashes.                     *)
LEMMA EnvironmentSafe ==
  BaseInv /\ SandboxInv /\ (Prune \/ Provider \/ Expire \/ Late \/ Crash) => SandboxInv'
<1>. SUFFICES ASSUME BaseInv, SandboxInv, Prune \/ Provider \/ Expire \/ Late \/ Crash PROVE SandboxInv'
  BY Zenon
<1>0. "job" \in Actor /\ "idle" \notin Marked \cup JobRisk
  BY Zenon DEF Actor, Marked, Closing, JobRisk
<1>1. /\ TypeOK /\ row \in Row /\ RowQuiet /\ JobSure
      /\ sandbox \in [Attempt -> {"none", "pending", "live", "gone"}]
  BY Zenon DEF BaseInv, TypeOK, SandboxInv
<1>2. CASE Prune
  <2>1. row'.status = "pruned" /\ row'.sbx = 0 /\ row'.attempt = row.attempt
    BY <1>1, <1>2 DEF Prune, Row
  <2>2. Quiet /\ pc["job"] # "create"
    BY Zenon, <1>1, <1>2 DEF Prune, RowQuiet, JobSure, Over, Terminal
  <2>3. UNCHANGED sandbox /\ clock' = clock /\ pc' = pc /\ att' = att
    BY Zenon, <1>2 DEF Prune, actor
  <2>4. Shrinks /\ Quiet'
    BY Zenon, <2>2, <2>3, NothingStarts
  <2>5. RowQuiet'
    BY Zenon, <2>4 DEF RowQuiet, Quiet
  <2>6. JobSure'
    BY Zenon, <2>2, <2>3, <2>4, JobStaysSure, InHand
  <2>7. ASSUME NEW x \in Actor PROVE Certain(x)'
    <3>1. x \notin stale' => pc'[x] = "idle"
      BY Zenon, <1>2, <2>3 DEF Prune
    <3>. QED
      BY Zenon, <1>0, <3>1 DEF Certain, Marked, Closing
  <2>. QED
    BY Zenon, <2>5, <2>6, <2>7 DEF SandboxInv
<1>3. CASE Provider
  <2>1. PICK a \in Attempt, s \in {"none", "live", "gone"} :
          /\ sandbox[a] \in {"pending", "live"} /\ sandbox' = [sandbox EXCEPT ![a] = s]
          /\ UNCHANGED <<row, clock, actor, stale>>
    BY Zenon, <1>3 DEF Provider, Lands, SandboxEnds
  <2>2. Shrinks
    BY Zenon, <1>1, <2>1 DEF Shrinks, Running
  <2>. QED
    BY Zenon, <1>1, <2>1, <2>2, RestSafe DEF RowQuiet, JobSure
<1>4. CASE Expire \/ Late
  BY Zenon, <1>4, RestSafe, NothingStarts DEF Expire, Late, Quiet, Running
<1>5. CASE Crash
  <2>1. row' = row /\ clock' = clock /\ \A x \in Actor : pc'[x] = "idle"
    BY Zenon, <1>5 DEF Crash
  <2>2. CASE pc["job"] = "create"
    BY Zenon, <1>0, <1>5, <2>1, <2>2, CreationSafe DEF Crash, CreationLeft
  <2>3. CASE pc["job"] # "create"
    <3>1. Shrinks
      BY Zenon, <1>5, <2>3, NothingStarts DEF Crash
    <3>2. RowQuiet'
      BY Zenon, <2>1, <3>1, SameRowQuiet
    <3>. QED
      BY Zenon, <1>0, <2>1, <3>2, NothingAtRisk DEF SandboxInv
  <2>. QED
    BY Zenon, <2>2, <2>3
<1>. QED
  BY Zenon, <1>2, <1>3, <1>4, <1>5

(* The provider starts with nothing.                                       *)
LEMMA SandboxInit == Init => SandboxInv
<1>. SUFFICES ASSUME Init PROVE SandboxInv
  BY Zenon
<1>1. Quiet
  BY Zenon DEF Init, Quiet, Running
<1>2. RowQuiet
  BY Zenon, <1>1 DEF RowQuiet, Quiet
<1>3. \A x \in Actor : pc[x] = "idle"
  BY Zenon DEF Init
<1>4. JobSure
  BY Zenon, <1>3 DEF JobSure, Actor
<1>5. \A x \in Actor : Certain(x)
  BY Zenon, <1>3 DEF Certain, Marked, Closing
<1>. QED
  BY Zenon, <1>2, <1>4, <1>5 DEF SandboxInv

(* Every step keeps what is known of the sandboxes, where the retries      *)
(* among them start from a row that names none.                            *)
LEMMA SandboxKept ==
  ASSUME BaseInv, SandboxInv, [Next]_vars,
         \A h \in Handlers :
            RetryRequest(h) \/ RetryAfterStop(h) => (row'.rev # row.rev => row.sbx = 0)
  PROVE  SandboxInv'
<1>1. "job" \in Actor /\ \A h \in Handlers : h \in Actor
  BY Zenon DEF Actor
<1>2. ASSUME NEW x \in Actor, Stop(x) PROVE SandboxInv'
  BY Zenon, <1>2, StopReadSafe, LookupSafe, MarkSafe, CloseSafe, ReportSafe DEF Stop
<1>3. CASE Job
  BY Zenon, <1>1, <1>2, <1>3, AdvanceSafe, PlanSafe, CreateSafe, ApplySafe, UndoSafe, UndoneSafe,
     RecoverSafe DEF Job, Process
<1>4. ASSUME NEW h \in Handlers, Handler(h) PROVE SandboxInv'
  BY Zenon, <1>1, <1>2, <1>4, StopRequestSafe, RetrySafe DEF Handler
<1>5. CASE UNCHANGED vars
  <2>1. UNCHANGED <<row, actor, stale>> /\ Shrinks /\ clock' = clock
    BY Zenon, <1>5, NothingStarts DEF vars, actor
  <2>. QED
    BY Zenon, <2>1, RestSafe DEF SandboxInv, RowQuiet, JobSure
<1>. QED
  BY Zenon, <1>3, <1>4, <1>5, EnvironmentSafe DEF Next

(* Under the invariants the row leads to every sandbox, and there is one.  *)
LEMMA RowLeads == BaseInv /\ SandboxInv => SandboxReachable /\ OneSandbox
<1>. SUFFICES ASSUME BaseInv, SandboxInv PROVE SandboxReachable /\ OneSandbox
  BY Zenon
<1>1. /\ RowInv /\ RowQuiet /\ row.status \in Status \cup {"pruned"}
      /\ \A a \in Attempt : Running(a) => a = row.attempt
  BY Zenon, RowFields DEF BaseInv, TypeOK, SandboxInv, RowQuiet
<1>2. ASSUME NEW a \in Attempt, sandbox[a] = "live", row.sbx # a
      PROVE  row.sbx = 0 /\ row.attempt = a /\ row.status \in {"creating", "stopping"}
  <2>1. Running(a) /\ a = row.attempt /\ ~Quiet
    BY Zenon, <1>1, <1>2 DEF Running, Quiet
  <2>2. row.sbx = 0
    BY Zenon, <1>1, <1>2, <2>1 DEF RowInv
  <2>3. row.status \notin {"queued", "planning", "running", "pruned"} \cup Terminal
    BY Zenon, <1>1, <2>1, <2>2 DEF RowInv, RowQuiet, Over
  <2>. QED
    BY Zenon, <1>1, <2>1, <2>2, <2>3 DEF Status, Terminal
<1>3. SandboxReachable
  BY Zenon, <1>2 DEF SandboxReachable
<1>4. OneSandbox
  BY Zenon, <1>1 DEF OneSandbox, Running
<1>. QED
  BY Zenon, <1>3, <1>4

(* Until a deployment has been retried once, the handler that cleans up    *)
(* before a retry finds the row cleaned up when it reads it again.         *)
LEMMA FirstRetryCleansUp ==
  ASSUME MaxRevisions <= 2, BaseInv, NEW h \in Handlers, RetryRequest(h) \/ RetryAfterStop(h)
  PROVE  row'.rev # row.rev => row.sbx = 0
<1>0. h \in Actor
  BY Zenon DEF Actor
<1>1. CASE RetryRequest(h)
  BY Zenon, <1>1 DEF RetryRequest, Keep
<1>2. CASE RetryAfterStop(h) /\ Requeue(h)
  <2>1. row.rev \in Nat /\ row.rev < MaxRevisions /\ MaxRevisions \in Nat
    BY Zenon, <1>2, RowFields, BoundsAssumption DEF Requeue, BaseInv, TypeOK
  <2>2. ~(row.rev >= 2)
    BY <2>1
  <2>. QED
    BY ZenonT(30), <1>0, <1>2, <2>2 DEF RetryAfterStop, BaseInv, ActorInv, Over
<1>3. CASE Keep
  BY Zenon, <1>3 DEF Keep
<1>. QED
  BY Zenon, <1>1, <1>2, <1>3 DEF RetryAfterStop

(* Both invariants hold as long as the retries clean up.                   *)
LEMMA CleanRetriesLead == Spec /\ RetryAfterCleanup => [](SandboxReachable /\ OneSandbox)
<1>1. Init => BaseInv /\ SandboxInv
  BY Zenon, BaseInit, SandboxInit
<1>2. BaseInv /\ SandboxInv /\ [Next]_vars /\ [row'.rev # row.rev => row.sbx = 0]_vars
      => BaseInv' /\ SandboxInv'
  <2>. SUFFICES ASSUME BaseInv, SandboxInv, [Next]_vars, [row'.rev # row.rev => row.sbx = 0]_vars
                PROVE  BaseInv' /\ SandboxInv'
    BY Zenon
  <2>1. row'.rev # row.rev => row.sbx = 0
    BY Zenon DEF vars
  <2>. QED
    BY Zenon, <2>1, BaseStep, SandboxKept
<1>3. BaseInv /\ SandboxInv => SandboxReachable /\ OneSandbox
  BY Zenon, RowLeads
<1>. QED
  BY <1>1, <1>2, <1>3, PTL DEF Spec, RetryAfterCleanup

(* What RetryAfterCleanup, the rule of retryDeployment, is for: as long as *)
(* every retry starts from a row that names no sandbox, the row leads to   *)
(* every sandbox the provider runs, whatever conflicts, lost answers,      *)
(* deadlines and crashes come between.                                     *)
THEOREM SandboxesReachable == Spec /\ RetryAfterCleanup => []SandboxReachable
BY CleanRetriesLead, PTL

(* ... and a retry never starts a second sandbox beside an earlier one.    *)
THEOREM SandboxesOne == Spec /\ RetryAfterCleanup => []OneSandbox
BY CleanRetriesLead, PTL

(* Up to its first retry a deployment needs no such condition: with any    *)
(* number of handlers, requests and crashes the row leads to its sandbox,  *)
(* and it has one at most.                                                 *)
THEOREM FirstRetryReaches ==
  ASSUME MaxRevisions <= 2
  PROVE  Spec => [](SandboxReachable /\ OneSandbox)
<1>1. Init => BaseInv /\ SandboxInv
  BY Zenon, BaseInit, SandboxInit
<1>2. BaseInv /\ SandboxInv /\ [Next]_vars => BaseInv' /\ SandboxInv'
  BY Zenon, FirstRetryCleansUp, BaseStep, SandboxKept
<1>3. BaseInv /\ SandboxInv => SandboxReachable /\ OneSandbox
  BY Zenon, RowLeads
<1>. QED
  BY <1>1, <1>2, <1>3, PTL DEF Spec

=============================================================================
