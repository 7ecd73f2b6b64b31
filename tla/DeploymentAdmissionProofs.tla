--------------------- MODULE DeploymentAdmissionProofs ---------------------
(***************************************************************************)
(* What DeploymentAdmission keeps for any number of calls, ids, scopes and *)
(* plans and for timelines of any length: the limit of a scope, that a     *)
(* call is told of its own, the limits of a timeline and the history.      *)
(***************************************************************************)
EXTENDS DeploymentAdmission, FiniteSetTheorems, SequenceTheorems, WellFoundedInduction, TLAPS

-----------------------------------------------------------------------------
(* The inductive invariant                                                 *)

Holding == {"insert", "requeue"}

Shapes ==
    /\ deployment \in [Ids -> Deployment]
    /\ anchor \in [ScopeIds -> Calls \cup {Nobody}]
    /\ call \in [Calls -> CallRecord]
    /\ \A c \in Calls :
        /\ call[c].at \in CreateSites =>
              call[c].op = "create" /\ call[c].id \in Ids /\ call[c].body \in Bodies
        /\ call[c].at \in RetrySites =>
              call[c].op = "retry" /\ call[c].id \in Ids /\ call[c].copy \in Stored

(* Whoever is past the count of a scope holds the lock of its row.         *)
Locked == \A c \in Calls : call[c].at \in Holding => anchor[Scope(c)] = c

(* What takes up a place beside the row a call is about to write.          *)
Besides(c) == IF call[c].at = "insert" THEN Ids ELSE Ids \ {call[c].id}

(* The count is still true when the row is written: there is room.         *)
Room == \A c \in Calls : call[c].at \in Holding => Load(Scope(c), Besides(c)) < MaxConcurrent

QuotaInv == Shapes /\ Locked /\ Room /\ ScopeWithinLimit

-----------------------------------------------------------------------------
(* Counting                                                                *)

(* The rows that Load counts.                                              *)
Held(s, others) == {i \in others : deployment[i].scope = s /\ Counts(deployment[i])}

(* A scope whose holders do not grow does not fill up.                     *)
LEMMA FewerHeld ==
  ASSUME NEW s, NEW others \in SUBSET Ids, Held(s, others)' \subseteq Held(s, others)
  PROVE  Load(s, others) \in Nat /\ Load(s, others)' \in Nat /\ Load(s, others)' <= Load(s, others)
<1>1. IsFiniteSet(Ids)
  BY DeploymentConstants DEF Ids
<1>2. Held(s, others) \subseteq Ids
  BY DEF Held
<1>3. IsFiniteSet(Held(s, others))
  BY <1>1, <1>2, FS_Subset
<1>4. IsFiniteSet(Held(s, others)') /\ Cardinality(Held(s, others)') <= Cardinality(Held(s, others))
  BY <1>3, FS_Subset
<1>5. Cardinality(Held(s, others)) \in Nat /\ Cardinality(Held(s, others)') \in Nat
  BY <1>3, <1>4, FS_CardinalityType
<1>. QED
  BY <1>4, <1>5 DEF Load, Held

(* One element more is one more to count.                                  *)
LEMMA OneMore ==
  ASSUME NEW A, NEW B, NEW x, IsFiniteSet(A), B \subseteq A \cup {x}
  PROVE  Cardinality(B) \in Nat /\ Cardinality(B) <= Cardinality(A) + 1
<1>1. IsFiniteSet(A \cup {x}) /\ Cardinality(A \cup {x}) <= Cardinality(A) + 1 /\ Cardinality(A) \in Nat
  <2>1. /\ IsFiniteSet(A \cup {x}) /\ Cardinality(A) \in Nat
        /\ Cardinality(A \cup {x}) = IF x \in A THEN Cardinality(A) ELSE Cardinality(A) + 1
    BY Zenon, FS_AddElement, FS_CardinalityType
  <2>. QED
    BY SMT, <2>1
<1>2. IsFiniteSet(B) /\ Cardinality(B) <= Cardinality(A \cup {x})
  BY <1>1, FS_Subset
<1>3. Cardinality(B) \in Nat /\ Cardinality(A \cup {x}) \in Nat
  BY <1>1, <1>2, FS_CardinalityType
<1>. QED
  BY <1>1, <1>2, <1>3

(* One row more takes one place more.                                      *)
LEMMA OneMoreHeld ==
  ASSUME NEW s, NEW i \in Ids, NEW others \in SUBSET Ids,
         Held(s, others)' \subseteq Held(s, others),
         Held(s, Ids)' \subseteq Held(s, others)' \cup {i}
  PROVE  Load(s, Ids)' \in Nat /\ Load(s, others) \in Nat /\ Load(s, Ids)' <= Load(s, others) + 1
<1>1. Load(s, others)' \in Nat /\ Load(s, others) \in Nat /\ Load(s, others)' <= Load(s, others)
  BY FewerHeld
<1>2. IsFiniteSet(Held(s, others)')
  <2>1. IsFiniteSet(Ids) /\ Held(s, others)' \subseteq Ids
    BY DeploymentConstants DEF Ids, Held
  <2>. QED
    BY <2>1, FS_Subset
<1>3. Cardinality(Held(s, Ids)') \in Nat /\ Cardinality(Held(s, Ids)') <= Cardinality(Held(s, others)') + 1
  <2>1. PICK A, B : A = Held(s, others)' /\ B = Held(s, Ids)'
    OBVIOUS
  <2>2. IsFiniteSet(A) /\ B \subseteq A \cup {i}
    BY <1>2, <2>1
  <2>3. Cardinality(B) \in Nat /\ Cardinality(B) <= Cardinality(A) + 1
    BY <2>2, OneMore, Zenon
  <2>. QED
    BY <2>1, <2>3
<1>4. Load(s, Ids)' = Cardinality(Held(s, Ids)') /\ Load(s, others)' = Cardinality(Held(s, others)')
  BY DEF Load, Held
<1>. QED
  BY <1>1, <1>3, <1>4

-----------------------------------------------------------------------------
(* Shapes                                                                  *)

(* A row that is there is not the absent one.                              *)
LEMMA StatusKinds == \A d \in Stored : d # Absent /\ d.status # "absent"
BY DEF Stored, Absent, Final

(* A saved row, and one in a final status, is a row that is there.         *)
LEMMA SavedIsStored ==
  ASSUME Shapes, NEW i \in Ids
  PROVE  /\ Saved(i) => deployment[i] \in Stored
         /\ deployment[i].status \in Final => deployment[i] \in Stored
BY DEF Shapes, Saved, Deployment, Absent, Final

(* A call on its way is about a scope.                                     *)
LEMMA ScopeTyped ==
  ASSUME Shapes, NEW c \in Calls
  PROVE  call[c].at \in CreateSites \cup RetrySites => Scope(c) \in ScopeIds
BY SMTT(30) DEF Shapes, CreateSites, RetrySites, Scope, ScopeIds, Stored

(* A step of one call.                                                     *)
LEMMA OneCall ==
  ASSUME Shapes, NEW c \in Calls, NEW k \in CallRecord, call' = [call EXCEPT ![c] = k],
         deployment' \in [Ids -> Deployment], anchor' \in [ScopeIds -> Calls \cup {Nobody}],
         k.at \in CreateSites => k.op = "create" /\ k.id \in Ids /\ k.body \in Bodies,
         k.at \in RetrySites => k.op = "retry" /\ k.id \in Ids /\ k.copy \in Stored
  PROVE  Shapes' /\ call'[c] = k /\ \A x \in Calls : x # c => call'[x] = call[x]
<1>1. call'[c] = k /\ \A x \in Calls : x # c => call'[x] = call[x]
  BY DEF Shapes
<1>2. call' \in [Calls -> CallRecord]
  BY DEF Shapes
<1>. QED
  BY <1>1, <1>2 DEF Shapes

(* A call that goes on along its path keeps its shape, scope and id.       *)
LEMMA StepKept ==
  ASSUME Shapes, NEW c \in Calls, NEW l, Step(c, l),
         deployment' \in [Ids -> Deployment], anchor' \in [ScopeIds -> Calls \cup {Nobody}],
         \/ call[c].at \in CreateSites /\ l \in CreateSites
         \/ call[c].at \in RetrySites /\ l \in RetrySites
  PROVE  /\ Shapes'
         /\ call'[c].at = l /\ Scope(c)' = Scope(c) /\ call'[c].id = call[c].id
         /\ \A x \in Calls : x # c => call'[x] = call[x]
<1> DEFINE k == [call[c] EXCEPT !.at = l]
<1>1. call' = [call EXCEPT ![c] = k]
  BY DEF Step, Shapes
<1>2. call[c] \in CallRecord
  BY DEF Shapes
<1>3. /\ k \in CallRecord /\ k.at = l
      /\ k.op = call[c].op /\ k.id = call[c].id /\ k.body = call[c].body /\ k.copy = call[c].copy
  BY <1>2 DEF CallRecord
<1>. HIDE DEF k
<1>4. CreateSites \cap RetrySites = {}
  BY DEF CreateSites, RetrySites
<1>5. /\ l \in CreateSites => k.op = "create" /\ k.id \in Ids /\ k.body \in Bodies
      /\ l \in RetrySites => k.op = "retry" /\ k.id \in Ids /\ k.copy \in Stored
  BY <1>3, <1>4 DEF Shapes
<1>6. Shapes' /\ call'[c] = k /\ \A x \in Calls : x # c => call'[x] = call[x]
  BY Zenon, <1>1, <1>3, <1>5, OneCall
<1>. QED
  BY <1>3, <1>6 DEF Scope

(* A call that is answered holds nothing any more.                         *)
LEMMA AnswerKept ==
  ASSUME Shapes, NEW c \in Calls, NEW a \in Answers, Answer(c, a),
         deployment' \in [Ids -> Deployment], anchor' \in [ScopeIds -> Calls \cup {Nobody}]
  PROVE  /\ Shapes'
         /\ call'[c].at \notin Holding
         /\ \A x \in Calls : x # c => call'[x] = call[x]
<1> DEFINE k == [call[c] EXCEPT !.at = "done", !.answer = a]
<1>1. call' = [call EXCEPT ![c] = k]
  BY Zenon DEF Answer, Shapes
<1>2. call[c] \in CallRecord
  BY DEF Shapes
<1>3. k \in CallRecord /\ k.at = "done"
  BY Zenon, <1>2 DEF CallRecord
<1>. HIDE DEF k
<1>4. "done" \notin CreateSites \cup RetrySites \cup Holding
  BY DEF CreateSites, RetrySites, Holding
<1>5. Shapes' /\ call'[c] = k /\ \A x \in Calls : x # c => call'[x] = call[x]
  BY ZenonT(60), <1>1, <1>3, <1>4, OneCall
<1>. QED
  BY <1>3, <1>4, <1>5

-----------------------------------------------------------------------------
(* The quota                                                               *)

(* Nobody takes a place: the holders of every scope stay or leave.         *)
NobodyMore ==
    \A s : \A others \in SUBSET Ids : Held(s, others)' \subseteq Held(s, others)

(* Steps in which nobody takes a place and nobody gets a lock.             *)
LEMMA KeepQuota ==
  ASSUME QuotaInv, Shapes', NobodyMore,
         \A x \in Calls : call'[x].at \in Holding =>
            call'[x] = call[x] /\ anchor'[Scope(x)] = anchor[Scope(x)]
  PROVE  QuotaInv'
<1>. USE DEF QuotaInv
<1>1. \A x \in Calls : call'[x].at \in Holding => Scope(x)' = Scope(x) /\ Besides(x)' = Besides(x)
  BY Zenon DEF Scope, Besides
<1>2. Locked'
  BY <1>1 DEF Locked
<1>3. Room'
  <2> SUFFICES ASSUME NEW x \in Calls, call'[x].at \in Holding
               PROVE  Load(Scope(x), Besides(x))' < MaxConcurrent
    BY DEF Room
  <2>1. PICK s \in {Scope(x)}, others \in SUBSET Ids : s = Scope(x) /\ others = Besides(x)
    BY Zenon DEF Besides
  <2>2. Load(s, others) < MaxConcurrent
    BY <2>1 DEF Room
  <2>3. Load(s, others)' < MaxConcurrent
    BY <2>2, FewerHeld, DeploymentConstants DEF NobodyMore
  <2>4. Scope(x)' = s /\ Besides(x)' = others
    BY <1>1, <2>1
  <2>. QED
    BY <2>3, <2>4 DEF Load
<1>4. ScopeWithinLimit'
  <2> SUFFICES ASSUME NEW s \in ScopeIds PROVE Load(s, Ids)' <= MaxConcurrent
    BY DEF ScopeWithinLimit, ScopeIds
  <2>. QED
    BY FewerHeld, DeploymentConstants DEF NobodyMore, ScopeWithinLimit
<1>. QED
  BY <1>2, <1>3, <1>4

(* With the rows as they were nothing takes up a place.                    *)
LEMMA SameRows == UNCHANGED deployment => NobodyMore
BY DEF NobodyMore, Held

(* What a call does before it has a lock, and after it has failed.         *)
LEMMA CallKeepsQuota ==
  ASSUME QuotaInv, NEW c \in Calls,
         \/ CreateCall(c) \/ LookupKey(c) \/ BeginAdmission(c) \/ LookupWinner(c)
         \/ RetryCall(c) \/ RetryReread(c) \/ Replan(c)
  PROVE  QuotaInv'
<1>0. /\ UNCHANGED <<deployment, anchor>> /\ Shapes
      /\ deployment' \in [Ids -> Deployment] /\ anchor' \in [ScopeIds -> Calls \cup {Nobody}]
  BY Zenon DEF CreateCall, LookupKey, BeginAdmission, LookupWinner, RetryCall, RetryReread, Replan, QuotaInv, Shapes
<1> DEFINE Kept == Shapes' /\ \A x \in Calls : call'[x].at \in Holding => call'[x] = call[x]
<1>1. SUFFICES Kept
  BY <1>0, SameRows, KeepQuota
<1>2. ASSUME Answer(c, "replayed") \/ Answer(c, "conflict") \/ Answer(c, "error") PROVE Kept
  BY Zenon, <1>0, <1>2, AnswerKept DEF Answers
<1>3. ASSUME NEW l, l \notin Holding, Step(c, l),
             \/ call[c].at \in CreateSites /\ l \in CreateSites
             \/ call[c].at \in RetrySites /\ l \in RetrySites
      PROVE  Kept
  BY <1>0, <1>3, StepKept
<1>4. ASSUME NEW k \in CallRecord, k.at \notin Holding, call' = [call EXCEPT ![c] = k],
             k.at \in CreateSites => k.op = "create" /\ k.id \in Ids /\ k.body \in Bodies,
             k.at \in RetrySites => k.op = "retry" /\ k.id \in Ids /\ k.copy \in Stored
      PROVE  Kept
  BY Zenon, <1>0, <1>4, OneCall
<1>5. call[c] \in CallRecord
  BY <1>0 DEF Shapes
<1>. HIDE DEF Kept
<1>6. CASE CreateCall(c)
  <2>1. PICK i \in Ids, b \in Bodies :
          call' = [call EXCEPT ![c] =
              [@ EXCEPT !.op = "create", !.id = i, !.body = b,
                        !.at = IF i \in Keyed THEN "lookup" ELSE "admit"]]
    BY Zenon, <1>6 DEF CreateCall
  <2> DEFINE k == [call[c] EXCEPT !.op = "create", !.id = i, !.body = b,
                        !.at = IF i \in Keyed THEN "lookup" ELSE "admit"]
  <2>2. call' = [call EXCEPT ![c] = k]
    BY <2>1, <1>0 DEF Shapes
  <2>3. k \in CallRecord /\ k.at \in {"lookup", "admit"} /\ k.op = "create" /\ k.id = i /\ k.body = b
    BY Zenon, <1>5 DEF CallRecord, CreateSites
  <2>. HIDE DEF k
  <2>. QED
    BY ZenonT(60), <1>4, <2>2, <2>3 DEF CreateSites, RetrySites, Holding
<1>7. CASE LookupKey(c)
  <2>1. CASE Step(c, "admit")
    BY <1>3, <1>7, <2>1 DEF LookupKey, CreateSites, Holding
  <2>. QED
    BY <1>2, <1>7, <2>1 DEF LookupKey, Replay
<1>8. CASE BeginAdmission(c)
  BY <1>3, <1>8 DEF BeginAdmission, CreateSites, Holding
<1>9. CASE LookupWinner(c)
  BY <1>2, <1>9 DEF LookupWinner, Replay
<1>10. CASE RetryCall(c)
  <2>1. PICK i \in Ids :
          /\ deployment[i].status \in Final
          /\ call' = [call EXCEPT ![c] =
              [@ EXCEPT !.op = "retry", !.id = i, !.copy = deployment[i],
                        !.at = IF deployment[i].sandbox THEN "cleanup" ELSE "replan"]]
    BY Zenon, <1>10 DEF RetryCall
  <2> DEFINE k == [call[c] EXCEPT !.op = "retry", !.id = i, !.copy = deployment[i],
                        !.at = IF deployment[i].sandbox THEN "cleanup" ELSE "replan"]
  <2>2. call' = [call EXCEPT ![c] = k]
    BY <2>1, <1>0 DEF Shapes
  <2>3. deployment[i] \in Stored
    BY <1>0, <2>1, SavedIsStored, StatusKinds DEF Shapes, Saved
  <2>4. deployment[i] \in Deployment
    BY <1>0 DEF Shapes
  <2>5. /\ k \in CallRecord /\ k.at \in {"cleanup", "replan"}
        /\ k.op = "retry" /\ k.id = i /\ k.copy = deployment[i]
    BY Zenon, <1>5, <2>4 DEF CallRecord, RetrySites
  <2>. HIDE DEF k
  <2>. QED
    BY Zenon, <1>4, <2>2, <2>3, <2>5 DEF CreateSites, RetrySites, Holding
<1>11. CASE RetryReread(c)
  <2>1. CASE ~Saved(call[c].id)
    BY <1>2, <1>11, <2>1 DEF RetryReread
  <2>2. CASE Saved(call[c].id)
    <3> DEFINE i == call[c].id
               k == [call[c] EXCEPT !.at = "replan", !.copy = deployment[i]]
    <3>1. i \in Ids /\ call[c].op = "retry"
      BY <1>0, <1>11 DEF RetryReread, Shapes, RetrySites
    <3>2. deployment[i] \in Stored /\ deployment[i] \in Deployment
      BY <1>0, <2>2, <3>1, SavedIsStored DEF Shapes
    <3>3. call' = [call EXCEPT ![c] = k]
      BY Zenon, <1>11, <2>2, <1>0 DEF RetryReread, Shapes
    <3>4. k \in CallRecord /\ k.at = "replan" /\ k.op = "retry" /\ k.id = i /\ k.copy = deployment[i]
      BY ZenonT(60), <1>5, <3>1, <3>2 DEF CallRecord, RetrySites
    <3>. HIDE DEF k
    <3>. QED
      BY Zenon, <1>4, <3>1, <3>2, <3>3, <3>4 DEF CreateSites, Holding
  <2>. QED
    BY <2>1, <2>2
<1>12. CASE Replan(c)
  <2>1. CASE Step(c, "relock")
    BY Zenon, <1>3, <1>12, <2>1 DEF Replan, RetrySites, Holding
  <2>2. ASSUME NEW q \in Plans,
               call' = [call EXCEPT ![c].at = "relock", ![c].copy =
                           [@ EXCEPT !.plan = q, !.sandbox = FALSE]]
        PROVE  Kept
    <3> DEFINE e == [call[c].copy EXCEPT !.plan = q, !.sandbox = FALSE]
               k == [call[c] EXCEPT !.at = "relock", !.copy = e]
    <3>1. call[c].id \in Ids /\ call[c].op = "retry" /\ call[c].copy \in Stored
      BY Zenon, <1>0, <1>12 DEF Replan, Shapes, RetrySites
    <3>2. e \in Stored
      BY Zenon, <3>1 DEF Stored
    <3>. HIDE DEF e
    <3>3. e \in Deployment
      BY <3>2 DEF Deployment
    <3>4. call' = [call EXCEPT ![c] = k]
      BY Zenon, <2>2, <1>0, <1>5 DEF Shapes, CallRecord, e
    <3>5. k \in CallRecord /\ k.at = "relock" /\ k.op = "retry" /\ k.id = call[c].id /\ k.copy = e
      BY Zenon, <1>5, <3>1, <3>3 DEF CallRecord, RetrySites
    <3>. HIDE DEF k
    <3>. QED
      BY Zenon, <1>4, <3>1, <3>2, <3>4, <3>5 DEF CreateSites, Holding
  <2>. QED
    BY Zenon, <1>2, <1>12, <2>1, <2>2 DEF Replan
<1>. QED
  BY Zenon, <1>6, <1>7, <1>8, <1>9, <1>10, <1>11, <1>12

-----------------------------------------------------------------------------
(* Rows that are written or deleted outside an admission                   *)

(* What the worker writes takes no place that the row did not have.        *)
LEMMA MovesKeepAPlace ==
  ASSUME NEW d \in Deployment, NEW e \in Moves(d)
  PROVE  /\ d \in Stored /\ e \in Stored /\ Counts(d)
         /\ e.scope = d.scope /\ e.version = d.version /\ e.rev = d.rev
<1>1. d \in Stored
  BY DEF Deployment, Moves, Absent
<1> DEFINE Fine(x) ==
             x \in Stored /\ x.scope = d.scope /\ x.version = d.version /\ x.rev = d.rev
<1>2. /\ \A st \in {"queued", "busy"} \cup Final : Fine([d EXCEPT !.status = st])
      /\ Fine([d EXCEPT !.sandbox = TRUE])
      /\ \A st \in Final : Fine([d EXCEPT !.status = st, !.sandbox = FALSE])
  BY Zenon, <1>1 DEF Stored
<1>. HIDE DEF Fine
<1>3. ASSUME d.status = "queued" PROVE Fine(e) /\ Counts(d)
  <2>1. e \in {[d EXCEPT !.status = "busy"],
               [d EXCEPT !.status = "ended"]}
    BY <1>3 DEF Moves
  <2>. QED
    BY <1>2, <1>3, <2>1 DEF Counts, Final
<1>4. ASSUME d.status = "busy" /\ ~d.sandbox PROVE Fine(e) /\ Counts(d)
  <2>1. e \in {[d EXCEPT !.sandbox = TRUE],
               [d EXCEPT !.status = "queued"],
               [d EXCEPT !.status = "failed"],
               [d EXCEPT !.status = "ended"]}
    BY <1>4 DEF Moves
  <2>. QED
    BY Zenon, <1>2, <1>4, <2>1 DEF Counts, Final
<1>5. ASSUME d.status = "busy" /\ d.sandbox PROVE Fine(e) /\ Counts(d)
  <2>1. e \in {[d EXCEPT !.status = "failed"],
               [d EXCEPT !.status = "failed", !.sandbox = FALSE],
               [d EXCEPT !.status = "ended", !.sandbox = FALSE]}
    BY <1>5 DEF Moves
  <2>. QED
    BY <1>2, <1>5, <2>1 DEF Counts, Final
<1>6. ASSUME d.status = "failed" /\ d.sandbox PROVE Fine(e) /\ Counts(d)
  <2>1. e \in {[d EXCEPT !.status = "busy"]}
    BY <1>6 DEF Moves
  <2>. QED
    BY <1>2, <1>6, <2>1 DEF Counts, Final
<1>7. d.status = "queued" \/ (d.status = "busy" /\ ~d.sandbox) \/ (d.status = "busy" /\ d.sandbox)
        \/ (d.status = "failed" /\ d.sandbox)
  BY DEF Moves
<1>8. Fine(e) /\ Counts(d)
  BY <1>3, <1>4, <1>5, <1>6, <1>7
<1>. QED
  BY <1>1, <1>8 DEF Fine

(* An update that keeps the row's scope and takes no new place.            *)
LEMMA RowKeepsQuota ==
  ASSUME QuotaInv, NEW i \in Ids, NEW d \in Stored, UpdateRow(i, d),
         d.scope = deployment[i].scope, d.version = deployment[i].version,
         Counts(d) => Counts(deployment[i])
  PROVE  deployment' \in [Ids -> Deployment] /\ NobodyMore
<1> DEFINE e == [d EXCEPT !.version = @ + 1]
<1>1. e \in Stored /\ e.scope = d.scope /\ e.status = d.status /\ e.sandbox = d.sandbox
  BY DeploymentConstants DEF UpdateRow, Stored
<1>2. deployment' = [deployment EXCEPT ![i] = e]
  BY DEF UpdateRow
<1>. HIDE DEF e
<1>3. e \in Deployment /\ deployment \in [Ids -> Deployment]
  BY <1>1 DEF Deployment, QuotaInv, Shapes
<1>4. deployment' \in [Ids -> Deployment] /\ deployment'[i] = e /\ \A j \in Ids : j # i => deployment'[j] = deployment[j]
  BY <1>2, <1>3
<1>5. Counts(e) => Counts(deployment[i])
  BY <1>1 DEF Counts
<1>. QED
  BY <1>1, <1>4, <1>5 DEF NobodyMore, Held

(* What the worker, a retry's cleanup and the pruner write.                *)
LEMMA WritesKeepQuota ==
  ASSUME QuotaInv,
         \/ \E i \in Ids : OperationWrites(i)
         \/ \E c \in Calls : RetryCleanup(c)
         \/ DeletePruned
  PROVE  QuotaInv'
<1>0. Shapes /\ UNCHANGED anchor /\ anchor' \in [ScopeIds -> Calls \cup {Nobody}]
  BY Zenon DEF OperationWrites, RetryCleanup, DeletePruned, QuotaInv, Shapes
<1>1. ASSUME NEW i \in Ids, OperationWrites(i) PROVE QuotaInv'
  <2>1. PICK d \in Moves(deployment[i]) : UpdateRow(i, d)
    BY <1>1 DEF OperationWrites
  <2>2. deployment[i] \in Deployment
    BY <1>0 DEF Shapes
  <2>3. d \in Stored /\ d.scope = deployment[i].scope /\ d.version = deployment[i].version /\ Counts(deployment[i])
    BY <2>2, MovesKeepAPlace
  <2>4. deployment' \in [Ids -> Deployment] /\ NobodyMore
    BY Zenon, <2>1, <2>3, RowKeepsQuota
  <2>5. Shapes' /\ UNCHANGED call
    BY SMTT(30), <1>0, <1>1, <2>4 DEF OperationWrites, Shapes
  <2>. QED
    BY <1>0, <2>4, <2>5, KeepQuota
<1>2. ASSUME NEW c \in Calls, RetryCleanup(c) PROVE QuotaInv'
  <2> DEFINE i == call[c].id
  <2>1. i \in Ids /\ call[c].at = "cleanup"
    BY Zenon, <1>0, <1>2 DEF RetryCleanup, Shapes, RetrySites
  <2>2. CASE Answer(c, "error") /\ UNCHANGED deployment
    <3>1. Shapes' /\ \A x \in Calls : call'[x].at \in Holding => call'[x] = call[x]
      <4>1. "error" \in Answers /\ deployment' \in [Ids -> Deployment]
        BY <1>0, <2>2 DEF Answers, Shapes
      <4>. QED
        BY <1>0, <2>2, <4>1, AnswerKept
    <3>. QED
      BY Zenon, <1>0, <2>2, <3>1, SameRows, KeepQuota
  <2>3. ASSUME Step(c, "reread"), deployment' \in [Ids -> Deployment], NobodyMore
        PROVE  QuotaInv'
    <3>1. Shapes' /\ call'[c].at = "reread" /\ \A x \in Calls : x # c => call'[x] = call[x]
      <4>1. call[c].at \in RetrySites /\ "reread" \in RetrySites
        BY <2>1 DEF RetrySites
      <4>. QED
        BY <1>0, <2>3, <4>1, StepKept
    <3>2. "reread" \notin Holding
      BY DEF Holding
    <3>. QED
      BY <1>0, <2>3, <3>1, <3>2, KeepQuota
  <2>4. CASE Step(c, "reread") /\ UNCHANGED deployment
    BY <1>0, <2>3, <2>4, SameRows DEF Shapes
  <2>5. ASSUME Step(c, "reread"), Saved(i), NEW st \in Final,
               UpdateRow(i, [deployment[i] EXCEPT !.status = st, !.sandbox = FALSE])
        PROVE  QuotaInv'
    <3> DEFINE d == [deployment[i] EXCEPT !.status = st, !.sandbox = FALSE]
    <3>1. deployment[i] \in Stored
      BY <1>0, <2>1, <2>5, SavedIsStored
    <3>2. /\ d \in Stored /\ d.scope = deployment[i].scope /\ d.version = deployment[i].version
          /\ d.status = st /\ d.sandbox = FALSE
      BY ZenonT(60), <3>1 DEF Stored
    <3>3. UpdateRow(i, d)
      BY <2>5
    <3>. HIDE DEF d
    <3>4. ~Counts(d)
      BY <3>2 DEF Counts, Final
    <3>. QED
      BY <2>1, <2>3, <2>5, <3>2, <3>3, <3>4, RowKeepsQuota
  <2>. QED
    BY ZenonT(60), <1>2, <2>2, <2>4, <2>5 DEF RetryCleanup
<1>3. ASSUME DeletePruned PROVE QuotaInv'
  <2>1. /\ deployment' \in [Ids -> Deployment]
        /\ \A i \in Ids : deployment'[i] \in {Absent, deployment[i]}
    BY <1>0, <1>3 DEF DeletePruned, Shapes, Deployment
  <2>2. ~Counts(Absent)
    BY DEF Counts, Absent
  <2>3. NobodyMore
    BY <2>1, <2>2 DEF NobodyMore, Held
  <2>4. Shapes' /\ UNCHANGED call
    BY <1>0, <1>3, <2>1 DEF DeletePruned, Shapes
  <2>. QED
    BY <1>0, <2>3, <2>4, KeepQuota
<1>. QED
  BY SMTT(30), <1>1, <1>2, <1>3

-----------------------------------------------------------------------------
(* Admissions                                                              *)

(* The count and the lock in one step: whoever holds another lock holds    *)
(* that of another scope, and the count is what Room says.                 *)
LEMMA LockKeepsQuota ==
  ASSUME QuotaInv, NEW c \in Calls, LockScope(c)
  PROVE  QuotaInv'
<1>0. /\ Shapes /\ UNCHANGED deployment /\ deployment' \in [Ids -> Deployment]
      /\ anchor \in [ScopeIds -> Calls \cup {Nobody}]
      /\ call[c].at \in {"lock", "relock"} /\ anchor[Scope(c)] = Nobody
  BY DEF LockScope, AnchorFree, QuotaInv, Shapes
<1>1. call[c].at = "lock" => call[c].at \in CreateSites /\ {"insert", "again"} \subseteq CreateSites
  BY DEF CreateSites
<1>2. call[c].at = "relock" => call[c].at \in RetrySites /\ "requeue" \in RetrySites
  BY DEF RetrySites
<1>3. Scope(c) \in ScopeIds
  BY <1>0, <1>1, <1>2, ScopeTyped
<1>4. CASE UNCHANGED anchor
  <2>1. ASSUME NEW a \in Answers, Answer(c, a) PROVE QuotaInv'
    <3>1. Shapes' /\ \A x \in Calls : call'[x].at \in Holding => call'[x] = call[x]
      BY <1>0, <1>4, <2>1, AnswerKept
    <3>. QED
      BY <1>0, <1>4, <3>1, SameRows, KeepQuota
  <2>2. ASSUME call[c].at = "lock", Step(c, "again") PROVE QuotaInv'
    <3>1. Shapes' /\ call'[c].at = "again" /\ \A x \in Calls : x # c => call'[x] = call[x]
      BY <1>0, <1>1, <1>4, <2>2, StepKept
    <3>2. "again" \notin Holding
      BY DEF Holding
    <3>. QED
      BY Zenon, <1>0, <1>4, <3>1, <3>2, SameRows, KeepQuota
  <2>3. anchor' # [anchor EXCEPT ![Scope(c)] = c]
    BY <1>0, <1>3, <1>4, DeploymentConstants DEF Nobody
  <2>4. Answer(c, "quota") \/ Answer(c, "error") \/ (call[c].at = "lock" /\ Step(c, "again"))
    BY <2>3 DEF LockScope
  <2>5. "quota" \in Answers /\ "error" \in Answers
    BY DEF Answers
  <2>. QED
    BY <2>1, <2>2, <2>4, <2>5
<1>5. CASE /\ Load(Scope(c), IF call[c].at = "lock" THEN Ids ELSE Ids \ {call[c].id}) < MaxConcurrent
           /\ Step(c, IF call[c].at = "lock" THEN "insert" ELSE "requeue")
           /\ anchor' = [anchor EXCEPT ![Scope(c)] = c]
  <2>1. /\ anchor' \in [ScopeIds -> Calls \cup {Nobody}] /\ anchor'[Scope(c)] = c
        /\ \A s \in ScopeIds : s # Scope(c) => anchor'[s] = anchor[s]
    BY Zenon, <1>0, <1>3, <1>5
  <2>2. /\ Shapes' /\ Scope(c)' = Scope(c) /\ call'[c].id = call[c].id
        /\ call'[c].at = IF call[c].at = "lock" THEN "insert" ELSE "requeue"
        /\ \A x \in Calls : x # c => call'[x] = call[x]
    BY Zenon, <1>0, <1>1, <1>2, <1>5, <2>1, StepKept
  <2>3. ASSUME NEW x \in Calls, call'[x].at \in Holding, x # c
        PROVE  /\ call'[x] = call[x] /\ Scope(x)' = Scope(x) /\ Besides(x)' = Besides(x)
               /\ Scope(x) \in ScopeIds /\ anchor[Scope(x)] = x /\ Scope(x) # Scope(c)
    <3>1. call'[x] = call[x]
      BY <2>2, <2>3
    <3>2. Scope(x)' = Scope(x) /\ Besides(x)' = Besides(x)
      BY <3>1 DEF Scope, Besides
    <3>3. Scope(x) \in ScopeIds /\ anchor[Scope(x)] = x
      BY Zenon, <1>0, <2>3, <3>1, ScopeTyped DEF Holding, CreateSites, RetrySites, QuotaInv, Locked
    <3>. QED
      BY <1>0, <3>1, <3>2, <3>3, DeploymentConstants DEF Nobody
  <2>4. Locked'
    <3> SUFFICES ASSUME NEW x \in Calls, call'[x].at \in Holding PROVE anchor'[Scope(x)'] = x
      BY DEF Locked
    <3>. QED
      BY <2>1, <2>2, <2>3
  <2>5. Room'
    <3> SUFFICES ASSUME NEW x \in Calls, call'[x].at \in Holding
                 PROVE  Load(Scope(x), Besides(x))' < MaxConcurrent
      BY DEF Room
    <3>1. CASE x # c
      BY SMTT(30), <1>0, <2>3, <3>1 DEF QuotaInv, Room, Load
    <3>2. CASE x = c
      <4>1. Besides(c)' = IF call[c].at = "lock" THEN Ids ELSE Ids \ {call[c].id}
        BY <2>2 DEF Besides
      <4>. QED
        BY Zenon, <1>0, <1>5, <2>2, <3>2, <4>1 DEF Load
    <3>. QED
      BY <3>1, <3>2
  <2>6. ScopeWithinLimit'
    BY <1>0 DEF QuotaInv, ScopeWithinLimit, Load
  <2>. QED
    BY <2>2, <2>4, <2>5, <2>6 DEF QuotaInv
<1>. QED
  BY <1>4, <1>5 DEF LockScope

(* Two calls with locks have those of two scopes.                          *)
LEMMA OtherScopes ==
  ASSUME QuotaInv, NEW c \in Calls, NEW x \in Calls, x # c,
         call[c].at \in Holding, call[x].at \in Holding
  PROVE  Scope(c) \in ScopeIds /\ Scope(x) \in ScopeIds /\ Scope(x) # Scope(c)
<1>1. Scope(c) \in ScopeIds /\ Scope(x) \in ScopeIds
  BY ScopeTyped DEF Holding, CreateSites, RetrySites, QuotaInv
<1>2. anchor[Scope(c)] = c /\ anchor[Scope(x)] = x
  BY DEF QuotaInv, Locked
<1>. QED
  BY <1>1, <1>2

(* The end of an admission, with one row more in its scope.                *)
LEMMA AdmitKeepsQuota ==
  ASSUME QuotaInv, Shapes', NEW c \in Calls, NEW i \in Ids, NEW others \in SUBSET Ids,
         \A j \in Ids : j \in others <=> j # i,
         call[c].at \in Holding, call'[c].at \notin Holding,
         \A x \in Calls : x # c => call'[x] = call[x],
         \A s \in ScopeIds : s # Scope(c) => anchor'[s] = anchor[s],
         \A j \in others : deployment'[j] = deployment[j],
         deployment'[i].scope = Scope(c), Load(Scope(c), others) < MaxConcurrent
  PROVE  QuotaInv'
<1>1. ASSUME NEW x \in Calls, call'[x].at \in Holding
      PROVE  /\ call[x].at \in Holding /\ Scope(x)' = Scope(x) /\ Besides(x)' = Besides(x)
             /\ Scope(x) \in ScopeIds /\ Scope(x) # Scope(c) /\ anchor'[Scope(x)] = x
  <2>1. call'[x] = call[x] /\ x # c
    BY <1>1
  <2>2. Scope(x)' = Scope(x) /\ Besides(x)' = Besides(x)
    BY <2>1 DEF Scope, Besides
  <2>3. Scope(x) \in ScopeIds /\ Scope(x) # Scope(c)
    BY <1>1, <2>1, OtherScopes
  <2>4. anchor[Scope(x)] = x
    BY <1>1, <2>1 DEF QuotaInv, Locked
  <2>. QED
    BY <1>1, <2>1, <2>2, <2>3, <2>4
<1>2. \A s \in ScopeIds : s # Scope(c) => \A some \in SUBSET Ids : Held(s, some)' \subseteq Held(s, some)
  BY DEF Held
<1>3. Locked'
  BY <1>1 DEF Locked
<1>4. Room'
  <2> SUFFICES ASSUME NEW x \in Calls, call'[x].at \in Holding
               PROVE  Load(Scope(x), Besides(x))' < MaxConcurrent
    BY DEF Room
  <2>1. Besides(x) \in SUBSET Ids
    BY DEF Besides
  <2>2. PICK s \in ScopeIds, some \in SUBSET Ids : s = Scope(x) /\ some = Besides(x)
    BY Zenon, <1>1, <2>1
  <2>3. Load(s, some) < MaxConcurrent
    BY Zenon, <1>1, <2>2 DEF QuotaInv, Room
  <2>4. Load(s, some)' < MaxConcurrent
    BY SMTT(30), <1>1, <1>2, <2>2, <2>3, FewerHeld, DeploymentConstants
  <2>5. Scope(x)' = s /\ Besides(x)' = some
    BY Zenon, <1>1, <2>2
  <2>. QED
    BY Zenon, <2>4, <2>5 DEF Load
<1>5. ScopeWithinLimit'
  <2> SUFFICES ASSUME NEW s \in ScopeIds PROVE Load(s, Ids)' <= MaxConcurrent
    BY DEF ScopeWithinLimit, ScopeIds
  <2>1. CASE s # Scope(c)
    <3>1. Load(s, Ids) <= MaxConcurrent
      BY DEF QuotaInv, ScopeWithinLimit
    <3>. QED
      BY <1>2, <2>1, <3>1, FewerHeld, DeploymentConstants
  <2>2. CASE s = Scope(c)
    <3>1. Held(s, others)' \subseteq Held(s, others) /\ Held(s, Ids)' \subseteq Held(s, others)' \cup {i}
      BY DEF Held
    <3>2. Load(s, Ids)' \in Nat /\ Load(s, others) \in Nat /\ Load(s, Ids)' <= Load(s, others) + 1
      BY <3>1, OneMoreHeld
    <3>. QED
      BY <2>2, <3>2, DeploymentConstants
  <2>. QED
    BY <2>1, <2>2
<1>. QED
  BY Zenon, <1>3, <1>4, <1>5 DEF QuotaInv

(* An admission that ends without a row.                                   *)
LEMMA ReleaseKeepsQuota ==
  ASSUME QuotaInv, NEW c \in Calls, call[c].at \in Holding, UNCHANGED deployment,
         anchor' \in [ScopeIds -> Calls \cup {Nobody}],
         \A s \in ScopeIds : s # Scope(c) => anchor'[s] = anchor[s],
         \/ \E a \in Answers : Answer(c, a)
         \/ call[c].at = "insert" /\ Step(c, "again")
  PROVE  QuotaInv'
<1>1. Shapes
  BY DEF QuotaInv
<1>2. deployment \in [Ids -> Deployment]
  BY <1>1 DEF Shapes
<1>3. deployment' \in [Ids -> Deployment]
  BY <1>2
<1>4. Shapes' /\ call'[c].at \notin Holding /\ \A x \in Calls : x # c => call'[x] = call[x]
  <2>1. CASE \E a \in Answers : Answer(c, a)
    BY Zenon, <1>1, <1>3, <2>1, AnswerKept
  <2>2. CASE call[c].at = "insert" /\ Step(c, "again")
    <3>1. {"insert", "again"} \subseteq CreateSites /\ "again" \notin Holding
      BY DEF CreateSites, Holding
    <3>. QED
      BY Zenon, <1>1, <1>3, <2>2, <3>1, StepKept
  <2>. QED
    BY Zenon, <2>1, <2>2
<1>5. ASSUME NEW x \in Calls, call'[x].at \in Holding
      PROVE  call'[x] = call[x] /\ anchor'[Scope(x)] = anchor[Scope(x)]
  <2>1. call'[x] = call[x] /\ x # c
    BY Zenon, <1>4, <1>5
  <2>2. Scope(x) \in ScopeIds /\ Scope(x) # Scope(c)
    BY <1>5, <2>1, OtherScopes
  <2>. QED
    BY Zenon, <1>2, <2>1, <2>2
<1>. QED
  BY Zenon, <1>4, <1>5, SameRows, KeepQuota

(* createDeployment: the count under the lock leaves room for the row.     *)
LEMMA InsertKeepsQuota ==
  ASSUME QuotaInv, NEW c \in Calls, InsertDeployment(c)
  PROVE  QuotaInv'
<1>1. /\ Shapes /\ call[c].at = "insert" /\ call[c].at \in Holding
  BY DEF QuotaInv, InsertDeployment, Holding
<1>2. call[c].id \in Ids /\ call[c].body \in Bodies /\ Scope(c) \in ScopeIds
  BY Zenon, <1>1, ScopeTyped DEF Shapes, CreateSites
<1>0. /\ anchor' \in [ScopeIds -> Calls \cup {Nobody}]
      /\ \A s \in ScopeIds : s # Scope(c) => anchor'[s] = anchor[s]
  BY Zenon, <1>1, <1>2 DEF InsertDeployment, Shapes
<1>3. ASSUME ~Saved(call[c].id), NEW p \in Plans, Answer(c, "created"),
             deployment' = [deployment EXCEPT ![call[c].id] =
                [status |-> "queued", sandbox |-> FALSE, rev |-> 1, version |-> 0,
                 body |-> call[c].body, scope |-> Scope(c), plan |-> p]]
      PROVE  QuotaInv'
  <2> DEFINE d == [status |-> "queued", sandbox |-> FALSE, rev |-> 1, version |-> 0,
                   body |-> call[c].body, scope |-> Scope(c), plan |-> p]
  <2>1. d \in Stored /\ d.scope = Scope(c)
    BY <1>2, DeploymentConstants DEF Stored
  <2>2. deployment' = [deployment EXCEPT ![call[c].id] = d]
    BY <1>3
  <2>. HIDE DEF d
  <2>3. d \in Deployment /\ deployment \in [Ids -> Deployment]
    BY <1>1, <2>1 DEF Deployment, Shapes
  <2>4. PICK i \in Ids : i = call[c].id
    BY <1>2
  <2>5. /\ deployment' \in [Ids -> Deployment] /\ deployment'[i] = d
        /\ \A j \in Ids : j # i => deployment'[j] = deployment[j]
    BY Zenon, <2>2, <2>3, <2>4
  <2>6. Answer(c, "created")
    BY Zenon, <1>3
  <2>7. Shapes' /\ call'[c].at \notin Holding /\ \A x \in Calls : x # c => call'[x] = call[x]
    <3>1. "created" \in Answers
      BY DEF Answers
    <3>. QED
      BY Zenon, <1>0, <1>1, <2>5, <2>6, <3>1, AnswerKept
  <2>8. Ids \ {i} \in SUBSET Ids
    OBVIOUS
  <2>9. PICK others \in SUBSET Ids : others = Ids \ {i}
    BY <2>8, Zenon
  <2>10. Load(Scope(c), others) < MaxConcurrent
    <3>1. Load(Scope(c), Ids) < MaxConcurrent
      <4>1. Besides(c) = Ids
        BY <1>1 DEF Besides
      <4>2. Load(Scope(c), Besides(c)) < MaxConcurrent
        BY Zenon, <1>1 DEF QuotaInv, Room
      <4>. QED
        BY <4>1, <4>2
    <3>2. ~Counts(deployment[i])
      BY <1>3, <2>4 DEF Saved, Absent, Counts
    <3>3. {j \in others : deployment[j].scope = Scope(c) /\ Counts(deployment[j])}
            = {j \in Ids : deployment[j].scope = Scope(c) /\ Counts(deployment[j])}
      BY Zenon, <2>9, <3>2
    <3>. QED
      BY <3>1, <3>3 DEF Load
  <2>. QED
    BY Zenon, <1>0, <1>1, <2>1, <2>5, <2>7, <2>9, <2>10, AdmitKeepsQuota
<1>4. CASE Saved(call[c].id) /\ Step(c, "again") /\ UNCHANGED deployment
  BY Zenon, <1>0, <1>1, <1>4, ReleaseKeepsQuota
<1>5. CASE Answer(c, "error") /\ UNCHANGED deployment
  <2>1. \E a \in Answers : Answer(c, a)
    BY <1>5 DEF Answers
  <2>. QED
    BY Zenon, <1>0, <1>1, <1>5, <2>1, ReleaseKeepsQuota
<1>6. \/ /\ ~Saved(call[c].id) /\ Answer(c, "created")
         /\ \E p \in Plans : deployment' = [deployment EXCEPT ![call[c].id] =
                [status |-> "queued", sandbox |-> FALSE, rev |-> 1, version |-> 0,
                 body |-> call[c].body, scope |-> Scope(c), plan |-> p]]
      \/ Saved(call[c].id) /\ Step(c, "again") /\ UNCHANGED deployment
      \/ Answer(c, "error") /\ UNCHANGED deployment
  BY Zenon DEF InsertDeployment
<1>. QED
  BY <1>3, <1>4, <1>5, <1>6, ZenonT(60)

(* A stored row with one field changed.                                    *)
LEMMA OneField ==
  ASSUME NEW k \in Stored
  PROVE  /\ [k EXCEPT !.status = "queued"] \in Stored
         /\ [k EXCEPT !.status = "queued"].scope = k.scope
         /\ \A b \in BOOLEAN : [k EXCEPT !.sandbox = b] \in Stored /\ [k EXCEPT !.sandbox = b].scope = k.scope
         /\ \A n \in Nat \ {0} : [k EXCEPT !.rev = n] \in Stored /\ [k EXCEPT !.rev = n].scope = k.scope
         /\ \A v \in 0 .. MaxVersions :
               [k EXCEPT !.version = v] \in Stored /\ [k EXCEPT !.version = v].scope = k.scope
<1>1. [k EXCEPT !.status = "queued"] \in Stored /\ [k EXCEPT !.status = "queued"].scope = k.scope
  BY DEF Stored
<1>2. ASSUME NEW b \in BOOLEAN PROVE [k EXCEPT !.sandbox = b] \in Stored /\ [k EXCEPT !.sandbox = b].scope = k.scope
  BY DEF Stored
<1>3. ASSUME NEW n \in Nat \ {0} PROVE [k EXCEPT !.rev = n] \in Stored /\ [k EXCEPT !.rev = n].scope = k.scope
  BY DEF Stored
<1>4. ASSUME NEW v \in 0 .. MaxVersions
      PROVE  [k EXCEPT !.version = v] \in Stored /\ [k EXCEPT !.version = v].scope = k.scope
  BY SMTT(30) DEF Stored
<1>. QED
  BY <1>1, <1>2, <1>3, <1>4, Zenon

(* retryDeployment: the count leaves out the row that is queued again.     *)
LEMMA RequeueKeepsQuota ==
  ASSUME QuotaInv, NEW c \in Calls, RequeueDeployment(c)
  PROVE  QuotaInv'
<1>1. /\ Shapes /\ call[c].at = "requeue" /\ call[c].at \in Holding
  BY DEF QuotaInv, RequeueDeployment, Holding
<1>2. /\ call[c].id \in Ids /\ call[c].op = "retry" /\ call[c].copy \in Stored
      /\ Scope(c) \in ScopeIds /\ Scope(c) = call[c].copy.scope
  <2>1. call[c].id \in Ids /\ call[c].op = "retry" /\ call[c].copy \in Stored
    BY Zenon, <1>1 DEF Shapes, RetrySites
  <2>2. Scope(c) \in ScopeIds
    BY Zenon, <1>1, ScopeTyped DEF RetrySites
  <2>. QED
    BY <2>1, <2>2 DEF Scope
<1>0. /\ anchor' \in [ScopeIds -> Calls \cup {Nobody}]
      /\ \A s \in ScopeIds : s # Scope(c) => anchor'[s] = anchor[s]
  BY Zenon, <1>1, <1>2 DEF RequeueDeployment, Shapes
<1>3. ASSUME Unmoved(c), AddRevision(c), Answer(c, "requeued") PROVE QuotaInv'
  <2>1. PICK i \in Ids : i = call[c].id
    BY <1>2
  <2>2. deployment[i] \in Stored
    BY Zenon, <1>1, <1>3, <2>1, SavedIsStored DEF Unmoved
  <2> DEFINE d == [call[c].copy EXCEPT !.status = "queued", !.sandbox = FALSE,
                       !.rev = deployment[i].rev + 1, !.version = @ + 1]
  <2>3. d.version <= MaxVersions /\ deployment' = [deployment EXCEPT ![i] = d]
    BY <1>3, <2>1 DEF AddRevision
  <2>4. d \in Stored /\ d.scope = Scope(c)
    <3>1. PICK k \in Stored, n \in Nat \ {0} : k = call[c].copy /\ n = deployment[i].rev + 1
      BY <1>2, <2>2 DEF Stored
    <3>2. k.version \in Nat /\ d.version = k.version + 1
      BY <3>1, DeploymentConstants DEF Stored
    <3>3. PICK v \in 0 .. MaxVersions : v = k.version + 1
      BY <2>3, <3>2, DeploymentConstants
    <3>4. d = [k EXCEPT !.status = "queued", !.sandbox = FALSE, !.rev = n, !.version = v]
      BY <3>1, <3>3
    <3>5. k.scope = Scope(c)
      BY <1>2, <3>1
    <3>. HIDE DEF d
    <3>6. PICK k1 \in Stored : k1 = [k EXCEPT !.status = "queued"] /\ k1.scope = k.scope
      BY OneField, Zenon
    <3>7. PICK k2 \in Stored : k2 = [k1 EXCEPT !.sandbox = FALSE] /\ k2.scope = k1.scope
      BY OneField, Zenon
    <3>8. PICK k3 \in Stored : k3 = [k2 EXCEPT !.rev = n] /\ k3.scope = k2.scope
      BY OneField, Zenon
    <3>9. PICK k4 \in Stored : k4 = [k3 EXCEPT !.version = v] /\ k4.scope = k3.scope
      BY OneField, ZenonT(60)
    <3>10. d = k4
      BY <3>4, <3>6, <3>7, <3>8, <3>9, Zenon
    <3>. QED
      BY <3>5, <3>6, <3>7, <3>8, <3>9, <3>10, ZenonT(30)
  <2>. HIDE DEF d
  <2>5. d \in Deployment /\ deployment \in [Ids -> Deployment]
    BY <1>1, <2>4 DEF Deployment, Shapes
  <2>6. /\ deployment' \in [Ids -> Deployment] /\ deployment'[i] = d
        /\ \A j \in Ids : j # i => deployment'[j] = deployment[j]
    BY <2>3, <2>5
  <2>7. Answer(c, "requeued")
    BY Zenon, <1>3
  <2>8. Shapes' /\ call'[c].at \notin Holding /\ \A x \in Calls : x # c => call'[x] = call[x]
    <3>1. "requeued" \in Answers
      BY DEF Answers
    <3>. QED
      BY <1>0, <1>1, <2>6, <2>7, <3>1, AnswerKept
  <2>9. Besides(c) \in SUBSET Ids /\ \A j \in Ids : j \in Besides(c) <=> j # i
    BY <1>1, <2>1 DEF Besides
  <2>10. PICK others \in SUBSET Ids : others = Besides(c)
    BY <2>9
  <2>11. Load(Scope(c), others) < MaxConcurrent
    BY Zenon, <1>1, <2>10 DEF QuotaInv, Room
  <2>. QED
    BY Zenon, <1>0, <1>1, <2>4, <2>6, <2>8, <2>9, <2>10, <2>11, AdmitKeepsQuota
<1>4. ASSUME Answer(c, "conflict") \/ Answer(c, "error"), UNCHANGED deployment PROVE QuotaInv'
  <2>1. \E a \in Answers : Answer(c, a)
    BY <1>4 DEF Answers
  <2>. QED
    BY Zenon, <1>0, <1>1, <1>4, <2>1, ReleaseKeepsQuota
<1>. QED
  BY Zenon, <1>3, <1>4 DEF RequeueDeployment

-----------------------------------------------------------------------------
(* The theorem                                                             *)

(* A row of an earlier version, once it is numbered.                       *)
LEMMA NumberedIsStored ==
  ASSUME NEW d \in {Absent} \cup OldRow
  PROVE  Numbered(d) \in Deployment
<1>1. CASE d = Absent
  BY <1>1 DEF Numbered, Deployment
<1>2. CASE d \in OldRow
  <2>1. [d EXCEPT !.rev = 1] \in Stored
    BY <1>2, DeploymentConstants DEF OldRow, Stored
  <2>2. d.rev \in {0, 1} /\ (d.rev = 1 => d \in Stored)
    BY <1>2, DeploymentConstants DEF OldRow, Stored
  <2>. QED
    BY <2>1, <2>2 DEF Numbered, Deployment
<1>. QED
  BY <1>1, <1>2

(* The tables a runnerd starts on are within the limit.                    *)
LEMMA QuotaInit == DeploymentsInit => QuotaInv
<1> SUFFICES ASSUME DeploymentsInit PROVE QuotaInv
  OBVIOUS
<1>1. deployment \in [Ids -> Deployment]
  <2>1. PICK old \in [Ids -> {Absent} \cup OldRow] : deployment = [i \in Ids |-> Numbered(old[i])]
    BY DEF DeploymentsInit, StartOn
  <2>. QED
    BY <2>1, NumberedIsStored
<1>2. anchor \in [ScopeIds -> Calls \cup {Nobody}]
  BY DEF DeploymentsInit
<1>3. NoCall \in CallRecord /\ Passed \in CallRecord /\ NoCall.at = "idle" /\ Passed.at = "done"
  <2>1. Absent \in Deployment
    BY Zenon DEF Deployment
  <2>. QED
    BY <2>1 DEF NoCall, Passed, CallRecord, Answers
<1>4. call \in [Calls -> CallRecord] /\ \A c \in Calls : call[c].at \in {"idle", "done"}
  BY <1>3 DEF DeploymentsInit
<1>5. {"idle", "done"} \cap (CreateSites \cup RetrySites \cup Holding) = {}
  BY DEF CreateSites, RetrySites, Holding
<1>6. Shapes
  BY Zenon, <1>1, <1>2, <1>4, <1>5 DEF Shapes
<1>7. Locked /\ Room
  BY Zenon, <1>4, <1>5 DEF Locked, Room
<1>8. ScopeWithinLimit
  BY DEF DeploymentsInit, ScopeWithinLimit
<1>. QED
  BY <1>6, <1>7, <1>8 DEF QuotaInv

(* Every step keeps the invariant.                                         *)
LEMMA QuotaStep == QuotaInv /\ [DeploymentsNext]_deploymentVars => QuotaInv'
<1> SUFFICES ASSUME QuotaInv, [DeploymentsNext]_deploymentVars PROVE QuotaInv'
  OBVIOUS
<1>1. ASSUME UNCHANGED <<deployment, anchor, call>> PROVE QuotaInv'
  <2>1. Shapes'
    BY <1>1 DEF QuotaInv, Shapes
  <2>. QED
    BY Zenon, <1>1, <2>1, SameRows, KeepQuota
<1>2. ASSUME NEW c \in Calls, CreateSteps(c) \/ RetrySteps(c) \/ LockScope(c) PROVE QuotaInv'
  BY Zenon, <1>2, CallKeepsQuota, WritesKeepQuota, LockKeepsQuota, InsertKeepsQuota, RequeueKeepsQuota
     DEF CreateSteps, RetrySteps
<1>3. ASSUME NEW i \in Ids, OperationReads(i) \/ OperationWrites(i) \/ OperationReturns(i) \/ Emit(i)
      PROVE  QuotaInv'
  BY <1>1, <1>3, WritesKeepQuota DEF OperationReads, OperationReturns, Emit
<1>4. ASSUME SelectPrunable \/ DeletePruned PROVE QuotaInv'
  BY <1>1, <1>4, WritesKeepQuota DEF SelectPrunable
<1>5. ASSUME UNCHANGED deploymentVars PROVE QuotaInv'
  BY <1>1, <1>5 DEF deploymentVars
<1>. QED
  BY <1>2, <1>3, <1>4, <1>5 DEF DeploymentsNext

(* checkDeploymentQuota keeps its promise for any number of concurrent     *)
(* creations and retries: the deployments that hold a place of a scope     *)
(* never outnumber DeploymentMaxConcurrent.                                *)
THEOREM DeploymentQuota == DeploymentsSpec => []ScopeWithinLimit
<1>1. QuotaInv => ScopeWithinLimit
  BY DEF QuotaInv
<1>. QED
  BY QuotaInit, QuotaStep, <1>1, PTL DEF DeploymentsSpec

-----------------------------------------------------------------------------
(* Answers                                                                 *)

(* A step that answers nobody.                                             *)
LEMMA Unanswered ==
  ASSUME \A x \in Calls : call'[x].answer = call[x].answer
  PROVE  \A x \in Calls : OwnAnswer(x)
BY DEF OwnAnswer

(* A step of a call on its way tells it nothing.                           *)
LEMMA StepTellsNothing ==
  ASSUME Shapes, NEW c \in Calls, NEW l, Step(c, l)
  PROVE  \A x \in Calls : OwnAnswer(x)
<1>1. call[c] \in CallRecord /\ \A x \in Calls : x # c => call'[x] = call[x]
  BY DEF Shapes, Step
<1>2. call'[c] = [call[c] EXCEPT !.at = l]
  BY DEF Shapes, Step
<1>3. call'[c].answer = call[c].answer
  BY <1>1, <1>2 DEF CallRecord
<1>. QED
  BY <1>1, <1>3, Unanswered

(* One call is answered, and the others are not.                           *)
LEMMA OneAnswer ==
  ASSUME Shapes, NEW c \in Calls, NEW a, Answer(c, a),
         a \in {"created", "replayed"} => deployment'[call[c].id].body = call[c].body,
         a = "replayed" => UNCHANGED <<deployment, history>>,
         a = "created" => ~Saved(call[c].id)
  PROVE  \A x \in Calls : OwnAnswer(x)
<1>1. call[c] \in CallRecord /\ \A x \in Calls : x # c => call'[x] = call[x]
  BY DEF Shapes, Answer
<1>2. call'[c] = [call[c] EXCEPT !.at = "done", !.answer = a]
  BY DEF Shapes, Answer
<1>3. call'[c].answer = a
  BY Zenon, <1>1, <1>2 DEF CallRecord
<1>4. OwnAnswer(c)
  BY Zenon, <1>3 DEF OwnAnswer
<1>5. ASSUME NEW x \in Calls, x # c PROVE OwnAnswer(x)
  BY <1>1, <1>5 DEF OwnAnswer
<1>. QED
  BY <1>4, <1>5

(* writeDeploymentReplay compares the saved request with the call's own.   *)
LEMMA ReplaysOwn ==
  ASSUME Shapes, NEW c \in Calls, UNCHANGED <<deployment, history>>,
         \/ Saved(call[c].id) /\ SameRequest(c) /\ Answer(c, "replayed")
         \/ Answer(c, "conflict") \/ Answer(c, "error") \/ Answer(c, "quota")
  PROVE  \A x \in Calls : OwnAnswer(x)
<1>1. CASE Saved(call[c].id) /\ SameRequest(c) /\ Answer(c, "replayed")
  <2>1. deployment'[call[c].id].body = call[c].body
    BY <1>1 DEF SameRequest
  <2>. QED
    BY <1>1, <2>1, OneAnswer
<1>2. CASE Answer(c, "conflict")
  BY <1>2, OneAnswer
<1>3. CASE Answer(c, "error")
  BY <1>3, OneAnswer
<1>4. CASE Answer(c, "quota")
  BY <1>4, OneAnswer
<1>. QED
  BY Zenon, <1>1, <1>2, <1>3, <1>4

(* Creations answer with their own.                                        *)
LEMMA CreationsAnswerOwn ==
  ASSUME Shapes, NEW c \in Calls, CreateSteps(c) \/ LockScope(c)
  PROVE  \A x \in Calls : OwnAnswer(x)
<1>0. call[c] \in CallRecord
  BY DEF Shapes
<1>1. CASE CreateCall(c)
  <2>1. PICK i \in Ids, b \in Bodies :
          call' = [call EXCEPT ![c] =
              [@ EXCEPT !.op = "create", !.id = i, !.body = b,
                        !.at = IF i \in Keyed THEN "lookup" ELSE "admit"]]
    BY <1>1, Zenon DEF CreateCall
  <2> DEFINE k == [call[c] EXCEPT !.op = "create", !.id = i, !.body = b,
                        !.at = IF i \in Keyed THEN "lookup" ELSE "admit"]
  <2>2. call'[c] = k /\ \A x \in Calls : x # c => call'[x] = call[x]
    BY <2>1 DEF Shapes
  <2>3. k.answer = call[c].answer
    BY <1>0 DEF CallRecord
  <2>. HIDE DEF k
  <2>. QED
    BY <2>2, <2>3, Unanswered
<1>2. CASE LookupKey(c)
  <2>1. /\ UNCHANGED <<deployment, history>>
        /\ \/ Saved(call[c].id) /\ SameRequest(c) /\ Answer(c, "replayed")
           \/ Answer(c, "conflict") \/ Answer(c, "error") \/ Step(c, "admit")
    BY <1>2 DEF LookupKey, Replay
  <2>. QED
    BY Zenon, <2>1, ReplaysOwn, StepTellsNothing
<1>3. CASE BeginAdmission(c)
  BY <1>3, StepTellsNothing DEF BeginAdmission
<1>4. CASE LookupWinner(c)
  <2>1. /\ UNCHANGED <<deployment, history>>
        /\ \/ Saved(call[c].id) /\ SameRequest(c) /\ Answer(c, "replayed")
           \/ Answer(c, "conflict") \/ Answer(c, "error")
    BY <1>4 DEF LookupWinner, Replay
  <2>. QED
    BY Zenon, <2>1, ReplaysOwn
<1>5. CASE LockScope(c)
  <2>1. UNCHANGED <<deployment, history>>
    BY <1>5 DEF LockScope
  <2>2. \/ Answer(c, "quota") \/ Answer(c, "error")
        \/ Step(c, IF call[c].at = "lock" THEN "insert" ELSE "requeue") \/ Step(c, "again")
    BY <1>5, Zenon DEF LockScope
  <2>. QED
    BY <2>1, <2>2, ReplaysOwn, StepTellsNothing, ZenonT(60)
<1>6. CASE InsertDeployment(c)
  <2>1. \/ /\ ~Saved(call[c].id) /\ Answer(c, "created")
           /\ \E p \in Plans : deployment' = [deployment EXCEPT ![call[c].id] =
                  [status |-> "queued", sandbox |-> FALSE, rev |-> 1, version |-> 0,
                   body |-> call[c].body, scope |-> Scope(c), plan |-> p]]
        \/ Step(c, "again")
        \/ Answer(c, "error") /\ UNCHANGED <<deployment, history>>
    BY <1>6, ZenonT(60) DEF InsertDeployment
  <2>2. ASSUME ~Saved(call[c].id), Answer(c, "created"), NEW p \in Plans,
               deployment' = [deployment EXCEPT ![call[c].id] =
                  [status |-> "queued", sandbox |-> FALSE, rev |-> 1, version |-> 0,
                   body |-> call[c].body, scope |-> Scope(c), plan |-> p]]
        PROVE  \A x \in Calls : OwnAnswer(x)
    <3>1. call[c].id \in Ids /\ deployment \in [Ids -> Deployment]
      BY <1>6 DEF InsertDeployment, Shapes, CreateSites
    <3>2. deployment'[call[c].id].body = call[c].body
      BY <2>2, <3>1
    <3>3. Answer(c, "created") /\ ~Saved(call[c].id)
      BY <2>2
    <3>. QED
      BY Zenon, <3>2, <3>3, OneAnswer
  <2>. QED
    BY <2>1, <2>2, ReplaysOwn, StepTellsNothing, Zenon
<1>. QED
  BY Zenon, <1>1, <1>2, <1>3, <1>4, <1>5, <1>6 DEF CreateSteps

(* Retries are never told of a creation.                                   *)
LEMMA RetriesAnswerOwn ==
  ASSUME Shapes, NEW c \in Calls, RetrySteps(c)
  PROVE  \A x \in Calls : OwnAnswer(x)
<1>0. call[c] \in CallRecord
  BY Zenon DEF Shapes
<1>1. CASE RetryCall(c)
  <2>1. PICK i \in Ids :
          call' = [call EXCEPT ![c] =
              [@ EXCEPT !.op = "retry", !.id = i, !.copy = deployment[i],
                        !.at = IF deployment[i].sandbox THEN "cleanup" ELSE "replan"]]
    BY <1>1, Zenon DEF RetryCall
  <2> DEFINE k == [call[c] EXCEPT !.op = "retry", !.id = i, !.copy = deployment[i],
                        !.at = IF deployment[i].sandbox THEN "cleanup" ELSE "replan"]
  <2>2. call'[c] = k /\ \A x \in Calls : x # c => call'[x] = call[x]
    BY <2>1 DEF Shapes
  <2>3. k.answer = call[c].answer
    BY <1>0 DEF CallRecord
  <2>. HIDE DEF k
  <2>. QED
    BY <2>2, <2>3, Unanswered
<1>2. ASSUME NEW a \in {"error", "conflict", "requeued"}, Answer(c, a) PROVE \A x \in Calls : OwnAnswer(x)
  BY <1>2, OneAnswer
<1>3. ASSUME Answer(c, "error") PROVE \A x \in Calls : OwnAnswer(x)
  BY <1>2, <1>3
<1>4. CASE RetryCleanup(c)
  <2>1. Answer(c, "error") \/ Step(c, "reread")
    BY <1>4, Zenon DEF RetryCleanup
  <2>. QED
    BY <1>3, <2>1, StepTellsNothing, Zenon
<1>5. CASE RetryReread(c)
  <2>1. ASSUME call' = [call EXCEPT ![c].at = "replan", ![c].copy = deployment[call[c].id]]
        PROVE  \A x \in Calls : OwnAnswer(x)
    <3> DEFINE k == [call[c] EXCEPT !.at = "replan", !.copy = deployment[call[c].id]]
    <3>1. call'[c] = k /\ \A x \in Calls : x # c => call'[x] = call[x]
      BY <2>1 DEF Shapes
    <3>2. k.answer = call[c].answer
      BY <1>0 DEF CallRecord
    <3>. HIDE DEF k
    <3>. QED
      BY <3>1, <3>2, Unanswered
  <2>. QED
    BY <1>3, <1>5, <2>1, Zenon DEF RetryReread
<1>6. CASE Replan(c)
  <2>1. ASSUME NEW q \in Plans,
               call' = [call EXCEPT ![c].at = "relock", ![c].copy = [@ EXCEPT !.plan = q, !.sandbox = FALSE]]
        PROVE  \A x \in Calls : OwnAnswer(x)
    <3> DEFINE d == [call[c].copy EXCEPT !.plan = q, !.sandbox = FALSE]
               k == [call[c] EXCEPT !.at = "relock", !.copy = d]
    <3>. HIDE DEF d
    <3>1. call'[c] = k /\ \A x \in Calls : x # c => call'[x] = call[x]
      BY <1>0, <2>1 DEF Shapes, CallRecord, d
    <3>2. k.answer = call[c].answer
      BY <1>0 DEF CallRecord
    <3>. HIDE DEF k
    <3>. QED
      BY <3>1, <3>2, Unanswered
  <2>. QED
    BY <1>3, <1>6, <2>1, StepTellsNothing, Zenon DEF Replan
<1>7. CASE RequeueDeployment(c)
  <2>1. Answer(c, "requeued") \/ Answer(c, "conflict") \/ Answer(c, "error")
    BY <1>7, Zenon DEF RequeueDeployment
  <2>. QED
    BY <1>2, <2>1
<1>. QED
  BY Zenon, <1>1, <1>4, <1>5, <1>6, <1>7 DEF RetrySteps

(* A create call is told "created" or "replayed" only of a deployment that *)
(* carries its own request, whoever won the idempotency key, and a replay  *)
(* changes no table.                                                       *)
THEOREM OwnAnswers == DeploymentsSpec => AnsweredWithItsOwn
<1>1. QuotaInv /\ [DeploymentsNext]_deploymentVars => [\A c \in Calls : OwnAnswer(c)]_deploymentVars
  <2> SUFFICES ASSUME QuotaInv, DeploymentsNext PROVE \A c \in Calls : OwnAnswer(c)
    OBVIOUS
  <2>1. Shapes
    BY DEF QuotaInv
  <2>2. ASSUME NEW c \in Calls, CreateSteps(c) \/ RetrySteps(c) \/ LockScope(c)
        PROVE  \A x \in Calls : OwnAnswer(x)
    BY Zenon, <2>1, <2>2, CreationsAnswerOwn, RetriesAnswerOwn
  <2>3. ASSUME NEW i \in Ids, OperationReads(i) \/ OperationWrites(i) \/ OperationReturns(i) \/ Emit(i)
        PROVE  \A x \in Calls : OwnAnswer(x)
    BY <2>3, Unanswered DEF OperationReads, OperationWrites, OperationReturns, Emit
  <2>4. ASSUME SelectPrunable \/ DeletePruned PROVE \A x \in Calls : OwnAnswer(x)
    BY <2>4, Unanswered DEF SelectPrunable, DeletePruned
  <2>. QED
    BY <2>2, <2>3, <2>4 DEF DeploymentsNext
<1>. QED
  BY QuotaInit, QuotaStep, <1>1, PTL DEF DeploymentsSpec, AnsweredWithItsOwn

-----------------------------------------------------------------------------
(* The sizes of a timeline                                                 *)

(* A set of naturals that is not empty has a least member.                 *)
LEMMA LeastOf ==
  ASSUME NEW S \in SUBSET Nat, S # {}
  PROVE  Least(S) \in S /\ \A k \in S : Least(S) <= k
<1>1. PICK x \in S : \A y \in S : ~(<<y, x>> \in OpToRel(<, Nat))
  BY Zenon, NatLessThanWellFounded, WFMin
<1>2. \A y \in S : ~(y < x)
  BY Zenon, <1>1 DEF OpToRel
<1>3. \A y \in S : x <= y
  BY <1>2
<1>. QED
  BY Zenon, <1>3 DEF Least

(* f holds the sums of the first 0 .. n numbers of s.                      *)
SumsTo(f, s, n) ==
    f = [k \in 0 .. n |-> IF k = 0 THEN 0 ELSE f[k - 1] + s[k]]

(* There are such sums, so the recursion of Sums defines them.             *)
LEMMA SumsExist ==
  ASSUME NEW s, NEW n \in Nat
  PROVE  \E f : SumsTo(f, s, n)
<1>. DEFINE B == {m \in Nat : ~\E f : SumsTo(f, s, m)}
<1>. SUFFICES ASSUME B # {} PROVE FALSE
  BY Zenon
<1>1. PICK m \in B : \A k \in B : m <= k
  BY Zenon, LeastOf
<1>2. m \in Nat /\ ~\E f : SumsTo(f, s, m)
  BY Zenon, <1>1
<1>3. CASE m = 0
  <2>. DEFINE f == [k \in 0 .. 0 |-> 0]
  <2>1. f = [k \in 0 .. 0 |-> IF k = 0 THEN 0 ELSE f[k - 1] + s[k]]
    OBVIOUS
  <2>. QED
    BY Zenon, <1>2, <1>3, <2>1 DEF SumsTo
<1>4. CASE m # 0
  <2>1. m - 1 \in Nat /\ ~(m <= m - 1)
    BY <1>2, <1>4
  <2>2. PICK g : SumsTo(g, s, m - 1)
    BY Zenon, <1>1, <2>1
  <2>. DEFINE f == [k \in 0 .. m |-> IF k = m THEN g[m - 1] + s[m] ELSE g[k]]
  <2>3. f = [k \in 0 .. m |-> IF k = 0 THEN 0 ELSE f[k - 1] + s[k]]
    <3>1. \A k \in 0 .. m - 1 : g[k] = IF k = 0 THEN 0 ELSE g[k - 1] + s[k]
      BY <2>2 DEF SumsTo
    <3>2. ASSUME NEW k \in 0 .. m PROVE f[k] = IF k = 0 THEN 0 ELSE f[k - 1] + s[k]
      BY <1>2, <1>4, <3>1
    <3>. QED
      BY <3>2
  <2>. QED
    BY Zenon, <1>2, <2>3 DEF SumsTo
<1>. QED
  BY Zenon, <1>3, <1>4

(* What the recursion says, step by step.                                  *)
LEMMA SumsRecursion ==
  ASSUME NEW s \in Seq(Nat)
  PROVE  /\ Sums(s)[0] = 0
         /\ \A k \in 1 .. Len(s) : Sums(s)[k] = Sums(s)[k - 1] + s[k]
<1>1. Len(s) \in Nat
  OBVIOUS
<1>2. Sums(s) = CHOOSE f : SumsTo(f, s, Len(s))
  BY Zenon DEF Sums, SumsTo
<1>3. SumsTo(Sums(s), s, Len(s))
  BY Zenon, <1>1, <1>2, SumsExist
<1>. QED
  BY <1>1, <1>3 DEF SumsTo

(* A sum of naturals is one.                                               *)
LEMMA SumsTypes ==
  ASSUME NEW s \in Seq(Nat), NEW n \in 0 .. Len(s)
  PROVE  Sums(s)[n] \in Nat
<1>. DEFINE B == {m \in 0 .. Len(s) : Sums(s)[m] \notin Nat}
<1>. SUFFICES ASSUME B # {} PROVE FALSE
  BY Zenon
<1>1. B \in SUBSET Nat
  OBVIOUS
<1>2. PICK m \in B : \A k \in B : m <= k
  BY Zenon, <1>1, LeastOf
<1>3. m \in Nat /\ m <= Len(s) /\ Len(s) \in Nat /\ Sums(s)[m] \notin Nat
  BY <1>2
<1>4. m # 0
  BY <1>3, SumsRecursion
<1>5. m - 1 \in 0 .. Len(s) /\ m \in 1 .. Len(s)
  BY <1>3, <1>4
<1>6. m - 1 \notin B
  BY <1>2, <1>3
<1>7. Sums(s)[m - 1] \in Nat
  BY Zenon, <1>5, <1>6
<1>8. s[m] \in Nat
  BY <1>5
<1>9. Sums(s)[m] = Sums(s)[m - 1] + s[m]
  BY Zenon, <1>5, SumsRecursion
<1>. QED
  BY <1>3, <1>7, <1>8, <1>9

(* Places in a stretch of n that begins after place k of a sequence.       *)
LEMMA StretchPlaces ==
  ASSUME NEW k \in Nat, NEW m \in Nat, NEW n \in Nat, NEW a \in Nat, NEW b \in Nat,
         m # 0, m <= n, n <= b, k + n <= a
  PROVE  /\ m \in 1 .. n /\ m \in 1 .. b /\ m - 1 \in 0 .. n /\ m - 1 \in 0 .. b
         /\ k + m \in 1 .. a /\ (k + m) - 1 = k + (m - 1)
OBVIOUS

(* Counting to r, and one further.                                         *)
LEMMA CountTo ==
  ASSUME NEW r \in Nat
  PROVE  /\ \A k \in 0 .. r : k \in Nat
         /\ \A k \in 1 .. r + 1 : k = r + 1 \/ k \in 1 .. r
         /\ \A k \in 1 .. r - 1 : k # r /\ k \in 1 .. r
         /\ \A m \in Nat : r + 1 <= m => r + 1 \in 0 .. m
         /\ \A v \in Nat : r <= v + 1 => r <= (v + 1) + 1 /\ r + 1 <= (v + 1) + 1
OBVIOUS

(* A stretch of s that is also the beginning of r adds up to the same.     *)
LEMMA StretchSum ==
  ASSUME NEW s \in Seq(Nat), NEW r \in Seq(Nat), NEW k \in Nat, NEW n \in Nat,
         k + n <= Len(s), n <= Len(r), \A i \in 1 .. n : r[i] = s[k + i]
  PROVE  Sums(s)[k + n] = Sums(s)[k] + Sums(r)[n]
<1>. DEFINE B == {m \in 0 .. n : Sums(s)[k + m] # Sums(s)[k] + Sums(r)[m]}
<1>0. n \in 0 .. n
  OBVIOUS
<1>. SUFFICES ASSUME B # {} PROVE FALSE
  BY Zenon, <1>0
<1>1. B \in SUBSET Nat
  OBVIOUS
<1>2. PICK m \in B : \A i \in B : m <= i
  BY Zenon, <1>1, LeastOf
<1>3. m \in Nat /\ m <= n /\ Sums(s)[k + m] # Sums(s)[k] + Sums(r)[m]
  BY <1>2
<1>. HIDE DEF B
<1>4. Len(s) \in Nat /\ Len(r) \in Nat /\ k \in 0 .. Len(s)
  OBVIOUS
<1>5. Sums(s)[k] \in Nat
  BY Zenon, <1>4, SumsTypes
<1>6. m # 0
  <2>1. Sums(r)[0] = 0
    BY Zenon, SumsRecursion
  <2>2. Sums(s)[k] = Sums(s)[k] + 0
    BY <1>5
  <2>3. k + 0 = k
    OBVIOUS
  <2>. QED
    BY <1>3, <2>1, <2>2, <2>3
<1>. DEFINE p == k + m
<1>7. /\ m \in 1 .. n /\ m \in 1 .. Len(r) /\ m - 1 \in 0 .. n /\ m - 1 \in 0 .. Len(r)
      /\ p \in 1 .. Len(s) /\ p - 1 = k + (m - 1)
  BY Zenon, <1>3, <1>4, <1>6, StretchPlaces
<1>8. Sums(s)[k + (m - 1)] = Sums(s)[k] + Sums(r)[m - 1]
  <2>1. m - 1 \notin B
    BY <1>2, <1>3
  <2>. QED
    BY Zenon, <1>7, <2>1 DEF B
<1>9. Sums(s)[k + m] = Sums(s)[k + (m - 1)] + s[k + m] /\ Sums(r)[m] = Sums(r)[m - 1] + r[m]
  <2>1. Sums(s)[p] = Sums(s)[p - 1] + s[p]
    <3>. HIDE DEF p
    <3>. QED
      BY Zenon, <1>7, SumsRecursion
  <2>2. Sums(r)[m] = Sums(r)[m - 1] + r[m]
    BY Zenon, <1>7, SumsRecursion
  <2>. QED
    BY Zenon, <1>7, <2>1, <2>2
<1>10. r[m] = s[k + m] /\ r[m] \in Nat
  BY SMTT(20), <1>7
<1>11. Sums(r)[m - 1] \in Nat
  BY Zenon, <1>7, SumsTypes
<1>12. \A a, b, c \in Nat : (a + b) + c = a + (b + c)
  OBVIOUS
<1>13. PICK a, b, c \in Nat : a = Sums(s)[k] /\ b = Sums(r)[m - 1] /\ c = r[m]
  BY Zenon, <1>5, <1>10, <1>11
<1>14. Sums(s)[k + m] = (a + b) + c
  BY Zenon, <1>8, <1>9, <1>10, <1>13
<1>15. Sums(s)[k] + Sums(r)[m] = a + (b + c)
  BY Zenon, <1>9, <1>13
<1>. QED
  BY ZenonT(30), <1>3, <1>12, <1>14, <1>15

(* The sum of a timeline, and of one that begins another.                  *)
LEMMA PrefixSum ==
  ASSUME NEW s \in Seq(Nat), NEW r \in Seq(Nat), Len(r) <= Len(s),
         \A i \in 1 .. Len(r) : r[i] = s[i]
  PROVE  SumOf(r) \in Nat /\ Sums(s)[Len(r)] = SumOf(r)
<1>1. Len(r) \in Nat /\ Len(r) \in 0 .. Len(r) /\ 0 + Len(r) = Len(r) /\ 0 \in Nat
  OBVIOUS
<1>2. Sums(r)[Len(r)] \in Nat
  BY Zenon, <1>1, SumsTypes
<1>3. \A i \in 1 .. Len(r) : r[i] = s[0 + i]
  OBVIOUS
<1>4. Sums(s)[0 + Len(r)] = Sums(s)[0] + Sums(r)[Len(r)]
  <2>. DEFINE z == 0
              n == Len(r)
  <2>1. z \in Nat /\ n \in Nat /\ z + n <= Len(s) /\ n <= Len(r) /\ \A i \in 1 .. n : r[i] = s[z + i]
    BY <1>1, <1>3
  <2>. HIDE DEF z, n
  <2>2. Sums(s)[z + n] = Sums(s)[z] + Sums(r)[n]
    BY ZenonT(30), <2>1, StretchSum
  <2>. QED
    BY Zenon, <2>2 DEF z, n
<1>5. Sums(s)[0] = 0
  BY Zenon, SumsRecursion
<1>6. Sums(s)[Len(r)] = Sums(r)[Len(r)]
  BY <1>1, <1>2, <1>4, <1>5
<1>. QED
  BY Zenon, <1>2, <1>6 DEF SumOf

(* One number more at the end.                                             *)
LEMMA AppendSum ==
  ASSUME NEW s \in Seq(Nat), NEW n \in Nat, NEW r, r = Append(s, n)
  PROVE  r \in Seq(Nat) /\ Len(r) = Len(s) + 1 /\ SumOf(r) = SumOf(s) + n
<1>1. /\ r \in Seq(Nat) /\ Len(r) = Len(s) + 1 /\ r[Len(s) + 1] = n
      /\ \A i \in 1 .. Len(s) : s[i] = r[i]
  OBVIOUS
<1>2. Len(s) \in Nat /\ Len(s) <= Len(r) /\ Len(r) \in 1 .. Len(r) /\ Len(r) - 1 = Len(s)
  BY <1>1
<1>3. Sums(r)[Len(s)] = SumOf(s)
  BY Zenon, <1>1, <1>2, PrefixSum
<1>4. Sums(r)[Len(r)] = Sums(r)[Len(r) - 1] + r[Len(r)]
  BY Zenon, <1>1, <1>2, SumsRecursion
<1>5. Sums(r)[Len(r)] = SumOf(s) + n
  BY Zenon, <1>1, <1>2, <1>3, <1>4
<1>. QED
  BY Zenon, <1>1, <1>5 DEF SumOf

(* A timeline that is cut after its first k events.                        *)
LEMMA CutSum ==
  ASSUME NEW s \in Seq(Nat), NEW k \in 0 .. Len(s)
  PROVE  /\ SubSeq(s, k + 1, Len(s)) \in Seq(Nat) /\ Len(SubSeq(s, k + 1, Len(s))) = Len(s) - k
         /\ SumOf(SubSeq(s, 1, k)) \in Nat /\ SumOf(SubSeq(s, k + 1, Len(s))) \in Nat
         /\ SumOf(s) = SumOf(SubSeq(s, 1, k)) + SumOf(SubSeq(s, k + 1, Len(s)))
<1>0. PICK first, rest : first = SubSeq(s, 1, k) /\ rest = SubSeq(s, k + 1, Len(s))
  BY Zenon
<1>1. k \in Nat /\ k <= Len(s) /\ Len(s) \in Nat /\ Len(s) - k \in Nat
  OBVIOUS
<1>2. first \in Seq(Nat) /\ Len(first) = k /\ \A i \in 1 .. Len(first) : first[i] = s[i]
  BY <1>0, <1>1
<1>3. /\ rest \in Seq(Nat) /\ Len(rest) = Len(s) - k
      /\ \A i \in 1 .. Len(rest) : rest[i] = s[k + i]
  BY <1>0, <1>1
<1>4. SumOf(first) \in Nat /\ Sums(s)[k] = SumOf(first)
  <2>1. Len(first) <= Len(s)
    BY <1>1, <1>2
  <2>. QED
    BY Zenon, <1>2, <2>1, PrefixSum
<1>. DEFINE m == Len(rest)
<1>5. m \in Nat /\ k + m = Len(s) /\ k + m <= Len(s) /\ m <= Len(rest)
  BY <1>1, <1>3
<1>6. SumOf(rest) \in Nat
  <2>1. Len(rest) \in 0 .. Len(rest)
    BY <1>5
  <2>. QED
    BY Zenon, <1>3, <2>1, SumsTypes DEF SumOf
<1>7. Sums(s)[k + m] = Sums(s)[k] + Sums(rest)[m]
  <2>1. \A i \in 1 .. m : rest[i] = s[k + i]
    BY Zenon, <1>3
  <2>. HIDE DEF m
  <2>. QED
    BY ZenonT(30), <1>1, <1>3, <1>5, <2>1, StretchSum
<1>8. SumOf(s) = SumOf(first) + SumOf(rest)
  BY Zenon, <1>4, <1>5, <1>7 DEF SumOf
<1>. QED
  BY Zenon, <1>0, <1>3, <1>4, <1>6, <1>8

-----------------------------------------------------------------------------
(* Timelines within their limits                                           *)

(* BudgetKept, of one revision.                                            *)
Kept(rv) ==
    rv.counted =>
        /\ rv.count = Len(rv.events) /\ rv.count <= MaxEvents
        /\ rv.bytes = SumOf(rv.events) /\ rv.bytes <= MaxBytes

(* A message fits alone, so the eviction ends, and the counters move with  *)
(* the events that go and the one that comes.                              *)
LEMMA AppendedKept ==
  ASSUME NEW rv \in Revision, Kept(rv), NEW n \in Sizes
  PROVE  Appended(rv, n) \in Revision /\ Kept(Appended(rv, n))
<1>. DEFINE e == rv.events
            k == Least(Evicted(rv, n))
            first == SubSeq(e, 1, k)
            rest == SubSeq(e, k + 1, Len(e))
            r == Append(rest, n)
<1>1. MaxEvents \in Nat \ {0} /\ MaxBytes \in Nat /\ \A x \in Sizes : x \in 1 .. MaxBytes
  BY Zenon, DeploymentConstants
<1>2. n \in Nat /\ n <= MaxBytes
  BY <1>1
<1>3. e \in Seq(Sizes) /\ rv.counted \in BOOLEAN
  BY DEF Revision
<1>4. e \in Seq(Nat) /\ Len(e) \in Nat
  BY <1>1, <1>3
<1>5. Budget(rv).count = Len(e) /\ Budget(rv).bytes = SumOf(e)
  <2>1. CASE rv.counted
    BY Zenon, <2>1 DEF Budget, Kept
  <2>2. CASE ~rv.counted
    BY <2>2 DEF Budget
  <2>. QED
    BY Zenon, <2>1, <2>2
<1>6. /\ Evicted(rv, n) = {i \in 0 .. Len(e) : /\ Len(e) - i < MaxEvents
                                                /\ SumOf(e) - SumOf(SubSeq(e, 1, i)) + n <= MaxBytes}
  BY Zenon, <1>5 DEF Evicted
<1>. HIDE DEF e
<1>7. Len(e) \in Evicted(rv, n)
  <2>1. Len(e) \in 0 .. Len(e) /\ SubSeq(e, 1, Len(e)) = e /\ Len(e) - Len(e) < MaxEvents
    BY <1>1, <1>4
  <2>2. SumOf(e) \in Nat
    BY ZenonT(30), <1>4, <2>1, SumsTypes DEF SumOf
  <2>3. SumOf(e) - SumOf(e) + n <= MaxBytes
    BY <1>2, <2>2
  <2>. QED
    BY Zenon, <1>6, <2>1, <2>3
<1>8. k \in Evicted(rv, n)
  <2>1. Evicted(rv, n) \in SUBSET Nat
    BY <1>6
  <2>. QED
    BY Zenon, <1>7, <2>1, LeastOf
<1>9. /\ k \in 0 .. Len(e) /\ Len(e) - k < MaxEvents
      /\ SumOf(e) - SumOf(first) + n <= MaxBytes
  BY Zenon, <1>6, <1>8
<1>. HIDE DEF k
<1>10. /\ rest \in Seq(Nat) /\ Len(rest) = Len(e) - k
       /\ SumOf(first) \in Nat /\ SumOf(rest) \in Nat /\ SumOf(e) = SumOf(first) + SumOf(rest)
  BY Zenon, <1>4, <1>9, CutSum
<1>11. r \in Seq(Sizes)
  <2>1. rest \in Seq(Sizes)
    BY <1>3, <1>4, <1>9 DEF e
  <2>. HIDE DEF rest
  <2>. QED
    BY <2>1
<1>. HIDE DEF rest, first
<1>12. Len(r) = Len(rest) + 1 /\ SumOf(r) = SumOf(rest) + n
  BY Zenon, <1>2, <1>10, AppendSum
<1>. HIDE DEF r
<1>. DEFINE count == Len(e) - k + 1
            bytes == SumOf(e) - SumOf(first) + n
<1>13. count \in Nat /\ count = Len(r) /\ count <= MaxEvents
  <2>1. count = Len(r)
    BY Zenon, <1>10, <1>12
  <2>2. k \in Nat /\ k <= Len(e) /\ Len(e) - k < MaxEvents
    BY <1>4, <1>9
  <2>. QED
    BY <1>1, <1>4, <2>1, <2>2
<1>14. bytes \in Nat /\ bytes = SumOf(r) /\ bytes <= MaxBytes
  <2>1. bytes = SumOf(rest) + n
    BY <1>2, <1>10
  <2>. QED
    BY <1>2, <1>9, <1>10, <1>12, <2>1
<1>15. Appended(rv, n) = [rv EXCEPT !.events = r, !.count = count, !.bytes = bytes, !.counted = TRUE]
  BY Zenon, <1>5 DEF Appended, e, k, rest, first, r
<1>. HIDE DEF count, bytes
<1>16. Appended(rv, n) \in Revision
  BY Zenon, <1>11, <1>13, <1>14, <1>15 DEF Revision
<1>17. LET x == Appended(rv, n) IN x.events = r /\ x.count = count /\ x.bytes = bytes
  BY <1>15 DEF Revision
<1>. QED
  BY Zenon, <1>13, <1>14, <1>16, <1>17 DEF Kept

(* The timelines: every revision of a row has one, and it is in order.     *)
(* Nothing but a retry adds a revision, so versions outnumber them.        *)
Timelines ==
    /\ history \in [Ids -> Seq(Revision)]
    /\ \A i \in Ids : /\ Len(history[i]) = deployment[i].rev
                      /\ deployment[i].rev <= deployment[i].version + 1
    /\ BudgetKept

Others ==
    /\ copies \in [Ids -> SUBSET (1 .. MaxVersions + 1)]
    /\ pruning \subseteq Ids \X (0 .. MaxVersions)
    /\ outputs \in Nat

(* A step that writes one row with its timelines, and leaves the earlier   *)
(* revisions of a row that was there.                                      *)
Rewrites ==
    \E i \in Ids, d \in Stored, h \in Seq(Revision) :
        /\ deployment' = [deployment EXCEPT ![i] = d] /\ history' = [history EXCEPT ![i] = h]
        /\ Len(h) = d.rev /\ d.rev <= d.version + 1
        /\ \A k \in 1 .. Len(h) : Kept(h[k])
        /\ Saved(i) => \A k \in 1 .. deployment[i].rev - 1 : h[k] = history[i][k]

(* The row and the timelines of one deployment.                            *)
LEMMA TimelineOf ==
  ASSUME Shapes, Timelines, NEW i \in Ids
  PROVE  /\ history[i] \in Seq(Revision) /\ Len(history[i]) = deployment[i].rev
         /\ deployment[i].rev <= deployment[i].version + 1
         /\ \A k \in 1 .. Len(history[i]) : history[i][k] \in Revision /\ Kept(history[i][k])
         /\ Saved(i) => deployment[i] \in Stored /\ deployment[i].rev \in 1 .. Len(history[i])
<1>1. /\ history[i] \in Seq(Revision) /\ Len(history[i]) = deployment[i].rev
      /\ deployment[i].rev <= deployment[i].version + 1
  BY Zenon DEF Timelines
<1>2. DOMAIN history[i] = 1 .. Len(history[i]) /\ \A k \in 1 .. Len(history[i]) : history[i][k] \in Revision
  BY <1>1
<1>3. \A k \in 1 .. Len(history[i]) : Kept(history[i][k])
  BY Zenon, <1>2 DEF Timelines, BudgetKept, Kept
<1>4. ASSUME Saved(i) PROVE deployment[i] \in Stored /\ deployment[i].rev \in 1 .. Len(history[i])
  <2>1. deployment[i] \in Stored
    BY Zenon, <1>4, SavedIsStored
  <2>2. deployment[i].rev \in Nat \ {0}
    BY <2>1 DEF Stored
  <2>. QED
    BY <1>1, <2>1, <2>2
<1>. QED
  BY Zenon, <1>1, <1>2, <1>3, <1>4

(* UpdateDeployment touches the current revision, and not its events.      *)
LEMMA UpdateRewrites ==
  ASSUME Shapes, Timelines, NEW i \in Ids, Saved(i), NEW d \in Stored, UpdateRow(i, d),
         d.rev = deployment[i].rev, d.version = deployment[i].version
  PROVE  Rewrites
<1>. DEFINE q == [d EXCEPT !.version = @ + 1]
            rev == deployment[i].rev
            m == Mirror(history[i][rev], d)
            h == [history[i] EXCEPT ![rev] = m]
<1>1. /\ history[i] \in Seq(Revision) /\ Len(history[i]) = rev /\ rev \in 1 .. Len(history[i])
      /\ rev <= deployment[i].version + 1
      /\ \A k \in 1 .. Len(history[i]) : history[i][k] \in Revision /\ Kept(history[i][k])
  BY Zenon, TimelineOf
<1>2. q \in Stored /\ q.rev = d.rev /\ q.version = d.version + 1
  <2>1. d.version \in 0 .. MaxVersions /\ d.version < MaxVersions /\ MaxVersions \in Nat
    <3>1. d.version \in 0 .. MaxVersions
      BY DEF Stored
    <3>. QED
      BY ZenonT(30), <3>1, DeploymentConstants DEF UpdateRow
  <2>2. d.version + 1 \in 0 .. MaxVersions
    BY <2>1
  <2>3. \A v \in 0 .. MaxVersions : /\ [d EXCEPT !.version = v] \in Stored
                                    /\ [d EXCEPT !.version = v].rev = d.rev
                                    /\ [d EXCEPT !.version = v].version = v
    BY DEF Stored
  <2>. QED
    BY Zenon, <2>2, <2>3
<1>3. m \in Revision /\ Kept(m)
  <2>1. PICK rv \in Revision : rv = history[i][rev] /\ Kept(rv)
    BY Zenon, <1>1
  <2>2. d.status \in {"queued", "busy"} \cup Final /\ d.sandbox \in BOOLEAN
    BY DEF Stored
  <2>3. (rv.sandbox \/ d.sandbox) \in BOOLEAN
    BY Zenon
  <2>4. \A b \in BOOLEAN :
          LET x == [rv EXCEPT !.status = d.status, !.sandbox = b]
          IN /\ x \in Revision /\ x.counted = rv.counted /\ x.count = rv.count
             /\ x.bytes = rv.bytes /\ x.events = rv.events
    BY Zenon, <2>2 DEF Revision
  <2>5. /\ Mirror(rv, d) \in Revision /\ Mirror(rv, d).counted = rv.counted
        /\ Mirror(rv, d).count = rv.count /\ Mirror(rv, d).bytes = rv.bytes
        /\ Mirror(rv, d).events = rv.events
    BY Zenon, <2>3, <2>4 DEF Mirror
  <2>. QED
    BY Zenon, <2>1, <2>5 DEF Kept
<1>4. deployment' = [deployment EXCEPT ![i] = q] /\ history' = [history EXCEPT ![i] = h]
  BY ZenonT(30) DEF UpdateRow
<1>. HIDE DEF q, m
<1>5. /\ h \in Seq(Revision) /\ Len(h) = rev
      /\ \A k \in 1 .. Len(h) : h[k] = IF k = rev THEN m ELSE history[i][k]
  BY SMTT(20), <1>1, <1>3
<1>6. Len(h) = q.rev /\ q.rev <= q.version + 1
  <2>1. rev \in Nat /\ deployment[i].version \in Nat
    <3>1. deployment[i].version \in 0 .. MaxVersions
      BY SavedIsStored DEF Stored
    <3>. QED
      BY <1>1, <3>1
  <2>2. rev <= (deployment[i].version + 1) + 1
    BY Zenon, <1>1, <2>1, CountTo
  <2>. QED
    BY Zenon, <1>2, <1>5, <2>2
<1>7. \A k \in 1 .. Len(h) : Kept(h[k])
  BY ZenonT(30), <1>1, <1>3, <1>5
<1>8. \A k \in 1 .. rev - 1 : h[k] = history[i][k]
  BY <1>1, <1>5
<1>. HIDE DEF h
<1>. QED
  BY Zenon, <1>2, <1>4, <1>5, <1>6, <1>7, <1>8 DEF Rewrites

(* The first event of a run opens a timeline that is within its limits.    *)
LEMMA FirstEvent ==
  ASSUME NEW d \in Stored
  PROVE  LET rv == Appended(NewRevision(d), Least(Sizes)) IN rv \in Revision /\ Kept(rv)
<1>1. Sizes \in SUBSET Nat /\ Sizes # {}
  BY DeploymentConstants
<1>2. Least(Sizes) \in Sizes
  BY ZenonT(30), <1>1, LeastOf
<1>. DEFINE rv == NewRevision(d)
<1>3. rv \in Revision /\ ~rv.counted
  <2>1. /\ d.plan \in Plans /\ d.status \in {"queued", "busy"} \cup Final /\ d.sandbox \in BOOLEAN
    BY DEF Stored
  <2>. QED
    BY <2>1 DEF NewRevision, Revision
<1>. HIDE DEF rv
<1>4. Kept(rv)
  BY Zenon, <1>3 DEF Kept
<1>5. Appended(rv, Least(Sizes)) \in Revision /\ Kept(Appended(rv, Least(Sizes)))
  BY Zenon, <1>2, <1>3, <1>4, AppendedKept
<1>. QED
  BY Zenon, <1>5 DEF rv

(* createDeployment writes a row where there is none.                      *)
LEMMA InsertRewrites ==
  ASSUME Shapes, Timelines, NEW c \in Calls, InsertDeployment(c)
  PROVE  Rewrites \/ UNCHANGED <<deployment, history>>
<1>. DEFINE i == call[c].id
            row(p) == [status |-> "queued", sandbox |-> FALSE, rev |-> 1, version |-> 0,
                       body |-> call[c].body, scope |-> Scope(c), plan |-> p]
<1>1. i \in Ids /\ call[c].body \in Bodies /\ Scope(c) \in ScopeIds
  <2>1. call[c].at \in CreateSites
    BY Zenon DEF InsertDeployment, CreateSites
  <2>2. i \in Ids /\ call[c].body \in Bodies /\ call[c].op = "create"
    BY Zenon, <2>1 DEF Shapes
  <2>3. Scope(c) = ScopeOf[call[c].body]
    BY Zenon, <2>2 DEF Scope
  <2>. QED
    BY <2>2, <2>3 DEF ScopeIds
<1>2. \/ UNCHANGED <<deployment, history>>
      \/ /\ ~Saved(i)
         /\ \E p \in Plans :
              /\ deployment' = [deployment EXCEPT ![i] = row(p)]
              /\ history' = [history EXCEPT ![i] = <<Appended(NewRevision(row(p)), Least(Sizes))>>]
  BY ZenonT(30) DEF InsertDeployment
<1>3. ASSUME ~Saved(i), NEW p \in Plans, deployment' = [deployment EXCEPT ![i] = row(p)],
             history' = [history EXCEPT ![i] = <<Appended(NewRevision(row(p)), Least(Sizes))>>]
      PROVE  Rewrites
  <2>. DEFINE d == row(p)
              rv == Appended(NewRevision(d), Least(Sizes))
              h == <<rv>>
  <2>1. d \in Stored /\ d.rev = 1 /\ d.version = 0
    BY <1>1, DeploymentConstants DEF Stored
  <2>2. deployment' = [deployment EXCEPT ![i] = d] /\ history' = [history EXCEPT ![i] = h]
    BY Zenon, <1>3
  <2>. HIDE DEF d
  <2>3. rv \in Revision /\ Kept(rv)
    BY Zenon, <2>1, FirstEvent
  <2>. HIDE DEF rv
  <2>4. h \in Seq(Revision) /\ Len(h) = 1 /\ \A k \in 1 .. Len(h) : h[k] = rv
    BY <2>3
  <2>5. Len(h) = d.rev /\ d.rev <= d.version + 1 /\ \A k \in 1 .. Len(h) : Kept(h[k])
    BY <2>1, <2>3, <2>4
  <2>. HIDE DEF h, i
  <2>. QED
    BY ZenonT(30), <1>1, <1>3, <2>1, <2>2, <2>4, <2>5 DEF Rewrites
<1>. QED
  BY Zenon, <1>2, <1>3

(* retryDeployment adds a revision after those there are.                  *)
LEMMA RequeueRewrites ==
  ASSUME Shapes, Timelines, NEW c \in Calls, RequeueDeployment(c)
  PROVE  Rewrites \/ UNCHANGED <<deployment, history>>
<1>. DEFINE i == call[c].id
            d == [call[c].copy EXCEPT !.status = "queued", !.sandbox = FALSE,
                     !.rev = deployment[i].rev + 1, !.version = @ + 1]
            rv == Appended(NewRevision(d), Least(Sizes))
            h == Append(history[i], rv)
<1>1. i \in Ids /\ call[c].copy \in Stored
  BY Zenon DEF RequeueDeployment, Shapes, RetrySites
<1>2. \/ UNCHANGED <<deployment, history>>
      \/ Unmoved(c) /\ AddRevision(c)
  BY Zenon DEF RequeueDeployment
<1>3. ASSUME Unmoved(c), AddRevision(c) PROVE Rewrites
  <2>1. deployment[i] \in Stored /\ deployment[i].version = call[c].copy.version
    BY Zenon, <1>1, <1>3, SavedIsStored DEF Unmoved
  <2>2. Saved(i)
    BY <2>1, StatusKinds DEF Saved
  <2>3. /\ history[i] \in Seq(Revision) /\ Len(history[i]) = deployment[i].rev
        /\ deployment[i].rev <= deployment[i].version + 1
        /\ \A k \in 1 .. Len(history[i]) : Kept(history[i][k])
    BY Zenon, <1>1, TimelineOf
  <2>4. /\ d.version <= MaxVersions /\ deployment' = [deployment EXCEPT ![i] = d]
        /\ history' = [history EXCEPT ![i] = h]
    BY Zenon, <1>3 DEF AddRevision
  <2>5. d \in Stored /\ d.rev = deployment[i].rev + 1 /\ d.version = deployment[i].version + 1
    <3>1. deployment[i].rev \in Nat /\ call[c].copy.version \in Nat
      BY <1>1, <2>1, DeploymentConstants DEF Stored
    <3>2. deployment[i].rev + 1 \in Nat \ {0}
      BY <3>1
    <3>3. d.version = call[c].copy.version + 1 /\ d.rev = deployment[i].rev + 1
      BY <1>1 DEF Stored
    <3>4. call[c].copy.version + 1 \in 0 .. MaxVersions
      <4>1. MaxVersions \in Nat /\ call[c].copy.version + 1 <= MaxVersions
        BY Zenon, <2>4, <3>3, DeploymentConstants
      <4>. QED
        BY Zenon, <3>1, <4>1, CountTo
    <3>5. \A k \in Stored : \A n \in Nat \ {0}, v \in 0 .. MaxVersions :
            [k EXCEPT !.status = "queued", !.sandbox = FALSE, !.rev = n, !.version = v] \in Stored
      BY ZenonT(30) DEF Stored
    <3>6. d \in Stored
      BY Zenon, <1>1, <3>2, <3>4, <3>5
    <3>. QED
      BY ZenonT(30), <2>1, <3>3, <3>6
  <2>. HIDE DEF d
  <2>6. rv \in Revision /\ Kept(rv)
    BY ZenonT(30), <2>5, FirstEvent
  <2>. HIDE DEF rv
  <2>7. /\ h \in Seq(Revision) /\ Len(h) = Len(history[i]) + 1
        /\ \A k \in 1 .. Len(h) : h[k] = IF k = Len(h) THEN rv ELSE history[i][k]
        /\ \A k \in 1 .. Len(history[i]) : h[k] = history[i][k]
    BY <2>3, <2>6
  <2>8. deployment[i].rev \in Nat /\ deployment[i].version \in Nat
    <3>1. deployment[i].rev \in Nat \ {0} /\ deployment[i].version \in 0 .. MaxVersions
      BY Zenon, <2>1 DEF Stored
    <3>2. MaxVersions \in Nat
      BY Zenon, DeploymentConstants
    <3>. QED
      BY Zenon, <3>1, <3>2, CountTo
  <2>. HIDE DEF h
  <2>9. Len(h) = d.rev /\ d.rev <= d.version + 1
    <3>1. deployment[i].rev + 1 <= (deployment[i].version + 1) + 1
      BY Zenon, <2>3, <2>8, CountTo
    <3>. QED
      BY Zenon, <2>3, <2>5, <2>7, <3>1
  <2>10. \A k \in 1 .. Len(h) : Kept(h[k])
    <3>1. \A k \in 1 .. Len(h) : k = Len(h) \/ k \in 1 .. Len(history[i])
      BY Zenon, <2>3, <2>7, <2>8, CountTo
    <3>. QED
      BY Zenon, <2>3, <2>6, <2>7, <3>1
  <2>11. \A k \in 1 .. deployment[i].rev - 1 : h[k] = history[i][k]
    BY Zenon, <2>3, <2>7, <2>8, CountTo
  <2>. QED
    BY ZenonT(30), <1>1, <2>4, <2>5, <2>7, <2>9, <2>10, <2>11 DEF Rewrites
<1>. QED
  BY Zenon, <1>2, <1>3

(* AppendDeploymentEvent writes to the current revision only.              *)
LEMMA EmitRewrites ==
  ASSUME Shapes, Timelines, NEW i \in Ids, Emit(i)
  PROVE  Rewrites
<1>1. PICK r \in copies[i], n \in Sizes :
        OfCurrentRevision(i, r) /\ history' = [history EXCEPT ![i][r] = Appended(@, n)]
  BY Zenon DEF Emit
<1>2. Saved(i) /\ r = deployment[i].rev /\ deployment' = deployment
  BY Zenon, <1>1 DEF OfCurrentRevision, Emit
<1>3. /\ history[i] \in Seq(Revision) /\ Len(history[i]) = r /\ r \in 1 .. Len(history[i])
      /\ deployment[i].rev <= deployment[i].version + 1 /\ deployment[i] \in Stored
      /\ \A k \in 1 .. Len(history[i]) : history[i][k] \in Revision /\ Kept(history[i][k])
  BY Zenon, <1>2, TimelineOf
<1>. DEFINE rv == Appended(history[i][r], n)
            h == [history[i] EXCEPT ![r] = rv]
<1>4. rv \in Revision /\ Kept(rv)
  BY Zenon, <1>3, AppendedKept
<1>5. history' = [history EXCEPT ![i] = h]
  BY ZenonT(30), <1>1
<1>. HIDE DEF rv
<1>6. /\ h \in Seq(Revision) /\ Len(h) = r
      /\ \A k \in 1 .. Len(h) : h[k] = IF k = r THEN rv ELSE history[i][k]
  BY <1>3, <1>4
<1>. HIDE DEF h
<1>7. \A k \in 1 .. Len(h) : Kept(h[k])
  BY ZenonT(30), <1>3, <1>4, <1>6
<1>8. \A k \in 1 .. deployment[i].rev - 1 : h[k] = history[i][k]
  <2>1. r \in Nat
    BY Zenon, <1>2, <1>3 DEF Stored
  <2>. QED
    BY Zenon, <1>2, <1>3, <1>6, <2>1, CountTo
<1>9. deployment' = [deployment EXCEPT ![i] = deployment[i]]
  BY <1>2 DEF Shapes
<1>10. PICK d \in Stored : /\ d = deployment[i] /\ Len(h) = d.rev /\ d.rev <= d.version + 1
                           /\ deployment' = [deployment EXCEPT ![i] = d]
  BY Zenon, <1>2, <1>3, <1>6, <1>9
<1>. QED
  BY ZenonT(30), <1>5, <1>6, <1>7, <1>8, <1>10 DEF Rewrites

(* How a step may change the tables.                                       *)
LEMMA TableSteps ==
  ASSUME Shapes, Timelines, DeploymentsNext
  PROVE  Rewrites \/ UNCHANGED <<deployment, history>> \/ DeletePruned
<1>1. ASSUME NEW c \in Calls, CreateSteps(c) \/ LockScope(c)
      PROVE  Rewrites \/ UNCHANGED <<deployment, history>>
  <2>1. CASE InsertDeployment(c)
    BY Zenon, <2>1, InsertRewrites
  <2>2. CASE CreateCall(c) \/ LookupKey(c) \/ BeginAdmission(c) \/ LookupWinner(c) \/ LockScope(c)
    BY Zenon, <2>2 DEF CreateCall, LookupKey, BeginAdmission, LookupWinner, LockScope
  <2>. QED
    BY Zenon, <1>1, <2>1, <2>2 DEF CreateSteps
<1>2. ASSUME NEW c \in Calls, RetryCleanup(c) PROVE Rewrites \/ UNCHANGED <<deployment, history>>
  <2>. DEFINE i == call[c].id
  <2>1. i \in Ids
    BY Zenon, <1>2 DEF RetryCleanup, Shapes, RetrySites
  <2>2. \/ UNCHANGED <<deployment, history>>
        \/ Saved(i) /\ \E st \in Final :
             UpdateRow(i, [deployment[i] EXCEPT !.status = st, !.sandbox = FALSE])
    BY Zenon, <1>2 DEF RetryCleanup
  <2>3. ASSUME Saved(i), NEW st \in Final,
               UpdateRow(i, [deployment[i] EXCEPT !.status = st, !.sandbox = FALSE])
        PROVE  Rewrites
    <3>. DEFINE d == [deployment[i] EXCEPT !.status = st, !.sandbox = FALSE]
    <3>1. deployment[i] \in Stored
      BY Zenon, <2>1, <2>3, SavedIsStored
    <3>2. d \in Stored /\ d.rev = deployment[i].rev /\ d.version = deployment[i].version
      BY Zenon, <3>1 DEF Stored
    <3>. HIDE DEF d
    <3>3. UpdateRow(i, d)
      BY Zenon, <2>3 DEF d
    <3>. QED
      BY Zenon, <2>1, <2>3, <3>2, <3>3, UpdateRewrites
  <2>. QED
    BY Zenon, <2>2, <2>3
<1>3. ASSUME NEW c \in Calls, RetrySteps(c) PROVE Rewrites \/ UNCHANGED <<deployment, history>>
  <2>1. CASE RequeueDeployment(c)
    BY Zenon, <2>1, RequeueRewrites
  <2>2. CASE RetryCall(c) \/ RetryReread(c) \/ Replan(c)
    BY Zenon, <2>2 DEF RetryCall, RetryReread, Replan
  <2>. QED
    BY ZenonT(30), <1>2, <1>3, <2>1, <2>2 DEF RetrySteps
<1>4. ASSUME NEW i \in Ids, OperationWrites(i) PROVE Rewrites
  <2>1. PICK d \in Moves(deployment[i]) : UpdateRow(i, d)
    BY Zenon, <1>4 DEF OperationWrites
  <2>2. deployment[i] \in Deployment
    BY DEF Shapes
  <2>3. /\ deployment[i] \in Stored /\ d \in Stored
        /\ d.rev = deployment[i].rev /\ d.version = deployment[i].version
    BY Zenon, <2>2, MovesKeepAPlace
  <2>4. Saved(i)
    BY Zenon, <2>3, StatusKinds DEF Saved
  <2>. QED
    BY Zenon, <2>1, <2>3, <2>4, UpdateRewrites
<1>5. ASSUME NEW i \in Ids, OperationReads(i) \/ OperationReturns(i)
      PROVE  UNCHANGED <<deployment, history>>
  BY Zenon, <1>5 DEF OperationReads, OperationReturns
<1>6. ASSUME SelectPrunable PROVE UNCHANGED <<deployment, history>>
  BY Zenon, <1>6 DEF SelectPrunable
<1>. QED
  BY ZenonT(30), <1>1, <1>3, <1>4, <1>5, <1>6, EmitRewrites DEF DeploymentsNext

(* A row with its timelines is written, and the others stay.               *)
LEMMA RewritesKeep ==
  ASSUME Shapes, Timelines, Rewrites
  PROVE  /\ Timelines'
         /\ \A i \in Ids : Saved(i) =>
              Saved(i)' /\ \A k \in 1 .. deployment[i].rev - 1 : history'[i][k] = history[i][k]
<1>1. PICK i \in Ids, d \in Stored, h \in Seq(Revision) :
        /\ deployment' = [deployment EXCEPT ![i] = d] /\ history' = [history EXCEPT ![i] = h]
        /\ Len(h) = d.rev /\ d.rev <= d.version + 1
        /\ \A k \in 1 .. Len(h) : Kept(h[k])
        /\ Saved(i) => \A k \in 1 .. deployment[i].rev - 1 : h[k] = history[i][k]
  BY ZenonT(30) DEF Rewrites
<1>2. /\ deployment'[i] = d /\ \A x \in Ids : x # i => deployment'[x] = deployment[x]
      /\ history'[i] = h /\ \A x \in Ids : x # i => history'[x] = history[x]
      /\ history' \in [Ids -> Seq(Revision)]
  BY <1>1 DEF Shapes, Timelines
<1>3. Timelines'
  <2>1. \A x \in Ids : (Len(history[x]) = deployment[x].rev /\ deployment[x].rev <= deployment[x].version + 1)'
    BY Zenon, <1>1, <1>2 DEF Timelines
  <2>2. BudgetKept'
    <3>1. DOMAIN h = 1 .. Len(h)
      OBVIOUS
    <3>2. \A x \in Ids : \A k \in DOMAIN history'[x] : Kept(history'[x][k])
      <4>1. \A k \in DOMAIN history'[i] : Kept(history'[i][k])
        BY Zenon, <1>1, <1>2, <3>1
      <4>2. \A x \in Ids : \A k \in DOMAIN history[x] : Kept(history[x][k])
        BY Zenon DEF Timelines, BudgetKept, Kept
      <4>3. ASSUME NEW x \in Ids, x # i PROVE history'[x] = history[x]
        BY Zenon, <1>2, <4>3
      <4>. QED
        BY Zenon, <4>1, <4>2, <4>3
    <3>. QED
      BY Zenon, <3>2 DEF BudgetKept, Kept
  <2>. QED
    BY Zenon, <1>2, <2>1, <2>2 DEF Timelines
<1>4. d # Absent
  BY Zenon, StatusKinds
<1>. QED
  BY Zenon, <1>1, <1>2, <1>3, <1>4 DEF Saved

(* PruneDeployments takes a row with all its timelines, and only one that  *)
(* is over and done with.                                                  *)
LEMMA PruningKeeps ==
  ASSUME Shapes, Timelines, DeletePruned
  PROVE  /\ Timelines'
         /\ \A i \in Ids : \/ deployment'[i] = deployment[i] /\ history'[i] = history[i]
                           \/ deployment'[i] = Absent /\ Prunable(i)
<1>. DEFINE gone == {p[1] : p \in {q \in pruning : StillPrunable(q[1], q[2])}}
<1>1. /\ deployment' = [i \in Ids |-> IF i \in gone THEN Absent ELSE deployment[i]]
      /\ history' = [i \in Ids |-> IF i \in gone THEN << >> ELSE history[i]]
  BY Zenon DEF DeletePruned
<1>2. \A i \in gone : Prunable(i)
  BY Zenon DEF StillPrunable
<1>. HIDE DEF gone
<1>3. \A i \in Ids : \/ i \notin gone /\ deployment'[i] = deployment[i] /\ history'[i] = history[i]
                     \/ i \in gone /\ deployment'[i] = Absent /\ history'[i] = << >>
  BY ZenonT(30), <1>1
<1>4. << >> \in Seq(Revision) /\ Len(<< >>) = 0 /\ Absent.rev = 0 /\ Absent.version = 0 /\ DOMAIN << >> = {}
  BY DEF Absent
<1>5. history' \in [Ids -> Seq(Revision)]
  <2>1. \A i \in Ids : history[i] \in Seq(Revision)
    BY Zenon DEF Timelines
  <2>. QED
    BY Zenon, <1>1, <1>4, <2>1
<1>6. \A i \in Ids : (Len(history[i]) = deployment[i].rev /\ deployment[i].rev <= deployment[i].version + 1)'
  <2>. SUFFICES ASSUME NEW i \in Ids
                PROVE  Len(history'[i]) = deployment'[i].rev /\ deployment'[i].rev <= deployment'[i].version + 1
    BY Zenon
  <2>1. CASE deployment'[i] = deployment[i] /\ history'[i] = history[i]
    BY ZenonT(30), <2>1 DEF Timelines
  <2>2. CASE deployment'[i] = Absent /\ history'[i] = << >>
    BY <1>4, <2>2
  <2>. QED
    BY Zenon, <1>3, <2>1, <2>2
<1>7. BudgetKept'
  <2>1. \A i \in Ids : \A k \in DOMAIN history'[i] : Kept(history'[i][k])
    <3>. SUFFICES ASSUME NEW i \in Ids PROVE \A k \in DOMAIN history'[i] : Kept(history'[i][k])
      BY Zenon
    <3>1. CASE history'[i] = history[i]
      BY ZenonT(30), <3>1 DEF Timelines, BudgetKept, Kept
    <3>2. CASE history'[i] = << >>
      BY Zenon, <1>4, <3>2
    <3>. QED
      BY Zenon, <1>3, <3>1, <3>2
  <2>. QED
    BY Zenon, <2>1 DEF BudgetKept, Kept
<1>8. Timelines'
  BY Zenon, <1>5, <1>6, <1>7 DEF Timelines
<1>. QED
  BY Zenon, <1>2, <1>3, <1>8

(* The copies of the worker, the selected rows and the outputs.            *)
LEMMA OthersStep ==
  ASSUME Shapes, Timelines, Others, DeploymentsNext
  PROVE  Others'
<1>1. ASSUME UNCHANGED <<copies, pruning, outputs>> PROVE Others'
  BY Zenon, <1>1 DEF Others
<1>2. ASSUME NEW c \in Calls, CreateSteps(c) \/ LockScope(c)
      PROVE  UNCHANGED <<copies, pruning, outputs>>
  BY Zenon, <1>2 DEF CreateSteps, CreateCall, LookupKey, BeginAdmission, InsertDeployment, LookupWinner, LockScope
<1>3. ASSUME NEW c \in Calls, RetrySteps(c) PROVE UNCHANGED <<copies, pruning, outputs>>
  BY Zenon, <1>3 DEF RetrySteps, RetryCall, RetryCleanup, RetryReread, Replan, RequeueDeployment
<1>4. ASSUME NEW i \in Ids, OperationReads(i) PROVE Others'
  <2>1. deployment[i] \in Stored
    BY ZenonT(30), <1>4, SavedIsStored DEF OperationReads
  <2>2. deployment[i].rev \in 1 .. MaxVersions + 1
    BY <2>1, DeploymentConstants, TimelineOf DEF Stored
  <2>3. copies' \in [Ids -> SUBSET (1 .. MaxVersions + 1)]
    BY <1>4, <2>2 DEF OperationReads, Others
  <2>. QED
    BY Zenon, <1>4, <2>3 DEF OperationReads, Others
<1>5. ASSUME NEW i \in Ids, OperationWrites(i) PROVE Others'
  BY Zenon, <1>1, <1>5 DEF OperationWrites
<1>6. ASSUME NEW i \in Ids, OperationReturns(i) PROVE Others'
  <2>1. copies' \in [Ids -> SUBSET (1 .. MaxVersions + 1)]
    BY <1>6 DEF OperationReturns, Others
  <2>. QED
    BY Zenon, <1>6, <2>1 DEF OperationReturns, Others
<1>7. ASSUME NEW i \in Ids, Emit(i) PROVE Others'
  <2>1. outputs' \in Nat
    BY <1>7 DEF Emit, Others
  <2>. QED
    BY Zenon, <1>7, <2>1 DEF Emit, Others
<1>8. ASSUME SelectPrunable PROVE Others'
  <2>1. PICK s \in SUBSET {i \in Ids : Prunable(i) /\ copies[i] = {}} :
          pruning' = {<<i, deployment[i].version>> : i \in s}
    BY Zenon, <1>8 DEF SelectPrunable
  <2>2. \A i \in s : i \in Ids /\ deployment[i].version \in 0 .. MaxVersions
    <3>. SUFFICES ASSUME NEW i \in s PROVE i \in Ids /\ deployment[i].version \in 0 .. MaxVersions
      BY Zenon
    <3>1. i \in Ids /\ deployment[i] \in Deployment
      BY ZenonT(30), <2>1 DEF Shapes
    <3>2. CASE deployment[i] = Absent
      BY <3>1, <3>2, DeploymentConstants DEF Absent
    <3>3. CASE deployment[i] \in Stored
      BY Zenon, <3>1, <3>3 DEF Stored
    <3>. QED
      BY Zenon, <3>1, <3>2, <3>3 DEF Deployment
  <2>3. pruning' \subseteq Ids \X (0 .. MaxVersions)
    BY SMT, <2>1, <2>2
  <2>. QED
    BY Zenon, <1>8, <2>3 DEF SelectPrunable, Others
<1>9. ASSUME DeletePruned PROVE Others'
  BY Zenon, <1>9 DEF DeletePruned, Others
<1>. QED
  BY ZenonT(30), <1>1, <1>2, <1>3, <1>4, <1>5, <1>6, <1>7, <1>8, <1>9 DEF DeploymentsNext

TimelineInv == QuotaInv /\ Timelines /\ Others

(* A row that was saved before has its revision, and its timeline is still *)
(* to be counted.                                                          *)
LEMMA BackfilledInOrder ==
  ASSUME NEW d \in {Absent} \cup OldRow, NEW log \in Seq(Sizes), NEW h,
         h = Backfilled(d, IF d.rev = 1 THEN <<[NewRevision(d) EXCEPT !.events = log]>> ELSE << >>)
  PROVE  /\ h \in Seq(Revision)
         /\ Len(h) = Numbered(d).rev /\ Numbered(d).rev <= Numbered(d).version + 1
         /\ \A k \in DOMAIN h : Kept(h[k])
<1>1. \A rv \in Revision : <<rv>> \in Seq(Revision) /\ Len(<<rv>>) = 1 /\ DOMAIN <<rv>> = {1} /\ <<rv>>[1] = rv
  OBVIOUS
<1>2. << >> \in Seq(Revision) /\ Len(<< >>) = 0 /\ DOMAIN << >> = {}
  OBVIOUS
<1>3. CASE d = Absent
  <2>1. d.rev = 0 /\ d.version = 0
    BY <1>3 DEF Absent
  <2>2. h = << >> /\ Numbered(d) = d
    BY <1>3, <2>1 DEF Backfilled, Numbered
  <2>3. 0 <= 0 + 1
    OBVIOUS
  <2>4. \A k \in DOMAIN h : Kept(h[k])
    BY Zenon, <1>2, <2>2
  <2>5. h \in Seq(Revision) /\ Len(h) = 0
    BY Zenon, <1>2, <2>2
  <2>. QED
    BY ZenonT(30), <2>1, <2>2, <2>3, <2>4, <2>5
<1>4. CASE d \in OldRow
  <2>1. d # Absent /\ d.rev \in {0, 1} /\ d.version = 0
    BY <1>4 DEF OldRow, Absent, Final
  <2>2. Numbered(d).rev = 1 /\ Numbered(d).version = 0
    BY <1>4, <2>1 DEF Numbered, OldRow
  <2>3. \E rv \in Revision : h = <<rv>> /\ rv.counted = FALSE
    <3>1. CASE d.rev = 1
      <4>1. [NewRevision(d) EXCEPT !.events = log] \in Revision
        BY Zenon, <1>4 DEF NewRevision, Revision, OldRow
      <4>2. [NewRevision(d) EXCEPT !.events = log].counted = FALSE
        BY DEF NewRevision
      <4>3. h = <<[NewRevision(d) EXCEPT !.events = log]>>
        BY Zenon, <1>1, <1>2, <3>1, <4>1 DEF Backfilled
      <4>. QED
        BY Zenon, <4>1, <4>2, <4>3
    <3>2. CASE d.rev = 0
      <4>1. h = <<NewRevision(Numbered(d))>>
        BY <2>1, <3>2 DEF Backfilled
      <4>2. Numbered(d) = [d EXCEPT !.rev = 1]
        BY <2>1, <3>2 DEF Numbered
      <4>3. NewRevision(Numbered(d)) \in Revision
        BY <1>4, <4>2 DEF NewRevision, Revision, OldRow
      <4>4. NewRevision(Numbered(d)).counted = FALSE
        BY DEF NewRevision
      <4>. QED
        BY ZenonT(30), <4>1, <4>3, <4>4
    <3>. QED
      BY Zenon, <2>1, <3>1, <3>2
  <2>4. PICK rv \in Revision : h = <<rv>> /\ rv.counted = FALSE
    BY Zenon, <2>3
  <2>5. Kept(rv)
    BY Zenon, <2>4 DEF Kept
  <2>6. h \in Seq(Revision) /\ Len(h) = 1 /\ DOMAIN h = {1} /\ h[1] = rv
    BY Zenon, <1>1, <2>4
  <2>7. \A k \in DOMAIN h : Kept(h[k])
    BY Zenon, <2>5, <2>6
  <2>8. 1 <= 0 + 1
    OBVIOUS
  <2>. QED
    BY ZenonT(30), <2>2, <2>6, <2>7, <2>8
<1>. QED
  BY Zenon, <1>3, <1>4

(* The tables a runnerd starts on are in order.                            *)
LEMMA TimelinesInit == DeploymentsInit => TimelineInv
<1> SUFFICES ASSUME DeploymentsInit PROVE TimelineInv
  OBVIOUS
<1>1. PICK old \in [Ids -> {Absent} \cup OldRow],
           log \in UNION {[1 .. n -> Sizes] : n \in 0 .. MaxEvents + 1} : StartOn(old, log)
  BY Zenon DEF DeploymentsInit
<1>2. log \in Seq(Sizes)
  <2>1. PICK n \in 0 .. MaxEvents + 1 : log \in [1 .. n -> Sizes]
    BY Zenon
  <2>2. n \in Nat
    BY DeploymentConstants
  <2>. QED
    BY <2>1, <2>2
<1>. DEFINE before(i) == IF old[i].rev = 1 THEN <<[NewRevision(old[i]) EXCEPT !.events = log]>> ELSE << >>
<1>3. \A i \in Ids : deployment[i] = Numbered(old[i]) /\ history[i] = Backfilled(old[i], before(i))
  BY Zenon, <1>1 DEF StartOn
<1>4. \A i \in Ids : /\ history[i] \in Seq(Revision)
                     /\ Len(history[i]) = deployment[i].rev
                     /\ deployment[i].rev <= deployment[i].version + 1
                     /\ \A k \in DOMAIN history[i] : Kept(history[i][k])
  <2>. SUFFICES ASSUME NEW i \in Ids
                PROVE  /\ history[i] \in Seq(Revision)
                       /\ Len(history[i]) = deployment[i].rev
                       /\ deployment[i].rev <= deployment[i].version + 1
                       /\ \A k \in DOMAIN history[i] : Kept(history[i][k])
    BY Zenon
  <2>1. PICK h : h = Backfilled(old[i], before(i))
    BY Zenon
  <2>2. old[i] \in {Absent} \cup OldRow
    BY Zenon
  <2>3. /\ h \in Seq(Revision)
        /\ Len(h) = Numbered(old[i]).rev /\ Numbered(old[i]).rev <= Numbered(old[i]).version + 1
        /\ \A k \in DOMAIN h : Kept(h[k])
    BY ZenonT(30), <1>2, <2>1, <2>2, BackfilledInOrder
  <2>4. history[i] = h /\ deployment[i] = Numbered(old[i])
    BY Zenon, <1>3, <2>1
  <2>. QED
    BY Zenon, <2>3, <2>4
<1>5. history \in [Ids -> Seq(Revision)]
  BY Zenon, <1>1, <1>4 DEF StartOn
<1>6. Timelines
  <2>1. BudgetKept
    BY ZenonT(30), <1>4 DEF BudgetKept, Kept
  <2>. QED
    BY Zenon, <1>4, <1>5, <2>1 DEF Timelines
<1>7. Others
  BY DEF DeploymentsInit, Others
<1>. QED
  BY ZenonT(30), <1>6, <1>7, QuotaInit DEF TimelineInv

(* Every step keeps them so.                                               *)
LEMMA TimelinesStep == TimelineInv /\ [DeploymentsNext]_deploymentVars => TimelineInv'
<1> SUFFICES ASSUME TimelineInv, [DeploymentsNext]_deploymentVars PROVE TimelineInv'
  OBVIOUS
<1>1. Shapes /\ Timelines /\ Others /\ QuotaInv'
  BY Zenon, QuotaStep DEF TimelineInv, QuotaInv
<1>2. ASSUME UNCHANGED <<deployment, history>> PROVE Timelines'
  BY Zenon, <1>1, <1>2 DEF Timelines, BudgetKept
<1>3. CASE DeploymentsNext
  <2>1. Timelines'
    BY ZenonT(30), <1>1, <1>2, <1>3, TableSteps, RewritesKeep, PruningKeeps
  <2>. QED
    BY Zenon, <1>1, <1>3, <2>1, OthersStep DEF TimelineInv
<1>4. CASE UNCHANGED deploymentVars
  <2>1. UNCHANGED <<deployment, history>> /\ Others'
    BY Zenon, <1>1, <1>4 DEF deploymentVars, Others
  <2>. QED
    BY Zenon, <1>1, <1>2, <2>1 DEF TimelineInv
<1>. QED
  BY Zenon, <1>3, <1>4

(* The deployments rows, their revisions and the calls keep their shape:   *)
(* whatever creations, retries, updates and prunings do at once, a row has *)
(* exactly the revisions its number says.                                  *)
THEOREM DeploymentTypes == DeploymentsSpec => []DeploymentsTypeOK
<1>1. TimelineInv => DeploymentsTypeOK
  BY Zenon DEF TimelineInv, QuotaInv, Shapes, Timelines, Others, DeploymentsTypeOK
<1>. QED
  BY TimelinesInit, TimelinesStep, <1>1, PTL DEF DeploymentsSpec

(* AppendDeploymentEvent keeps the counters of a revision equal to the     *)
(* number and the size of its events, and both within maxDeploymentEvents  *)
(* and maxDeploymentEventBytes, for timelines of any length and also for   *)
(* those that were over the limits before there were counters.             *)
THEOREM TimelineBudgets == DeploymentsSpec => []BudgetKept
<1>1. TimelineInv => BudgetKept
  BY Zenon DEF TimelineInv, Timelines
<1>. QED
  BY TimelinesInit, TimelinesStep, <1>1, PTL DEF DeploymentsSpec

(* No late output, no retry and no update changes a revision before the    *)
(* current one, and PruneDeployments takes only a deployment that is final *)
(* and names no sandbox when it is deleted.                                *)
THEOREM HistoryIsKept == DeploymentsSpec => HistoryKept
<1>. DEFINE Keeps == \A i \in Ids : Saved(i) =>
              IF Saved(i)'
              THEN \A k \in 1 .. deployment[i].rev - 1 : history'[i][k] = history[i][k]
              ELSE Prunable(i)
<1>1. ASSUME TimelineInv, [DeploymentsNext]_deploymentVars PROVE [Keeps]_deploymentVars
  <2>1. Shapes /\ Timelines
    BY Zenon, <1>1 DEF TimelineInv, QuotaInv
  <2>2. ASSUME UNCHANGED <<deployment, history>> PROVE Keeps
    BY Zenon, <2>2 DEF Saved
  <2>3. ASSUME Rewrites PROVE Keeps
    BY Zenon, <2>1, <2>3, RewritesKeep
  <2>4. ASSUME DeletePruned PROVE Keeps
    BY Zenon, <2>1, <2>4, PruningKeeps DEF Saved
  <2>. QED
    BY ZenonT(30), <1>1, <2>1, <2>2, <2>3, <2>4, TableSteps
<1>. QED
  BY TimelinesInit, TimelinesStep, <1>1, PTL DEF DeploymentsSpec, HistoryKept

=============================================================================
