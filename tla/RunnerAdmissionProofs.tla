------------------------ MODULE RunnerAdmissionProofs ------------------------
(***************************************************************************)
(* Proofs about RunnerAdmission, for any number of jobs, specs, handlers,  *)
(* editors, edits, starts and retries.                                     *)
(*                                                                         *)
(* The argument.  An edit that has counted the active requests holds       *)
(* admissionMu exclusively: no admission and no start is between its look  *)
(* at the specs and its write (Exclusive), so what either saw is still so  *)
(* when it writes (Admissions, Checks), and the rows that the edit counted *)
(* do not become active behind its back (Counted).  A spec that still has  *)
(* the revision that an edit read is the spec it read, since revisions of  *)
(* one name never return (Revisions).  On Windows one start of a request   *)
(* works at a time, so the row holds what that start uses (OneStart).      *)
(***************************************************************************)
EXTENDS RunnerAdmission, FiniteSetTheorems, WellFoundedInduction, TLAPS

Revisions ==
    /\ \A k \in Key : spec[k].rev <= clock /\ (spec[k].rev = 0 => spec[k] = NoSpec)
    /\ \A e \in Editors : edit[e].at \in {"read", "counted"} =>
         LET base == edit[e].base
             now == spec[edit[e].key]
         IN /\ base.rev <= clock /\ (base.rev = 0 => base = NoSpec)
            /\ now.rev = base.rev => now = base
            /\ now.rev > 0 => base.rev <= now.rev

Exclusive ==
    \A e \in Editors : edit[e].at = "counted" =>
        /\ \A d \in Editors : edit[d].at = "counted" => d = e
        /\ \A h \in Handlers : handler[h].at \notin {"absent", "waking"}
        /\ \A w \in Claimed : work[w].at # "checked"

Admissions ==
    \A h \in Handlers :
        LET new == handler[h].new
            s == spec[new.key]
        IN /\ handler[h].at = "absent" =>
                s.rev > 0 /\ new.labels = s.labels /\ new.group = s.group
           /\ handler[h].at \in {"absent", "manual"} => new.status = "queued"
           /\ handler[h].at = "manual" => new.manual

Checks ==
    \A w \in Claimed : work[w].at = "checked" =>
        LET s == spec[work[w].seen.key]
        IN /\ work[w].seen.status = "queued"
           /\ s.rev > 0 /\ Takes(s, Wanted[w[1]]) /\ work[w].used = s.template

Counted ==
    \A e \in Editors : edit[e].at = "counted" /\ NeedsIdle(edit[e].base, edit[e].next) =>
        \A j \in Jobs : row[j].key = edit[e].key /\ row[j].status \in Active =>
            row[j].status \notin {"creating", "running"} /\ (row[j].revived \/ row[j].manual)

Working == {"checked", "refused", "conflicted", "failing", "provisioning"}

OneStart ==
    \A j \in Jobs :
        /\ row[j].status = "none" => \A a \in 1..MaxClaims : work[<<j, a>>].at = "idle"
        /\ Windows(row[j]) =>
             \A a, b \in 1..MaxClaims :
                work[<<j, a>>].at \in Working /\ work[<<j, b>>].at \in Working => a = b
        /\ Windows(row[j]) /\ row[j].status = "creating" =>
             \A a \in 1..MaxClaims :
                work[<<j, a>>].at = "provisioning" => work[<<j, a>>].used = row[j].used

IInv ==
    /\ AdmissionTypeOK /\ Revisions /\ Exclusive /\ Admissions /\ Checks /\ Counted /\ OneStart
    /\ InFlightUnderItsSpec /\ AdmittedCopyIsCurrent

-----------------------------------------------------------------------------
(* Matching                                                                *)

\* A set of naturals that is not empty has a least member.
LEMMA LeastExists ==
  ASSUME NEW S \in SUBSET Nat, S # {}
  PROVE  \E x \in S : \A y \in S : x <= y
<1>1. PICK x \in S : \A y \in S : ~(<<y, x>> \in OpToRel(<, Nat))
  BY Zenon, NatLessThanWellFounded, WFMin
<1>2. \A y \in S : ~(y < x)
  BY Zenon, <1>1 DEF OpToRel
<1>. QED
  BY <1>2

\* The least of the values that f takes on a set.
LEMMA LeastArgument ==
  ASSUME NEW C, C # {}, NEW f, \A n \in C : f[n] \in Nat
  PROVE  \E n \in C : \A m \in C : f[n] <= f[m]
<1>. DEFINE S == {f[n] : n \in C}
<1>1. S \in SUBSET Nat /\ S # {}
  OBVIOUS
<1>. HIDE DEF S
<1>2. PICK x \in S : \A y \in S : x <= y
  BY <1>1, LeastExists
<1>. QED
  BY <1>2 DEF S

\* selectMatchingProfile sorts by a total order, so it has a first: there is a
\* best candidate as soon as there is one at all.
LEMMA SelectedIsCandidate ==
  ASSUME spec \in [Key -> RunnerSpec], NEW wanted, Candidates(wanted) # {}
  PROVE  Selected(wanted) \in Candidates(wanted)
<1>. DEFINE C == Candidates(wanted)
            N == Cardinality(Labels)
            at(n) == spec[<<"global", n>>]
            size(n) == Cardinality(at(n).labels)
<1>1. C \subseteq Names /\ Names \subseteq Nat
  BY Zenon, AdmissionConstants DEF Candidates
<1>2. \A n \in C : at(n) \in RunnerSpec
  BY <1>1 DEF Key
<1>3. \A n \in C : at(n).priority \in {0, 1} /\ at(n).labels \subseteq Labels
  <2>1. \A s \in RunnerSpec : s.priority \in {0, 1} /\ s.labels \subseteq Labels
    BY DEF RunnerSpec
  <2>. QED
    BY Zenon, <1>2, <2>1
<1>4. N \in Nat /\ \A n \in C : size(n) \in Nat /\ size(n) <= N
  <2>1. \A n \in C : IsFiniteSet(at(n).labels) /\ size(n) <= N
    BY Zenon, <1>3, AdmissionConstants, FS_Subset
  <2>. QED
    BY Zenon, <2>1, AdmissionConstants, FS_CardinalityType
<1>. HIDE DEF C, N, size, at
<1>5. PICK a \in C : \A m \in C : at(m).priority <= at(a).priority
  <2>. DEFINE f == [n \in C |-> 1 - at(n).priority]
  <2>1. \A n \in C : f[n] \in Nat
    BY <1>3
  <2>2. C # {}
    BY DEF C
  <2>3. PICK a \in C : \A m \in C : f[a] <= f[m]
    <3>. HIDE DEF f
    <3>. QED
      BY Zenon, <2>1, <2>2, LeastArgument
  <2>. QED
    BY <1>3, <2>3
<1>. DEFINE C1 == {n \in C : at(n).priority = at(a).priority}
<1>6. PICK b \in C1 : \A m \in C1 : size(m) <= size(b)
  <2>. DEFINE f == [n \in C1 |-> N - size(n)]
  <2>1. \A n \in C1 : f[n] \in Nat
    BY <1>4
  <2>2. C1 # {}
    BY Zenon
  <2>3. PICK x \in C1 : \A m \in C1 : f[x] <= f[m]
    <3>. HIDE DEF f, C1
    <3>. QED
      BY Zenon, <2>1, <2>2, LeastArgument
  <2>4. \A m \in C1 : size(m) <= size(x)
    BY <1>4, <2>3
  <2>. QED
    BY Zenon, <2>3, <2>4
<1>. DEFINE C2 == {n \in C1 : size(n) = size(b)}
<1>7. PICK n \in C2 : \A m \in C2 : n <= m
  <2>1. C2 \in SUBSET Nat /\ C2 # {}
    BY Zenon, <1>1, <1>6
  <2>. HIDE DEF C2
  <2>. QED
    BY Zenon, <2>1, LeastExists
<1>8. ASSUME NEW m \in C \ {n} PROVE Precedes(n, m)
  <2>1. n \in Nat /\ m \in Nat /\ n \in C
    BY Zenon, <1>1, <1>7
  <2>2. at(n).priority = at(a).priority /\ size(n) = size(b)
    BY Zenon, <1>7
  <2>3. at(m).priority <= at(n).priority
    BY Zenon, <1>5, <2>2
  <2>4. at(m).priority = at(n).priority => size(m) <= size(n)
    BY Zenon, <1>6, <2>2
  <2>5. at(m).priority = at(n).priority /\ size(m) = size(n) => n <= m
    BY Zenon, <1>7, <2>2
  <2>6. \/ at(n).priority > at(m).priority
        \/ at(n).priority = at(m).priority /\ size(n) > size(m)
        \/ at(n).priority = at(m).priority /\ size(n) = size(m) /\ n < m
    BY <1>3, <1>4, <2>1, <2>3, <2>4, <2>5
  <2>. QED
    BY Zenon, <2>6 DEF Precedes, at, size
<1>9. \E x \in C : \A m \in C \ {x} : Precedes(x, m)
  BY Zenon, <1>7, <1>8
<1>. QED
  BY Zenon, <1>9 DEF Selected, C

\* A name of either scope is a key, the empty name included.
LEMMA ScopedKey ==
  \A s \in {"scoped_custom", "global"}, n \in Names \cup {0} : <<s, n>> \in Key /\ <<s, n>>[2] = n
  BY DEF Key

\* What a match finds is a spec there is, or nothing.
LEMMA MatchFinds ==
  ASSUME spec \in [Key -> RunnerSpec], NEW inScope \in BOOLEAN, NEW wanted,
         NEW k, k = Match(inScope, wanted)
  PROVE  k \in Key /\ (k[2] # 0 => SpecExists(k))
<1>1. CASE inScope /\ wanted # {} /\ ScopedFor(wanted) # {}
  <2>. DEFINE n == CHOOSE n \in ScopedFor(wanted) : TRUE
  <2>1. n \in ScopedFor(wanted)
    BY Zenon, <1>1
  <2>2. n \in Names /\ SpecExists(<<"scoped_custom", n>>)
    BY Zenon, <2>1 DEF ScopedFor
  <2>3. k = <<"scoped_custom", IF spec[<<"scoped_custom", n>>].enabled THEN n ELSE 0>>
    BY Zenon, <1>1 DEF Match
  <2>4. k = <<"scoped_custom", n>> \/ k = <<"scoped_custom", 0>>
    BY Zenon, <2>3
  <2>. HIDE DEF n
  <2>. QED
    BY <2>2, <2>4, ScopedKey
<1>2. CASE ~(inScope /\ wanted # {} /\ ScopedFor(wanted) # {})
  <2>. DEFINE n == IF Candidates(wanted) = {} THEN 0 ELSE Selected(wanted)
  <2>1. k = <<"global", n>>
    BY Zenon, <1>2 DEF Match
  <2>2. Candidates(wanted) # {} =>
          Selected(wanted) \in Names /\ SpecExists(<<"global", Selected(wanted)>>)
    BY Zenon, SelectedIsCandidate DEF Candidates, SpecExists
  <2>3. n = 0 \/ (n = Selected(wanted) /\ Candidates(wanted) # {})
    OBVIOUS
  <2>. HIDE DEF n
  <2>4. n \in Names \cup {0} /\ (n # 0 => SpecExists(<<"global", n>>))
    BY Zenon, <2>2, <2>3
  <2>. QED
    BY <2>1, <2>4, ScopedKey
<1>. QED
  BY Zenon, <1>1, <1>2

-----------------------------------------------------------------------------
(* The initial states                                                      *)

\* The blank spec, row, start, admission and edit.
LEMMA BlankTypes ==
  /\ NoSpec \in RunnerSpec /\ NoRow \in Row /\ NoStartYet \in StartState
  /\ NoAdmission \in AdmissionState /\ Elsewhere \in AdmissionState
  /\ NoEdit \in EditState /\ EditElsewhere \in EditState
<1>1. NoSpec \in RunnerSpec
  BY DEF NoSpec, RunnerSpec
<1>2. NoRow \in Row
  <2>1. MaxClaims \in Nat
    BY Zenon, AdmissionConstants
  <2>. QED
    BY <2>1, ScopedKey DEF NoRow, NewRow, Row, RequestStatus
<1>3. NoStartYet \in StartState
  BY <1>2 DEF NoStartYet, StartState
<1>4. NoAdmission \in AdmissionState
  <2>1. (CHOOSE j \in Jobs : TRUE) \in Jobs
    BY Zenon, AdmissionConstants
  <2>. QED
    BY <1>2, <2>1 DEF NoAdmission, AdmissionState
<1>5. NoEdit \in EditState
  BY <1>1, ScopedKey DEF NoEdit, EditState
<1>6. Elsewhere \in AdmissionState
  BY <1>4 DEF Elsewhere, AdmissionState
<1>7. EditElsewhere \in EditState
  BY <1>5 DEF EditElsewhere, EditState
<1>. QED
  BY Zenon, <1>1, <1>2, <1>3, <1>4, <1>5, <1>6, <1>7

\* What nobody has begun: no edit, no admission and no start is on its way.
LEMMA InitIInv == AdmissionInit => IInv
<1>. SUFFICES ASSUME AdmissionInit PROVE IInv
  OBVIOUS
<1>1. /\ spec = Catalogue /\ clock = 1 /\ row \in [Jobs -> Row]
      /\ handler \in [Handlers -> {NoAdmission, Elsewhere}]
      /\ work = [w \in Claimed |-> NoStartYet]
      /\ edit \in [Editors -> {NoEdit, EditElsewhere}]
      /\ edits \in 0..MaxEdits /\ claims \in [Jobs -> 0..MaxClaims]
      /\ revivals \in [Jobs -> 0..MaxRevivals]
  BY Zenon DEF AdmissionInit
<1>2. /\ spec \in [Key -> RunnerSpec]
      /\ \A k \in Key : spec[k].rev \in {0, 1} /\ (spec[k].rev = 0 => spec[k] = NoSpec)
  BY Zenon, <1>1, AdmissionConstants
<1>3. AdmissionTypeOK
  BY <1>1, <1>2, BlankTypes DEF AdmissionTypeOK
<1>4. /\ \A h \in Handlers : handler[h].at \in {"idle", "elsewhere"}
      /\ \A w \in Claimed : work[w].at = "idle"
      /\ \A e \in Editors : edit[e].at \in {"idle", "elsewhere"}
  <2>1. /\ NoAdmission.at = "idle" /\ Elsewhere.at = "elsewhere" /\ NoStartYet.at = "idle"
        /\ NoEdit.at = "idle" /\ EditElsewhere.at = "elsewhere"
    BY DEF NoAdmission, Elsewhere, NoStartYet, NoEdit, EditElsewhere
  <2>. QED
    BY <1>1, <2>1
<1>5. Revisions
  BY <1>1, <1>2, <1>4 DEF Revisions
<1>6. Exclusive /\ Admissions /\ Checks /\ Counted
  BY <1>4 DEF Exclusive, Admissions, Checks, Counted
<1>7. \A j \in Jobs : \/ row[j].status \in {"none", "historical"}
                      \/ /\ row[j].status = "queued" /\ SpecExists(row[j].key)
                         /\ row[j].labels = spec[row[j].key].labels
                         /\ row[j].group = spec[row[j].key].group
  <2>. SUFFICES ASSUME NEW j \in Jobs, row[j] \in OldRows(j) \cup {NoRow}
                PROVE  \/ row[j].status \in {"none", "historical"}
                       \/ /\ row[j].status = "queued" /\ SpecExists(row[j].key)
                          /\ row[j].labels = spec[row[j].key].labels
                          /\ row[j].group = spec[row[j].key].group
    BY Zenon DEF AdmissionInit
  <2>1. CASE row[j] = NoRow
    BY <2>1 DEF NoRow, NewRow
  <2>2. CASE row[j] = HistoricalRow(j)
    BY <2>2 DEF HistoricalRow, NewRow
  <2>3. ASSUME NEW inScope \in BOOLEAN, row[j] = AdmittedRow(j, inScope), row[j].key[2] # 0
        PROVE  /\ row[j].status = "queued" /\ SpecExists(row[j].key)
               /\ row[j].labels = spec[row[j].key].labels
               /\ row[j].group = spec[row[j].key].group
    <3>. DEFINE k == Match(inScope, Wanted[j])
    <3>1. row[j] = NewRow("queued", k, spec[k].labels, spec[k].group)
      BY Zenon, <2>3 DEF AdmittedRow
    <3>. HIDE DEF k
    <3>2. /\ row[j].status = "queued" /\ row[j].key = k
          /\ row[j].labels = spec[k].labels /\ row[j].group = spec[k].group
      BY <3>1 DEF NewRow
    <3>3. SpecExists(k)
      BY Zenon, <1>2, <2>3, <3>2, MatchFinds DEF k
    <3>. QED
      BY Zenon, <3>2, <3>3
  <2>. QED
    BY Zenon, <2>1, <2>2, <2>3 DEF OldRows
<1>8. InFlightUnderItsSpec /\ AdmittedCopyIsCurrent
  BY <1>7 DEF InFlightUnderItsSpec, AdmittedCopyIsCurrent, SpecExists, Active, InFlight
<1>9. OneStart
  BY <1>4 DEF OneStart, Claimed, Working
<1>. QED
  BY Zenon, <1>3, <1>5, <1>6, <1>8, <1>9 DEF IInv

-----------------------------------------------------------------------------
(* The steps of a request                                                  *)

\* A row q that continues row r: the same request, active and in flight only
\* if it was so.
Continues(q, r) ==
    /\ r.status # "none" /\ q.status # "none"
    /\ q.key = r.key /\ q.labels = r.labels /\ q.group = r.group /\ q.manual = r.manual
    /\ q.status \in {"creating", "running"} =>
         r.status \in {"creating", "running"} /\ (Windows(q) => q.used = r.used)
    /\ q.status = "creating" => r.status = "creating"
    /\ q.status \in Active /\ ~q.revived => r.status \in Active /\ ~r.revived

\* A start of job j that gets no further than it was.
Retreats(j, w) ==
    \/ work'[w] = work[w]
    \/ w[1] = j /\ work'[w].at \in {"claimed", "done"}
    \/ w[1] = j /\ work'[w].at \in {"refused", "conflicted", "failing"} /\ work[w].at \in Working

\* A row that moves on while starts only fall back disturbs no spec, admission or edit.
LEMMA RowFrame ==
  ASSUME IInv, AdmissionTypeOK', UNCHANGED <<spec, clock, edit>>,
         \A h \in Handlers : handler'[h] = handler[h] \/ handler'[h].at = "idle",
         NEW j \in Jobs, NEW q \in Row, row' = [row EXCEPT ![j] = q], Continues(q, row[j]),
         \A w \in Claimed : Retreats(j, w)
  PROVE  IInv'
<1>1. row \in [Jobs -> Row] /\ row'[j] = q /\ \A i \in Jobs : i # j => row'[i] = row[i]
  BY DEF IInv, AdmissionTypeOK
<1>2. Revisions'
  BY Zenon DEF IInv, Revisions
<1>3. Exclusive'
  <2>1. \A w \in Claimed : work'[w].at = "checked" => work[w].at = "checked"
    BY Zenon DEF Retreats
  <2>2. \A h \in Handlers : handler'[h].at \in {"absent", "waking"} =>
                              handler[h].at \in {"absent", "waking"}
    BY Zenon
  <2>. QED
    BY ZenonT(30), <2>1, <2>2 DEF IInv, Exclusive
<1>4. Admissions'
  <2>1. \A h \in Handlers : handler'[h].at \in {"absent", "manual"} => handler'[h] = handler[h]
    BY Zenon
  <2>. QED
    BY <2>1 DEF IInv, Admissions
<1>5. Checks'
  <2>1. \A w \in Claimed : work'[w].at = "checked" => work'[w] = work[w]
    BY Zenon DEF Retreats
  <2>. QED
    BY Zenon, <2>1 DEF IInv, Checks
<1>6. Counted'
  BY <1>1 DEF IInv, Counted, Continues, Active, InFlight
<1>7. OneStart'
  <2>. SUFFICES ASSUME NEW i \in Jobs
                PROVE  (/\ row[i].status = "none" => \A a \in 1..MaxClaims : work[<<i, a>>].at = "idle"
                        /\ Windows(row[i]) =>
                             \A a, b \in 1..MaxClaims :
                                work[<<i, a>>].at \in Working /\ work[<<i, b>>].at \in Working => a = b
                        /\ Windows(row[i]) /\ row[i].status = "creating" =>
                             \A a \in 1..MaxClaims :
                                work[<<i, a>>].at = "provisioning" => work[<<i, a>>].used = row[i].used)'
    BY Zenon DEF OneStart
  <2>1. CASE i # j
    <3>1. row'[i] = row[i] /\ \A a \in 1..MaxClaims : work'[<<i, a>>] = work[<<i, a>>]
      BY <1>1, <2>1 DEF Retreats, Claimed
    <3>. QED
      BY ZenonT(30), <3>1 DEF IInv, OneStart, Windows
  <2>2. CASE i = j
    <3>1. \A a \in 1..MaxClaims : work'[<<j, a>>].at \in Working => work[<<j, a>>].at \in Working
      BY DEF Retreats, Claimed, Working
    <3>2. \A a \in 1..MaxClaims : work'[<<j, a>>].at = "provisioning" =>
                                    work'[<<j, a>>] = work[<<j, a>>]
      BY DEF Retreats, Claimed
    <3>3. Windows(row'[j]) <=> Windows(row[j])
      BY Zenon, <1>1 DEF Continues, Windows
    <3>4. /\ row'[j].status # "none"
          /\ Windows(row'[j]) /\ row'[j].status = "creating" =>
               row[j].status = "creating" /\ row'[j].used = row[j].used
      BY <1>1 DEF Continues
    <3>. QED
      BY <2>2, <3>1, <3>2, <3>3, <3>4 DEF IInv, OneStart
  <2>. QED
    BY Zenon, <2>1, <2>2
<1>8. InFlightUnderItsSpec'
  BY <1>1 DEF IInv, InFlightUnderItsSpec, Continues, Windows
<1>9. AdmittedCopyIsCurrent'
  BY <1>1 DEF IInv, AdmittedCopyIsCurrent, Continues
<1>. QED
  BY Zenon, <1>2, <1>3, <1>4, <1>5, <1>6, <1>7, <1>8, <1>9 DEF IInv

Moves(j) == \E q \in Row : row' = [row EXCEPT ![j] = q] /\ Continues(q, row[j])

\* The same, for a step that leaves the handlers and the edits alone.
LEMMA MovesFrame ==
  ASSUME IInv, UNCHANGED <<spec, clock, handler, edit, edits>>, NEW j \in Jobs, Moves(j),
         work' \in [Claimed -> StartState], \A w \in Claimed : Retreats(j, w),
         claims' \in [Jobs -> 0..MaxClaims], revivals' \in [Jobs -> 0..MaxRevivals]
  PROVE  IInv'
<1>1. PICK q \in Row : row' = [row EXCEPT ![j] = q] /\ Continues(q, row[j])
  BY Zenon DEF Moves
<1>2. row' \in [Jobs -> Row]
  BY <1>1 DEF IInv, AdmissionTypeOK
<1>3. AdmissionTypeOK'
  BY Zenon, <1>2 DEF IInv, AdmissionTypeOK
<1>. QED
  BY Zenon, <1>1, <1>3, RowFrame

\* A start that returns gets no further.
LEMMA StartReturns ==
  ASSUME IInv, NEW j \in Jobs, NEW a \in 1..MaxClaims, Returned(<<j, a>>)
  PROVE  work' \in [Claimed -> StartState] /\ \A w \in Claimed : Retreats(j, w)
<1>1. work \in [Claimed -> StartState] /\ <<j, a>> \in Claimed
  BY DEF IInv, AdmissionTypeOK, Claimed
<1>. DEFINE x == [NoStartYet EXCEPT !.at = "done"]
<1>2. x \in StartState /\ x.at = "done"
  BY BlankTypes DEF StartState
<1>3. work' = [work EXCEPT ![<<j, a>>] = x]
  BY Zenon DEF Returned
<1>. HIDE DEF x
<1>4. \A w \in Claimed : w # <<j, a>> => work'[w] = work[w]
  BY <1>1, <1>3
<1>5. work'[<<j, a>>] = x
  BY <1>1, <1>3
<1>6. ASSUME NEW w \in Claimed PROVE Retreats(j, w)
  <2>1. CASE w = <<j, a>>
    <3>1. w[1] = j
      BY <2>1
    <3>. QED
      BY Zenon, <1>2, <1>5, <2>1, <3>1 DEF Retreats
  <2>2. CASE w # <<j, a>>
    BY Zenon, <1>4, <2>2 DEF Retreats
  <2>. QED
    BY Zenon, <2>1, <2>2
<1>. QED
  BY <1>1, <1>2, <1>3, <1>6

\* A row that is there and does not change moves on, to itself.
LEMMA RowStays ==
  ASSUME IInv, NEW j \in Jobs, row[j].status # "none"
  PROVE  row' = row => Moves(j)
<1>1. row \in [Jobs -> Row] /\ row[j] \in Row
  BY DEF IInv, AdmissionTypeOK
<1>2. row' = row => row' = [row EXCEPT ![j] = row[j]]
  BY <1>1
<1>3. Continues(row[j], row[j])
  BY Zenon DEF Continues
<1>. QED
  BY Zenon, <1>1, <1>2, <1>3 DEF Moves

\* A request that is queued again is the same request.
LEMMA RequeuedMoves ==
  ASSUME IInv, NEW j \in Jobs, NEW code \in {"none", "wait", "retry", "capacity"},
         NEW timer \in BOOLEAN, row[j].status \in Active \cup {"failed", "completed"}
  PROVE  Requeued(j, code, timer) => Moves(j)
<1>. DEFINE old == row[j]
            again == old.revived \/ old.status \in {"failed", "completed"}
            q == [old EXCEPT !.status = "queued", !.code = code, !.timer = timer,
                             !.lease = FALSE, !.used = 0, !.revived = again]
<1>1. row \in [Jobs -> Row] /\ old \in Row
  BY DEF IInv, AdmissionTypeOK
<1>2. q \in Row
  <2>1. \A b \in BOOLEAN : [old EXCEPT !.status = "queued", !.code = code, !.timer = timer,
                                       !.lease = FALSE, !.used = 0, !.revived = b] \in Row
    BY Zenon, <1>1 DEF Row, RequestStatus
  <2>. QED
    BY Zenon, <2>1
<1>3. /\ q.status = "queued" /\ q.key = old.key /\ q.labels = old.labels /\ q.group = old.group
      /\ q.manual = old.manual /\ (~q.revived => ~old.revived /\ old.status \notin {"failed", "completed"})
  BY Zenon, <1>1 DEF Row
<1>4. Requeued(j, code, timer) => row' = [row EXCEPT ![j] = q]
  BY Zenon, <1>1 DEF Requeued
<1>. HIDE DEF q
<1>5. Continues(q, old)
  BY <1>3 DEF Continues, Active, InFlight
<1>. QED
  BY Zenon, <1>2, <1>4, <1>5 DEF Moves

\* A start that works has a row.
LEMMA WorksOnARow ==
  ASSUME IInv, NEW j \in Jobs, NEW a \in 1..MaxClaims, work[<<j, a>>].at # "idle"
  PROVE  row[j].status # "none"
  BY Zenon DEF IInv, OneStart

\* A write of one or more of the fields that no invariant looks at, or of an
\* end of the request.
LEMMA FieldsMove ==
  ASSUME IInv, NEW j \in Jobs, row[j].status # "none", NEW q \in Row,
         q.key = row[j].key, q.labels = row[j].labels, q.group = row[j].group,
         q.manual = row[j].manual,
         \/ q.status = row[j].status /\ q.used = row[j].used /\ q.revived = row[j].revived
         \/ q.status \in {"completed", "failed", "historical"}
         \/ q.status = "stopping" /\ (~q.revived => row[j].status \in Active /\ ~row[j].revived)
         \/ q.revived /\ q.status = "queued"
  PROVE  row' = [row EXCEPT ![j] = q] => Moves(j)
<1>1. Continues(q, row[j])
  BY DEF Continues, Active, InFlight
<1>. QED
  BY Zenon, <1>1 DEF Moves

\* A start that gives its lease back, or waits for capacity.
LEMMA LeaseStep ==
  ASSUME IInv, NEW j \in Jobs, NEW a \in 1..MaxClaims, GiveBackLease(j, a) \/ DeferCapacity(j, a)
  PROVE  IInv'
<1>. DEFINE old == row[j]
            p == [old EXCEPT !.lease = FALSE]
            q == [old EXCEPT !.lease = FALSE, !.code = "capacity", !.timer = TRUE]
<1>1. row \in [Jobs -> Row] /\ old \in Row
  BY DEF IInv, AdmissionTypeOK
<1>2. /\ UNCHANGED <<spec, clock, handler, edit, edits, claims, revivals>>
      /\ Returned(<<j, a>>) /\ work[<<j, a>>].at # "idle"
  BY Zenon DEF GiveBackLease, DeferCapacity
<1>3. p \in Row /\ q \in Row
  BY Zenon, <1>1 DEF Row
<1>4. /\ p.status = old.status /\ p.used = old.used /\ p.revived = old.revived
      /\ p.key = old.key /\ p.labels = old.labels /\ p.group = old.group /\ p.manual = old.manual
      /\ q.status = old.status /\ q.used = old.used /\ q.revived = old.revived
      /\ q.key = old.key /\ q.labels = old.labels /\ q.group = old.group /\ q.manual = old.manual
  BY <1>1 DEF Row
<1>5. row' = [row EXCEPT ![j] = p] \/ row' = [row EXCEPT ![j] = q]
  BY <1>1 DEF GiveBackLease, DeferCapacity
<1>. HIDE DEF p, q
<1>6. Moves(j)
  BY Zenon, <1>2, <1>3, <1>4, <1>5, WorksOnARow, FieldsMove
<1>. QED
  BY Zenon, <1>2, <1>6, StartReturns, MovesFrame DEF IInv, AdmissionTypeOK

\* failStartForAttempt, on whatever row it finds.
LEMMA FailStep ==
  ASSUME IInv, NEW j \in Jobs, NEW a \in 1..MaxClaims, FailStart(j, a)
  PROVE  IInv'
<1>. DEFINE old == row[j]
            p == [old EXCEPT !.lease = FALSE]
            q == [old EXCEPT !.status = "failed", !.lease = FALSE, !.code = "retry", !.timer = FALSE]
<1>1. row \in [Jobs -> Row] /\ old \in Row /\ old.status \in RequestStatus
  BY DEF IInv, AdmissionTypeOK, Row
<1>2. /\ UNCHANGED <<spec, clock, handler, edit, edits, claims, revivals>>
      /\ Returned(<<j, a>>) /\ work[<<j, a>>].at # "idle"
  BY Zenon DEF FailStart
<1>3. p \in Row /\ q \in Row
  BY Zenon, <1>1 DEF Row, RequestStatus
<1>4. /\ p.status = old.status /\ p.used = old.used /\ p.revived = old.revived
      /\ p.key = old.key /\ p.labels = old.labels /\ p.group = old.group /\ p.manual = old.manual
      /\ q.status = "failed" /\ q.key = old.key /\ q.labels = old.labels /\ q.group = old.group
      /\ q.manual = old.manual
  BY <1>1 DEF Row
<1>5. \/ row' = row
      \/ row' = [row EXCEPT ![j].lease = FALSE]
      \/ old.status \notin {"completed", "stopping", "historical"} /\ Requeued(j, "retry", TRUE)
      \/ row' = [row EXCEPT ![j].status = "failed", ![j].lease = FALSE,
                            ![j].code = "retry", ![j].timer = FALSE]
  BY Zenon DEF FailStart
<1>6. /\ [row EXCEPT ![j].lease = FALSE] = [row EXCEPT ![j] = p]
      /\ [row EXCEPT ![j].status = "failed", ![j].lease = FALSE, ![j].code = "retry",
                     ![j].timer = FALSE] = [row EXCEPT ![j] = q]
  BY Zenon, <1>1
<1>. HIDE DEF p, q
<1>7. old.status # "none"
  BY Zenon, <1>2, WorksOnARow
<1>8. Moves(j)
  <2>1. CASE row' = row
    BY Zenon, <1>7, <2>1, RowStays
  <2>2. CASE row' = [row EXCEPT ![j] = p]
    BY Zenon, <1>3, <1>4, <1>7, <2>2, FieldsMove
  <2>3. CASE row' = [row EXCEPT ![j] = q]
    BY Zenon, <1>3, <1>4, <1>7, <2>3, FieldsMove
  <2>4. CASE old.status \notin {"completed", "stopping", "historical"} /\ Requeued(j, "retry", TRUE)
    <3>1. old.status \in Active \cup {"failed", "completed"}
      BY <1>1, <1>7, <2>4 DEF RequestStatus, Active, InFlight
    <3>. QED
      BY Zenon, <2>4, <3>1, RequeuedMoves
  <2>. QED
    BY Zenon, <1>5, <1>6, <2>1, <2>2, <2>3, <2>4
<1>. QED
  BY Zenon, <1>2, <1>8, StartReturns, MovesFrame DEF IInv, AdmissionTypeOK

\* The outcomes of provisioning.  What a Windows start brings up is what its
\* row says.
LEMMA ProvisionStep ==
  ASSUME IInv, NEW j \in Jobs, NEW a \in 1..MaxClaims,
         JobNotQueued(j, a) \/ DeferCreating(j, a) \/ MarkRunning(j, a)
  PROVE  IInv'
<1>. DEFINE old == row[j]
<1>1. /\ row \in [Jobs -> Row] /\ old \in Row /\ old.code \in {"none", "wait", "retry", "capacity"}
      /\ work \in [Claimed -> StartState] /\ work[<<j, a>>] \in StartState
  BY DEF IInv, AdmissionTypeOK, Row, Claimed
<1>2. /\ UNCHANGED <<spec, clock, handler, edit, edits, claims, revivals>>
      /\ Returned(<<j, a>>) /\ work[<<j, a>>].at = "provisioning"
  BY Zenon DEF JobNotQueued, DeferCreating, MarkRunning
<1>3. old.status # "none" /\ (old.status = "creating" => old.status \in Active \cup {"failed", "completed"})
  BY <1>2, WorksOnARow DEF Active, InFlight
<1>4. CASE JobNotQueued(j, a)
  <2>. DEFINE q == [old EXCEPT !.status = "completed", !.lease = FALSE, !.timer = FALSE]
  <2>1. q \in Row
    BY Zenon, <1>1 DEF Row, RequestStatus
  <2>2. /\ q.status = "completed" /\ q.key = old.key /\ q.labels = old.labels
        /\ q.group = old.group /\ q.manual = old.manual
    BY <1>1 DEF Row
  <2>3. [row EXCEPT ![j].status = "completed", ![j].lease = FALSE, ![j].timer = FALSE]
           = [row EXCEPT ![j] = q]
    BY Zenon, <1>1
  <2>. HIDE DEF q
  <2>4. \/ row' = row \/ row' = [row EXCEPT ![j] = q]
        \/ old.status = "creating" /\ Requeued(j, "wait", TRUE)
    BY Zenon, <1>4, <2>3 DEF JobNotQueued
  <2>. QED
    BY Zenon, <1>3, <2>1, <2>2, <2>4, RowStays, FieldsMove, RequeuedMoves, <1>2, StartReturns,
       MovesFrame DEF IInv, AdmissionTypeOK
<1>5. CASE DeferCreating(j, a)
  <2>1. row' = row \/ (old.status = "creating" /\ Requeued(j, old.code, TRUE))
    BY Zenon, <1>5 DEF DeferCreating
  <2>2. Moves(j)
    BY Zenon, <1>1, <1>3, <2>1, RowStays, RequeuedMoves
  <2>. QED
    BY Zenon, <1>2, <2>2, StartReturns, MovesFrame DEF IInv, AdmissionTypeOK
<1>6. CASE MarkRunning(j, a)
  <2>. DEFINE q == [old EXCEPT !.status = "running", !.lease = FALSE, !.used = work[<<j, a>>].used]
  <2>1. q \in Row
    <3>1. work[<<j, a>>].used \in Templates \cup {0}
      BY <1>1 DEF StartState
    <3>. QED
      BY Zenon, <1>1, <3>1 DEF Row, RequestStatus
  <2>2. /\ q.status = "running" /\ q.key = old.key /\ q.labels = old.labels
        /\ q.group = old.group /\ q.manual = old.manual /\ q.revived = old.revived
        /\ q.used = work[<<j, a>>].used
    BY <1>1 DEF Row
  <2>3. \/ row' = row
        \/ old.status = "creating" /\ row' = [row EXCEPT ![j] = q]
    BY Zenon, <1>1, <1>6 DEF MarkRunning
  <2>. HIDE DEF q
  <2>4. old.status = "creating" /\ Windows(old) => work[<<j, a>>].used = old.used
    BY Zenon, <1>2 DEF IInv, OneStart
  <2>5. old.status = "creating" => Continues(q, old)
    BY <2>2, <2>4 DEF Continues, Windows, Active, InFlight
  <2>6. Moves(j)
    BY Zenon, <1>3, <2>1, <2>3, <2>5, RowStays DEF Moves
  <2>. QED
    BY Zenon, <1>2, <2>6, StartReturns, MovesFrame DEF IInv, AdmissionTypeOK
<1>. QED
  BY Zenon, <1>4, <1>5, <1>6

\* Stops and retries.
LEMMA StopStep ==
  ASSUME IInv, NEW j \in Jobs,
         \/ StopRequest(j) \/ StopIdleRequest(j) \/ EndStop(j) \/ RetryRequest(j)
         \/ RetryHistorical(j) \/ RequeueMismatched(j)
  PROVE  IInv'
<1>. DEFINE old == row[j]
<1>1. row \in [Jobs -> Row] /\ old \in Row /\ revivals \in [Jobs -> 0..MaxRevivals]
  BY DEF IInv, AdmissionTypeOK
<1>2. /\ UNCHANGED <<spec, clock, handler, work, edit, edits, claims>>
      /\ UNCHANGED revivals \/ (Revived(j) /\ revivals[j] < MaxRevivals)
  BY Zenon DEF StopRequest, StopIdleRequest, EndStop, RetryRequest, RetryHistorical, RequeueMismatched
<1>3. revivals' \in [Jobs -> 0..MaxRevivals]
  <2>1. MaxRevivals \in Nat
    BY Zenon, AdmissionConstants
  <2>. QED
    BY <1>1, <1>2, <2>1 DEF Revived
<1>4. /\ work' \in [Claimed -> StartState] /\ \A w \in Claimed : Retreats(j, w)
      /\ claims' \in [Jobs -> 0..MaxClaims]
  BY Zenon, <1>2 DEF IInv, AdmissionTypeOK, Retreats
<1>5. ASSUME Moves(j) PROVE IInv'
  BY Zenon, <1>2, <1>3, <1>4, <1>5, MovesFrame
<1>6. ASSUME NEW b \in BOOLEAN, NEW s \in {"stopping", "queued", "completed", "failed"}
      PROVE  LET q == [old EXCEPT !.status = s, !.revived = b]
             IN /\ q \in Row /\ q.status = s /\ q.revived = b /\ q.key = old.key
                /\ q.labels = old.labels /\ q.group = old.group /\ q.manual = old.manual
  BY ZenonT(30), <1>1 DEF Row, RequestStatus
<1>7. old.revived \in BOOLEAN
  BY <1>1 DEF Row
<1>8. CASE StopRequest(j)
  <2>. DEFINE q == [old EXCEPT !.status = "stopping", !.revived = old.revived]
  <2>1. row' = [row EXCEPT ![j] = q] /\ old.status \in {"creating", "running"}
    BY Zenon, <1>1, <1>8 DEF StopRequest, Row
  <2>2. /\ q \in Row /\ q.status = "stopping" /\ q.revived = old.revived /\ q.key = old.key
        /\ q.labels = old.labels /\ q.group = old.group /\ q.manual = old.manual
    BY Zenon, <1>6, <1>7
  <2>. HIDE DEF q
  <2>3. old.status # "none" /\ old.status \in Active
    BY <2>1 DEF Active, InFlight
  <2>. QED
    BY Zenon, <1>5, <2>1, <2>2, <2>3, FieldsMove
<1>9. CASE StopIdleRequest(j)
  <2>. DEFINE b == old.revived \/ old.status = "failed"
              q == [old EXCEPT !.status = "stopping", !.revived = b]
  <2>1. row' = [row EXCEPT ![j] = q] /\ old.status \in {"queued", "failed"} /\ b \in BOOLEAN
    BY Zenon, <1>1, <1>9 DEF StopIdleRequest
  <2>2. /\ q \in Row /\ q.status = "stopping" /\ q.revived = b /\ q.key = old.key
        /\ q.labels = old.labels /\ q.group = old.group /\ q.manual = old.manual
    BY Zenon, <1>6, <2>1
  <2>. HIDE DEF q
  <2>3. old.status # "none" /\ (~b => old.status \in Active /\ ~old.revived)
    BY <2>1 DEF Active, InFlight
  <2>. QED
    BY Zenon, <1>5, <2>1, <2>2, <2>3, FieldsMove
<1>10. CASE RetryHistorical(j)
  <2>. DEFINE q == [old EXCEPT !.status = "queued", !.revived = TRUE]
  <2>1. row' = [row EXCEPT ![j] = q] /\ old.status = "historical"
    BY Zenon, <1>1, <1>10 DEF RetryHistorical
  <2>2. /\ q \in Row /\ q.status = "queued" /\ q.revived /\ q.key = old.key
        /\ q.labels = old.labels /\ q.group = old.group /\ q.manual = old.manual
    BY Zenon, <1>6
  <2>. HIDE DEF q
  <2>. QED
    BY Zenon, <1>5, <2>1, <2>2, FieldsMove
<1>11. CASE RetryRequest(j)
  <2>1. old.status \in Active \cup {"failed", "completed"} /\ Requeued(j, "none", FALSE)
    BY Zenon, <1>11 DEF RetryRequest, Active
  <2>. QED
    BY Zenon, <1>5, <2>1, RequeuedMoves
<1>12. CASE RequeueMismatched(j)
  <2>1. old.status \in Active \cup {"failed", "completed"} /\ Requeued(j, "none", FALSE)
    BY Zenon, <1>12 DEF RequeueMismatched
  <2>. QED
    BY Zenon, <1>5, <2>1, RequeuedMoves
<1>13. CASE EndStop(j)
  <2>1. old.status = "stopping" /\ old.status # "none" /\ old.status \in Active \cup {"failed", "completed"}
    BY <1>13 DEF EndStop, Active, InFlight
  <2>2. ASSUME NEW end \in {"completed", "failed"},
               row' = [row EXCEPT ![j].status = end, ![j].code = "none", ![j].timer = FALSE]
        PROVE  Moves(j)
    <3>. DEFINE q == [old EXCEPT !.status = end, !.code = "none", !.timer = FALSE]
    <3>1. row' = [row EXCEPT ![j] = q]
      BY Zenon, <1>1, <2>2
    <3>2. q \in Row
      BY Zenon, <1>1 DEF Row, RequestStatus
    <3>3. /\ q.status = end /\ q.key = old.key
          /\ q.labels = old.labels /\ q.group = old.group /\ q.manual = old.manual
      BY <1>1 DEF Row
    <3>. HIDE DEF q
    <3>. QED
      BY Zenon, <2>1, <3>1, <3>2, <3>3, FieldsMove
  <2>3. ASSUME row' = [row EXCEPT ![j].status = "failed"]
        PROVE  Moves(j)
    <3>. DEFINE q == [old EXCEPT !.status = "failed", !.revived = old.revived]
    <3>1. row' = [row EXCEPT ![j] = q]
      BY Zenon, <1>1, <2>3 DEF Row
    <3>2. /\ q \in Row /\ q.status = "failed" /\ q.key = old.key
          /\ q.labels = old.labels /\ q.group = old.group /\ q.manual = old.manual
      BY Zenon, <1>6, <1>7
    <3>. HIDE DEF q
    <3>. QED
      BY Zenon, <2>1, <3>1, <3>2, FieldsMove
  <2>4. Requeued(j, "none", FALSE) => Moves(j)
    BY Zenon, <2>1, RequeuedMoves
  <2>. QED
    BY ZenonT(30), <1>5, <1>13, <2>2, <2>3, <2>4 DEF EndStop
<1>. QED
  BY Zenon, <1>8, <1>9, <1>10, <1>11, <1>12, <1>13

\* ClaimNextRunnable begins a start that has looked at nothing yet.
LEMMA ClaimStep ==
  ASSUME IInv, NEW j \in Jobs, ClaimRequest(j)
  PROVE  IInv'
<1>. DEFINE old == row[j]
            a == claims[j] + 1
            q == [old EXCEPT !.lease = TRUE, !.attempt = a]
            x == [work[<<j, a>>] EXCEPT !.at = "claimed"]
<1>1. /\ row \in [Jobs -> Row] /\ old \in Row /\ work \in [Claimed -> StartState]
      /\ claims \in [Jobs -> 0..MaxClaims] /\ claims[j] \in 0..MaxClaims
  BY DEF IInv, AdmissionTypeOK
<1>2. a \in 1..MaxClaims /\ old.status = "queued"
  <2>1. MaxClaims \in Nat
    BY Zenon, AdmissionConstants
  <2>. QED
    BY <1>1, <2>1 DEF ClaimRequest
<1>3. /\ row' = [row EXCEPT ![j] = q] /\ work' = [work EXCEPT ![<<j, a>>] = x]
      /\ claims' = [claims EXCEPT ![j] = a]
      /\ UNCHANGED <<spec, clock, handler, edit, edits, revivals>>
  BY Zenon, <1>1, <1>2 DEF ClaimRequest, Claimed
<1>4. <<j, a>> \in Claimed /\ <<j, a>>[1] = j
  BY <1>2 DEF Claimed
<1>5. x \in StartState /\ x.at = "claimed"
  BY <1>1, <1>4 DEF StartState
<1>6. q \in Row
  <2>1. \A n \in 0..MaxClaims : [old EXCEPT !.lease = TRUE, !.attempt = n] \in Row
    BY Zenon, <1>1 DEF Row
  <2>2. a \in 0..MaxClaims
    BY <1>2
  <2>. QED
    BY Zenon, <2>1, <2>2
<1>7. /\ q.status = old.status /\ q.used = old.used /\ q.revived = old.revived
      /\ q.key = old.key /\ q.labels = old.labels /\ q.group = old.group /\ q.manual = old.manual
  BY <1>1 DEF Row
<1>8. claims' \in [Jobs -> 0..MaxClaims]
  BY <1>1, <1>2, <1>3
<1>. HIDE DEF q, x, a
<1>9. work' \in [Claimed -> StartState]
  BY Zenon, <1>1, <1>3, <1>5
<1>10. \A w \in Claimed : Retreats(j, w)
  <2>. TAKE w \in Claimed
  <2>1. w # <<j, a>> => work'[w] = work[w]
    BY <1>1, <1>3
  <2>2. w = <<j, a>> => work'[w] = x
    BY <1>1, <1>3
  <2>. QED
    BY Zenon, <1>4, <1>5, <2>1, <2>2 DEF Retreats
<1>11. Moves(j)
  BY Zenon, <1>2, <1>3, <1>6, <1>7, FieldsMove
<1>12. revivals' \in [Jobs -> 0..MaxRevivals]
  BY Zenon, <1>3 DEF IInv, AdmissionTypeOK
<1>. QED
  BY Zenon, <1>3, <1>8, <1>9, <1>10, <1>11, <1>12, MovesFrame

\* A start that leaves the checks without the creating write.
LEMMA RefusedStep ==
  ASSUME IInv, NEW j \in Jobs, NEW a \in 1..MaxClaims, NEW at \in {"refused", "conflicted"},
         work[<<j, a>>].at = "checked",
         work' = [work EXCEPT ![<<j, a>>] = [NoStartYet EXCEPT !.at = at]],
         UNCHANGED <<spec, clock, row, handler, edit, edits, claims, revivals>>
  PROVE  IInv'
<1>. DEFINE x == [NoStartYet EXCEPT !.at = at]
<1>1. work \in [Claimed -> StartState] /\ <<j, a>> \in Claimed /\ <<j, a>>[1] = j
  BY DEF IInv, AdmissionTypeOK, Claimed
<1>2. x \in StartState /\ x.at \in {"refused", "conflicted"}
  BY BlankTypes DEF StartState
<1>. HIDE DEF x
<1>3. work' = [work EXCEPT ![<<j, a>>] = x]
  BY Zenon DEF x
<1>4. work' \in [Claimed -> StartState]
  BY <1>1, <1>2, <1>3
<1>5. \A w \in Claimed : Retreats(j, w)
  <2>. TAKE w \in Claimed
  <2>1. w # <<j, a>> => work'[w] = work[w]
    BY <1>1, <1>3
  <2>2. w = <<j, a>> => work'[w] = x
    BY <1>1, <1>3
  <2>. QED
    BY Zenon, <1>1, <1>2, <2>1, <2>2 DEF Retreats, Working
<1>6. Moves(j)
  BY Zenon, WorksOnARow, RowStays
<1>. QED
  BY Zenon, <1>4, <1>5, <1>6, MovesFrame DEF IInv, AdmissionTypeOK

\* A start takes admissionMu and reads its spec again.  An edit that has
\* counted would have kept it out, and so would another start of a Windows
\* request.
LEMMA CheckedStep ==
  ASSUME IInv, NEW j \in Jobs, NEW a \in 1..MaxClaims, NEW x \in StartState,
         work' = [work EXCEPT ![<<j, a>>] = x], x.at \in {"checked", "failing"},
         x.at = "checked" => /\ x.seen = row[j] /\ row[j].status = "queued"
                             /\ Valid(row[j].key, j) /\ x.used = spec[row[j].key].template,
         CanRLock, row[j].status # "none",
         Windows(row[j]) => \A b \in (1..MaxClaims) \ {a} : work[<<j, b>>].at \notin Working,
         UNCHANGED <<spec, clock, row, handler, edit, edits, claims, revivals>>
  PROVE  IInv'
<1>1. work \in [Claimed -> StartState] /\ <<j, a>> \in Claimed /\ <<j, a>>[1] = j
  BY Zenon DEF IInv, AdmissionTypeOK, Claimed
<1>2. /\ work' \in [Claimed -> StartState] /\ work'[<<j, a>>] = x
      /\ \A w \in Claimed : w # <<j, a>> => work'[w] = work[w]
  BY <1>1
<1>3. AdmissionTypeOK'
  BY Zenon, <1>2 DEF IInv, AdmissionTypeOK
<1>4. Exclusive'
  BY Zenon DEF Exclusive, CanRLock
<1>5. Checks'
  <2>. SUFFICES ASSUME NEW w \in Claimed, work'[w].at = "checked"
                PROVE  LET s == spec[work'[w].seen.key]
                       IN /\ work'[w].seen.status = "queued"
                          /\ s.rev > 0 /\ Takes(s, Wanted[w[1]]) /\ work'[w].used = s.template
    BY Zenon DEF Checks
  <2>1. CASE w = <<j, a>>
    BY Zenon, <1>1, <1>2, <2>1 DEF Valid, SpecExists
  <2>2. CASE w # <<j, a>>
    BY ZenonT(30), <1>2, <2>2 DEF IInv, Checks
  <2>. QED
    BY Zenon, <2>1, <2>2
<1>6. OneStart'
  <2>1. \A i \in Jobs, b \in 1..MaxClaims :
          <<i, b>> \in Claimed /\ (<<i, b>> = <<j, a>> <=> i = j /\ b = a)
    BY DEF Claimed
  <2>2. \A i \in Jobs, b \in 1..MaxClaims :
          ~(i = j /\ b = a) => work'[<<i, b>>] = work[<<i, b>>]
    BY Zenon, <1>2, <2>1
  <2>3. work'[<<j, a>>].at # "provisioning"
    BY <1>2
  <2>4. OneStart
    BY Zenon DEF IInv
  <2>. QED
    BY SMTT(20), <2>2, <2>3, <2>4 DEF OneStart
<1>7. Revisions' /\ Admissions' /\ Counted'
  BY Zenon DEF IInv, Revisions, Admissions, Counted
<1>8. InFlightUnderItsSpec' /\ AdmittedCopyIsCurrent'
  BY Zenon DEF IInv, InFlightUnderItsSpec, AdmittedCopyIsCurrent
<1>. QED
  BY ZenonT(30), <1>3, <1>4, <1>5, <1>6, <1>7, <1>8 DEF IInv

\* startRunner reads the row and its spec under admissionMu.
LEMMA CheckStep ==
  ASSUME IInv, NEW j \in Jobs, NEW a \in 1..MaxClaims, CheckSpec(j, a)
  PROVE  IInv'
<1>. DEFINE w == <<j, a>>
<1>1. /\ work[w].at = "claimed" /\ CanRLock /\ RequestUnlocked(j)
      /\ Windows(row[j]) =>
           Others(j, a) \cap {"failing", "provisioning", "refused", "conflicted"} = {}
      /\ UNCHANGED <<spec, clock, row, handler, edit, edits, claims, revivals>>
  BY Zenon DEF CheckSpec
<1>2. row[j].status # "none"
  BY Zenon, <1>1, WorksOnARow
<1>3. Windows(row[j]) => \A b \in (1..MaxClaims) \ {a} : work[<<j, b>>].at \notin Working
  BY Zenon, <1>1 DEF RequestUnlocked, Others, Working
<1>4. /\ work \in [Claimed -> StartState] /\ work[w] \in StartState
      /\ row \in [Jobs -> Row] /\ row[j] \in Row /\ spec \in [Key -> RunnerSpec]
  BY DEF IInv, AdmissionTypeOK, Claimed
<1>5. CASE Returned(w)
  <2>1. Moves(j)
    BY Zenon, <1>1, <1>2, RowStays
  <2>. QED
    BY Zenon, <1>1, <1>5, <2>1, StartReturns, MovesFrame DEF IInv, AdmissionTypeOK
<1>6. CASE /\ row[j].status = "queued" /\ Valid(row[j].key, j)
           /\ work' = [work EXCEPT ![w] = [at |-> "checked", seen |-> row[j],
                                           used |-> spec[row[j].key].template]]
  <2>. DEFINE x == [at |-> "checked", seen |-> row[j], used |-> spec[row[j].key].template]
  <2>1. spec[row[j].key].template \in Templates \cup {0}
    <3>1. row[j].key \in Key
      BY <1>4 DEF Row
    <3>2. spec[row[j].key] \in RunnerSpec
      BY Zenon, <1>4, <3>1
    <3>. QED
      BY <3>2 DEF RunnerSpec
  <2>2. /\ x \in StartState /\ x.at = "checked" /\ x.seen = row[j]
        /\ x.used = spec[row[j].key].template
    BY <1>4, <2>1 DEF StartState
  <2>3. work' = [work EXCEPT ![w] = x]
    BY Zenon, <1>6
  <2>. HIDE DEF x
  <2>. QED
    BY Zenon, <1>1, <1>2, <1>3, <1>6, <2>2, <2>3, CheckedStep
<1>7. CASE work' = [work EXCEPT ![w].at = "failing"]
  <2>. DEFINE x == [work[w] EXCEPT !.at = "failing"]
  <2>1. x \in StartState /\ x.at = "failing" /\ x.at # "checked"
    BY <1>4 DEF StartState
  <2>2. work' = [work EXCEPT ![w] = x]
    BY <1>4, <1>7
  <2>. HIDE DEF x
  <2>. QED
    BY Zenon, <1>1, <1>2, <1>3, <2>1, <2>2, CheckedStep
<1>. QED
  BY Zenon, <1>5, <1>6, <1>7 DEF CheckSpec

\* The creating write, under the spec that the start checked.
LEMMA CreatingStep ==
  ASSUME IInv, NEW j \in Jobs, NEW a \in 1..MaxClaims, MarkCreating(j, a)
  PROVE  IInv'
<1>. DEFINE w == <<j, a>>
            old == row[j]
            used == work[w].used
<1>1. /\ work[w].at = "checked" /\ UNCHANGED <<spec, clock, handler, edit, edits, claims, revivals>>
  BY Zenon DEF MarkCreating
<1>2. /\ work \in [Claimed -> StartState] /\ w \in Claimed /\ w[1] = j /\ work[w] \in StartState
      /\ row \in [Jobs -> Row] /\ old \in Row
  BY DEF IInv, AdmissionTypeOK, Claimed
<1>3. CASE /\ work' = [work EXCEPT ![w] = [NoStartYet EXCEPT !.at = "conflicted"]]
           /\ UNCHANGED row
  BY Zenon, <1>1, <1>3, RefusedStep
<1>4. CASE /\ old = work[w].seen /\ row' = [row EXCEPT ![j] = Creating(old, used)]
           /\ work' = [work EXCEPT ![w].at = "provisioning", ![w].seen = NoRow]
  <2>. DEFINE x == [work[w] EXCEPT !.at = "provisioning", !.seen = NoRow]
              q == Creating(old, used)
  <2>1. x \in StartState /\ x.at = "provisioning" /\ x.used = used
    BY Zenon, <1>2, BlankTypes DEF StartState
  <2>2. /\ q \in Row /\ q.status = "creating" /\ q.used = used /\ q.key = old.key
        /\ q.labels = old.labels /\ q.group = old.group /\ q.manual = old.manual
        /\ q.revived = old.revived
    <3>1. used \in Templates \cup {0} /\ old.timer \in BOOLEAN
          /\ old.code \in {"none", "wait", "retry", "capacity"}
      BY <1>2 DEF StartState, Row
    <3>2. (old.timer /\ old.code # "capacity") \in BOOLEAN
      BY <3>1
    <3>4. (IF old.code = "capacity" THEN "none" ELSE old.code) \in {"none", "wait", "retry", "capacity"}
      BY <3>1
    <3>. DEFINE c == IF old.code = "capacity" THEN "none" ELSE old.code
                b == old.timer /\ old.code # "capacity"
    <3>5. q = [old EXCEPT !.status = "creating", !.lease = TRUE, !.used = used, !.code = c, !.timer = b]
      BY <1>2 DEF Creating, Row
    <3>. HIDE DEF c, b, q
    <3>6. c \in {"none", "wait", "retry", "capacity"} /\ b \in BOOLEAN
      BY Zenon, <3>2, <3>4 DEF c, b
    <3>. QED
      BY Zenon, <1>2, <3>1, <3>5, <3>6 DEF Row, RequestStatus
  <2>3. work' = [work EXCEPT ![w] = x]
    BY Zenon, <1>2, <1>4
  <2>. HIDE DEF x, q
  <2>4. /\ work' \in [Claimed -> StartState] /\ work'[w] = x
        /\ \A y \in Claimed : y # w => work'[y] = work[y]
    BY <1>2, <2>1, <2>3
  <2>5. /\ row' \in [Jobs -> Row] /\ row'[j] = q /\ \A i \in Jobs : i # j => row'[i] = row[i]
    BY Zenon, <1>2, <1>4, <2>2 DEF q
  <2>6. /\ old.status = "queued" /\ spec[old.key].rev > 0 /\ Takes(spec[old.key], Wanted[j])
        /\ used = spec[old.key].template
    BY Zenon, <1>1, <1>2, <1>4 DEF IInv, Checks
  <2>7. \A e \in Editors : edit[e].at # "counted"
    BY Zenon, <1>1, <1>2 DEF IInv, Exclusive
  <2>8. AdmissionTypeOK'
    BY Zenon, <1>1, <2>4, <2>5 DEF IInv, AdmissionTypeOK
  <2>9. Revisions' /\ Admissions'
    BY Zenon, <1>1 DEF IInv, Revisions, Admissions
  <2>10. Exclusive' /\ Counted'
    BY Zenon, <1>1, <2>7 DEF Exclusive, Counted
  <2>11. Checks'
    <3>1. work'[w].at # "checked"
      BY Zenon, <2>1, <2>4
    <3>. QED
      BY Zenon, <1>1, <2>4, <3>1 DEF IInv, Checks
  <2>12. InFlightUnderItsSpec'
    BY Zenon, <1>1, <2>2, <2>5, <2>6 DEF IInv, InFlightUnderItsSpec
  <2>13. AdmittedCopyIsCurrent'
    BY ZenonT(30), <1>1, <2>2, <2>5, <2>6 DEF IInv, AdmittedCopyIsCurrent, Active
  <2>14. OneStart'
    <3>1. \A i \in Jobs, b \in 1..MaxClaims : <<i, b>> \in Claimed /\ (<<i, b>> = w <=> i = j /\ b = a)
      BY DEF Claimed
    <3>2. \A i \in Jobs, b \in 1..MaxClaims : ~(i = j /\ b = a) => work'[<<i, b>>] = work[<<i, b>>]
      BY Zenon, <2>4, <3>1
    <3>3. /\ \A i \in Jobs, b \in 1..MaxClaims :
               work'[<<i, b>>].at \in Working => work[<<i, b>>].at \in Working
          /\ work[<<j, a>>].at \in Working
      BY Zenon, <1>1, <2>4, <3>2 DEF Working
    <3>4. ASSUME NEW i \in Jobs, i # j
          PROVE  row'[i] = row[i] /\ \A b \in 1..MaxClaims : work'[<<i, b>>] = work[<<i, b>>]
      BY Zenon, <2>5, <3>2, <3>4
    <3>5. Windows(row'[j]) <=> Windows(old)
      BY Zenon, <2>2, <2>5 DEF Windows
    <3>6. Windows(old) => \A b \in 1..MaxClaims : work'[<<j, b>>].at = "provisioning" =>
                                                   work'[<<j, b>>].used = row'[j].used
      <4>1. work'[<<j, a>>].used = row'[j].used
        BY Zenon, <2>1, <2>2, <2>4, <2>5
      <4>2. \A b \in 1..MaxClaims : work'[<<j, b>>].at = "provisioning" => work[<<j, b>>].at \in Working
        BY <3>3 DEF Working
      <4>. QED
        BY Zenon, <3>3, <4>1, <4>2 DEF IInv, OneStart
    <3>7. row'[j].status = "creating"
      BY Zenon, <2>2, <2>5
    <3>. QED
      BY <3>3, <3>4, <3>5, <3>6, <3>7 DEF IInv, OneStart
  <2>. QED
    BY Zenon, <2>8, <2>9, <2>10, <2>11, <2>12, <2>13, <2>14 DEF IInv
<1>. QED
  BY Zenon, <1>3, <1>4 DEF MarkCreating, Unchanged

-----------------------------------------------------------------------------
(* Admission                                                               *)

\* A new row is as good as the specs its admission saw.
LEMMA InsertStep ==
  ASSUME IInv, NEW j \in Jobs, NEW new \in Row, InsertOnce(j, new),
         new.status \in {"queued", "failed"},
         new.status = "queued" /\ ~new.manual =>
            /\ CanRLock /\ spec[new.key].rev > 0
            /\ new.labels = spec[new.key].labels /\ new.group = spec[new.key].group,
         handler' \in [Handlers -> AdmissionState],
         \A h \in Handlers : handler'[h] = handler[h] \/ handler'[h].at = "idle",
         UNCHANGED <<spec, clock, work, edit, edits, claims, revivals>>
  PROVE  IInv'
<1>1. row \in [Jobs -> Row]
  BY DEF IInv, AdmissionTypeOK
<1>2. /\ row' \in [Jobs -> Row]
      /\ \A i \in Jobs : row'[i] = row[i] \/ (i = j /\ row[j] = NoRow /\ row'[j] = new)
  <2>1. CASE row[j] = NoRow
    BY <1>1, <2>1 DEF InsertOnce
  <2>2. CASE row[j] # NoRow
    BY Zenon, <1>1, <2>2 DEF InsertOnce
  <2>. QED
    BY ZenonT(30), <2>1, <2>2
<1>3. NoRow.status = "none"
  BY DEF NoRow, NewRow
<1>4. AdmissionTypeOK'
  BY Zenon, <1>2 DEF IInv, AdmissionTypeOK
<1>5. Revisions' /\ Checks'
  BY Zenon DEF IInv, Revisions, Checks
<1>6. Exclusive'
  <2>1. \A h \in Handlers : handler'[h].at \in {"absent", "waking"} =>
                              handler[h].at \in {"absent", "waking"}
    BY Zenon
  <2>. QED
    BY ZenonT(30), <2>1 DEF IInv, Exclusive
<1>7. Admissions'
  <2>1. \A h \in Handlers : handler'[h].at \in {"absent", "manual"} => handler'[h] = handler[h]
    BY Zenon
  <2>. QED
    BY <2>1 DEF IInv, Admissions
<1>8. Counted'
  BY <1>2 DEF IInv, Counted, CanRLock, Active, InFlight
<1>9. OneStart'
  <2>. SUFFICES ASSUME NEW i \in Jobs, row'[i] # row[i]
                PROVE  row'[i].status \in {"queued", "failed"}
                       /\ \A a \in 1..MaxClaims : work[<<i, a>>].at = "idle"
    BY ZenonT(30) DEF IInv, OneStart, Windows, Working
  <2>. QED
    BY ZenonT(30), <1>2, <1>3 DEF IInv, OneStart
<1>10. InFlightUnderItsSpec' /\ AdmittedCopyIsCurrent'
  BY <1>2 DEF IInv, InFlightUnderItsSpec, AdmittedCopyIsCurrent, Active, InFlight
<1>. QED
  BY ZenonT(30), <1>4, <1>5, <1>6, <1>7, <1>8, <1>9, <1>10 DEF IInv

\* A handler that answers is idle again, and the others stay.
LEMMA AnsweredTypes ==
  ASSUME IInv, NEW h \in Handlers, Answered(h)
  PROVE  /\ handler' \in [Handlers -> AdmissionState]
         /\ \A g \in Handlers : handler'[g] = handler[g] \/ handler'[g].at = "idle"
         /\ handler[h] \in AdmissionState /\ handler[h].job \in Jobs /\ handler[h].new \in Row
<1>1. handler \in [Handlers -> AdmissionState] /\ handler[h] \in AdmissionState
  BY DEF IInv, AdmissionTypeOK
<1>2. NoAdmission \in AdmissionState /\ NoAdmission.at = "idle"
  BY BlankTypes DEF NoAdmission
<1>3. handler' = [handler EXCEPT ![h] = NoAdmission]
  BY Zenon DEF Answered
<1>4. handler[h].job \in Jobs /\ handler[h].new \in Row
  BY <1>1 DEF AdmissionState
<1>. QED
  BY Zenon, <1>1, <1>2, <1>3, <1>4

\* Rejected deliveries leave a failed row.
LEMMA RejectStep ==
  ASSUME IInv, NEW j \in Jobs, DeliverDisallowed(j) \/ DeliverRejected(j)
  PROVE  IInv'
<1>1. /\ UNCHANGED <<spec, clock, handler, work, edit, edits, claims, revivals>>
      /\ spec \in [Key -> RunnerSpec] /\ Wanted[j] \in SUBSET Labels
  BY Zenon, AdmissionConstants DEF DeliverDisallowed, DeliverRejected, IInv, AdmissionTypeOK
<1>2. PICK k \in Key : InsertOnce(j, NewRow("failed", k, Wanted[j], 0))
  <2>1. CASE DeliverDisallowed(j)
    <3>1. <<"global", 0>> \in Key
      BY DEF Key
    <3>. QED
      BY Zenon, <2>1, <3>1 DEF DeliverDisallowed
  <2>2. CASE DeliverRejected(j)
    BY Zenon, <1>1, <2>2, MatchFinds DEF DeliverRejected
  <2>. QED
    BY Zenon, <2>1, <2>2
<1>. DEFINE new == NewRow("failed", k, Wanted[j], 0)
<1>3. new \in Row /\ new.status = "failed"
  <2>1. "failed" \in RequestStatus /\ 0 \in Groups \cup {0}
    BY DEF RequestStatus
  <2>2. Wanted[j] \in SUBSET Labels /\ MaxClaims \in Nat
    BY Zenon, <1>1, AdmissionConstants
  <2>. QED
    BY <2>1, <2>2 DEF NewRow, Row
<1>. HIDE DEF new
<1>4. handler' \in [Handlers -> AdmissionState]
  BY Zenon, <1>1 DEF IInv, AdmissionTypeOK
<1>5. InsertOnce(j, new)
  BY Zenon, <1>2 DEF new
<1>6. new.status # "queued"
  BY <1>3
<1>. QED
  BY Zenon, <1>1, <1>3, <1>4, <1>5, <1>6, InsertStep

\* An admission writes what it matched.
LEMMA AnswerStep ==
  ASSUME IInv, NEW h \in Handlers, InsertAdmitted(h) \/ ManualCreate(h)
  PROVE  IInv'
<1>. DEFINE j == handler[h].job
            new == handler[h].new
<1>1. /\ Answered(h) /\ InsertOnce(j, new) /\ handler[h].at \in {"absent", "manual"}
      /\ UNCHANGED <<spec, clock, work, edit, edits, claims, revivals>>
  BY Zenon DEF InsertAdmitted, ManualCreate
<1>2. new.status = "queued" /\ (handler[h].at = "manual" => new.manual)
  BY Zenon, <1>1 DEF IInv, Admissions
<1>3. ~new.manual => handler[h].at = "absent"
  BY Zenon, <1>1, <1>2
<1>4. ~new.manual => /\ CanRLock /\ spec[new.key].rev > 0
                     /\ new.labels = spec[new.key].labels /\ new.group = spec[new.key].group
  BY Zenon, <1>3 DEF IInv, Admissions, Exclusive, CanRLock
<1>. QED
  BY Zenon, <1>1, <1>2, <1>4, AnsweredTypes, InsertStep

\* A step that moves only handlers.
LEMMA HandlerFrame ==
  ASSUME IInv, UNCHANGED <<spec, clock, row, work, edit, edits, claims, revivals>>,
         handler' \in [Handlers -> AdmissionState], Exclusive', Admissions'
  PROVE  IInv'
<1>1. AdmissionTypeOK'
  BY Zenon DEF IInv, AdmissionTypeOK
<1>2. Revisions' /\ Checks' /\ Counted'
  BY Zenon DEF IInv, Revisions, Checks, Counted
<1>3. OneStart'
  BY Zenon DEF IInv, OneStart, Windows
<1>4. InFlightUnderItsSpec' /\ AdmittedCopyIsCurrent'
  BY Zenon DEF IInv, InFlightUnderItsSpec, AdmittedCopyIsCurrent, Windows
<1>. QED
  BY Zenon, <1>1, <1>2, <1>3, <1>4 DEF IInv

\* A delivery that finds its row at most clears the row's timer.
LEMMA WakeStep ==
  ASSUME IInv, NEW h \in Handlers, WakeWaiting(h)
  PROVE  IInv'
<1>. DEFINE j == handler[h].job
            seen == handler[h].new
<1>1. /\ Answered(h) /\ UNCHANGED <<spec, clock, work, edit, edits, claims, revivals>>
      /\ \/ row' = row
         \/ /\ seen.status = "queued" /\ Unchanged(j, seen)
            /\ row' = [row EXCEPT ![j] = [seen EXCEPT !.timer = FALSE]]
  BY Zenon DEF WakeWaiting
<1>2. /\ handler' \in [Handlers -> AdmissionState] /\ j \in Jobs /\ seen \in Row
      /\ \A g \in Handlers : handler'[g] = handler[g] \/ handler'[g].at = "idle"
  BY Zenon, <1>1, AnsweredTypes
<1>3. CASE row' = row
  <2>1. Exclusive'
    <3>1. \A g \in Handlers : handler'[g].at \in {"absent", "waking"} =>
                                handler[g].at \in {"absent", "waking"}
      BY ZenonT(30), <1>2
    <3>. QED
      BY Zenon, <1>1, <3>1 DEF IInv, Exclusive
  <2>2. Admissions'
    <3>1. \A g \in Handlers : handler'[g].at \in {"absent", "manual"} => handler'[g] = handler[g]
      BY Zenon, <1>2
    <3>. QED
      BY <1>1, <3>1 DEF IInv, Admissions
  <2>. QED
    BY Zenon, <1>1, <1>2, <1>3, <2>1, <2>2, HandlerFrame
<1>4. CASE /\ seen.status = "queued" /\ Unchanged(j, seen)
           /\ row' = [row EXCEPT ![j] = [seen EXCEPT !.timer = FALSE]]
  <2>1. row \in [Jobs -> Row] /\ row[j] = seen
    BY Zenon, <1>4 DEF IInv, AdmissionTypeOK, Unchanged
  <2>. DEFINE q == [seen EXCEPT !.timer = FALSE]
  <2>2. q \in Row
    BY Zenon, <1>2 DEF Row
  <2>3. Continues(q, row[j])
    BY <1>2, <1>4, <2>1 DEF Continues, Row
  <2>. HIDE DEF q, j, seen
  <2>4. row' = [row EXCEPT ![j] = q]
    BY Zenon, <1>4 DEF q
  <2>5. row' \in [Jobs -> Row]
    BY Zenon, <1>2, <2>1, <2>2, <2>4
  <2>6. AdmissionTypeOK'
    BY Zenon, <1>1, <1>2, <2>5 DEF IInv, AdmissionTypeOK
  <2>7. \A w \in Claimed : Retreats(j, w)
    BY Zenon, <1>1 DEF Retreats
  <2>. QED
    BY ZenonT(30), <1>1, <1>2, <2>2, <2>3, <2>4, <2>6, <2>7, RowFrame
<1>. QED
  BY Zenon, <1>1, <1>3, <1>4

\* An admission keeps, until it inserts, a copy of a spec that it matched.
LEMMA AdmitStep ==
  ASSUME IInv, NEW h \in Handlers, NEW j \in Jobs, NEW at \in {"absent", "waking", "manual"},
         NEW new \in Row, Admitting(h, at, j, new),
         UNCHANGED <<spec, clock, row, work, edit, edits, claims, revivals>>,
         at # "manual" => CanRLock,
         at = "absent" => /\ spec[new.key].rev > 0
                          /\ new.labels = spec[new.key].labels /\ new.group = spec[new.key].group,
         at # "waking" => new.status = "queued",
         at = "manual" => new.manual
  PROVE  IInv'
<1>. DEFINE x == [at |-> at, job |-> j, new |-> new]
<1>1. x \in AdmissionState /\ x.at = at /\ x.new = new
  BY DEF AdmissionState
<1>2. handler' = [handler EXCEPT ![h] = x] /\ handler \in [Handlers -> AdmissionState]
  BY Zenon DEF Admitting, IInv, AdmissionTypeOK
<1>. HIDE DEF x
<1>3. /\ handler' \in [Handlers -> AdmissionState]
      /\ \A g \in Handlers : handler'[g] = handler[g] \/ (g = h /\ handler'[g] = x)
  BY <1>1, <1>2
<1>4. Exclusive'
  <2>1. CASE at = "manual"
    <3>1. \A g \in Handlers : handler'[g].at \in {"absent", "waking"} =>
                                handler[g].at \in {"absent", "waking"}
      BY <1>1, <1>3, <2>1
    <3>. QED
      BY Zenon, <3>1 DEF IInv, Exclusive
  <2>2. CASE at # "manual"
    BY Zenon, <2>2 DEF Exclusive, CanRLock
  <2>. QED
    BY Zenon, <2>1, <2>2
<1>5. Admissions'
  <2>1. ASSUME NEW g \in Handlers
        PROVE  (/\ handler[g].at = "absent" =>
                     /\ spec[handler[g].new.key].rev > 0
                     /\ handler[g].new.labels = spec[handler[g].new.key].labels
                     /\ handler[g].new.group = spec[handler[g].new.key].group
                /\ handler[g].at \in {"absent", "manual"} => handler[g].new.status = "queued"
                /\ handler[g].at = "manual" => handler[g].new.manual)'
    <3>1. CASE handler'[g] = handler[g]
      BY ZenonT(30), <3>1 DEF IInv, Admissions
    <3>2. CASE handler'[g] = x
      BY <1>1, <3>2
    <3>. QED
      BY Zenon, <1>3, <3>1, <3>2
  <2>. QED
    BY Zenon, <2>1 DEF Admissions
<1>. QED
  BY ZenonT(30), <1>3, <1>4, <1>5, HandlerFrame

\* The fields of a spec.
LEMMA SpecTypes ==
  ASSUME NEW s \in RunnerSpec
  PROVE  /\ s.labels \in SUBSET Labels /\ s.required \in SUBSET Labels
         /\ s.template \in Templates \cup {0} /\ s.group \in Groups \cup {0} /\ s.priority \in 0..1 /\ s.rev \in Nat
  BY DEF RunnerSpec

\* A webhook delivery for which a spec was found.
LEMMA DeliverStep ==
  ASSUME IInv, NEW h \in Handlers, NEW j \in Jobs, Deliver(h, j)
  PROVE  IInv'
<1>1. /\ UNCHANGED <<spec, clock, row, work, edit, edits, claims, revivals>> /\ CanRLock
      /\ spec \in [Key -> RunnerSpec] /\ row[j] \in Row
  BY Zenon DEF Deliver, IInv, AdmissionTypeOK
<1>2. PICK inScope \in BOOLEAN :
        LET k == Match(inScope, Wanted[j])
        IN /\ k[2] # 0
           /\ IF row[j] = NoRow
              THEN Admitting(h, "absent", j, NewRow("queued", k, spec[k].labels, spec[k].group))
              ELSE Admitting(h, "waking", j, row[j])
  BY Zenon DEF Deliver
<1>. DEFINE k == Match(inScope, Wanted[j])
            new == NewRow("queued", k, spec[k].labels, spec[k].group)
<1>3. k \in Key /\ SpecExists(k)
  BY Zenon, <1>1, <1>2, MatchFinds
<1>4. Admitting(h, "absent", j, new) \/ Admitting(h, "waking", j, row[j])
  BY Zenon, <1>2
<1>. HIDE DEF k
<1>5. CASE Admitting(h, "waking", j, row[j])
  BY Zenon, <1>1, <1>5, AdmitStep
<1>6. CASE Admitting(h, "absent", j, new)
  <2>1. spec[k] \in RunnerSpec /\ MaxClaims \in Nat
    BY Zenon, <1>1, <1>3, AdmissionConstants
  <2>2. spec[k].labels \in SUBSET Labels /\ spec[k].group \in Groups \cup {0}
    BY ZenonT(30), <2>1, SpecTypes
  <2>3. new \in Row
    BY <1>3, <2>1, <2>2 DEF NewRow, Row, RequestStatus
  <2>4. /\ new.status = "queued" /\ new.key = k
        /\ new.labels = spec[k].labels /\ new.group = spec[k].group
    BY DEF NewRow
  <2>5. spec[k].rev > 0
    BY Zenon, <1>3 DEF SpecExists
  <2>. HIDE DEF new
  <2>6. /\ spec[new.key].rev > 0
        /\ new.labels = spec[new.key].labels /\ new.group = spec[new.key].group
    BY Zenon, <2>4, <2>5
  <2>. QED
    BY Zenon, <1>1, <1>6, <2>3, <2>4, <2>6, AdmitStep
<1>. QED
  BY Zenon, <1>4, <1>5, <1>6

\* An administrator's request.
LEMMA ManualStep ==
  ASSUME IInv, NEW h \in Handlers, NEW j \in Jobs, ManualMatch(h, j)
  PROVE  IInv'
<1>1. /\ UNCHANGED <<spec, clock, row, work, edit, edits, claims, revivals>>
      /\ spec \in [Key -> RunnerSpec] /\ Wanted[j] \in SUBSET Labels /\ MaxClaims \in Nat
  BY Zenon, AdmissionConstants DEF ManualMatch, IInv, AdmissionTypeOK
<1>2. PICK n \in Names : \E labels \in {Wanted[j], spec[<<"global", n>>].labels} :
        Admitting(h, "manual", j,
                  [NewRow("queued", <<"global", n>>, labels, spec[<<"global", n>>].group)
                      EXCEPT !.manual = TRUE])
  BY Zenon DEF ManualMatch
<1>. DEFINE k == <<"global", n>>
<1>3. k \in Key
  BY DEF Key
<1>4. spec[k].labels \in SUBSET Labels /\ spec[k].group \in Groups \cup {0}
  BY Zenon, <1>1, <1>3, SpecTypes
<1>5. PICK labels \in SUBSET Labels :
        Admitting(h, "manual", j,
                  [NewRow("queued", k, labels, spec[k].group) EXCEPT !.manual = TRUE])
  BY Zenon, <1>1, <1>2, <1>4
<1>. HIDE DEF k
<1>. DEFINE new == [NewRow("queued", k, labels, spec[k].group) EXCEPT !.manual = TRUE]
<1>6. new \in Row
  <2>. DEFINE r == NewRow("queued", k, labels, spec[k].group)
  <2>1. r \in Row
    BY <1>1, <1>3, <1>4 DEF NewRow, Row, RequestStatus
  <2>. HIDE DEF r
  <2>2. [r EXCEPT !.manual = TRUE] \in Row
    BY Zenon, <2>1 DEF Row
  <2>. QED
    BY Zenon, <2>2 DEF r
<1>7. new.status = "queued" /\ new.manual
  BY DEF NewRow
<1>8. Admitting(h, "manual", j, new)
  BY Zenon, <1>5
<1>. HIDE DEF new
<1>. QED
  BY Zenon, <1>1, <1>6, <1>7, <1>8, AdmitStep

-----------------------------------------------------------------------------
(* Spec edits                                                              *)

\* A step that moves only edits.
LEMMA EditFrame ==
  ASSUME IInv, UNCHANGED <<spec, clock, row, handler, work, claims, revivals>>,
         edit' \in [Editors -> EditState], edits' \in 0..MaxEdits,
         Revisions', Exclusive', Counted'
  PROVE  IInv'
<1>1. AdmissionTypeOK'
  BY Zenon DEF IInv, AdmissionTypeOK
<1>2. Admissions' /\ Checks'
  BY Zenon DEF IInv, Admissions, Checks
<1>3. OneStart'
  BY Zenon DEF IInv, OneStart, Windows
<1>4. InFlightUnderItsSpec' /\ AdmittedCopyIsCurrent'
  BY Zenon DEF IInv, InFlightUnderItsSpec, AdmittedCopyIsCurrent, Windows
<1>. QED
  BY Zenon, <1>1, <1>2, <1>3, <1>4 DEF IInv

\* A handler begins with the spec as it stands, or with none.
LEMMA BeginStep ==
  ASSUME IInv, NEW e \in Editors, NEW k \in Key, NEW base \in RunnerSpec, NEW next \in RunnerSpec,
         base = NoSpec \/ base = spec[k], BeginEdit(e, k, base, next)
  PROVE  IInv'
<1>. DEFINE x == [at |-> "read", key |-> k, base |-> base, next |-> next]
<1>1. x \in EditState /\ x.at = "read" /\ x.key = k /\ x.base = base
  BY DEF EditState
<1>2. /\ UNCHANGED <<spec, clock, row, handler, work, claims, revivals>>
      /\ edit' = [edit EXCEPT ![e] = x] /\ edit \in [Editors -> EditState]
      /\ spec \in [Key -> RunnerSpec]
  BY Zenon DEF BeginEdit, IInv, AdmissionTypeOK
<1>3. edits' \in 0..MaxEdits
  <2>1. edits \in 0..MaxEdits /\ edits < MaxEdits /\ edits' = edits + 1 /\ MaxEdits \in Nat
    BY Zenon, AdmissionConstants DEF BeginEdit, IInv, AdmissionTypeOK
  <2>. QED
    BY <2>1
<1>. HIDE DEF x
<1>4. /\ edit' \in [Editors -> EditState] /\ edit'[e] = x
      /\ \A d \in Editors : d # e => edit'[d] = edit[d]
  BY Zenon, <1>1, <1>2
<1>5. \A d \in Editors : edit'[d].at = "counted" => edit'[d] = edit[d] /\ edit[d].at = "counted"
  BY <1>1, <1>4
<1>6. Exclusive' /\ Counted'
  BY ZenonT(30), <1>2, <1>5 DEF IInv, Exclusive, Counted
<1>7. Revisions'
  <2>1. /\ base.rev <= clock /\ (base.rev = 0 => base = NoSpec)
        /\ spec[k].rev = base.rev => spec[k] = base
        /\ spec[k].rev > 0 => base.rev <= spec[k].rev
    <3>1. /\ spec[k] \in RunnerSpec /\ spec[k].rev <= clock /\ (spec[k].rev = 0 => spec[k] = NoSpec)
          /\ clock \in Nat
      BY Zenon, <1>2 DEF IInv, Revisions, AdmissionTypeOK
    <3>2. spec[k].rev \in Nat /\ NoSpec.rev = 0
      BY <3>1, SpecTypes DEF NoSpec
    <3>. QED
      BY <3>1, <3>2
  <2>2. ASSUME NEW d \in Editors, edit'[d].at \in {"read", "counted"}
        PROVE  /\ edit'[d].base.rev <= clock
               /\ edit'[d].base.rev = 0 => edit'[d].base = NoSpec
               /\ spec[edit'[d].key].rev = edit'[d].base.rev => spec[edit'[d].key] = edit'[d].base
               /\ spec[edit'[d].key].rev > 0 => edit'[d].base.rev <= spec[edit'[d].key].rev
    <3>1. CASE d = e
      BY Zenon, <1>1, <1>4, <2>1, <3>1
    <3>2. CASE d # e
      BY Zenon, <1>4, <2>2, <3>2 DEF IInv, Revisions
    <3>. QED
      BY ZenonT(30), <3>1, <3>2
  <2>. QED
    BY Zenon, <1>2, <2>2 DEF IInv, Revisions
<1>. QED
  BY Zenon, <1>2, <1>3, <1>4, <1>6, <1>7, EditFrame

\* What an edit may ask for is a spec.
LEMMA NewSpecTypes ==
  ASSUME NEW s \in RunnerSpec
  PROVE  NewSpecs \cup ScopedPatches(s) \cup PlatformPatches(s) \subseteq RunnerSpec
<1>1. LabelSets \subseteq SUBSET Labels
  BY Zenon, AdmissionConstants
<1>2. NewSpecs \subseteq RunnerSpec
  <2>1. \A l \in LabelSets, t \in Templates, g \in Groups :
          [labels |-> l, required |-> l, template |-> t, group |-> g, enabled |-> TRUE, priority |-> 0,
           rev |-> 0] \in RunnerSpec
    BY <1>1 DEF RunnerSpec
  <2>. SUFFICES ASSUME NEW x \in NewSpecs PROVE x \in RunnerSpec
    BY Zenon
  <2>2. \E l \in LabelSets, t \in Templates, g \in Groups :
          x = [labels |-> l, required |-> l, template |-> t, group |-> g, enabled |-> TRUE, priority |-> 0,
               rev |-> 0]
    BY DEF NewSpecs
  <2>. QED
    BY Zenon, <2>1, <2>2
<1>3. \A l \in LabelSets : /\ [s EXCEPT !.labels = l, !.required = l] \in RunnerSpec
                           /\ [s EXCEPT !.labels = l, !.required = @ \cap l] \in RunnerSpec
  BY Zenon, <1>1 DEF RunnerSpec
<1>4. /\ \A t \in Templates : [s EXCEPT !.template = t] \in RunnerSpec
      /\ \A g \in Groups : [s EXCEPT !.group = g] \in RunnerSpec
  BY DEF RunnerSpec
<1>5. [s EXCEPT !.enabled = ~@] \in RunnerSpec /\ [s EXCEPT !.priority = 1 - @] \in RunnerSpec
  <2>1. (~s.enabled) \in BOOLEAN /\ \A b \in BOOLEAN : [s EXCEPT !.enabled = b] \in RunnerSpec
    <3>1. \A b \in BOOLEAN : [s EXCEPT !.enabled = b] \in RunnerSpec
      BY DEF RunnerSpec
    <3>. QED
      BY Zenon, <3>1
  <2>2. 1 - s.priority \in 0..1
    BY SpecTypes
  <2>3. \A n \in 0..1 : [s EXCEPT !.priority = n] \in RunnerSpec
    BY DEF RunnerSpec
  <2>. QED
    BY Zenon, <2>1, <2>2, <2>3
<1>6. ScopedPatches(s) \subseteq RunnerSpec
  <2>. SUFFICES ASSUME NEW x \in ScopedPatches(s) PROVE x \in RunnerSpec
    BY Zenon
  <2>1. \/ \E l \in LabelSets : x = [s EXCEPT !.labels = l, !.required = l]
        \/ \E t \in Templates : x = [s EXCEPT !.template = t]
        \/ \E g \in Groups : x = [s EXCEPT !.group = g]
        \/ x = [s EXCEPT !.enabled = ~@]
    BY Zenon DEF ScopedPatches
  <2>. QED
    BY Zenon, <1>3, <1>4, <1>5, <2>1
<1>7. PlatformPatches(s) \subseteq RunnerSpec
  <2>. SUFFICES ASSUME NEW x \in PlatformPatches(s) PROVE x \in RunnerSpec
    BY Zenon
  <2>1. \/ \E l \in LabelSets : x = [s EXCEPT !.labels = l, !.required = @ \cap l]
        \/ \E t \in Templates : x = [s EXCEPT !.template = t]
        \/ \E g \in Groups : x = [s EXCEPT !.group = g]
        \/ x = [s EXCEPT !.enabled = ~@] \/ x = [s EXCEPT !.priority = 1 - @]
    BY Zenon DEF PlatformPatches
  <2>. QED
    BY Zenon, <1>3, <1>4, <1>5, <2>1
<1>. QED
  BY Zenon, <1>2, <1>6, <1>7

\* Every kind of edit begins so.
LEMMA ReadStep ==
  ASSUME IInv, NEW e \in Editors, NEW k \in EditedKeys,
         \/ CreateScopedSpec(e, k) \/ PatchScopedSpec(e, k) \/ DeleteScopedSpec(e, k)
         \/ CreateProfile(e, k) \/ PatchProfile(e, k) \/ DeleteProfile(e, k)
  PROVE  IInv'
<1>1. k \in Key /\ spec[k] \in RunnerSpec /\ NoSpec \in RunnerSpec
  BY Zenon, AdmissionConstants, BlankTypes DEF IInv, AdmissionTypeOK
<1>2. PICK base \in {NoSpec, spec[k]}, next \in RunnerSpec : BeginEdit(e, k, base, next)
  BY Zenon, <1>1, NewSpecTypes
     DEF CreateScopedSpec, PatchScopedSpec, DeleteScopedSpec, CreateProfile, PatchProfile,
         DeleteProfile
<1>. QED
  BY Zenon, <1>1, <1>2, BeginStep

\* An edit that ends without a write.
LEMMA DropStep ==
  ASSUME IInv, NEW e \in Editors, edit' = [edit EXCEPT ![e] = NoEdit],
         UNCHANGED <<spec, clock, row, handler, work, edits, claims, revivals>>
  PROVE  IInv'
<1>1. NoEdit \in EditState /\ NoEdit.at = "idle" /\ edit \in [Editors -> EditState]
  BY BlankTypes DEF NoEdit, IInv, AdmissionTypeOK
<1>2. /\ edit' \in [Editors -> EditState]
      /\ \A d \in Editors : edit'[d].at \in {"read", "counted"} => edit'[d] = edit[d]
  BY <1>1
<1>3. Revisions'
  BY ZenonT(30), <1>2 DEF IInv, Revisions
<1>4. Exclusive' /\ Counted'
  BY ZenonT(30), <1>2 DEF IInv, Exclusive, Counted
<1>5. edits' \in 0..MaxEdits
  BY Zenon DEF IInv, AdmissionTypeOK
<1>. QED
  BY ZenonT(30), <1>2, <1>3, <1>4, <1>5, EditFrame

\* The mutex is taken when nobody has it, and what was counted is then so.
LEMMA CountStep ==
  ASSUME IInv, NEW e \in Editors, CountActive(e)
  PROVE  IInv'
<1>. DEFINE d == edit[e]
            x == [d EXCEPT !.at = "counted"]
<1>1. /\ d.at = "read" /\ CanLock /\ edit \in [Editors -> EditState]
      /\ UNCHANGED <<spec, clock, row, handler, work, edits, claims, revivals>>
      /\ \/ edit' = [edit EXCEPT ![e] = NoEdit]
         \/ /\ edit' = [edit EXCEPT ![e] = x]
            /\ NeedsIdle(d.base, d.next) => ActiveFor(d.key) = {}
  BY Zenon DEF CountActive, IInv, AdmissionTypeOK
<1>2. CASE edit' = [edit EXCEPT ![e] = NoEdit]
  BY Zenon, <1>1, <1>2, DropStep
<1>3. CASE edit' = [edit EXCEPT ![e] = x] /\ (NeedsIdle(d.base, d.next) => ActiveFor(d.key) = {})
  <2>1. x \in EditState /\ x.key = d.key /\ x.base = d.base /\ x.next = d.next
    <3>1. d \in EditState
      BY Zenon, <1>1
    <3>. QED
      BY <3>1 DEF EditState
  <2>. HIDE DEF x
  <2>2. /\ edit' \in [Editors -> EditState] /\ edit'[e] = x
        /\ \A c \in Editors : c # e => edit'[c] = edit[c]
    BY <1>1, <1>3, <2>1
  <2>3. \A c \in Editors : edit[c].at # "counted"
    BY Zenon, <1>1 DEF CanLock, CanRLock
  <2>4. \A c \in Editors : edit'[c].at = "counted" => c = e
    BY Zenon, <2>2, <2>3
  <2>5. Exclusive'
    BY Zenon, <1>1, <2>4 DEF Exclusive, CanLock
  <2>6. Counted'
    <3>1. NeedsIdle(d.base, d.next) =>
            \A j \in Jobs : ~(row[j].key = d.key /\ row[j].status \in Active)
      BY <1>3 DEF ActiveFor
    <3>2. \A c \in Editors : edit'[c].at = "counted" =>
            edit'[c].base = d.base /\ edit'[c].next = d.next /\ edit'[c].key = d.key
      BY Zenon, <2>1, <2>2, <2>4
    <3>. QED
      BY Zenon, <1>1, <3>1, <3>2 DEF Counted
  <2>7. Revisions'
    <3>1. \A c \in Editors : edit'[c].at \in {"read", "counted"} =>
            /\ edit[c].at \in {"read", "counted"}
            /\ edit'[c].base = edit[c].base /\ edit'[c].key = edit[c].key
      BY Zenon, <1>1, <2>1, <2>2
    <3>. QED
      BY ZenonT(30), <1>1, <3>1 DEF IInv, Revisions
  <2>8. edits' \in 0..MaxEdits
    BY Zenon, <1>1 DEF IInv, AdmissionTypeOK
  <2>. QED
    BY Zenon, <1>1, <2>2, <2>5, <2>6, <2>7, <2>8, EditFrame
<1>. QED
  BY Zenon, <1>1, <1>2, <1>3

\* A revision y read at clock c, of a spec whose revision is now x, is earlier
\* than the revision r that replaces x at time n.
LEMMA LaterRevision ==
  ASSUME NEW c \in Nat, NEW n \in Nat, NEW r \in Nat, NEW x \in Nat, NEW y \in Nat,
         y <= c, x > 0 => y <= x, x = 0 => n = c + 1, r >= n, r > x
  PROVE  y < r
OBVIOUS

\* The write replaces the spec that was read by a later revision, or deletes
\* it, and nothing active depends on what it changes.
LEMMA SaveStep ==
  ASSUME IInv, NEW e \in Editors, SaveSpec(e)
  PROVE  IInv'
<1>. DEFINE d == edit[e]
            k == d.key
            base == d.base
            next == d.next
<1>1. /\ d.at = "counted" /\ edit' = [edit EXCEPT ![e] = NoEdit]
      /\ UNCHANGED <<row, handler, work, edits, claims, revivals>>
      /\ \/ UNCHANGED <<spec, clock>>
         \/ /\ ~Stale(d)
            /\ \E now \in {clock, clock + 1} :
                 /\ base.rev = 0 => now = clock + 1
                 /\ clock' = IF next = NoSpec THEN now ELSE NextUpdatedAt(base, now)
                 /\ spec' = [spec EXCEPT ![k] =
                       IF next = NoSpec THEN NoSpec
                       ELSE [next EXCEPT !.rev = NextUpdatedAt(base, now)]]
  BY Zenon DEF SaveSpec
<1>2. CASE UNCHANGED <<spec, clock>>
  BY Zenon, <1>1, <1>2, DropStep
<1>3. ASSUME NEW now \in {clock, clock + 1}, ~Stale(d), base.rev = 0 => now = clock + 1,
             clock' = IF next = NoSpec THEN now ELSE NextUpdatedAt(base, now),
             spec' = [spec EXCEPT ![k] = IF next = NoSpec THEN NoSpec
                                         ELSE [next EXCEPT !.rev = NextUpdatedAt(base, now)]]
      PROVE  IInv'
  <2>. DEFINE rev == NextUpdatedAt(base, now)
              new == IF next = NoSpec THEN NoSpec ELSE [next EXCEPT !.rev = rev]
  <2>1. /\ edit \in [Editors -> EditState] /\ d \in EditState /\ spec \in [Key -> RunnerSpec]
        /\ clock \in Nat
    BY Zenon DEF IInv, AdmissionTypeOK
  <2>2. k \in Key /\ base \in RunnerSpec /\ next \in RunnerSpec
    BY <2>1 DEF EditState
  <2>3. base.rev \in Nat /\ now \in Nat /\ now >= clock /\ spec[k] \in RunnerSpec
    BY <2>1, <2>2, <1>3, SpecTypes
  <2>4. spec[k] = base /\ base.rev <= clock /\ (base.rev = 0 => base = NoSpec)
    BY ZenonT(30), <1>1, <1>3 DEF IInv, Revisions, Stale
  <2>5. rev \in Nat /\ rev >= now /\ rev > base.rev
    BY <2>3 DEF NextUpdatedAt
  <2>. HIDE DEF rev
  <2>6. new \in RunnerSpec
    <3>1. NoSpec \in RunnerSpec
      BY Zenon, BlankTypes
    <3>2. [next EXCEPT !.rev = rev] \in RunnerSpec
      BY <2>2, <2>5 DEF RunnerSpec
    <3>. QED
      BY Zenon, <3>1, <3>2
  <2>7. \/ next = NoSpec /\ new = NoSpec /\ clock' = now
        \/ /\ next # NoSpec /\ clock' = rev /\ new.rev = rev
           /\ new.labels = next.labels /\ new.required = next.required
           /\ new.template = next.template /\ new.group = next.group
    <3>1. CASE next = NoSpec
      BY Zenon, <1>3, <3>1
    <3>2. CASE next # NoSpec
      <4>1. clock' = rev /\ new = [next EXCEPT !.rev = rev]
        BY Zenon, <1>3, <3>2 DEF rev
      <4>. HIDE DEF new
      <4>. QED
        BY Zenon, <2>2, <3>2, <4>1 DEF RunnerSpec
    <3>. QED
      BY Zenon, <3>1, <3>2
  <2>8. spec' = [spec EXCEPT ![k] = new]
    BY Zenon, <1>3 DEF rev
  <2>. HIDE DEF new
  <2>9. spec' \in [Key -> RunnerSpec] /\ spec'[k] = new /\ \A c \in Key : c # k => spec'[c] = spec[c]
    BY Zenon, <2>1, <2>2, <2>6, <2>8
  <2>10. clock' \in Nat /\ clock' >= clock
    BY <2>1, <2>3, <2>5, <2>7
  <2>11. NoEdit \in EditState /\ NoEdit.at = "idle" /\ NoSpec.rev = 0
    BY BlankTypes DEF NoEdit, NoSpec
  <2>12. /\ edit' \in [Editors -> EditState]
         /\ \A c \in Editors : edit'[c].at \in {"read", "counted"} => c # e /\ edit'[c] = edit[c]
    BY Zenon, <1>1, <2>1, <2>11
  <2>13. /\ \A c \in Editors : edit[c].at = "counted" => c = e
         /\ \A h \in Handlers : handler[h].at \notin {"absent", "waking"}
         /\ \A w \in Claimed : work[w].at # "checked"
    BY Zenon, <1>1 DEF IInv, Exclusive
  <2>14. \A c \in Editors : edit'[c].at # "counted"
    BY Zenon, <2>12, <2>13
  <2>15. AdmissionTypeOK'
    BY Zenon, <1>1, <2>9, <2>10, <2>12 DEF IInv, AdmissionTypeOK
  <2>16. Exclusive' /\ Counted'
    BY Zenon, <2>14 DEF Exclusive, Counted
  <2>17. Checks'
    BY Zenon, <1>1, <2>13 DEF Checks
  <2>18. Admissions'
    BY Zenon, <1>1, <2>13 DEF IInv, Admissions
  <2>19. OneStart'
    BY Zenon, <1>1 DEF IInv, OneStart, Windows
  <2>20. Revisions'
    <3>1. \A c \in Key : spec'[c].rev <= clock' /\ (spec'[c].rev = 0 => spec'[c] = NoSpec)
      <4>. SUFFICES ASSUME NEW c \in Key
                    PROVE  spec'[c].rev <= clock' /\ (spec'[c].rev = 0 => spec'[c] = NoSpec)
        BY ZenonT(30)
      <4>1. CASE c = k
        BY SMTT(20), <2>3, <2>5, <2>7, <2>9, <2>10, <2>11, <4>1
      <4>2. CASE c # k
        <5>1. /\ spec[c].rev <= clock /\ (spec[c].rev = 0 => spec[c] = NoSpec)
              /\ spec'[c] = spec[c] /\ spec[c] \in RunnerSpec
          BY Zenon, <2>1, <2>9, <4>2 DEF IInv, Revisions
        <5>2. spec[c].rev \in Nat
          BY Zenon, <5>1, SpecTypes
        <5>. QED
          BY <2>1, <2>10, <5>1, <5>2
      <4>. QED
        BY Zenon, <4>1, <4>2
    <3>2. ASSUME NEW c \in Editors, edit'[c].at \in {"read", "counted"}
          PROVE  /\ edit[c].base.rev <= clock'
                 /\ edit[c].base.rev = 0 => edit[c].base = NoSpec
                 /\ spec'[edit[c].key].rev = edit[c].base.rev => spec'[edit[c].key] = edit[c].base
                 /\ spec'[edit[c].key].rev > 0 => edit[c].base.rev <= spec'[edit[c].key].rev
      <4>. DEFINE b == edit[c].base
                  i == edit[c].key
      <4>1. /\ b.rev <= clock /\ (b.rev = 0 => b = NoSpec)
            /\ spec[i].rev = b.rev => spec[i] = b
            /\ spec[i].rev > 0 => b.rev <= spec[i].rev
        BY Zenon, <2>12, <3>2 DEF IInv, Revisions
      <4>2. edit[c] \in EditState
        BY Zenon, <2>1
      <4>3. b \in RunnerSpec /\ i \in Key
        BY <4>2 DEF EditState
      <4>4. b.rev \in Nat
        BY ZenonT(30), <4>3, SpecTypes
      <4>. HIDE DEF b, i
      <4>5. CASE i = k
        <5>1. b.rev < rev
          <6>1. b.rev <= clock /\ (base.rev > 0 => b.rev <= base.rev) /\ (base.rev = 0 => now = clock + 1)
            BY Zenon, <1>3, <2>4, <4>1, <4>5
          <6>. QED
            BY ZenonT(30), <2>1, <2>3, <2>5, <4>4, <6>1, LaterRevision
        <5>. QED
          BY SMTT(20), <2>1, <2>5, <2>7, <2>9, <2>10, <2>11, <4>1, <4>4, <4>5, <5>1 DEF b, i
      <4>6. CASE i # k
        BY SMTT(20), <2>1, <2>9, <2>10, <4>1, <4>3, <4>4, <4>6 DEF b, i
      <4>. QED
        BY Zenon, <4>5, <4>6
    <3>. QED
      BY Zenon, <2>12, <3>1, <3>2 DEF Revisions
  <2>21. \/ \A j \in Jobs : row[j].key = k /\ row[j].status \in Active =>
              row[j].status \notin {"creating", "running"} /\ (row[j].revived \/ row[j].manual)
         \/ base.rev = 0
         \/ /\ new.rev > 0 /\ new.labels = base.labels /\ new.required = base.required
            /\ new.template = base.template /\ new.group = base.group
    <3>1. CASE NeedsIdle(base, next)
      BY ZenonT(30), <1>1, <3>1 DEF IInv, Counted
    <3>2. CASE ~NeedsIdle(base, next)
      <4>1. base.rev = 0 \/ (next # NoSpec /\ ~ExecutionChanged(base, next))
        BY <2>3, <3>2 DEF NeedsIdle
      <4>. QED
        BY <2>3, <2>5, <2>7, <4>1 DEF ExecutionChanged
    <3>. QED
      BY Zenon, <3>1, <3>2
  <2>22. ASSUME NEW j \in Jobs, row[j].key = k,
                \/ row[j].status \in {"creating", "running"}
                \/ row[j].status \in Active /\ ~row[j].revived /\ ~row[j].manual
         PROVE  /\ new.rev > 0 /\ new.labels = base.labels /\ new.required = base.required
                /\ new.template = base.template /\ new.group = base.group
    <3>1. base.rev > 0
      BY ZenonT(30), <2>4, <2>22 DEF IInv, InFlightUnderItsSpec, AdmittedCopyIsCurrent
    <3>2. base.rev # 0
      BY <2>3, <3>1
    <3>3. row[j].status \in Active
      BY <2>22 DEF Active, InFlight
    <3>. QED
      BY Zenon, <2>21, <2>22, <3>2, <3>3
  <2>23. \A j \in Jobs : row[j].key \in Key
    <3>1. \A r \in Row : r.key \in Key
      BY DEF Row
    <3>. QED
      BY Zenon, <3>1 DEF IInv, AdmissionTypeOK
  <2>24. InFlightUnderItsSpec'
    <3>. SUFFICES ASSUME NEW j \in Jobs, row[j].status \in {"creating", "running"}
                  PROVE  /\ spec'[row[j].key].rev > 0 /\ Takes(spec'[row[j].key], Wanted[j])
                         /\ Windows(row[j]) => row[j].used = spec'[row[j].key].template
      BY Zenon, <1>1 DEF InFlightUnderItsSpec, Windows
    <3>1. /\ spec[row[j].key].rev > 0 /\ Takes(spec[row[j].key], Wanted[j])
          /\ Windows(row[j]) => row[j].used = spec[row[j].key].template
      BY Zenon DEF IInv, InFlightUnderItsSpec
    <3>2. CASE row[j].key = k
      BY ZenonT(30), <2>4, <2>9, <2>22, <3>1, <3>2 DEF Takes
    <3>3. CASE row[j].key # k
      BY Zenon, <2>9, <2>23, <3>1, <3>3
    <3>. QED
      BY Zenon, <3>2, <3>3
  <2>25. AdmittedCopyIsCurrent'
    <3>. SUFFICES ASSUME NEW j \in Jobs, row[j].status \in Active, ~row[j].revived, ~row[j].manual
                  PROVE  /\ spec'[row[j].key].rev > 0 /\ row[j].labels = spec'[row[j].key].labels
                         /\ row[j].group = spec'[row[j].key].group
      BY Zenon, <1>1 DEF AdmittedCopyIsCurrent
    <3>1. /\ spec[row[j].key].rev > 0 /\ row[j].labels = spec[row[j].key].labels
          /\ row[j].group = spec[row[j].key].group
      BY Zenon DEF IInv, AdmittedCopyIsCurrent
    <3>2. CASE row[j].key = k
      BY Zenon, <2>4, <2>9, <2>22, <3>1, <3>2
    <3>3. CASE row[j].key # k
      BY Zenon, <2>9, <2>23, <3>1, <3>3
    <3>. QED
      BY Zenon, <3>2, <3>3
  <2>. QED
    BY ZenonT(30), <2>15, <2>16, <2>17, <2>18, <2>19, <2>20, <2>24, <2>25 DEF IInv
<1>. QED
  BY Zenon, <1>1, <1>2, <1>3

-----------------------------------------------------------------------------
(* The invariant and what follows from it                                  *)

\* Every step keeps the inductive invariant.
LEMMA StepIInv == IInv /\ [AdmissionNext]_admissionVars => IInv'
<1>. SUFFICES ASSUME IInv, [AdmissionNext]_admissionVars PROVE IInv'
  OBVIOUS
<1>1. CASE UNCHANGED admissionVars
  <2>1. AdmissionTypeOK'
    BY Zenon, <1>1 DEF IInv, AdmissionTypeOK, admissionVars
  <2>2. Revisions' /\ Exclusive' /\ Admissions' /\ Checks' /\ Counted'
    BY Zenon, <1>1 DEF IInv, Revisions, Exclusive, Admissions, Checks, Counted, admissionVars
  <2>3. OneStart'
    BY Zenon, <1>1 DEF IInv, OneStart, Windows, admissionVars
  <2>4. InFlightUnderItsSpec' /\ AdmittedCopyIsCurrent'
    BY Zenon, <1>1 DEF IInv, InFlightUnderItsSpec, AdmittedCopyIsCurrent, Windows, admissionVars
  <2>. QED
    BY Zenon, <2>1, <2>2, <2>3, <2>4 DEF IInv
<1>2. CASE \E h \in Handlers : \/ \E j \in Jobs : Deliver(h, j) \/ ManualMatch(h, j)
                               \/ InsertAdmitted(h) \/ WakeWaiting(h) \/ ManualCreate(h)
  BY Zenon, <1>2, DeliverStep, ManualStep, AnswerStep, WakeStep
<1>3. CASE \E j \in Jobs : \/ DeliverDisallowed(j) \/ DeliverRejected(j)
                           \/ ClaimRequest(j) \/ StopRequest(j) \/ StopIdleRequest(j) \/ EndStop(j)
                           \/ RequeueMismatched(j) \/ RetryRequest(j) \/ RetryHistorical(j)
  BY Zenon, <1>3, RejectStep, ClaimStep, StopStep
<1>4. CASE \E j \in Jobs, a \in 1..MaxClaims :
             \/ CheckSpec(j, a) \/ MarkCreating(j, a) \/ GiveBackLease(j, a)
             \/ DeferCapacity(j, a) \/ FailStart(j, a) \/ JobNotQueued(j, a) \/ DeferCreating(j, a) \/ MarkRunning(j, a)
  BY Zenon, <1>4, CheckStep, CreatingStep, LeaseStep, FailStep, ProvisionStep
<1>5. CASE \E e \in Editors :
             \/ \E k \in EditedKeys :
                  \/ CreateScopedSpec(e, k) \/ PatchScopedSpec(e, k) \/ DeleteScopedSpec(e, k)
                  \/ CreateProfile(e, k) \/ PatchProfile(e, k) \/ DeleteProfile(e, k)
             \/ CountActive(e) \/ SaveSpec(e)
  BY Zenon, <1>5, ReadStep, CountStep, SaveStep
<1>6. CASE \E e \in Editors : Abandon(e)
  BY Zenon, <1>6, DropStep DEF Abandon
<1>7. CASE \E j \in Jobs, a \in 1..MaxClaims : RefuseCapacity(j, a)
  BY Zenon, <1>7, RefusedStep DEF RefuseCapacity
<1>. QED
  BY ZenonT(30), <1>1, <1>2, <1>3, <1>4, <1>5, <1>6, <1>7 DEF AdmissionNext

\* So it holds throughout.
LEMMA Invariance == AdmissionSpec => []IInv
  BY InitIInv, StepIInv, PTL DEF AdmissionSpec

(* Every value has its type: no handler writes a row, a spec or a copy of  *)
(* one that is not made of what it was given.                              *)
THEOREM AdmissionTypes == AdmissionSpec => []AdmissionTypeOK
<1>1. IInv => AdmissionTypeOK
  BY Zenon DEF IInv
<1>. QED
  BY <1>1, Invariance, PTL

(* startRunner makes and runs a runner under a spec that exists and takes  *)
(* its labels, and on Windows from the template it names, however many     *)
(* edits, starts and deliveries run at once.                               *)
THEOREM RunnersUnderTheirSpecs == AdmissionSpec => []InFlightUnderItsSpec
<1>1. IInv => InFlightUnderItsSpec
  BY Zenon DEF IInv
<1>. QED
  BY <1>1, Invariance, PTL

(* What enqueueWorkflowJob copied from a spec into an active row is what   *)
(* the spec says, although specs are edited all the while.                 *)
THEOREM AdmittedCopiesAreCurrent == AdmissionSpec => []AdmittedCopyIsCurrent
<1>1. IInv => AdmittedCopyIsCurrent
  BY Zenon DEF IInv
<1>. QED
  BY <1>1, Invariance, PTL

-----------------------------------------------------------------------------
(* What a step never does                                                  *)

\* Only a save writes a spec.
LEMMA OnlySaves ==
  ASSUME AdmissionNext, spec' # spec
  PROVE  \E e \in Editors : SaveSpec(e)
<1>1. ASSUME NEW h \in Handlers
      PROVE  /\ \A j \in Jobs : Deliver(h, j) \/ ManualMatch(h, j) => spec' = spec
             /\ InsertAdmitted(h) \/ WakeWaiting(h) \/ ManualCreate(h) => spec' = spec
  BY Zenon DEF Deliver, ManualMatch, InsertAdmitted, WakeWaiting, ManualCreate
<1>2. ASSUME NEW j \in Jobs
      PROVE  /\ DeliverDisallowed(j) \/ DeliverRejected(j) \/ ClaimRequest(j) => spec' = spec
             /\ StopRequest(j) \/ StopIdleRequest(j) \/ EndStop(j) => spec' = spec
             /\ RequeueMismatched(j) \/ RetryRequest(j) \/ RetryHistorical(j) => spec' = spec
  BY Zenon DEF DeliverDisallowed, DeliverRejected, ClaimRequest, StopRequest, StopIdleRequest,
               EndStop, RequeueMismatched, RetryRequest, RetryHistorical
<1>3. ASSUME NEW j \in Jobs, NEW a \in 1..MaxClaims
      PROVE  /\ CheckSpec(j, a) \/ MarkCreating(j, a) \/ RefuseCapacity(j, a) => spec' = spec
             /\ GiveBackLease(j, a) \/ DeferCapacity(j, a) \/ FailStart(j, a) => spec' = spec
             /\ JobNotQueued(j, a) \/ DeferCreating(j, a) \/ MarkRunning(j, a) => spec' = spec
  BY Zenon DEF CheckSpec, MarkCreating, RefuseCapacity, GiveBackLease, DeferCapacity, FailStart,
               JobNotQueued, DeferCreating, MarkRunning
<1>4. ASSUME NEW e \in Editors
      PROVE  /\ \A k \in EditedKeys :
                  /\ CreateScopedSpec(e, k) \/ PatchScopedSpec(e, k) => spec' = spec
                  /\ DeleteScopedSpec(e, k) \/ CreateProfile(e, k) => spec' = spec
                  /\ PatchProfile(e, k) \/ DeleteProfile(e, k) => spec' = spec
             /\ CountActive(e) \/ Abandon(e) => spec' = spec
  BY Zenon DEF CreateScopedSpec, PatchScopedSpec, DeleteScopedSpec, CreateProfile, PatchProfile,
               DeleteProfile, BeginEdit, CountActive, Abandon
<1>. QED
  BY Zenon, <1>1, <1>2, <1>3, <1>4 DEF AdmissionNext

\* One edit at a time is past its count, and it saves over what it read.
LEMMA SaveReplaces ==
  ASSUME IInv, [AdmissionNext]_admissionVars, NEW e \in Editors, edit[e].at = "counted",
         spec'[edit[e].key] # spec[edit[e].key]
  PROVE  spec[edit[e].key] = edit[e].base
<1>1. spec' # spec
  BY Zenon
<1>2. PICK c \in Editors : SaveSpec(c)
  BY Zenon, <1>1, OnlySaves DEF admissionVars
<1>3. c = e
  BY Zenon, <1>2 DEF IInv, Exclusive, SaveSpec
<1>4. ~Stale(edit[e])
  BY Zenon, <1>1, <1>2, <1>3 DEF SaveSpec
<1>. QED
  BY Zenon, <1>4 DEF IInv, Revisions, Stale

(* UpdateProfile and the scoped saves are conditional on updated_at, and   *)
(* updated_at never returns to a value it had: a save replaces the spec    *)
(* its handler read, whatever else was saved meanwhile.                    *)
THEOREM SavesLoseNothing == AdmissionSpec => NoEditLost
<1>1. IInv /\ [AdmissionNext]_admissionVars =>
        [\A e \in Editors : LET d == edit[e] IN
            d.at = "counted" /\ spec'[d.key] # spec[d.key] => spec[d.key] = d.base]_admissionVars
  BY Zenon, SaveReplaces
<1>. QED
  BY <1>1, Invariance, PTL DEF AdmissionSpec, NoEditLost

Delivered(h) ==
    handler[h].at # handler'[h].at /\ handler'[h].at = "idle"

\* A handler answers with one of three steps.
LEMMA AnswerKinds ==
  ASSUME IInv, AdmissionNext, NEW h \in Handlers, Delivered(h)
  PROVE  InsertAdmitted(h) \/ ManualCreate(h) \/ WakeWaiting(h)
<1>1. handler \in [Handlers -> AdmissionState]
  BY DEF IInv, AdmissionTypeOK
<1>2. handler' # handler
  BY Zenon DEF Delivered
<1>3. \A g \in Handlers : Answered(g) => g = h
  BY Zenon, <1>1 DEF Answered, Delivered
<1>4. ASSUME NEW g \in Handlers, NEW j \in Jobs, NEW new, NEW at \in {"absent", "waking", "manual"},
             Admitting(g, at, j, new)
      PROVE  FALSE
  <2>1. handler'[h] = handler[h] \/ handler'[h] = [at |-> at, job |-> j, new |-> new]
    BY <1>1, <1>4 DEF Admitting
  <2>. QED
    BY <2>1 DEF Delivered
<1>5. ASSUME NEW g \in Handlers
      PROVE  /\ \A j \in Jobs : ~Deliver(g, j) /\ ~ManualMatch(g, j)
             /\ InsertAdmitted(g) \/ WakeWaiting(g) \/ ManualCreate(g) => g = h
  <2>1. \A j \in Jobs : ~Deliver(g, j)
    BY Zenon, <1>4 DEF Deliver
  <2>2. \A j \in Jobs : ~ManualMatch(g, j)
    BY Zenon, <1>4 DEF ManualMatch
  <2>3. InsertAdmitted(g) \/ WakeWaiting(g) \/ ManualCreate(g) => g = h
    BY Zenon, <1>3 DEF InsertAdmitted, WakeWaiting, ManualCreate
  <2>. QED
    BY Zenon, <2>1, <2>2, <2>3
<1>6. ASSUME NEW j \in Jobs
      PROVE  /\ ~DeliverDisallowed(j) /\ ~DeliverRejected(j) /\ ~ClaimRequest(j)
             /\ ~StopRequest(j) /\ ~StopIdleRequest(j) /\ ~EndStop(j)
             /\ ~RequeueMismatched(j) /\ ~RetryRequest(j) /\ ~RetryHistorical(j)
  BY Zenon, <1>2 DEF DeliverDisallowed, DeliverRejected, ClaimRequest, StopRequest,
               StopIdleRequest, EndStop, RequeueMismatched, RetryRequest, RetryHistorical
<1>7. ASSUME NEW j \in Jobs, NEW a \in 1..MaxClaims
      PROVE  /\ ~CheckSpec(j, a) /\ ~MarkCreating(j, a) /\ ~RefuseCapacity(j, a)
             /\ ~GiveBackLease(j, a) /\ ~DeferCapacity(j, a) /\ ~FailStart(j, a)
             /\ ~JobNotQueued(j, a) /\ ~DeferCreating(j, a) /\ ~MarkRunning(j, a)
  BY Zenon, <1>2 DEF CheckSpec, MarkCreating, RefuseCapacity, GiveBackLease, DeferCapacity,
               FailStart, JobNotQueued, DeferCreating, MarkRunning
<1>8. ASSUME NEW e \in Editors
      PROVE  /\ \A k \in EditedKeys :
                  /\ ~CreateScopedSpec(e, k) /\ ~PatchScopedSpec(e, k) /\ ~DeleteScopedSpec(e, k)
                  /\ ~CreateProfile(e, k) /\ ~PatchProfile(e, k) /\ ~DeleteProfile(e, k)
             /\ ~CountActive(e) /\ ~SaveSpec(e) /\ ~Abandon(e)
  BY Zenon, <1>2 DEF CreateScopedSpec, PatchScopedSpec, DeleteScopedSpec, CreateProfile,
               PatchProfile, DeleteProfile, BeginEdit, CountActive, SaveSpec, Abandon
<1>. QED
  BY ZenonT(30), <1>5, <1>6, <1>7, <1>8 DEF AdmissionNext

\* InsertOnce leaves a row that is there, and the timer is all a waking clears.
LEMMA DeliveryKeeps ==
  ASSUME IInv, [AdmissionNext]_admissionVars, NEW h \in Handlers, Delivered(h),
         NEW j, j = handler[h].job, row[j] # NoRow
  PROVE  row'[j] = row[j] \/ (/\ row[j].status = "queued" /\ row[j].code = "wait" /\ row[j].timer
                              /\ ~row[j].lease
                              /\ row'[j] = [row[j] EXCEPT !.timer = FALSE])
<1>1. handler' # handler
  BY Zenon DEF Delivered
<1>2. InsertAdmitted(h) \/ ManualCreate(h) \/ WakeWaiting(h)
  BY Zenon, <1>1, AnswerKinds DEF admissionVars
<1>3. CASE InsertAdmitted(h) \/ ManualCreate(h)
  BY Zenon, <1>3 DEF InsertAdmitted, ManualCreate, InsertOnce
<1>4. CASE WakeWaiting(h)
  <2>. DEFINE seen == handler[h].new
  <2>1. \/ row' = row
        \/ /\ seen.status = "queued" /\ seen.code = "wait" /\ seen.timer /\ ~seen.lease
           /\ Unchanged(j, seen) /\ row' = [row EXCEPT ![j] = [seen EXCEPT !.timer = FALSE]]
    BY Zenon, <1>4 DEF WakeWaiting
  <2>2. row \in [Jobs -> Row] /\ j \in Jobs
    BY Zenon, <1>4, AnsweredTypes DEF IInv, AdmissionTypeOK, WakeWaiting
  <2>. HIDE DEF seen
  <2>. QED
    BY Zenon, <2>1, <2>2 DEF Unchanged
<1>. QED
  BY Zenon, <1>2, <1>3, <1>4

(* However often and however concurrently GitHub delivers a job, the row   *)
(* that is there stays, but for the timer of one that waits for its job    *)
(* (enqueueRunnerRequestLocked, wakeWaitingWorkflowJob).                   *)
THEOREM DeliveriesRepeatHarmlessly == AdmissionSpec => RepeatedDeliveryHarmless
<1>1. IInv /\ [AdmissionNext]_admissionVars =>
        [\A h \in Handlers : LET j == handler[h].job IN
          handler[h].at # handler'[h].at /\ handler'[h].at = "idle" /\ row[j] # NoRow =>
             row'[j] = row[j] \/ (/\ row[j].status = "queued" /\ row[j].code = "wait" /\ row[j].timer
                                  /\ ~row[j].lease
                                  /\ row'[j] = [row[j] EXCEPT !.timer = FALSE])]_admissionVars
  BY Zenon, DeliveryKeeps DEF Delivered
<1>. QED
  BY <1>1, Invariance, PTL DEF AdmissionSpec, RepeatedDeliveryHarmless

=============================================================================
