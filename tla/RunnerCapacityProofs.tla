------------------------ MODULE RunnerCapacityProofs ------------------------
(***************************************************************************)
(* The inductive invariant of the capacity section, for every set of       *)
(* requests, every assignment of requests to scopes and every limit: so    *)
(* limits are respected, nothing leaks, and the capacity section           *)
(* implements AtomicAdmission.                                             *)
(*                                                                         *)
(* The argument.  Call a request a holder of a slot when it is admitted or *)
(* has reserved and not yet written.  A start's view of a scope is its     *)
(* count, plus what was pending when it began, plus the reservations made  *)
(* since.  Once it has counted, that view is never below the number of     *)
(* holders (CountCovers): a holder was either in the count, or still       *)
(* pending when the start began, or reserved later.  Before it has counted *)
(* the last two terms alone cover every reservation (SnapshotCovers).  So  *)
(* a start that sees room has room, and the holders stay within the limit  *)
(* as long as anybody holds a reservation (HoldersFit).                    *)
(***************************************************************************)
EXTENDS RunnerCapacity, FiniteSetTheorems, TLAPS

Reserving(s) == {r \in Request : s \in ScopesOf[r] /\ phase[r] = "reserved"}

HoldersIn(s) == {r \in Holders : s \in ScopesOf[r]}

\* Only a queued row is inside the section up to its write, an admitted row is
\* in flight, and a start that is not counting has no counts.
SectionShape ==
    /\ \A r \in Request : phase[r] \in {"counting", "reserved"} => row[r] = "queued"
    /\ \A r \in admitted : row[r] = "inflight"
    /\ \A r \in Request : phase[r] # "counting" => counted[r] = {}

SnapshotCovers ==
    \A r \in Request, s \in Scope :
        phase[r] = "counting" /\ s \in ScopesOf[r] =>
            /\ obsStarted[r][s] <= started[s]
            /\ Cardinality(Reserving(s))
                 <= obsPending[r][s] + (started[s] - obsStarted[r][s])

CountCovers ==
    \A r \in Request, s \in Scope :
        phase[r] = "counting" /\ s \in ScopesOf[r] /\ s \in counted[r] =>
            Cardinality(HoldersIn(s)) <= Used(r, s)

HoldersFit ==
    \A s \in Scope :
        Enforced(s) /\ (s \notin Profile \/ Reserving(s) # {}) =>
            Cardinality(HoldersIn(s)) <= limit[s]

IInv == TypeOK /\ NothingLeaks /\ SectionShape /\ SnapshotCovers /\ CountCovers /\ HoldersFit

-----------------------------------------------------------------------------
(***************************************************************************)
(* Cardinalities of sets of requests                                       *)
(***************************************************************************)

\* A set of requests is finite, and adding or removing one request changes its
\* size by at most one.
LEMMA RequestSets ==
    ASSUME NEW S \in SUBSET Request
    PROVE  /\ IsFiniteSet(S)
           /\ Cardinality(S) \in Nat
           /\ \A x \in Request \ S : Cardinality(S \cup {x}) = Cardinality(S) + 1
           /\ \A x \in S : Cardinality(S \ {x}) = Cardinality(S) - 1
           /\ \A T \in SUBSET S : Cardinality(T) <= Cardinality(S)
<1>1. IsFiniteSet(S)
  BY FiniteRequests, FS_Subset
<1>2. Cardinality(S) \in Nat
  BY <1>1, FS_CardinalityType
<1>3. \A x \in Request \ S : Cardinality(S \cup {x}) = Cardinality(S) + 1
  BY <1>1, FS_AddElement
<1>4. \A x \in S : Cardinality(S \ {x}) = Cardinality(S) - 1
  BY <1>1, FS_RemoveElement
<1>5. \A T \in SUBSET S : Cardinality(T) <= Cardinality(S)
  BY <1>1, FS_Subset
<1>. QED
  BY <1>1, <1>2, <1>3, <1>4, <1>5

\* Two comparisons the counters need.
LEMMA Comparisons ==
    /\ \A a, b, c, d \in Nat : a <= b /\ b <= c + d => a <= c + d
    /\ 1 - 1 = 0
OBVIOUS

\* The sets the invariant measures are sets of requests.
LEMMA MeasuredSets ==
    ASSUME admitted \in SUBSET Request, NEW s
    PROVE  /\ Reserving(s) \in SUBSET Request
           /\ HoldersIn(s) \in SUBSET Request
           /\ Unreturned(s) \in SUBSET Request
           /\ Inside(s) \in SUBSET Request
           /\ InFlight(s) \in SUBSET Request
BY DEF Reserving, HoldersIn, Holders, Unreturned, Inside, InFlight

\* A union of two sets of requests is no larger than their sizes added up.
LEMMA UnionBound ==
    ASSUME NEW S \in SUBSET Request, NEW T \in SUBSET Request
    PROVE  Cardinality(S \cup T) <= Cardinality(S) + Cardinality(T)
<1>1. IsFiniteSet(S) /\ IsFiniteSet(T)
  BY RequestSets
<1>2. Cardinality(S \cup T) = Cardinality(S) + Cardinality(T) - Cardinality(S \cap T)
  BY <1>1, FS_Union
<1>3. Cardinality(S \cap T) \in Nat /\ Cardinality(S) \in Nat /\ Cardinality(T) \in Nat
  BY RequestSets
<1>. QED
  BY <1>2, <1>3

-----------------------------------------------------------------------------
(***************************************************************************)
(* Each action preserves the inductive invariant                           *)
(***************************************************************************)

\* Init satisfies the invariant: nobody is inside the section.
LEMMA InitIInv == Init => IInv
<1>. SUFFICES ASSUME Init PROVE IInv
  OBVIOUS
<1>. USE DEF Init
<1>1. TypeOK
  BY LimitAssumption DEF TypeOK, Zero, Row, Phase, Keyed
<1>2. \A s : /\ Unreturned(s) = {} /\ Inside(s) = {} /\ Reserving(s) = {}
             /\ HoldersIn(s) = {}
  BY DEF Unreturned, Inside, Reserving, HoldersIn, Holders
<1>3. NothingLeaks
  BY Zenon, <1>2, FS_EmptySet DEF NothingLeaks, Zero, Keyed
<1>4. HoldersFit
  BY <1>1, <1>2, FS_EmptySet DEF HoldersFit, TypeOK
<1>. QED
  BY <1>1, <1>3, <1>4 DEF IInv, SectionShape, SnapshotCovers, CountCovers

\* Steps that leave the section's variables and the admitted set alone change
\* nothing the invariant measures, except the limits of SetLimit.
LEMMA OutsideIInv ==
    ASSUME IInv, UNCHANGED <<admitted, phase, obs, counters>>, TypeOK',
           SectionShape',
           UNCHANGED limit \/ \E p \in Profile, n \in ProfileLimits : SetLimit(p, n)
    PROVE  IInv'
<1>. USE DEF IInv, obs, counters
<1>1. \A s : /\ Unreturned(s)' = Unreturned(s) /\ Inside(s)' = Inside(s)
             /\ Reserving(s)' = Reserving(s) /\ HoldersIn(s)' = HoldersIn(s)
  BY DEF Unreturned, Inside, Reserving, HoldersIn, Holders
<1>2. NothingLeaks'
  BY <1>1 DEF NothingLeaks
<1>3. SnapshotCovers'
  BY <1>1 DEF SnapshotCovers
<1>4. CountCovers'
  BY <1>1 DEF CountCovers, Used
<1>5. HoldersFit'
  <2>1. CASE UNCHANGED limit
    BY <1>1, <2>1 DEF HoldersFit, Enforced
  <2>2. ASSUME NEW p \in Profile, NEW n \in ProfileLimits, SetLimit(p, n)
        PROVE  HoldersFit'
    <3>1. \A s : Reserving(s)' = {}
      BY <1>1, <2>2 DEF Reserving, SetLimit
    <3>2. \A s \in Scope \ Profile : limit'[s] = limit[s]
      BY <2>2 DEF SetLimit, TypeOK
    <3>. QED
      BY <1>1, <3>1, <3>2 DEF HoldersFit, Enforced
  <2>. QED
    BY <2>1, <2>2
<1>. QED
  BY <1>2, <1>3, <1>4, <1>5

\* A spec edit waits for every section to end.
LEMMA SetLimitIInv ==
    ASSUME IInv, NEW p \in Profile, NEW n \in ProfileLimits, SetLimit(p, n)
    PROVE  IInv'
<1>1. TypeOK' /\ SectionShape'
  BY LimitAssumption, ZenonT(30) DEF IInv, SetLimit, TypeOK, SectionShape, obs, counters
<1>. QED
  BY <1>1, OutsideIInv, ZenonT(30) DEF SetLimit

\* Whatever else becomes of a row can only lower the number of holders.
LEMMA MoveIInv == ASSUME IInv, NEW r \in Request, MoveElsewhere(r) PROVE IInv'
<1>. USE DEF IInv
<1>0. PICK st \in Row : row' = [row EXCEPT ![r] = st]
  <2>1. UnaskedMoves(row[r]) \subseteq Row
    BY DEF UnaskedMoves, TypeOK, Row
  <2>. QED
    BY Zenon, <2>1 DEF MoveElsewhere
<1>1. TypeOK' /\ SectionShape'
  BY <1>0 DEF MoveElsewhere, TypeOK, SectionShape, obs, counters
<1>2. \A s : /\ Unreturned(s)' = Unreturned(s) /\ Inside(s)' = Inside(s)
             /\ Reserving(s)' = Reserving(s) /\ HoldersIn(s)' \subseteq HoldersIn(s)
  BY DEF MoveElsewhere, Unreturned, Inside, Reserving, HoldersIn, Holders
<1>3. \A s : /\ Cardinality(HoldersIn(s)') <= Cardinality(HoldersIn(s))
             /\ Cardinality(HoldersIn(s)') \in Nat
             /\ Cardinality(HoldersIn(s)) \in Nat
  BY Zenon, <1>1, <1>2, MeasuredSets, RequestSets DEF TypeOK
<1>4. NothingLeaks'
  BY <1>2 DEF NothingLeaks, MoveElsewhere, counters
<1>5. SnapshotCovers'
  BY <1>2 DEF SnapshotCovers, MoveElsewhere, counters, obs
<1>6. CountCovers'
  <2>. SUFFICES ASSUME NEW q \in Request, NEW s \in Scope, phase'[q] = "counting",
                       s \in ScopesOf[q], s \in counted'[q]
                PROVE  Cardinality(HoldersIn(s)') <= Used(q, s)'
    BY DEF CountCovers
  <2>1. Used(q, s)' = Used(q, s)
    BY DEF Used, MoveElsewhere, counters, obs
  <2>2. Cardinality(HoldersIn(s)) <= Used(q, s)
    BY DEF CountCovers, MoveElsewhere, obs
  <2>3. Used(q, s) \in Int
    BY DEF Used, TypeOK
  <2>. QED
    BY <1>3, <2>1, <2>2, <2>3
<1>7. HoldersFit'
  <2>. SUFFICES ASSUME NEW s \in Scope, Enforced(s)', s \notin Profile \/ Reserving(s)' # {}
                PROVE  Cardinality(HoldersIn(s)') <= limit[s]
    BY DEF HoldersFit, MoveElsewhere
  <2>1. Cardinality(HoldersIn(s)) <= limit[s]
    BY <1>2 DEF HoldersFit, Enforced, MoveElsewhere
  <2>. QED
    BY <1>3, <2>1 DEF TypeOK
<1>. QED
  BY <1>1, <1>4, <1>5, <1>6, <1>7

\* The creating write turns a reservation into an admitted row: the same
\* holders, one reservation less to cover.
LEMMA WriteCreatingIInv == ASSUME IInv, NEW r \in Request, WriteCreating(r) PROVE IInv'
<1>. USE DEF IInv
<1>1. TypeOK' /\ SectionShape'
  BY DEF WriteCreating, TypeOK, SectionShape, obs, counters, Row, Phase
<1>2. \A s : /\ Unreturned(s)' = Unreturned(s) /\ Inside(s)' = Inside(s)
             /\ Reserving(s)' \subseteq Reserving(s) /\ HoldersIn(s)' = HoldersIn(s)
  BY DEF WriteCreating, Unreturned, Inside, Reserving, HoldersIn, Holders, TypeOK
<1>3. NothingLeaks'
  BY <1>2 DEF NothingLeaks, WriteCreating, counters
<1>4. SnapshotCovers'
  <2>. SUFFICES ASSUME NEW q \in Request, NEW s \in Scope, phase'[q] = "counting",
                       s \in ScopesOf[q]
                PROVE  /\ obsStarted'[q][s] <= started'[s]
                       /\ Cardinality(Reserving(s)')
                            <= obsPending'[q][s] + (started'[s] - obsStarted'[q][s])
    BY DEF SnapshotCovers
  <2>1. phase[q] = "counting"
    BY Zenon DEF WriteCreating, TypeOK
  <2>2. /\ Cardinality(Reserving(s)') <= Cardinality(Reserving(s))
        /\ Cardinality(Reserving(s)') \in Nat /\ Cardinality(Reserving(s)) \in Nat
    BY <1>1, <1>2, MeasuredSets, RequestSets DEF TypeOK
  <2>. QED
    BY <2>1, <2>2 DEF SnapshotCovers, WriteCreating, obs, counters, TypeOK
<1>5. CountCovers'
  BY <1>2 DEF CountCovers, Used, WriteCreating, obs, counters, TypeOK
<1>6. HoldersFit'
  BY <1>2 DEF HoldersFit, Enforced, WriteCreating
<1>. QED
  BY <1>1, <1>3, <1>4, <1>5, <1>6

\* A failed creating write gives up the slot.
LEMMA WriteFailsIInv == ASSUME IInv, NEW r \in Request, WriteFails(r) PROVE IInv'
<1>. USE DEF IInv
<1>1. TypeOK' /\ SectionShape'
  BY DEF WriteFails, TypeOK, SectionShape, obs, counters, Row, Phase
<1>2. \A s : /\ Unreturned(s)' = Unreturned(s) /\ Inside(s)' = Inside(s)
             /\ Reserving(s)' \subseteq Reserving(s) /\ HoldersIn(s)' \subseteq HoldersIn(s)
  BY DEF WriteFails, Unreturned, Inside, Reserving, HoldersIn, Holders, TypeOK
<1>3. \A s : /\ Cardinality(Reserving(s)') <= Cardinality(Reserving(s))
             /\ Cardinality(HoldersIn(s)') <= Cardinality(HoldersIn(s))
             /\ Cardinality(HoldersIn(s)') \in Nat /\ Cardinality(HoldersIn(s)) \in Nat
             /\ Cardinality(Reserving(s)') \in Nat /\ Cardinality(Reserving(s)) \in Nat
  BY <1>1, <1>2, MeasuredSets, RequestSets DEF TypeOK
<1>4. NothingLeaks'
  BY <1>2 DEF NothingLeaks, WriteFails, counters
<1>5. \A q \in Request : phase'[q] = "counting" => phase[q] = "counting"
  BY DEF WriteFails, TypeOK
<1>6. SnapshotCovers'
  BY <1>3, <1>5 DEF SnapshotCovers, WriteFails, obs, counters, TypeOK
<1>7. CountCovers'
  BY <1>3, <1>5 DEF CountCovers, Used, WriteFails, obs, counters, TypeOK
<1>8. HoldersFit'
  BY <1>2, <1>3 DEF HoldersFit, Enforced, WriteFails, TypeOK
<1>. QED
  BY <1>1, <1>4, <1>6, <1>7, <1>8

\* A start that gives up changes only its own observation.
LEMMA GiveUpIInv ==
    ASSUME IInv, NEW r \in Request, phase[r] = "counting",
           phase' = [phase EXCEPT ![r] = "leaving"], Forget(r),
           UNCHANGED <<row, admitted, counters, limit>>
    PROVE  IInv'
<1>. USE DEF IInv
<1>1. TypeOK' /\ SectionShape'
  BY Zenon DEF Forget, TypeOK, SectionShape, counters, Phase, Zero
<1>2. \A s : /\ Unreturned(s)' = Unreturned(s) /\ Inside(s)' = Inside(s)
             /\ Reserving(s)' = Reserving(s) /\ HoldersIn(s)' = HoldersIn(s)
  BY DEF Unreturned, Inside, Reserving, HoldersIn, Holders, TypeOK
<1>3. NothingLeaks'
  BY <1>2 DEF NothingLeaks, counters
<1>4. \A q \in Request : phase'[q] = "counting" =>
         /\ phase[q] = "counting" /\ counted'[q] = counted[q] /\ count'[q] = count[q]
         /\ obsStarted'[q] = obsStarted[q] /\ obsPending'[q] = obsPending[q]
  BY DEF Forget, TypeOK
<1>5. SnapshotCovers'
  BY <1>2, <1>4 DEF SnapshotCovers, counters
<1>6. CountCovers'
  BY <1>2, <1>4 DEF CountCovers, Used, counters
<1>7. HoldersFit'
  BY <1>2 DEF HoldersFit, Enforced
<1>. QED
  BY Zenon, <1>1, <1>3, <1>5, <1>6, <1>7

\* A database count covers every admitted row of the scope; the snapshot covers
\* the reservations that it may have missed.
LEMMA CountIInv ==
    ASSUME IInv, NEW r \in Request, NEW t \in ScopesOf[r], Count(r, t)
    PROVE  IInv'
<1>. USE DEF IInv
<1>0. t \in Scope
  BY ScopesAssumption
<1>1. CASE ProcessFull(r, t)
  BY <1>1, GiveUpIInv DEF Count
<1>2. CASE ~ProcessFull(r, t)
  <2>1. /\ counted' = [counted EXCEPT ![r] = @ \cup {t}]
        /\ count' = [count EXCEPT ![r][t] = Cardinality(InFlight(t))]
        /\ UNCHANGED <<row, admitted, phase, obsStarted, obsPending, counters, limit>>
        /\ phase[r] = "counting"
    BY Zenon, <1>2 DEF Count, counters
  <2>2. Cardinality(InFlight(t)) \in Nat
    BY Zenon, MeasuredSets, RequestSets DEF TypeOK
  <2>3. TypeOK' /\ SectionShape'
    BY <1>0, <2>1, <2>2 DEF TypeOK, SectionShape, counters
  <2>4. \A s : /\ Unreturned(s)' = Unreturned(s) /\ Inside(s)' = Inside(s)
               /\ Reserving(s)' = Reserving(s) /\ HoldersIn(s)' = HoldersIn(s)
    BY <2>1 DEF Unreturned, Inside, Reserving, HoldersIn, Holders
  <2>5. NothingLeaks' /\ SnapshotCovers' /\ HoldersFit'
    BY Zenon, <2>1, <2>4 DEF NothingLeaks, SnapshotCovers, HoldersFit, Enforced, counters
  <2>6. ASSUME NEW q \in Request, NEW s \in Scope, phase'[q] = "counting",
               s \in ScopesOf[q], s \in counted'[q]
        PROVE  Cardinality(HoldersIn(s)') <= Used(q, s)'
    <3>1. CASE q = r /\ s = t
      <4>1. HoldersIn(t) \subseteq InFlight(t) \cup Reserving(t)
        BY Zenon DEF HoldersIn, Holders, InFlight, Reserving, SectionShape, TypeOK
      <4>2. Cardinality(HoldersIn(t)) <= Cardinality(InFlight(t)) + Cardinality(Reserving(t))
        <5>1. InFlight(t) \in SUBSET Request /\ Reserving(t) \in SUBSET Request
          BY MeasuredSets DEF TypeOK
        <5>2. Cardinality(HoldersIn(t)) <= Cardinality(InFlight(t) \cup Reserving(t))
          BY <4>1, <5>1, RequestSets
        <5>3. Cardinality(InFlight(t) \cup Reserving(t))
                <= Cardinality(InFlight(t)) + Cardinality(Reserving(t))
          BY <5>1, UnionBound
        <5>4. /\ Cardinality(HoldersIn(t)) \in Nat
              /\ Cardinality(InFlight(t)) \in Nat
              /\ Cardinality(Reserving(t)) \in Nat
              /\ Cardinality(InFlight(t) \cup Reserving(t)) \in Nat
          BY <4>1, <5>1, RequestSets
        <5>. QED
          BY Zenon, <5>2, <5>3, <5>4, Comparisons
      <4>3. Cardinality(Reserving(t)) <= obsPending[r][t] + (started[t] - obsStarted[r][t])
        BY Zenon, <1>0, <2>1 DEF SnapshotCovers
      <4>4. Cardinality(HoldersIn(t)) \in Nat /\ Cardinality(Reserving(t)) \in Nat
        BY Zenon, MeasuredSets, RequestSets DEF TypeOK
      <4>5. Used(r, t)' = Cardinality(InFlight(t)) + obsPending[r][t]
                             + (started[t] - obsStarted[r][t])
        BY Zenon, <1>0, <2>1 DEF Used, counters, TypeOK
      <4>. QED
        BY <1>0, <2>2, <2>4, <3>1, <4>2, <4>3, <4>4, <4>5 DEF TypeOK
    <3>2. CASE ~(q = r /\ s = t)
      <4>1. phase[q] = "counting" /\ s \in counted[q] /\ count'[q][s] = count[q][s]
        BY <1>0, <2>1, <2>6, <3>2 DEF TypeOK
      <4>2. Used(q, s)' = Used(q, s)
        BY Zenon, <2>1, <4>1 DEF Used, counters
      <4>. QED
        BY Zenon, <2>4, <2>6, <4>1, <4>2 DEF CountCovers
    <3>. QED
      BY Zenon, <3>1, <3>2
  <2>7. CountCovers'
    BY Zenon, <2>6 DEF CountCovers
  <2>. QED
    BY <2>3, <2>5, <2>7
<1>. QED
  BY <1>1, <1>2

\* A start enters the section: what is pending at that moment covers every
\* reservation not yet written.
LEMMA ObserveIInv == ASSUME IInv, NEW r \in Request, Observe(r) PROVE IInv'
<1>. USE DEF IInv
<1>1. TypeOK' /\ SectionShape'
  BY DEF Observe, Seen, TypeOK, SectionShape, Phase, Keyed
<1>2. \A s : /\ Unreturned(s)' = Unreturned(s) /\ Reserving(s)' = Reserving(s)
             /\ HoldersIn(s)' = HoldersIn(s)
             /\ Inside(s)' = IF s \in ScopesOf[r] THEN Inside(s) \cup {r} ELSE Inside(s)
             /\ r \notin Inside(s)
  BY DEF Observe, Unreturned, Inside, Reserving, HoldersIn, Holders, TypeOK
<1>3. NothingLeaks'
  <2>1. \A s \in Scope : pending'[s] = Cardinality(Unreturned(s)')
    BY <1>2 DEF NothingLeaks, Observe
  <2>2. ASSUME NEW s \in Keyed
        PROVE  /\ readers'[s] = Cardinality(Inside(s)')
               /\ readers'[s] = 0 => started'[s] = 0
    <3>1. Inside(s) \in SUBSET Request
      BY MeasuredSets DEF TypeOK
    <3>2. Cardinality(Inside(s) \cup {r}) = Cardinality(Inside(s)) + 1
      BY Zenon, <1>2, <3>1, RequestSets
    <3>3. /\ readers'[s] = IF s \in ScopesOf[r] THEN readers[s] + 1 ELSE readers[s]
          /\ readers[s] = Cardinality(Inside(s))
          /\ readers[s] \in Nat
      BY DEF NothingLeaks, Observe, TypeOK
    <3>4. readers'[s] = Cardinality(Inside(s)')
      BY Zenon, <1>2, <3>2, <3>3
    <3>5. readers'[s] = 0 => started'[s] = 0
      BY <3>3 DEF NothingLeaks, Observe
    <3>. QED
      BY <3>4, <3>5
  <2>. QED
    BY Zenon, <2>1, <2>2 DEF NothingLeaks
<1>4. SnapshotCovers'
  <2>. SUFFICES ASSUME NEW q \in Request, NEW s \in Scope, phase'[q] = "counting",
                       s \in ScopesOf[q]
                PROVE  /\ obsStarted'[q][s] <= started'[s]
                       /\ Cardinality(Reserving(s)')
                            <= obsPending'[q][s] + (started'[s] - obsStarted'[q][s])
    BY DEF SnapshotCovers
  <2>1. CASE q = r
    <3>1. /\ obsStarted'[r][s] = started[s] /\ obsPending'[r][s] = pending[s]
          /\ started'[s] = started[s]
      BY <2>1 DEF Observe, Seen, TypeOK
    <3>2. Reserving(s) \subseteq Unreturned(s)
      BY Zenon DEF Reserving, Unreturned
    <3>3. /\ Cardinality(Reserving(s)) <= Cardinality(Unreturned(s))
          /\ Cardinality(Reserving(s)) \in Nat
      BY Zenon, <3>2, MeasuredSets, RequestSets DEF TypeOK
    <3>. QED
      BY <1>2, <2>1, <3>1, <3>3 DEF NothingLeaks, TypeOK
  <2>2. CASE q # r
    BY Zenon, <1>2, <2>2 DEF SnapshotCovers, Observe, TypeOK
  <2>. QED
    BY Zenon, <2>1, <2>2
<1>5. CountCovers'
  <2>1. \A q \in Request \ {r} : /\ phase'[q] = phase[q] /\ counted'[q] = counted[q]
                                 /\ \A s : Used(q, s)' = Used(q, s)
    BY DEF Observe, Used, TypeOK
  <2>2. counted'[r] = {}
    BY Zenon DEF Observe, SectionShape
  <2>. QED
    BY Zenon, <1>2, <2>1, <2>2 DEF CountCovers
<1>6. HoldersFit'
  BY <1>2 DEF HoldersFit, Enforced, Observe
<1>. QED
  BY <1>1, <1>3, <1>4, <1>5, <1>6

-----------------------------------------------------------------------------
(* The steps that change what somebody holds, and the theorems             *)


\* Nothing but the creating write of a start admits a request.
LEMMA OnlyWriteAdmits ==
    ASSUME [Next]_vars, NEW r, r \in admitted' \ admitted
    PROVE  WriteCreating(r)
<1>1. ASSUME NEW q \in Request, Observe(q) \/ Reserve(q) \/ Reject(q) PROVE admitted' = admitted
  BY <1>1 DEF Observe, Reserve, Reject
<1>2. ASSUME NEW q \in Request, NEW s \in ScopesOf[q], Count(q, s) PROVE admitted' = admitted
  BY <1>2 DEF Count
<1>3. ASSUME NEW q \in Request, CountFails(q) \/ WriteFails(q) \/ Finish(q)
      PROVE  admitted' = admitted
  BY <1>3 DEF CountFails, WriteFails, Finish
<1>4. ASSUME NEW q \in Request, MoveElsewhere(q) PROVE admitted' \subseteq admitted
  BY <1>4 DEF MoveElsewhere
<1>5. ASSUME NEW q \in Request, WriteCreating(q) PROVE admitted' = admitted \cup {q}
  BY <1>5 DEF WriteCreating
<1>6. ASSUME (\E p \in Profile, n \in ProfileLimits : SetLimit(p, n)) \/ Crash \/ UNCHANGED vars
      PROVE  admitted' = admitted
  BY Zenon, <1>6 DEF SetLimit, Crash, vars
<1>. QED
  BY ZenonT(30), <1>1, <1>2, <1>3, <1>4, <1>5, <1>6 DEF Next

\* A start that sees room in every enforced scope has room: its view covers all
\* the holders.  Everybody else's view grows by the same one.
LEMMA ReserveIInv == ASSUME IInv, NEW r \in Request, Reserve(r) PROVE IInv'
<1>. USE DEF IInv
<1>1. TypeOK' /\ SectionShape'
  BY SMTT(30) DEF Reserve, Forget, TypeOK, SectionShape, Phase, Zero
<1>2. r \notin admitted
  BY ZenonT(30) DEF Reserve, SectionShape
<1>3. \A s : /\ Inside(s)' = Inside(s)
             /\ s \notin ScopesOf[r] =>
                  /\ Unreturned(s)' = Unreturned(s) /\ Reserving(s)' = Reserving(s)
                  /\ HoldersIn(s)' = HoldersIn(s)
             /\ s \in ScopesOf[r] =>
                  /\ Unreturned(s)' = Unreturned(s) \cup {r} /\ r \notin Unreturned(s)
                  /\ Reserving(s)' = Reserving(s) \cup {r} /\ r \notin Reserving(s)
                  /\ HoldersIn(s)' = HoldersIn(s) \cup {r} /\ r \notin HoldersIn(s)
  BY <1>2, SMTT(30) DEF Reserve, Unreturned, Inside, Reserving, HoldersIn, Holders, TypeOK
<1>4. \A s : /\ Cardinality(HoldersIn(s)) \in Nat
             /\ Cardinality(Reserving(s)) \in Nat
             /\ Cardinality(Unreturned(s)) \in Nat
             /\ s \in ScopesOf[r] =>
                  /\ Cardinality(Unreturned(s)') = Cardinality(Unreturned(s)) + 1
                  /\ Cardinality(Reserving(s)') = Cardinality(Reserving(s)) + 1
                  /\ Cardinality(HoldersIn(s)') = Cardinality(HoldersIn(s)) + 1
  BY <1>3, MeasuredSets, RequestSets, ZenonT(30) DEF TypeOK
<1>5. \A s \in Scope :
         /\ started'[s] = IF s \in ScopesOf[r] THEN started[s] + 1 ELSE started[s]
         /\ pending'[s] = IF s \in ScopesOf[r] THEN pending[s] + 1 ELSE pending[s]
  BY Zenon DEF Reserve
<1>6. NothingLeaks'
  <2>1. \A s \in Scope : pending'[s] = Cardinality(Unreturned(s)')
    BY Zenon, <1>3, <1>4, <1>5 DEF NothingLeaks
  <2>2. ASSUME NEW s \in Keyed
        PROVE  /\ readers'[s] = Cardinality(Inside(s)')
               /\ readers'[s] = 0 => started'[s] = 0
    <3>1. readers'[s] = readers[s] /\ readers[s] = Cardinality(Inside(s))
      BY Zenon DEF Reserve, NothingLeaks
    <3>2. CASE s \in ScopesOf[r]
      <4>1. Inside(s) # {}
        BY <3>2 DEF Inside, Reserve
      <4>2. readers[s] # 0
        BY <3>1, <4>1, MeasuredSets, RequestSets, FS_EmptySet, ZenonT(30) DEF TypeOK
      <4>. QED
        BY Zenon, <1>3, <3>1, <4>2
    <3>3. CASE s \notin ScopesOf[r]
      BY Zenon, <1>3, <1>5, <3>1, <3>3 DEF NothingLeaks, Keyed
    <3>. QED
      BY Zenon, <3>2, <3>3
  <2>. QED
    BY <2>1, <2>2 DEF NothingLeaks
<1>7. \A q \in Request : phase'[q] = "counting" =>
         /\ q # r /\ phase[q] = "counting"
         /\ counted'[q] = counted[q] /\ count'[q] = count[q]
         /\ obsStarted'[q] = obsStarted[q] /\ obsPending'[q] = obsPending[q]
  BY DEF Reserve, Forget, TypeOK
<1>8. SnapshotCovers'
  <2>. SUFFICES ASSUME NEW q \in Request, NEW s \in Scope, phase'[q] = "counting",
                       s \in ScopesOf[q]
                PROVE  /\ obsStarted'[q][s] <= started'[s]
                       /\ Cardinality(Reserving(s)')
                            <= obsPending'[q][s] + (started'[s] - obsStarted'[q][s])
    BY DEF SnapshotCovers
  <2>1. /\ obsStarted[q][s] <= started[s]
        /\ Cardinality(Reserving(s)) <= obsPending[q][s] + (started[s] - obsStarted[q][s])
        /\ obsStarted[q][s] \in Nat /\ obsPending[q][s] \in Nat /\ started[s] \in Nat
    BY Zenon, <1>7 DEF SnapshotCovers, TypeOK
  <2>2. obsStarted'[q][s] = obsStarted[q][s] /\ obsPending'[q][s] = obsPending[q][s]
    BY Zenon, <1>7
  <2>3. CASE s \in ScopesOf[r]
    BY SMTT(20), <1>4, <1>5, <2>1, <2>2, <2>3
  <2>4. CASE s \notin ScopesOf[r]
    BY Zenon, <1>3, <1>5, <2>1, <2>2, <2>4
  <2>. QED
    BY Zenon, <2>3, <2>4
<1>9. CountCovers'
  <2>. SUFFICES ASSUME NEW q \in Request, NEW s \in Scope, phase'[q] = "counting",
                       s \in ScopesOf[q], s \in counted'[q]
                PROVE  Cardinality(HoldersIn(s)') <= Used(q, s)'
    BY Zenon DEF CountCovers
  <2>1. Cardinality(HoldersIn(s)) <= Used(q, s)
    BY Zenon, <1>7 DEF CountCovers
  <2>2. Used(q, s)' = IF s \in ScopesOf[r] THEN Used(q, s) + 1 ELSE Used(q, s)
    <3>1. /\ count'[q][s] = count[q][s] /\ obsPending'[q][s] = obsPending[q][s]
          /\ obsStarted'[q][s] = obsStarted[q][s]
          /\ started'[s] = IF s \in ScopesOf[r] THEN started[s] + 1 ELSE started[s]
      BY Zenon, <1>5, <1>7
    <3>2. /\ count[q][s] \in Nat /\ obsPending[q][s] \in Nat
          /\ obsStarted[q][s] \in Nat /\ started[s] \in Nat
      BY Zenon DEF TypeOK
    <3>. QED
      BY <3>1, <3>2 DEF Used
  <2>3. Used(q, s) \in Int
    BY DEF Used, TypeOK
  <2>4. CASE s \in ScopesOf[r]
    BY SMTT(20), <1>4, <2>1, <2>2, <2>3, <2>4
  <2>5. CASE s \notin ScopesOf[r]
    BY Zenon, <1>3, <2>1, <2>2, <2>5
  <2>. QED
    BY Zenon, <2>4, <2>5
<1>10. HoldersFit'
  <2>. SUFFICES ASSUME NEW s \in Scope, Enforced(s), s \notin Profile \/ Reserving(s)' # {}
                PROVE  Cardinality(HoldersIn(s)') <= limit[s]
    BY Zenon DEF HoldersFit, Enforced, Reserve
  <2>1. CASE s \in ScopesOf[r]
    <3>1. Cardinality(HoldersIn(s)) <= Used(r, s)
      BY ZenonT(30), <2>1 DEF CountCovers, Reserve, AllCounted
    <3>2. Used(r, s) < limit[s]
      BY <2>1 DEF Reserve, Fits
    <3>3. Used(r, s) \in Int /\ limit[s] \in Int
      BY DEF Used, TypeOK
    <3>. QED
      BY SMTT(20), <1>4, <2>1, <3>1, <3>2, <3>3
  <2>2. CASE s \notin ScopesOf[r]
    BY <1>3, <2>2 DEF HoldersFit
  <2>. QED
    BY Zenon, <2>1, <2>2
<1>. QED
  BY <1>1, <1>6, <1>8, <1>9, <1>10

\* A restart forgets every reservation and every observation; the admitted rows
\* were within the limits that are never edited.
LEMMA CrashIInv == ASSUME IInv, Crash PROVE IInv'
<1>. USE DEF IInv
<1>1. TypeOK' /\ SectionShape'
  BY Zenon DEF Crash, TypeOK, SectionShape, Phase, Zero, Keyed
<1>2. \A s : /\ Unreturned(s)' = {} /\ Inside(s)' = {} /\ Reserving(s)' = {}
             /\ HoldersIn(s)' \subseteq HoldersIn(s)
  BY Zenon DEF Crash, Unreturned, Inside, Reserving, HoldersIn, Holders
<1>3. NothingLeaks'
  BY <1>2, FS_EmptySet, ZenonT(30) DEF NothingLeaks, Crash, Zero, Keyed
<1>4. SnapshotCovers' /\ CountCovers'
  BY Zenon DEF SnapshotCovers, CountCovers, Crash
<1>5. HoldersFit'
  <2>1. \A s : /\ Cardinality(HoldersIn(s)') <= Cardinality(HoldersIn(s))
               /\ Cardinality(HoldersIn(s)') \in Nat /\ Cardinality(HoldersIn(s)) \in Nat
    BY Zenon, <1>1, <1>2, MeasuredSets, RequestSets DEF TypeOK
  <2>. QED
    BY <1>2, <2>1 DEF HoldersFit, Enforced, Crash, TypeOK
<1>. QED
  BY <1>1, <1>3, <1>4, <1>5

\* A start that leaves the section gives back what it held.  A counter it drops
\* had no other reader, so nobody's snapshot refers to it.
LEMMA FinishIInv == ASSUME IInv, NEW r \in Request, Finish(r) PROVE IInv'
<1>. USE DEF IInv
<1>1. \A s : /\ Cardinality(Inside(s)) \in Nat /\ Cardinality(Unreturned(s)) \in Nat
             /\ Inside(s) \in SUBSET Request /\ Unreturned(s) \in SUBSET Request
  BY Zenon, MeasuredSets, RequestSets DEF TypeOK
<1>2. \A s : /\ Reserving(s)' = Reserving(s) /\ HoldersIn(s)' = HoldersIn(s)
             /\ s \notin ScopesOf[r] =>
                  Unreturned(s)' = Unreturned(s) /\ Inside(s)' = Inside(s)
             /\ s \in ScopesOf[r] =>
                  /\ Inside(s)' = Inside(s) \ {r} /\ r \in Inside(s)
                  /\ Unreturned(s)' = Unreturned(s) \ {r}
                  /\ (r \in Unreturned(s) <=> phase[r] = "written")
  BY DEF Finish, Unreturned, Inside, Reserving, HoldersIn, Holders, TypeOK
<1>3. \A s : s \in ScopesOf[r] =>
         /\ Cardinality(Inside(s)') = Cardinality(Inside(s)) - 1
         /\ Cardinality(Unreturned(s)') = IF phase[r] = "written"
                                          THEN Cardinality(Unreturned(s)) - 1
                                          ELSE Cardinality(Unreturned(s))
         /\ Cardinality(Inside(s)') \in Nat /\ Cardinality(Unreturned(s)') \in Nat
  <2>. SUFFICES ASSUME NEW s, s \in ScopesOf[r]
                PROVE  /\ Cardinality(Inside(s)') = Cardinality(Inside(s)) - 1
                       /\ Cardinality(Unreturned(s)') = IF phase[r] = "written"
                                                        THEN Cardinality(Unreturned(s)) - 1
                                                        ELSE Cardinality(Unreturned(s))
                       /\ Cardinality(Inside(s)') \in Nat
                       /\ Cardinality(Unreturned(s)') \in Nat
    OBVIOUS
  <2>1. Cardinality(Inside(s)') = Cardinality(Inside(s)) - 1
    BY Zenon, <1>1, <1>2, RequestSets
  <2>2. CASE phase[r] = "written"
    BY Zenon, <1>1, <1>2, <2>1, <2>2, RequestSets
  <2>3. CASE phase[r] # "written"
    <3>1. Unreturned(s)' = Unreturned(s)
      BY <1>2, <2>3, ZenonT(30)
    <3>. QED
      BY <1>1, <1>2, <2>1, <2>3, <3>1, RequestSets
  <2>. QED
    BY ZenonT(30), <2>2, <2>3
<1>4. \A s \in Scope : Dropped(r, s) <=> /\ s \in Keyed /\ s \in ScopesOf[r]
                                         /\ Cardinality(Inside(s)) = 1
  BY Zenon DEF Dropped, NothingLeaks
<1>5. \A s \in Keyed : /\ readers'[s] = Cardinality(Inside(s)')
                       /\ readers'[s] \in Nat
  BY <1>1, <1>2, <1>3 DEF NothingLeaks, Finish
<1>6. \A s \in Scope : pending'[s] = Cardinality(Unreturned(s)') /\ pending'[s] \in Nat
  <2>. SUFFICES ASSUME NEW s \in Scope
                PROVE  pending'[s] = Cardinality(Unreturned(s)') /\ pending'[s] \in Nat
    BY ZenonT(30)
  <2>1. CASE Dropped(r, s)
    <3>0. s \in ScopesOf[r] /\ Cardinality(Inside(s)) = 1
      BY Zenon, <1>4, <2>1
    <3>1. Cardinality(Inside(s)') = 0
      BY Zenon, <1>3, <3>0, Comparisons
    <3>a. Inside(s)' \in SUBSET Request
      BY Zenon, <1>1, <1>2, <3>0
    <3>2. Inside(s)' = {}
      BY <3>1, <3>a, RequestSets, FS_EmptySet
    <3>3. Unreturned(s)' = {}
      BY Zenon, <3>2 DEF Inside, Unreturned
    <3>4. pending'[s] = 0
      BY Zenon, <2>1 DEF Finish
    <3>5. Cardinality(Unreturned(s)') = 0
      BY Zenon, <3>3, FS_EmptySet
    <3>. QED
      BY SMT, <3>4, <3>5
  <2>2. CASE ~Dropped(r, s)
    <3>1. pending'[s] = Returned(r, s)
      BY <2>2 DEF Finish
    <3>. QED
      BY ZenonT(30), <1>1, <1>2, <1>3, <3>1 DEF Returned, NothingLeaks
  <2>. QED
    BY <2>1, <2>2
<1>7. TypeOK' /\ SectionShape'
  BY Zenon, <1>5, <1>6 DEF Finish, TypeOK, SectionShape, obs, Phase
<1>8. NothingLeaks'
  <2>1. ASSUME NEW s \in Keyed, readers'[s] = 0 PROVE started'[s] = 0
    <3>1. CASE s \in ScopesOf[r]
      BY <1>1, <1>3, <1>4, <1>5, <2>1, <3>1, SMTT(30) DEF Finish, Keyed
    <3>2. CASE s \notin ScopesOf[r]
      BY Zenon, <2>1, <3>2 DEF Finish, Dropped, NothingLeaks, Keyed
    <3>. QED
      BY <3>1, <3>2
  <2>. QED
    BY <1>5, <1>6, <2>1 DEF NothingLeaks
<1>9. ASSUME NEW q \in Request, NEW s \in Scope, phase'[q] = "counting", s \in ScopesOf[q]
      PROVE  /\ phase[q] = "counting" /\ started'[s] = started[s]
             /\ obsStarted'[q] = obsStarted[q] /\ obsPending'[q] = obsPending[q]
             /\ counted'[q] = counted[q] /\ count'[q] = count[q]
  <2>1. phase[q] = "counting" /\ q # r
    BY Zenon, <1>9 DEF Finish, TypeOK
  <2>2. q \in Inside(s) \ {r}
    BY <1>9, <2>1 DEF Inside
  <2>3. ~Dropped(r, s)
    <3>. SUFFICES ASSUME Dropped(r, s) PROVE FALSE
      OBVIOUS
    <3>0. s \in ScopesOf[r] /\ Cardinality(Inside(s)) = 1
      BY Zenon, <1>4
    <3>1. Cardinality(Inside(s)') = 0 /\ Inside(s)' = Inside(s) \ {r}
      BY <1>2, <1>3, <3>0
    <3>a. Inside(s)' \in SUBSET Request
      BY <1>1, <3>1
    <3>2. Inside(s)' = {}
      BY ZenonT(30), <3>1, <3>a, RequestSets, FS_EmptySet
    <3>. QED
      BY <2>2, <3>1, <3>2
  <2>. QED
    BY ZenonT(30), <2>1, <2>3 DEF Finish, obs
<1>10. SnapshotCovers'
  BY <1>2, <1>9 DEF SnapshotCovers
<1>11. CountCovers'
  BY ZenonT(30), <1>2, <1>9 DEF CountCovers, Used
<1>12. HoldersFit'
  BY ZenonT(30), <1>2 DEF HoldersFit, Enforced, Finish
<1>. QED
  BY <1>7, <1>8, <1>10, <1>11, <1>12

-----------------------------------------------------------------------------
(***************************************************************************)
(* The theorems                                                            *)
(***************************************************************************)

\* Every step of the specification preserves the inductive invariant.
LEMMA NextIInv == IInv /\ [Next]_vars => IInv'
<1>. SUFFICES ASSUME IInv, [Next]_vars PROVE IInv'
  OBVIOUS
<1>1. ASSUME NEW r \in Request, Observe(r) PROVE IInv'
  BY <1>1, ObserveIInv
<1>2. ASSUME NEW r \in Request, NEW s \in ScopesOf[r], Count(r, s) PROVE IInv'
  BY <1>2, CountIInv
<1>3. ASSUME NEW r \in Request, CountFails(r) PROVE IInv'
  BY <1>3, GiveUpIInv, ZenonT(30) DEF CountFails
<1>4. ASSUME NEW r \in Request, Reserve(r) PROVE IInv'
  BY <1>4, ReserveIInv
<1>5. ASSUME NEW r \in Request, Reject(r) PROVE IInv'
  BY <1>5, GiveUpIInv, ZenonT(30) DEF Reject
<1>6. ASSUME NEW r \in Request, WriteCreating(r) PROVE IInv'
  BY <1>6, WriteCreatingIInv
<1>7. ASSUME NEW r \in Request, WriteFails(r) PROVE IInv'
  BY <1>7, WriteFailsIInv
<1>8. ASSUME NEW r \in Request, Finish(r) PROVE IInv'
  BY <1>8, FinishIInv
<1>9. ASSUME NEW r \in Request, MoveElsewhere(r) PROVE IInv'
  BY <1>9, MoveIInv
<1>10. ASSUME NEW p \in Profile, NEW n \in ProfileLimits, SetLimit(p, n) PROVE IInv'
  BY <1>10, SetLimitIInv
<1>11. CASE Crash
  BY Zenon, <1>11, CrashIInv
<1>12. CASE UNCHANGED vars
  <2>1. TypeOK' /\ SectionShape'
    BY <1>12 DEF IInv, TypeOK, SectionShape, vars, obs, counters
  <2>. QED
    BY Zenon, <1>12, <2>1, OutsideIInv DEF vars
<1>. QED
  BY Zenon, <1>1, <1>2, <1>3, <1>4, <1>5, <1>6, <1>7, <1>8, <1>9, <1>10, <1>11, <1>12
  DEF Next

\* The inductive invariant holds in every reachable state.
THEOREM Invariance == Spec => []IInv
BY InitIInv, NextIInv, PTL DEF Spec

\* The section's variables keep their types: no counter goes negative.
THEOREM TypeCorrect == Spec => []TypeOK
<1>1. IInv => TypeOK
  BY DEF IInv
<1>. QED
  BY <1>1, Invariance, PTL

\* pending and readers are exactly the starts inside the section (finish).
THEOREM CountersDoNotLeak == Spec => []NothingLeaks
<1>1. IInv => NothingLeaks
  BY Zenon DEF IInv
<1>. QED
  BY <1>1, Invariance, PTL

\* The process, account and repository limits are never exceeded by admitted
\* requests (reserveRunnerCapacity and the creating write).
THEOREM FixedLimits == Spec => []FixedLimitsRespected
<1>1. IInv => FixedLimitsRespected
  <2>. SUFFICES ASSUME IInv, NEW s \in Scope \ Profile, Enforced(s)
                PROVE  Cardinality(AdmittedIn(s)) <= limit[s]
    BY DEF FixedLimitsRespected
  <2>1. AdmittedIn(s) \subseteq HoldersIn(s)
    BY Zenon DEF AdmittedIn, HoldersIn, Holders
  <2>2. /\ Cardinality(AdmittedIn(s)) <= Cardinality(HoldersIn(s))
        /\ Cardinality(AdmittedIn(s)) \in Nat /\ Cardinality(HoldersIn(s)) \in Nat
    BY Zenon, <2>1, MeasuredSets, RequestSets DEF IInv, TypeOK
  <2>3. Cardinality(HoldersIn(s)) <= limit[s] /\ limit[s] \in Nat
    BY DEF IInv, HoldersFit, TypeOK
  <2>. QED
    BY <2>2, <2>3
<1>. QED
  BY <1>1, Invariance, PTL

\* Only the creating write admits, and it leaves every enforced scope within
\* the limit in force, the editable ones included.
THEOREM AdmissionWithinLimit == Spec => AdmissionRespectsLimit
<1>1. ASSUME IInv, [Next]_vars, NEW r \in Request, r \in admitted' \ admitted,
             NEW s \in ScopesOf[r], Enforced(s)
      PROVE  Cardinality(AdmittedIn(s)') <= limit[s]
  <2>1. WriteCreating(r)
    BY <1>1, OnlyWriteAdmits
  <2>2. s \in Scope
    BY ZenonT(30), ScopesAssumption
  <2>3. Cardinality(HoldersIn(s)) <= limit[s] /\ limit[s] \in Nat
    BY SMTT(30), <1>1, <2>1, <2>2 DEF IInv, HoldersFit, Reserving, WriteCreating, TypeOK
  <2>4. AdmittedIn(s)' \subseteq HoldersIn(s)
    BY Zenon, <1>1, <2>1 DEF AdmittedIn, HoldersIn, Holders, WriteCreating, IInv, TypeOK
  <2>5. /\ Cardinality(AdmittedIn(s)') <= Cardinality(HoldersIn(s))
        /\ Cardinality(AdmittedIn(s)') \in Nat /\ Cardinality(HoldersIn(s)) \in Nat
    BY Zenon, <1>1, <2>4, MeasuredSets, RequestSets DEF IInv, TypeOK
  <2>. QED
    BY SMTT(30), <2>3, <2>5
<1>2. IInv /\ [Next]_vars =>
        [\A r \in Request : r \in admitted' \ admitted =>
            \A s \in ScopesOf[r] :
               Enforced(s) => Cardinality(AdmittedIn(s)') <= limit[s]]_vars
  BY <1>1
<1>. QED
  BY <1>2, Invariance, PTL DEF Spec, AdmissionRespectsLimit

-----------------------------------------------------------------------------
(* RunnerCapacity implements AtomicAdmission.                              *)

\* A start that moves on without reserving, or without giving a reservation
\* up, is invisible to AtomicAdmission.
LEMMA HoldersKept ==
    ASSUME phase \in [Request -> Phase], NEW r \in Request, NEW v,
           phase' = [phase EXCEPT ![r] = v], phase[r] # "reserved", v # "reserved",
           UNCHANGED <<admitted, limit>>
    PROVE  UNCHANGED <<Holders, limit>>
  BY DEF Holders

\* Every step of the section is one step of AtomicAdmission or none: a
\* reservation admits, a failed write, a departure and a restart release, a
\* spec edit sets a limit, and everything else is invisible.
LEMMA StepRefines ==
    ASSUME IInv, IInv', [Next]_vars
    PROVE  [Atomic!Next]_(Atomic!vars)
<1>. USE DEF Atomic!vars, Atomic!Next
<1>0. /\ TypeOK /\ SectionShape /\ CountCovers
      /\ phase \in [Request -> Phase]
      /\ limit \in [Scope -> Nat] /\ limit' \in [Scope -> Nat]
  BY DEF IInv, TypeOK
<1>1. ASSUME NEW r \in Request, Observe(r) PROVE UNCHANGED <<Holders, limit>>
  <2>1. /\ phase' = [phase EXCEPT ![r] = "counting"] /\ phase[r] # "reserved"
        /\ UNCHANGED <<admitted, limit>>
    BY Zenon, <1>1 DEF Observe
  <2>. QED
    BY <1>0, <2>1, HoldersKept, ZenonT(30)
<1>2. ASSUME NEW r \in Request, NEW s \in ScopesOf[r], Count(r, s)
      PROVE  UNCHANGED <<Holders, limit>>
  BY Zenon, <1>0, <1>2 DEF Count, Forget, Holders
<1>3. ASSUME NEW r \in Request, CountFails(r) \/ Reject(r)
      PROVE  UNCHANGED <<Holders, limit>>
  BY <1>0, <1>3 DEF CountFails, Reject, Holders
<1>4. ASSUME NEW r \in Request, Reserve(r) PROVE Atomic!Admit(r)
  <2>1. Holders' = Holders \cup {r} /\ limit' = limit
    BY Zenon, <1>0, <1>4 DEF Reserve, Holders
  <2>2. r \notin Holders
    BY Zenon, <1>0, <1>4 DEF Reserve, Holders, SectionShape
  <2>3. ASSUME NEW s \in ScopesOf[r], Enforced(s)
        PROVE  Cardinality(HoldersIn(s)) < limit[s]
    <3>1. s \in Scope
      BY Zenon, ScopesAssumption
    <3>2. Cardinality(HoldersIn(s)) <= Used(r, s)
      BY Zenon, <1>0, <1>4, <2>3, <3>1 DEF CountCovers, Reserve, AllCounted
    <3>3. Used(r, s) < limit[s]
      BY ZenonT(30), <1>4, <2>3 DEF Reserve, Fits
    <3>4. Used(r, s) \in Int /\ limit[s] \in Int /\ Cardinality(HoldersIn(s)) \in Nat
      BY <1>0, <3>1, MeasuredSets, RequestSets, SMTT(30) DEF Used, TypeOK
    <3>. QED
      BY <3>2, <3>3, <3>4
  <2>4. Atomic!HasRoom(r)
    <3>1. \A S : Atomic!Cardinality(S) = Cardinality(S)
      BY DEF Atomic!Cardinality, Cardinality
    <3>. QED
      BY <2>3, <3>1 DEF Atomic!HasRoom, Atomic!Enforced, Atomic!HoldersIn, Enforced, HoldersIn
  <2>. QED
    BY Zenon, <2>1, <2>2, <2>4 DEF Atomic!Admit
<1>5. ASSUME NEW r \in Request, WriteCreating(r) PROVE UNCHANGED <<Holders, limit>>
  BY <1>0, <1>5 DEF WriteCreating, Holders
<1>6. ASSUME NEW r \in Request, WriteFails(r) PROVE Atomic!Release({r})
  <2>1. r \in Holders /\ r \notin admitted
    BY Zenon, <1>0, <1>6 DEF WriteFails, Holders, SectionShape
  <2>2. Holders' = Holders \ {r} /\ limit' = limit
    BY <1>0, <1>6, <2>1 DEF WriteFails, Holders
  <2>. QED
    BY Zenon, <2>1, <2>2 DEF Atomic!Release
<1>7. ASSUME NEW r \in Request, Finish(r) PROVE UNCHANGED <<Holders, limit>>
  <2>1. /\ phase' = [phase EXCEPT ![r] = "idle"] /\ phase[r] # "reserved"
        /\ UNCHANGED <<admitted, limit>>
    BY Zenon, <1>7 DEF Finish
  <2>. QED
    BY <1>0, <2>1, HoldersKept, ZenonT(30)
<1>8. ASSUME NEW r \in Request, MoveElsewhere(r)
      PROVE  Atomic!Release({r} \cap Holders)
  BY <1>8 DEF MoveElsewhere, Holders, Atomic!Release
<1>9. ASSUME NEW p \in Profile, NEW n \in ProfileLimits, SetLimit(p, n)
       PROVE  Atomic!SetLimit(p)
  BY Zenon, <1>0, <1>9 DEF SetLimit, Holders, Atomic!SetLimit
<1>10. ASSUME Crash PROVE Atomic!Release(Holders \ admitted)
  BY <1>10 DEF Crash, Holders, Atomic!Release
<1>11. Holders \subseteq Request
  BY <1>0 DEF Holders, TypeOK
<1>12. CASE UNCHANGED vars
  BY <1>12 DEF vars, Holders
<1>. QED
  BY <1>1, <1>2, <1>3, <1>4, <1>5, <1>6, <1>7, <1>8, <1>9, <1>10, <1>11, <1>12, ZenonT(30)
     DEF Next

\* The capacity section implements atomic admission: counting, reserving and
\* writing in separate, unlocked steps admits exactly as one indivisible
\* test-and-take would (observe, reserve, finish, startRunner).
THEOREM Refinement == Spec => AdmissionIsAtomic
<1>1. Init => Atomic!Init
  BY LimitAssumption DEF Init, Atomic!Init, Holders
<1>2. IInv /\ IInv' /\ [Next]_vars => [Atomic!Next]_(Atomic!vars)
  BY StepRefines
<1>. QED
  BY <1>1, <1>2, Invariance, PTL DEF Spec, AdmissionIsAtomic, Atomic!Spec
=============================================================================
