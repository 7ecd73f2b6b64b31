--------------------------- MODULE RunnerCapacity ---------------------------
(***************************************************************************)
(* Admission of queued runner requests under four levels of concurrency    *)
(* limits: the capacity section of startRunner, from the moment it takes   *)
(* admissionMu.RLock to the moment it drops it.                            *)
(*                                                                         *)
(* Any number of starts run the section at once.  Each one takes a         *)
(* snapshot of in-memory counters (observe), counts in-flight rows in the  *)
(* database one scope at a time with no lock held (reserveRunnerCapacity), *)
(* compares count + pending + "started since the snapshot" with the limit  *)
(* and reserves (reserve), writes the row as creating, and gives the       *)
(* reservation back (finish).  A count may be stale in both directions     *)
(* when it is used.                                                        *)
(***************************************************************************)
EXTENDS Naturals, FiniteSets, RequestMoves

CONSTANTS
    Request,       \* runner requests
    Global,        \* the scope of the whole process
    Profile,       \* runner specs (profile keys)
    Account,       \* repository owners
    Repository,    \* repositories
    ScopesOf,      \* ScopesOf[r]: the scopes request r is counted in
    FixedLimit,    \* limits read from the configuration at start
    ProfileLimits, \* values an administrator may give a runner spec's limit
    MaxStarted     \* bound on reservations made, for model checking only

Scope == {Global} \cup Profile \cup Account \cup Repository

\* The counters kept in maps and dropped when no start is looking at them.
Keyed == Scope \ {Global}

\* The order in which reserveRunnerCapacity counts the scopes.
Level(s) == CASE s = Global -> 0
              [] s \in Profile -> 1
              [] s \in Account -> 2
              [] OTHER -> 3

ASSUME FiniteRequests == IsFiniteSet(Request)
ASSUME ScopesAssumption ==
    /\ Global \notin Profile \cup Account \cup Repository
    /\ Profile \cap (Account \cup Repository) = {}
    /\ Account \cap Repository = {}
    /\ ScopesOf \in [Request -> SUBSET Scope]
    /\ \A r \in Request : Global \in ScopesOf[r]
ASSUME LimitAssumption ==
    /\ FixedLimit \in [Scope -> Nat]
    /\ FixedLimit[Global] > 0
    /\ ProfileLimits \subseteq Nat
ASSUME MaxStartedAssumption == MaxStarted \in Nat

VARIABLES
    row,        \* row[r]: what the database counts use of the request's status
    admitted,   \* rows whose current stay in flight began with a creating write
    phase,      \* where r's start stands in the capacity section
    obsStarted, \* observation.*Started of r's start, per scope
    obsPending, \* observation.*Pending of r's start, per scope
    counted,    \* the scopes r's start has counted
    count,      \* the counts it got
    started,    \* counter.started, per scope
    pending,    \* counter.pending, per scope
    readers,    \* counter.readers, per keyed scope
    limit       \* the limits in force

obs == <<obsStarted, obsPending, counted, count>>
counters == <<started, pending, readers>>
vars == <<row, admitted, phase, obs, counters, limit>>

Row == {"queued", "inflight", "failed", "completed"}
Phase == {"idle", "counting", "reserved", "written", "leaving"}
Zero == [s \in Scope |-> 0]

TypeOK ==
    /\ row \in [Request -> Row]
    /\ admitted \in SUBSET Request
    /\ phase \in [Request -> Phase]
    /\ obsStarted \in [Request -> [Scope -> Nat]]
    /\ obsPending \in [Request -> [Scope -> Nat]]
    /\ counted \in [Request -> SUBSET Scope]
    /\ count \in [Request -> [Scope -> Nat]]
    /\ started \in [Scope -> Nat]
    /\ pending \in [Scope -> Nat]
    /\ readers \in [Keyed -> Nat]
    /\ limit \in [Scope -> Nat]

\* MaxConcurrentRunners is at least 1 and always applies; the other limits
\* apply when positive.
Enforced(s) == s = Global \/ limit[s] > 0

\* status IN (creating, running, stopping), restricted to one scope
InFlight(s) == {r \in Request : row[r] = "inflight" /\ s \in ScopesOf[r]}

-----------------------------------------------------------------------------
Init ==
    /\ row = [r \in Request |-> "queued"]
    /\ admitted = {}
    /\ phase = [r \in Request |-> "idle"]
    /\ obsStarted = [r \in Request |-> Zero]
    /\ obsPending = [r \in Request |-> Zero]
    /\ counted = [r \in Request |-> {}]
    /\ count = [r \in Request |-> Zero]
    /\ started = Zero
    /\ pending = Zero
    /\ readers = [s \in Keyed |-> 0]
    /\ limit = FixedLimit

\* A start remembers the counters of its own scopes only.
Seen(r, counter) == [s \in Scope |-> IF s \in ScopesOf[r] THEN counter[s] ELSE 0]

\* The observation's values are not read again once the start has reserved or
\* is on its way out.
Forget(r) ==
    /\ obsStarted' = [obsStarted EXCEPT ![r] = Zero]
    /\ obsPending' = [obsPending EXCEPT ![r] = Zero]
    /\ counted' = [counted EXCEPT ![r] = {}]
    /\ count' = [count EXCEPT ![r] = Zero]

(***************************************************************************)
(* startRunner found the row queued under the request's lock and took      *)
(* admissionMu.RLock: from here to Finish nobody else changes this row's   *)
(* status.                                                                 *)
(***************************************************************************)
Observe(r) ==
    /\ phase[r] = "idle"
    /\ row[r] = "queued"
    /\ phase' = [phase EXCEPT ![r] = "counting"]
    /\ obsStarted' = [obsStarted EXCEPT ![r] = Seen(r, started)]
    /\ obsPending' = [obsPending EXCEPT ![r] = Seen(r, pending)]
    /\ readers' = [s \in Keyed |-> IF s \in ScopesOf[r] THEN readers[s] + 1
                                                        ELSE readers[s]]
    /\ UNCHANGED <<row, admitted, counted, count, started, pending, limit>>

\* The scopes of r that are still to be counted before s
UncountedBefore(r, s) ==
    {t \in ScopesOf[r] \ counted[r] : Enforced(t) /\ Level(t) < Level(s)}

\* A full process ends the section at once; the other scopes are compared
\* only in reserve.
ProcessFull(r, s) == s = Global /\ Cardinality(InFlight(s)) >= limit[s]

\* One database count
Count(r, s) ==
    /\ phase[r] = "counting"
    /\ s \in ScopesOf[r] \ counted[r]
    /\ Enforced(s)
    /\ UncountedBefore(r, s) = {}
    /\ \/ /\ ProcessFull(r, s)
          /\ phase' = [phase EXCEPT ![r] = "leaving"]
          /\ Forget(r)
       \/ /\ ~ProcessFull(r, s)
          /\ counted' = [counted EXCEPT ![r] = @ \cup {s}]
          /\ count' = [count EXCEPT ![r][s] = Cardinality(InFlight(s))]
          /\ UNCHANGED <<phase, obsStarted, obsPending>>
    /\ UNCHANGED <<row, admitted, counters, limit>>

\* The database returns an error instead of a count.
CountFails(r) ==
    /\ phase[r] = "counting"
    /\ \E s \in ScopesOf[r] \ counted[r] : Enforced(s)
    /\ phase' = [phase EXCEPT ![r] = "leaving"]
    /\ Forget(r)
    /\ UNCHANGED <<row, admitted, counters, limit>>

AllCounted(r) == \A s \in ScopesOf[r] : Enforced(s) => s \in counted[r]

\* Mutant: reservations pending when the section began are forgotten.
UsedWithoutPending(r, s) == count[r][s] + (started[s] - obsStarted[r][s])

\* Mutant: reservations are subtracted again once they are finished.
UsedNow(r, s) == count[r][s] + pending[s]

\* What reserve compares with the limit: the count, what was pending when the
\* section began, and every reservation made since.
Used(r, s) == count[r][s] + obsPending[r][s] + (started[s] - obsStarted[r][s])

Fits(r) == \A s \in ScopesOf[r] : Enforced(s) => Used(r, s) < limit[s]

Reserve(r) ==
    /\ phase[r] = "counting"
    /\ AllCounted(r)
    /\ Fits(r)
    /\ started[Global] < MaxStarted
    /\ phase' = [phase EXCEPT ![r] = "reserved"]
    /\ started' = [s \in Scope |-> IF s \in ScopesOf[r] THEN started[s] + 1
                                                        ELSE started[s]]
    /\ pending' = [s \in Scope |-> IF s \in ScopesOf[r] THEN pending[s] + 1
                                                        ELSE pending[s]]
    /\ Forget(r)
    /\ UNCHANGED <<row, admitted, readers, limit>>

Reject(r) ==
    /\ phase[r] = "counting"
    /\ AllCounted(r)
    /\ ~Fits(r)
    /\ phase' = [phase EXCEPT ![r] = "leaving"]
    /\ Forget(r)
    /\ UNCHANGED <<row, admitted, counters, limit>>

\* WriteState of the creating row commits.
WriteCreating(r) ==
    /\ phase[r] = "reserved"
    /\ row' = [row EXCEPT ![r] = "inflight"]
    /\ admitted' = admitted \cup {r}
    /\ phase' = [phase EXCEPT ![r] = "written"]
    /\ UNCHANGED <<obs, counters, limit>>

\* WriteState returns a conflict (a claim, a retry or a wake-up bumped the
\* version without the request's lock) or an error; the row is still queued.
WriteFails(r) ==
    /\ phase[r] = "reserved"
    /\ phase' = [phase EXCEPT ![r] = "written"]
    /\ UNCHANGED <<row, admitted, obs, counters, limit>>

\* finish deletes a keyed counter that r's start was the last to read.
Dropped(r, s) == s \in Keyed \cap ScopesOf[r] /\ readers[s] = 1

\* Mutant: a start that leaves through an error keeps its reservation.
ReturnedOnSuccess(r, s) ==
    IF s \in ScopesOf[r] /\ r \in admitted THEN pending[s] - 1 ELSE pending[s]

\* pending of s once r's start has given its reservation back, if it had one
Returned(r, s) ==
    IF s \in ScopesOf[r] /\ phase[r] = "written" THEN pending[s] - 1 ELSE pending[s]

\* finish, then admissionMu and the request's lock are released.
Finish(r) ==
    /\ phase[r] \in {"written", "leaving"}
    /\ phase' = [phase EXCEPT ![r] = "idle"]
    /\ readers' = [s \in Keyed |-> IF s \in ScopesOf[r] THEN readers[s] - 1
                                                        ELSE readers[s]]
    /\ started' = [s \in Scope |-> IF Dropped(r, s) THEN 0 ELSE started[s]]
    /\ pending' = [s \in Scope |-> IF Dropped(r, s) THEN 0 ELSE Returned(r, s)]
    /\ UNCHANGED <<row, admitted, obs, limit>>

-----------------------------------------------------------------------------
(***************************************************************************)
(* What the rest of the server does to the rows, under the request's lock: *)
(* RunnerLifecycle says when, and keeps to these moves (CapacityAsked).    *)
(***************************************************************************)

\* The row is stopped, whatever its status and with no capacity asked for; it
\* fails, completes, or goes back to the queue.
MoveElsewhere(r) ==
    /\ phase[r] = "idle"
    /\ \E st \in UnaskedMoves(row[r]) : row' = [row EXCEPT ![r] = st]
    /\ admitted' = admitted \ {r}
    /\ UNCHANGED <<phase, obs, counters, limit>>

\* A runner spec is created, patched or deleted under admissionMu.Lock, which
\* excludes every capacity section.
SetLimit(p, n) ==
    /\ \A r \in Request : phase[r] = "idle"
    /\ limit' = [limit EXCEPT ![p] = n]
    /\ UNCHANGED <<row, admitted, phase, obs, counters>>

\* The process dies and a new one starts: rows survive, counters do not.
Crash ==
    /\ phase' = [r \in Request |-> "idle"]
    /\ obsStarted' = [r \in Request |-> Zero]
    /\ obsPending' = [r \in Request |-> Zero]
    /\ counted' = [r \in Request |-> {}]
    /\ count' = [r \in Request |-> Zero]
    /\ started' = Zero
    /\ pending' = Zero
    /\ readers' = [s \in Keyed |-> 0]
    /\ UNCHANGED <<row, admitted, limit>>

Next ==
    \/ \E r \in Request :
          \/ Observe(r)
          \/ \E s \in ScopesOf[r] : Count(r, s)
          \/ CountFails(r)
          \/ Reserve(r)
          \/ Reject(r)
          \/ WriteCreating(r)
          \/ WriteFails(r)
          \/ Finish(r)
          \/ MoveElsewhere(r)
    \/ \E p \in Profile, n \in ProfileLimits : SetLimit(p, n)
    \/ Crash

Spec == Init /\ [][Next]_vars

-----------------------------------------------------------------------------
(***************************************************************************)
(* Properties                                                              *)
(***************************************************************************)

AdmittedIn(s) == {r \in admitted : s \in ScopesOf[r]}

\* The process, account and repository limits never change, so at no time are
\* more admitted requests in flight than they allow, however many starts
\* count, reserve, write and fail at once and whenever the process restarts
\* (reserveRunnerCapacity, reserve, finish).
FixedLimitsRespected ==
    \A s \in Scope \ Profile :
        Enforced(s) => Cardinality(AdmittedIn(s)) <= limit[s]

\* A spec's limit may be lowered below its use at any time, but no creating
\* write ever leaves more admitted requests in a scope than the limit in force
\* at that moment (startRunner's creating WriteState under admissionMu.RLock).
AdmissionRespectsLimit ==
    [][\A r \in Request : r \in admitted' \ admitted =>
          \A s \in ScopesOf[r] :
             Enforced(s) => Cardinality(AdmittedIn(s)') <= limit[s]]_vars

\* The starts inside the section that are counted in s, and those of them that
\* hold a reservation not yet given back
Inside(s) == {r \in Request : s \in ScopesOf[r] /\ phase[r] # "idle"}
Unreturned(s) == {r \in Request : s \in ScopesOf[r] /\ phase[r] \in {"reserved", "written"}}

\* No reservation and no reader leaks: whatever path a start takes out of the
\* section, the counters are exactly the starts inside it, and a keyed counter
\* that nobody reads is gone (finish, deferred in reserveRunnerCapacity or
\* called by startRunner).
NothingLeaks ==
    /\ \A s \in Scope : pending[s] = Cardinality(Unreturned(s))
    /\ \A s \in Keyed : /\ readers[s] = Cardinality(Inside(s))
                        /\ readers[s] = 0 => started[s] = 0

Holders == admitted \cup {r \in Request : phase[r] = "reserved"}

Atomic == INSTANCE AtomicAdmission WITH holders <- Holders, Adjustable <- Profile

\* Counting and reserving in separate steps, with stale counts, looks from
\* outside like one atomic test-and-take of a slot in every scope.
AdmissionIsAtomic == Atomic!Spec
=============================================================================
