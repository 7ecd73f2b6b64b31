-------------------------- MODULE AtomicAdmission --------------------------
(***************************************************************************)
(* What runner admission promises, without saying how: a request is        *)
(* admitted in one indivisible step, and only while every scope it belongs *)
(* to (the process, its runner spec, its account, its repository) that has *)
(* a limit holds fewer requests than that limit.  RunnerCapacity, which    *)
(* counts rows in the database and tracks reservations in memory with no   *)
(* lock held across the two, is shown to implement this.                   *)
(***************************************************************************)
EXTENDS Naturals, FiniteSets

CONSTANTS
    Request,     \* runner requests
    Scope,       \* everything a limit can be attached to
    Global,      \* the scope of the whole process, always limited
    Adjustable,  \* the scopes whose limit may change while the server runs
    ScopesOf     \* ScopesOf[r]: the scopes request r is counted in

VARIABLES
    holders,     \* the requests that hold a slot
    limit        \* limit[s]; 0 means no limit, except for Global

vars == <<holders, limit>>

Enforced(s) == s = Global \/ limit[s] > 0

HoldersIn(s) == {r \in holders : s \in ScopesOf[r]}

HasRoom(r) == \A s \in ScopesOf[r] :
                 Enforced(s) => Cardinality(HoldersIn(s)) < limit[s]

Init == /\ holders = {}
        /\ limit \in [Scope -> Nat]

Admit(r) == /\ r \notin holders
            /\ HasRoom(r)
            /\ holders' = holders \cup {r}
            /\ UNCHANGED limit

Release(R) == /\ R \subseteq holders
              /\ holders' = holders \ R
              /\ UNCHANGED limit

\* Lowering a limit below the current use evicts nobody.
SetLimit(s) == /\ limit' \in [Scope -> Nat]
               /\ \A t \in Scope \ {s} : limit'[t] = limit[t]
               /\ UNCHANGED holders

Next == \/ \E r \in Request : Admit(r)
        \/ \E R \in SUBSET Request : Release(R)
        \/ \E s \in Adjustable : SetLimit(s)

Spec == Init /\ [][Next]_vars
=============================================================================
