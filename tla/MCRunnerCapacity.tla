-------------------------- MODULE MCRunnerCapacity --------------------------
(***************************************************************************)
(* Three requests that share the process limit.  The first two use one     *)
(* runner spec with an editable limit, the first and the third belong to   *)
(* one account, so each of the three levels refuses a request the other    *)
(* two would let in.                                                       *)
(***************************************************************************)
EXTENDS RunnerCapacity, TLC

CONSTANTS r1, r2, r3, all, p1, a1

MCScopesOf == (r1 :> {all, p1, a1}) @@ (r2 :> {all, p1}) @@ (r3 :> {all, a1})
MCLimit == (all :> 2) @@ (p1 :> 1) @@ (a1 :> 1)
=============================================================================
