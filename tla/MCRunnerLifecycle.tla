------------------------- MODULE MCRunnerLifecycle -------------------------
(***************************************************************************)
(* RunnerLifecycle for TLC.  Its constants are plain values, so the        *)
(* configurations give them directly: two claims are enough for a late     *)
(* start, watcher or sweep of one attempt to meet the next attempt, three  *)
(* for what it did there to reach the one after that, and one retry for a  *)
(* budget that both survives and runs out.                                 *)
(***************************************************************************)
EXTENDS RunnerLifecycle
====
