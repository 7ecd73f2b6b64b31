---------------------------- MODULE RequestMoves ----------------------------
(***************************************************************************)
(* What the two models of a runner request's row have in common.           *)
(* RunnerLifecycle says when the row of a request changes its status;      *)
(* RunnerCapacity has many rows and only needs to know what becomes of the *)
(* ones that are not in its section.                                       *)
(***************************************************************************)

\* status IN (creating, running, stopping), which is what the counts look at
CountedAs(status) ==
    IF status \in {"creating", "running", "stopping"} THEN "inflight" ELSE status

\* What the handlers other than startRunner's admission make of a row: they
\* stop it, fail it, complete it or put it back in the queue, and ask nobody
\* for capacity.  Completion is not undone, except for a runner that did
\* another job; a queued row is completed only by way of stopping.
UnaskedMoves(counted) ==
    CASE counted = "queued" -> {"inflight", "failed"}
      [] counted = "inflight" -> {"queued", "failed", "completed"}
      [] counted = "failed" -> {"queued", "inflight", "completed"}
      [] counted = "completed" -> {"queued"}
=============================================================================
