--------------------------- MODULE DeploymentMoves ---------------------------
(***************************************************************************)
(* What the two models of a deployments row have in common.                *)
(* DeploymentWorker runs one deployment; DeploymentAdmission has many rows *)
(* and knows of a status only what the quota, a retry and the retention    *)
(* tell apart: queued; busy is planning, creating, running or stopping;    *)
(* ended is completed or expired.                                          *)
(***************************************************************************)

Final == {"failed", "ended"}

(* What the worker's operations and the stop handler write (transition,    *)
(* fail, requeue, stop): see DeploymentWorker for when.                    *)
Moves(d) ==
    CASE d.status = "queued" ->
           {[d EXCEPT !.status = "busy"], [d EXCEPT !.status = "ended"]}
      [] d.status = "busy" /\ ~d.sandbox ->
           {[d EXCEPT !.sandbox = TRUE], [d EXCEPT !.status = "queued"],
            [d EXCEPT !.status = "failed"], [d EXCEPT !.status = "ended"]}
      [] d.status = "busy" /\ d.sandbox ->
           {[d EXCEPT !.status = "failed"],
            [d EXCEPT !.status = "failed", !.sandbox = FALSE],
            [d EXCEPT !.status = "ended", !.sandbox = FALSE]}
      [] d.status = "failed" /\ d.sandbox -> {[d EXCEPT !.status = "busy"]}
      [] OTHER -> {}

(* checkDeploymentQuota: what takes up a place of the scope.               *)
Counts(d) == d.status \in {"queued", "busy"} \/ (d.status = "failed" /\ d.sandbox)
=============================================================================
