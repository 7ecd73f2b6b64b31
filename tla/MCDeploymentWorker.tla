------------------------- MODULE MCDeploymentWorker -------------------------
(* One deployment, two handlers and two revisions, one crash.              *)
EXTENDS DeploymentWorker, TLC

CONSTANTS h1, h2
=============================================================================
