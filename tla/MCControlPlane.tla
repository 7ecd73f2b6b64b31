---------------------------- MODULE MCControlPlane ----------------------------
(***************************************************************************)
(* Runner admission, Sandbox services and deployment admission, checked in *)
(* one run.  They share no state, so a behaviour of one says nothing of    *)
(* another: `part' picks the one that moves, and their states add up       *)
(* instead of multiplying.  Each part starts from a few scenarios, in      *)
(* which different shares of the bounds are used up already.               *)
(***************************************************************************)
EXTENDS RunnerAdmission, SandboxServices, DeploymentAdmission, TLC

VARIABLE part

-----------------------------------------------------------------------------
MCWanted == [j \in Jobs |-> {"x"}]

MCSpec(labels) ==
    [labels |-> labels, required |-> {"x"}, template |-> 1, group |-> 0, enabled |-> TRUE,
     priority |-> 0, rev |-> 1]

MCCatalogue ==
    [k \in Key |-> CASE k = <<"scoped_custom", 1>> -> MCSpec({"x"})
                     [] k = <<"global", 2>> -> MCSpec({"x", "windows"})
                     [] k = <<"global", 3>> -> MCSpec({"x"})
                     [] OTHER -> NoSpec]

MCEditedKeys == {<<"scoped_custom", 1>>, <<"global", 2>>}

\* How many handlers admit and edit here.
AdmissionActors(hs, es) ==
    /\ handler = [h \in Handlers |-> IF h \in hs THEN NoAdmission ELSE Elsewhere]
    /\ edit = [e \in Editors |-> IF e \in es THEN NoEdit ELSE EditElsewhere]

\* What is left of edits, starts and retries.
AdmissionBudget(e, c, v) ==
    /\ edits = MaxEdits - e
    /\ claims = [j \in Jobs |-> MaxClaims - c]
    /\ revivals = [j \in Jobs |-> MaxRevivals - v]

AdmissionScenarios ==
    /\ spec = Catalogue
    /\ \/ /\ \E inScope \in BOOLEAN : row = [j \in Jobs |-> AdmittedRow(j, inScope)]
          /\ AdmissionBudget(1, 2, 0) \/ AdmissionBudget(1, 1, 1)
          /\ AdmissionActors({}, {1})
       \/ \E old \in BOOLEAN :
          /\ row = [j \in Jobs |-> IF old THEN HistoricalRow(j) ELSE NoRow]
          /\ \/ AdmissionBudget(1, 1, IF old THEN 1 ELSE 0) /\ AdmissionActors(IF old THEN {} ELSE {1}, {1})
             \/ AdmissionBudget(0, 1, 1) /\ AdmissionActors({1, 2}, {})
             \/ AdmissionBudget(0, 2, 1) /\ AdmissionActors({1}, {})
       \/ /\ row = [j \in Jobs |-> NoRow]
          /\ AdmissionBudget(2, 0, 0) /\ AdmissionActors({}, {1, 2})

-----------------------------------------------------------------------------
Waiting(kind, starts) == [NewRequest(kind) EXCEPT !.attempt = MaxStarts - starts]
Over == [NewRequest("public") EXCEPT !.status = "completed", !.attempt = MaxStarts]

\* What is left of changes and retries.
ServiceBudget(c, v) == changes = MaxChanges - c /\ retries = MaxRetries - v

Both(a, b) == request = [r \in Requests |-> IF r = "r1" THEN a ELSE b]

MCPolicy(mode) == [sponsor |-> "org", mode |-> mode, enabled |-> TRUE, limit |-> 1]

\* The fork has no service of its own, the sponsor has, the default is off.
ServiceScenarios ==
    /\ pref = [s \in Scopes |-> IF s = "org" THEN "custom" ELSE "none"]
    /\ linked = {"fork"}
    /\ default = [enabled |-> FALSE, selected |-> FALSE, key |-> TRUE]
    /\ audience = {"fork"}
    /\ approval = "org"
    /\ \/ /\ policy = MCPolicy("approval_required")
          /\ \/ Both(Waiting("public", 1), Waiting("public", 1)) /\ ServiceBudget(1, 0)
             \/ Both(Over, Over) /\ ServiceBudget(3, 0)
             \/ Both(Waiting("public", 1), Over) /\ ServiceBudget(2, 0)
       \/ /\ policy = MCPolicy("write_permission")
          /\ \/ \E k \in Kinds : Both(Waiting(k, 2), Over) /\ ServiceBudget(1, 0)
             \/ Both(Waiting("public", 2), Over) /\ ServiceBudget(0, 1)
             \/ Both(Waiting("public", 2), Waiting("public", 1)) /\ ServiceBudget(0, 0)

-----------------------------------------------------------------------------
MCScopeOf == [b \in Bodies |-> IF b = "elsewhere" THEN "other" ELSE "scope"]

Old(n, box) == [Absent EXCEPT !.status = "failed", !.sandbox = box, !.rev = n,
                              !.scope = "scope", !.plan = "p"]
Table(d) == [i \in Ids |-> IF i = "key" THEN d ELSE Absent]

DeploymentScenarios ==
    \/ /\ StartOn(Table(Absent), << >>)
       /\ outputs = 0
       /\ call = [c \in Calls |-> NoCall]
    \/ /\ StartOn(Table(Old(0, FALSE)), << >>)
       /\ outputs = 0
       /\ call = [c \in Calls |-> NoCall]
    \/ /\ StartOn(Table(Old(1, TRUE)), <<1, 2, 1>>)
       /\ outputs = 2
       /\ \E c \in Calls : call = [x \in Calls |-> IF x = c THEN NoCall ELSE Passed]

-----------------------------------------------------------------------------
ControlPlaneInit ==
    /\ part \in {"admission", "services", "deployments"}
    /\ IF part = "admission" THEN AdmissionScenarios
       ELSE /\ row = [j \in Jobs |-> NoRow]
            /\ AdmissionBudget(0, 0, 0) /\ AdmissionActors({}, {})
    /\ IF part = "services" THEN ServiceScenarios
       ELSE /\ Both(Over, Over) /\ ServiceBudget(0, 0)
            /\ pref = [s \in Scopes |-> "none"] /\ linked = {} /\ audience = {}
            /\ default = [enabled |-> FALSE, selected |-> FALSE, key |-> TRUE]
            /\ policy = NoPolicy /\ approval = "none"
    /\ IF part = "deployments" THEN DeploymentScenarios
       ELSE StartOn(Table(Absent), << >>) /\ outputs = 0 /\ call = [c \in Calls |-> NoCall]
    /\ AdmissionInit
    /\ ServicesInit
    /\ DeploymentsInit

ControlPlaneNext ==
    \/ part = "admission" /\ AdmissionNext /\ UNCHANGED <<serviceVars, deploymentVars, part>>
    \/ part = "services" /\ ServicesNext /\ UNCHANGED <<admissionVars, deploymentVars, part>>
    \/ part = "deployments" /\ DeploymentsNext /\ UNCHANGED <<admissionVars, serviceVars, part>>

ControlPlaneSpec ==
    ControlPlaneInit /\ [][ControlPlaneNext]_<<admissionVars, serviceVars, deploymentVars, part>>
===============================================================================
