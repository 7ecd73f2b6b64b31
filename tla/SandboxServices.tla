--------------------------- MODULE SandboxServices ---------------------------
(***************************************************************************)
(* Which Sandbox service a runner request uses: the settings of            *)
(* installations and accounts, the administrator's default, and the        *)
(* sponsorship of forks by the organization that owns their source.  A     *)
(* start resolves the service, then saves a snapshot of it in the request  *)
(* row, for a sponsored one under the sponsorship's lock; cleanup uses the *)
(* snapshot.                                                               *)
(*                                                                         *)
(* One fork, its source repository and one personal account.  A service is *)
(* identified by whose settings name it; URL and key are one thing, there  *)
(* or not.  A request's life is that of RunnerLifecycle, cut down to what  *)
(* touches the snapshot.                                                   *)
(***************************************************************************)
EXTENDS Integers, FiniteSets

CONSTANTS
    Requests,
    Sponsors,   \* installations of organizations
    Limits,     \* max_concurrency that a client asks for
    MaxStarts,  \* bound: starts of one request
    MaxRetries, \* bound: retries, and stops of requests with no runner
    MaxChanges  \* bound: changes of settings and policies

Modes == {"approval_required", "write_permission", "organization_member"}
Kinds == {"public", "private", "scoped_custom", "no_installation"}

ASSUME ServiceConstants ==
    /\ IsFiniteSet(Requests)
    /\ {"none", "fork", "account", "default"} \cap Sponsors = {}
    /\ Limits \subseteq Nat
    /\ MaxStarts \in Nat /\ MaxRetries \in Nat /\ MaxChanges \in Nat

VARIABLES
    pref,      \* account_preferences, key sandbox_service
    secret,    \* account_secrets: the scopes with an API key
    linked,    \* github_installations of the account
    default,   \* sandbox_service_defaults
    audience,  \* its audiences
    saving,    \* a save of the default, between its read and its write
    policy,    \* fork_sponsorship_policies: source_repository_id is unique
    approval,  \* fork_sponsorship_approvals: the sponsor that approved the fork
    approving, \* approvals between the look at the policy and the write
    stripe,    \* forkSponsorshipLocks: the start that holds it
    request,   \* runner_requests
    start,     \* where each start is
    changes, retries

settings == <<pref, secret, linked, default, audience, saving>>
sponsorship == <<policy, approval, approving>>
serviceVars == <<settings, sponsorship, stripe, request, start, changes, retries>>

Installations == {"fork"} \cup Sponsors
Scopes == {"account"} \cup Installations
Owners == Scopes \cup {"default"}
Starts == Requests \X (1..MaxStarts)

-----------------------------------------------------------------------------
\* validateForkSponsorshipPolicy.
ValidLimits == {l \in Limits : l > 0}

NoPolicy == [sponsor |-> "none", mode |-> "approval_required", enabled |-> FALSE, limit |-> 0]

\* sandboxServiceConfigSnapshot.  "fork": the identity of the fork is in it.
NoSnapshot == [owner |-> "none", source |-> "none", sponsor |-> "none", reason |-> "none",
               fork |-> FALSE]

Plain(owner, source) == [NoSnapshot EXCEPT !.owner = owner, !.source = source]

Snapshot == [owner : Owners \cup {"none"},
             source : {"none", "installation", "account", "inherited_account", "admin_default",
                       "organization_sponsorship"},
             sponsor : Sponsors \cup {"none"}, reason : Modes \cup {"none"}, fork : BOOLEAN]

\* sandboxServiceForScope, the account's own settings first.
AccountService ==
    IF pref["account"] = "custom" /\ "account" \in secret
    THEN Plain("account", "account") ELSE NoSnapshot

\* githubInstallationLinkedToAccount.
LinkedToAccount(s) == s \in linked

ScopeService(s) ==
    CASE pref[s] = "custom" /\ s \in secret -> Plain(s, "installation")
      [] pref[s] = "inherit" /\ LinkedToAccount(s) /\ AccountService # NoSnapshot ->
            Plain("account", "inherited_account")
      [] OTHER -> NoSnapshot

\* The account of a personal installation.
PersonalService(s) == IF LinkedToAccount(s) THEN AccountService ELSE NoSnapshot

\* SandboxServiceDefaultAudienceContains, asked only in mode "selected".
InAudience(owner) == default.selected => owner \in audience

\* sandboxServiceForAdminDefault, for the owner of a repository if it is known.
DefaultService(owner) ==
    IF default.enabled /\ default.key /\ InAudience(owner)
    THEN Plain("default", "admin_default") ELSE NoSnapshot

\* sandboxServiceForForkSponsorship: what GitHub says of the fork and its owner
\* is not known here (authorizeForkSponsorship).
Sponsored ==
    LET s == policy.sponsor
        service == IF ScopeService(s) # NoSnapshot THEN ScopeService(s) ELSE DefaultService(s)
    IN [service EXCEPT !.source = "organization_sponsorship", !.sponsor = s,
                       !.reason = policy.mode, !.fork = TRUE]

MaySponsor ==
    /\ policy.enabled
    /\ policy.mode = "approval_required" => approval = policy.sponsor

\* sandboxServiceAndConfigForRunnerRequestContext: the results it may have for a
\* request that carries snapshot snap; NoSnapshot stands for an error.
Resolutions(kind, snap) ==
    LET own == ScopeService("fork")
        personal == PersonalService("fork")
        last == {DefaultService("fork")}
    IN CASE snap # NoSnapshot -> {[snap EXCEPT !.fork = FALSE]}
         [] snap = NoSnapshot /\ kind = "no_installation" -> {DefaultService("none")}
         [] snap = NoSnapshot /\ kind # "no_installation" /\ own # NoSnapshot -> {own}
         [] snap = NoSnapshot /\ kind # "no_installation" /\ own = NoSnapshot
                /\ personal # NoSnapshot -> {personal}
         [] OTHER -> IF kind = "scoped_custom" THEN {NoSnapshot}
                     ELSE IF kind = "public" /\ MaySponsor
                     THEN last \cup {IF Sponsored.owner # "none" THEN Sponsored ELSE NoSnapshot}
                     ELSE last

-----------------------------------------------------------------------------
InFlightStatus == {"creating", "running", "stopping"}

\* InFlightCountForForkSponsorship.
SponsoredBy(s) ==
    {r \in Requests : request[r].status \in InFlightStatus /\ request[r].snap.sponsor = s}

NewRequest(kind) == [status |-> "queued", kind |-> kind, snap |-> NoSnapshot, attempt |-> 0,
                     sandbox |-> "none", stray |-> FALSE]

Request == [status : InFlightStatus \cup {"queued", "completed", "failed"}, kind : Kinds,
            snap : Snapshot, attempt : 0..MaxStarts,
            sandbox : Owners \cup {"none"}, stray : BOOLEAN]

NoStart == [at |-> "idle", snap |-> NoSnapshot, seen |-> NewRequest("public")]

Start == [at : {"idle", "begun", "resolved", "reserved", "deferred", "failing", "granted", "done"},
          snap : Snapshot, seen : Request]

Policy == [sponsor : Sponsors, mode : Modes, enabled : BOOLEAN, limit : Nat \ {0}]

SettingsOK ==
    /\ pref \in [Scopes -> {"none", "custom", "inherit"}] /\ pref["account"] # "inherit"
    /\ secret \subseteq Scopes /\ linked \subseteq Installations
    /\ default \in [enabled : BOOLEAN, selected : BOOLEAN, key : BOOLEAN]
    /\ audience \subseteq Installations
    /\ saving \in {"no", "keep"}

SponsorshipOK ==
    /\ policy \in Policy \cup {NoPolicy}
    /\ approval \in Sponsors \cup {"none"} /\ approving \subseteq Sponsors

ServicesTypeOK ==
    /\ SettingsOK /\ SponsorshipOK
    /\ stripe \in [Sponsors -> Starts \cup {<<>>}]
    /\ request \in [Requests -> Request] /\ start \in [Starts -> Start]
    /\ changes \in 0..MaxChanges /\ retries \in 0..MaxRetries

\* Settings and policies as they may have been saved.
SettingsInit ==
    /\ pref \in [Scopes -> {"none", "custom"}] /\ secret = {s \in Scopes : pref[s] = "custom"}
    /\ linked \in SUBSET Installations
    /\ default \in [enabled : BOOLEAN, selected : BOOLEAN, key : {TRUE}]
    /\ audience \in SUBSET Installations
    /\ saving = "no"

PoliciesOf(s) == [sponsor : {s}, mode : Modes, enabled : BOOLEAN, limit : ValidLimits]

SponsorshipInit ==
    /\ policy = NoPolicy \/ \E s \in Sponsors : policy \in PoliciesOf(s)
    /\ approval \in {"none", policy.sponsor} /\ approving = {}

\* Requests queued or long done; part of the bounds may be used up.
OldRequests == [status : {"queued", "completed"}, kind : Kinds, snap : {NoSnapshot},
                attempt : 0..MaxStarts, sandbox : {"none"}, stray : {FALSE}]

ServicesInit ==
    /\ SettingsInit /\ SponsorshipInit
    /\ stripe = [s \in Sponsors |-> <<>>]
    /\ request \in [Requests -> OldRequests] /\ start = [x \in Starts |-> NoStart]
    /\ changes \in 0..MaxChanges /\ retries \in 0..MaxRetries

-----------------------------------------------------------------------------
(* Settings.  Each save commits with its audit event.                       *)

Change == changes < MaxChanges /\ changes' = changes + 1

\* UpsertAccountPreferenceAndSecret.
PutWithKey(s) == pref' = [pref EXCEPT ![s] = "custom"] /\ secret' = secret \cup {s}

\* UpsertAccountPreferenceAndDeleteSecret: the installation's own key goes with
\* the change.
PutWithoutKey(s) == pref' = [pref EXCEPT ![s] = "inherit"] /\ secret' = secret \ {s}

\* handleUserSaveSandboxConfig, custom: a key is given, or there is one already.
SaveCustom(s) ==
    /\ Change /\ PutWithKey(s)
    /\ UNCHANGED <<linked, default, audience, saving, sponsorship, stripe, request, start, retries>>

\* inherit, from the account that saves it or the one already inherited from.
SaveInherit(s) ==
    /\ Change
    /\ pref[s] = "inherit" \/ (LinkedToAccount(s) /\ AccountService # NoSnapshot)
    /\ PutWithoutKey(s)
    /\ UNCHANGED <<linked, default, audience, saving, sponsorship, stripe, request, start, retries>>

DeleteKey(s) ==
    /\ Change /\ secret' = secret \ {s}
    /\ UNCHANGED <<pref, linked, default, audience, saving, sponsorship, stripe, request, start,
                   retries>>

\* UpsertGitHubInstallation or DeleteGitHubInstallation.
Relinked(s) == {linked \cup {s}, linked \ {s}}

\* handleUserSaveGitHubInstallation and handleUserDeleteGitHubInstallation.
Link(s) ==
    /\ Change /\ linked' \in Relinked(s)
    /\ UNCHANGED <<pref, secret, default, audience, saving, sponsorship, stripe, request, start,
                   retries>>

\* Upsert- or DeleteSandboxServiceDefaultAudience.
Audiences(s) == {audience \cup {s}, audience \ {s}}

SetAudience(s) ==
    /\ Change /\ audience' \in Audiences(s)
    /\ UNCHANGED <<pref, secret, linked, default, saving, sponsorship, stripe, request, start,
                   retries>>

\* UpsertSandboxServiceDefault keeps the key when it is given none.
PutDefault(on, selected, given) ==
    default' = [enabled |-> on, selected |-> selected, key |-> given \/ default.key]

\* handleAdminSaveSandboxServiceDefault with a key, or disabling it.
SaveDefault ==
    /\ Change
    /\ \E on, selected, given \in BOOLEAN : (on => given) /\ PutDefault(on, selected, given)
    /\ UNCHANGED <<pref, secret, linked, audience, saving, sponsorship, stripe, request, start,
                   retries>>

\* Enabling it with the key it has: the handler saw one ...
BeginKeepKey ==
    /\ Change /\ saving = "no" /\ default.key
    /\ saving' = "keep"
    /\ UNCHANGED <<pref, secret, linked, default, audience, sponsorship, stripe, request, start,
                   retries>>

KeyKept == default.key

\* ... and the update passes only while there is one
\* (UpdateSandboxServiceDefaultPreservingAPIKey).
SaveKeepKey ==
    /\ saving = "keep" /\ saving' = "no"
    /\ IF KeyKept
       THEN \E selected \in BOOLEAN :
              default' = [default EXCEPT !.enabled = TRUE, !.selected = selected]
       ELSE default' = default
    /\ UNCHANGED <<pref, secret, linked, audience, sponsorship, stripe, request, start, changes,
                   retries>>

WithoutKey == [default EXCEPT !.key = FALSE]

DeleteDefaultKey ==
    /\ Change /\ default' = WithoutKey
    /\ UNCHANGED <<pref, secret, linked, audience, saving, sponsorship, stripe, request, start,
                   retries>>

-----------------------------------------------------------------------------
(* Sponsorship policies, written under lockForkSponsorship.                 *)

Unheld(s) == stripe[s] = <<>>

\* The unique index on the source lets one sponsor in.
InsertPolicy(s) == policy = NoPolicy /\ policy' \in PoliciesOf(s)

\* A row of another sponsor, or none, is a conflict.
ReplacePolicy(s) == policy.sponsor = s /\ policy' \in PoliciesOf(s)

\* One transaction with the policy's approvals.
RemovePolicy(s) ==
    /\ policy.sponsor = s
    /\ policy' = NoPolicy /\ approval' = IF approval = s THEN "none" ELSE approval

CreatePolicy(s) ==
    /\ Change /\ Unheld(s) /\ InsertPolicy(s)
    /\ UNCHANGED <<settings, approval, approving, stripe, request, start, retries>>

UpdatePolicy(s) ==
    /\ Change /\ Unheld(s) /\ ReplacePolicy(s)
    /\ UNCHANGED <<settings, approval, approving, stripe, request, start, retries>>

DeletePolicy(s) ==
    /\ Change /\ Unheld(s) /\ RemovePolicy(s)
    /\ UNCHANGED <<settings, approving, stripe, request, start, retries>>

\* handleUserAddForkSponsorshipApproval looks for the policy, asks GitHub about
\* the fork, then writes if the policy is still there.
BeginApproval(s) ==
    /\ Change /\ policy.sponsor = s
    /\ approving' = approving \cup {s}
    /\ UNCHANGED <<settings, policy, approval, stripe, request, start, retries>>

\* As PolicyLocked, but the look at it before is enough.
PolicyAssumed(s) == TRUE

\* lockForkSponsorshipPolicy.
PolicyLocked(s) == policy.sponsor = s

SaveApproval(s) ==
    /\ s \in approving /\ Unheld(s) /\ approving' = approving \ {s}
    /\ approval' = IF PolicyLocked(s) THEN s ELSE approval
    /\ UNCHANGED <<settings, policy, stripe, request, start, changes, retries>>

DeleteApproval(s) ==
    /\ Change /\ Unheld(s) /\ approval = s
    /\ approval' = "none"
    /\ UNCHANGED <<settings, policy, approving, stripe, request, start, retries>>

-----------------------------------------------------------------------------
(* Starts.  stray is a history variable: a start wrote to the row although  *)
(* the row was no longer in the start's own creating attempt.  Nothing in   *)
(* persistSandboxServiceSnapshot or in the adoption of a Linux sandbox      *)
(* excludes it.                                                             *)

Own(r, a) == request[r].status = "creating" /\ request[r].attempt = a

At(r, a, at) == start[<<r, a>>].at = at

\* A start that has returned remembers nothing.
Finish(r, a) == start' = [start EXCEPT ![<<r, a>>] = [NoStart EXCEPT !.at = "done"]]
Go(r, a, at) == start' = [start EXCEPT ![<<r, a>>].at = at]

\* The claim and the creating write; the request as read carries its snapshot.
BeginStart(r) ==
    LET a == request[r].attempt + 1
    IN /\ request[r].status = "queued" /\ a <= MaxStarts
       /\ request' = [request EXCEPT ![r].status = "creating", ![r].attempt = a,
                                     ![r].stray = request[r].snap # NoSnapshot]
       /\ start' = [start EXCEPT ![<<r, a>>] = [at |-> "begun", snap |-> request[r].snap,
                                                seen |-> NewRequest("public")]]
       /\ UNCHANGED <<settings, sponsorship, stripe, changes, retries>>

Resolve(r, a) ==
    /\ At(r, a, "begun")
    /\ \E snap \in Resolutions(request[r].kind, start[<<r, a>>].snap) :
         start' = [start EXCEPT ![<<r, a>>].snap = snap,
                                ![<<r, a>>].at = IF snap = NoSnapshot THEN "failing" ELSE "resolved"]
    /\ UNCHANGED <<settings, sponsorship, stripe, request, changes, retries>>

\* Under the sponsorship's lock: the policy as it is now, the exact approval,
\* and the room left.  A snapshot taken from the row has lost the fork's identity.
StillSponsored(snap) ==
    /\ policy.sponsor = snap.sponsor /\ policy.enabled /\ policy.mode = snap.reason
    /\ policy.mode = "approval_required" => approval = snap.sponsor /\ snap.fork

RoomFor(s) == Cardinality(SponsoredBy(s)) < policy.limit

\* As CanReserve, but without lockForkSponsorship.
CanReserveAtOnce(s) == TRUE

CanReserve(s) == Unheld(s)

\* persistSandboxServiceSnapshot up to ReadState.
Reserve(r, a) ==
    LET w == <<r, a>>
        snap == start[w].snap
        s == snap.sponsor
    IN /\ At(r, a, "resolved")
       /\ \/ /\ s = "none"
             /\ start' = [start EXCEPT ![w].at = "reserved", ![w].seen = request[r]]
             /\ UNCHANGED stripe
          \/ /\ s # "none" /\ CanReserve(s)
             /\ IF StillSponsored(snap) /\ RoomFor(s)
                THEN /\ start' = [start EXCEPT ![w].at = "reserved", ![w].seen = request[r]]
                     /\ stripe' = [stripe EXCEPT ![s] = w]
                ELSE Go(r, a, "deferred") /\ UNCHANGED stripe
       /\ UNCHANGED <<settings, sponsorship, request, changes, retries>>

Released(w) == stripe' = [s \in Sponsors |-> IF stripe[s] = w THEN <<>> ELSE stripe[s]]

\* WriteState, conditional on the version that was read; then the lock goes.
Persist(r, a) ==
    LET w == <<r, a>>
    IN /\ At(r, a, "reserved")
       /\ IF request[r] = start[w].seen
          THEN /\ request' = [request EXCEPT ![r].snap = [start[w].snap EXCEPT !.fork = FALSE],
                                             ![r].stray = @ \/ ~Own(r, a)]
               /\ start' = [start EXCEPT ![w].at = "granted", ![w].seen = NewRequest("public")]
          ELSE request' = request /\ Go(r, a, "failing")
       /\ Released(w)
       /\ UNCHANGED <<settings, sponsorship, changes, retries>>

\* clearSandboxServiceSnapshot when a request is queued again.  (Not so the
\* stop of a Windows request whose registration is still to be cleaned up: it
\* queues the request with its snapshot; the Windows start is not modelled.)
Requeue(r) == [request[r] EXCEPT !.status = "queued", !.snap = NoSnapshot,
                                 !.sandbox = "none"]

\* deferCreatingRequest: the sponsor is full, or changed its mind.  Every start
\* of a process has the same lease owner, so the lease tells none apart.
Defer(r, a) ==
    /\ At(r, a, "deferred") /\ Finish(r, a)
    /\ request' = IF request[r].status = "creating"
                  THEN [request EXCEPT ![r] = Requeue(r)] ELSE request
    /\ UNCHANGED <<settings, sponsorship, stripe, changes, retries>>

\* failStart, at any stage and on whatever row it finds.
FailService(r, a) ==
    /\ start[<<r, a>>].at \in {"begun", "resolved", "failing", "granted"} /\ Finish(r, a)
    /\ \/ request[r].status \in {"completed", "stopping"} /\ request' = request
       \/ /\ request[r].status \notin {"completed", "stopping"}
          /\ request' \in {[request EXCEPT ![r] = Requeue(r)],
                           [request EXCEPT ![r].status = "failed",
                                           ![r].sandbox = "none"]}
    /\ UNCHANGED <<settings, sponsorship, stripe, changes, retries>>

\* The sandbox is up.  The row takes it if it is creating; otherwise the start
\* stops it again.
Adopt(r, a) ==
    /\ At(r, a, "granted") /\ Finish(r, a)
    /\ request' = IF request[r].status = "creating"
                  THEN [request EXCEPT ![r].status = "running",
                                       ![r].sandbox = start[<<r, a>>].snap.owner,
                                       ![r].stray = @ \/ ~Own(r, a)]
                  ELSE request
    /\ UNCHANGED <<settings, sponsorship, stripe, changes, retries>>

\* As Stopping, but the snapshot goes.
StoppingForgets(r) ==
    [request[r] EXCEPT !.status = "stopping", !.snap = NoSnapshot]

Stopping(r) == [request[r] EXCEPT !.status = "stopping"]

Again == retries < MaxRetries /\ retries' = retries + 1

\* stopRunner up to the stopping write, which keeps the snapshot.
StopServed(r) ==
    /\ \/ request[r].status \in {"creating", "running"} /\ UNCHANGED retries
       \/ request[r].status \in {"queued", "failed"} /\ Again
    /\ request' = [request EXCEPT ![r] = Stopping(r)]
    /\ UNCHANGED <<settings, sponsorship, stripe, start, changes>>

\* stopRunner to its end: the sandbox has gone, or does not stop, or the runner
\* did another job and the request is queued again.
EndRequest(r) ==
    /\ request[r].status = "stopping"
    /\ \/ \E end \in {"completed", "failed"} :
            request' = [request EXCEPT ![r].status = end, ![r].sandbox = "none"]
       \/ request' = [request EXCEPT ![r].status = "failed"]
       \/ request' = [request EXCEPT ![r] = Requeue(r)]
    /\ UNCHANGED <<settings, sponsorship, stripe, start, changes, retries>>

\* RetryRequest of a failed request, or the reconciler's requeue of a completed
\* one whose runner did another job.
RetryEnded(r) ==
    /\ request[r].status \in {"failed", "completed"} /\ Again
    /\ request' = [request EXCEPT ![r] = Requeue(r)]
    /\ UNCHANGED <<settings, sponsorship, stripe, start, changes>>

-----------------------------------------------------------------------------
ServicesNext ==
    \/ \E s \in Scopes : SaveCustom(s) \/ DeleteKey(s)
    \/ \E s \in Installations : SaveInherit(s) \/ Link(s) \/ SetAudience(s)
    \/ SaveDefault \/ BeginKeepKey \/ SaveKeepKey \/ DeleteDefaultKey
    \/ \E s \in Sponsors : \/ CreatePolicy(s) \/ UpdatePolicy(s) \/ DeletePolicy(s)
                           \/ BeginApproval(s) \/ SaveApproval(s) \/ DeleteApproval(s)
    \/ \E r \in Requests : \/ BeginStart(r) \/ StopServed(r) \/ EndRequest(r) \/ RetryEnded(r)
                           \/ \E a \in 1..MaxStarts :
                                \/ Resolve(r, a) \/ Reserve(r, a) \/ Persist(r, a) \/ Defer(r, a)
                                \/ FailService(r, a) \/ Adopt(r, a)

ServicesSpec == ServicesInit /\ [][ServicesNext]_serviceVars

-----------------------------------------------------------------------------
\* stopSandboxWithTimeout resolves the service like a start does, with whatever
\* snapshot the row has.
CleanupServices(r) == Resolutions(request[r].kind, request[r].snap)

\* The runners made or run at a sponsor's expense, but for those a stale start
\* wrote to.
RunBy(s) == {r \in SponsoredBy(s) : request[r].status # "stopping" /\ ~request[r].stray}

GrantInOrder(r) ==
    LET s == request[r].snap.sponsor
    IN /\ policy.sponsor = s /\ policy.enabled /\ policy.mode = request[r].snap.reason
       /\ policy.mode = "approval_required" => approval = s
       /\ ~request[r].stray => Cardinality(RunBy(s)) <= policy.limit

(* A request gets a sponsor only while the sponsor's policy is enabled, in  *)
(* the mode it was authorized under and with the exact approval it needs,   *)
(* and never as one too many for the policy's limit: neither a revocation   *)
(* nor another start slips in between persistSandboxServiceSnapshot's check *)
(* and its write.  (A failed request that is stopped once more is in flight *)
(* again, unasked; so stopping ones are not counted.)                       *)
SponsorGrants ==
    [][\A r \in Requests :
          request[r].snap.sponsor = "none" /\ request'[r].snap.sponsor # "none" => GrantInOrder(r)'
      ]_serviceVars

(* Cleanup reaches the service that runs the sandbox: whatever has become   *)
(* of the settings, the default or the sponsorship since, resolving the     *)
(* service of a request with a sandbox gives the one it was created with    *)
(* (sandboxServiceForRunnerRequest in stopSandboxWithTimeout).              *)
CleanupFindsItsService ==
    \A r \in Requests : request[r].sandbox # "none" /\ ~request[r].stray =>
        \A service \in CleanupServices(r) : service.owner = request[r].sandbox

(* An approval belongs to the policy in force: deleting a policy takes its  *)
(* approvals along, and none is written for a policy that has gone in the   *)
(* meantime (UpsertForkSponsorshipApproval locks the policy's row).         *)
ApprovalHasItsPolicy == approval # "none" => policy.sponsor = approval
=============================================================================
