------------------------ MODULE SandboxServicesProofs ------------------------
(***************************************************************************)
(* Proofs about SandboxServices, for any number of requests, starts and    *)
(* sponsors, any limits and any number of changes and retries.             *)
(*                                                                         *)
(* The argument.  A start that has reserved a sponsor's slot holds the     *)
(* sponsor's stripe until it has written.  Policies and approvals are      *)
(* written with the stripe free, so what the start checked is still so     *)
(* when it writes; and no other start of that sponsor writes meanwhile, so *)
(* the sponsor's runners do not become more (Reserved).  A start that was  *)
(* granted its service has left the same service in its row, unless the    *)
(* row was no longer in the start's own attempt (Sandboxes).               *)
(***************************************************************************)
EXTENDS SandboxServices, Sequences, FiniteSetTheorems, TLAPS

Reserved ==
    \A r \in Requests, a \in 1..MaxStarts :
        LET snap == start[<<r, a>>].snap
        IN At(r, a, "reserved") /\ snap.sponsor # "none" =>
             /\ stripe[snap.sponsor] = <<r, a>>
             /\ StillSponsored(snap)
             /\ Cardinality(RunBy(snap.sponsor)) < policy.limit

Sandboxes ==
    \A r \in Requests :
        /\ request[r].status \in {"queued", "creating"} => request[r].sandbox = "none"
        /\ request[r].sandbox # "none" /\ ~request[r].stray =>
             request[r].snap.owner = request[r].sandbox
        /\ \A a \in 1..MaxStarts :
             At(r, a, "granted") /\ Own(r, a) /\ ~request[r].stray =>
               request[r].snap.owner = start[<<r, a>>].snap.owner

IInv == ServicesTypeOK /\ ApprovalHasItsPolicy /\ Reserved /\ Sandboxes

-----------------------------------------------------------------------------
(* Types                                                                   *)

\* Whatever the settings are, a resolution is a snapshot or an error.
LEMMA ResolutionTypes ==
  ASSUME ServicesTypeOK, NEW kind \in Kinds, NEW snap \in Snapshot
  PROVE  Resolutions(kind, snap) \subseteq Snapshot
<1>1. NoSnapshot \in Snapshot
  BY DEF NoSnapshot, Snapshot
<1>2. /\ Plain("account", "account") \in Snapshot
      /\ Plain("account", "inherited_account") \in Snapshot
      /\ Plain("default", "admin_default") \in Snapshot
      /\ \A s \in Scopes : Plain(s, "installation") \in Snapshot
  BY ZenonT(30) DEF Plain, NoSnapshot, Snapshot, Owners, Scopes
<1>3. /\ \A s \in Scopes : ScopeService(s) \in Snapshot
      /\ AccountService \in Snapshot /\ PersonalService("fork") \in Snapshot
  BY <1>1, <1>2 DEF ScopeService, AccountService, PersonalService
<1>4. \A owner : DefaultService(owner) \in Snapshot
  BY <1>1, <1>2 DEF DefaultService
<1>5. MaySponsor => Sponsored \in Snapshot
  <2>. SUFFICES ASSUME MaySponsor PROVE Sponsored \in Snapshot
    OBVIOUS
  <2>1. policy.sponsor \in Sponsors /\ policy.mode \in Modes
    BY DEF ServicesTypeOK, SponsorshipOK, MaySponsor, NoPolicy, Policy
  <2>2. \A c \in Snapshot : [c EXCEPT !.source = "organization_sponsorship",
                                      !.sponsor = policy.sponsor, !.reason = policy.mode,
                                      !.fork = TRUE] \in Snapshot
    BY Zenon, <2>1 DEF Snapshot
  <2>3. ScopeService(policy.sponsor) \in Snapshot /\ DefaultService(policy.sponsor) \in Snapshot
    BY Zenon, <1>3, <1>4, <2>1 DEF Scopes, Installations
  <2>. QED
    BY Zenon, <2>2, <2>3 DEF Sponsored
<1>6. [snap EXCEPT !.fork = FALSE] \in Snapshot
  BY Zenon DEF Snapshot
<1>7. ScopeService("fork") \in Snapshot
  BY <1>3 DEF Scopes, Installations
<1>. QED
  BY Zenon, <1>1, <1>3, <1>4, <1>5, <1>6, <1>7 DEF Resolutions

\* validateForkSponsorshipPolicy lets only positive limits in.
LEMMA LimitsPositive == ValidLimits \subseteq Nat \ {0}
<1>1. Limits \subseteq Nat
  BY Zenon, ServiceConstants
<1>2. \A l \in Nat : l > 0 => l \in Nat \ {0}
  OBVIOUS
<1>. QED
  BY Zenon, <1>1, <1>2 DEF ValidLimits

\* The blank snapshot, request and start.
LEMMA BlankTypes == NoSnapshot \in Snapshot /\ NewRequest("public") \in Request /\ NoStart \in Start
<1>1. NoSnapshot \in Snapshot
  BY DEF NoSnapshot, Snapshot
<1>2. NewRequest("public") \in Request
  BY <1>1, ServiceConstants DEF NewRequest, Request, Kinds
<1>. QED
  BY <1>1, <1>2 DEF NoStart, Start

\* Before the first step nothing is reserved, granted or running.
LEMMA InitIInv == ServicesInit => IInv
<1>. SUFFICES ASSUME ServicesInit PROVE IInv
  OBVIOUS
<1>2. SettingsInit => SettingsOK
  BY Zenon DEF SettingsInit, SettingsOK, Scopes
<1>3. SponsorshipInit => SponsorshipOK /\ ApprovalHasItsPolicy
  <2>1. \A s \in Sponsors : PoliciesOf(s) \subseteq Policy
    BY Zenon, LimitsPositive DEF PoliciesOf, Policy
  <2>2. \A p \in Policy : p.sponsor \in Sponsors
    BY DEF Policy
  <2>3. NoPolicy.sponsor = "none"
    BY DEF NoPolicy
  <2>. QED
    BY <2>1, <2>2, <2>3 DEF SponsorshipInit, SponsorshipOK, ApprovalHasItsPolicy
<1>4. \A q \in OldRequests : q \in Request /\ q.sandbox = "none"
  BY Zenon, BlankTypes DEF OldRequests, Request
<1>5. NoStart \in Start /\ NoStart.at = "idle"
  BY BlankTypes DEF NoStart
<1>6. /\ request \in [Requests -> Request] /\ \A r \in Requests : request[r].sandbox = "none"
      /\ start \in [Starts -> Start] /\ \A x \in Starts : start[x].at = "idle"
  BY <1>4, <1>5 DEF ServicesInit
<1>7. ServicesTypeOK /\ ApprovalHasItsPolicy
  BY <1>2, <1>3, <1>6 DEF ServicesInit, ServicesTypeOK
<1>8. Reserved /\ Sandboxes
  BY <1>6 DEF Reserved, Sandboxes, At, Starts
<1>. QED
  BY <1>7, <1>8 DEF IInv

\* The sponsorships, the rows and the starts decide all but the types.
LEMMA SettingsFrame ==
  ASSUME IInv, ServicesTypeOK', UNCHANGED <<policy, approval, stripe, request, start>>
  PROVE  IInv'
  BY ZenonT(30) DEF IInv, ApprovalHasItsPolicy, Reserved, Sandboxes, At, Own, StillSponsored, RunBy,
                    SponsoredBy

\* A save of a setting, by a user or an administrator.
LEMMA SettingsStep ==
  ASSUME IInv,
         \/ \E s \in Scopes : SaveCustom(s) \/ DeleteKey(s)
         \/ \E s \in Installations : SaveInherit(s) \/ Link(s) \/ SetAudience(s)
         \/ SaveDefault \/ BeginKeepKey \/ SaveKeepKey \/ DeleteDefaultKey
  PROVE  IInv'
<1>1. UNCHANGED <<policy, approval, approving, stripe, request, start, retries>>
      /\ (UNCHANGED changes \/ Change)
  BY Zenon DEF SaveCustom, DeleteKey, SaveInherit, Link, SetAudience, SaveDefault, BeginKeepKey,
               SaveKeepKey, DeleteDefaultKey, sponsorship
<1>2. SettingsOK'
  <2>0. SettingsOK
    BY DEF IInv, ServicesTypeOK
  <2>1. ASSUME NEW s \in Scopes, SaveCustom(s) PROVE SettingsOK'
    BY <2>0, <2>1 DEF SettingsOK, SaveCustom, PutWithKey
  <2>2. ASSUME NEW s \in Scopes, DeleteKey(s) PROVE SettingsOK'
    BY <2>0, <2>2 DEF SettingsOK, DeleteKey
  <2>3. ASSUME NEW s \in Installations, SaveInherit(s) PROVE SettingsOK'
    BY <2>0, <2>3, ServiceConstants DEF SettingsOK, SaveInherit, PutWithoutKey, Scopes, Installations
  <2>4. ASSUME NEW s \in Installations, Link(s) \/ SetAudience(s) PROVE SettingsOK'
    BY <2>0, <2>4 DEF SettingsOK, Link, SetAudience, Relinked, Audiences
  <2>5. ASSUME SaveDefault PROVE SettingsOK'
    <3>1. default' \in [enabled : BOOLEAN, selected : BOOLEAN, key : BOOLEAN]
      BY <2>0, <2>5 DEF SettingsOK, SaveDefault, PutDefault
    <3>. QED
      BY <2>0, <2>5, <3>1 DEF SettingsOK, SaveDefault
  <2>6. ASSUME DeleteDefaultKey PROVE SettingsOK'
    BY Zenon, <2>0, <2>6 DEF SettingsOK, DeleteDefaultKey, WithoutKey
  <2>7. ASSUME BeginKeepKey \/ SaveKeepKey PROVE SettingsOK'
    BY Zenon, <2>0, <2>7 DEF SettingsOK, BeginKeepKey, SaveKeepKey
  <2>. QED
    BY Zenon, <2>1, <2>2, <2>3, <2>4, <2>5, <2>6, <2>7
<1>3. changes' \in 0..MaxChanges
  BY <1>1, ServiceConstants DEF IInv, ServicesTypeOK, Change
<1>4. ServicesTypeOK'
  BY <1>1, <1>2, <1>3 DEF IInv, ServicesTypeOK, SponsorshipOK
<1>. QED
  BY <1>1, <1>4, SettingsFrame

\* A lock that is held is not free.
LEMMA HeldIsNotFree == ASSUME NEW r, NEW a PROVE <<r, a>> # <<>>
<1>1. Len(<<r, a>>) = 2 /\ Len(<<>>) = 0
  OBVIOUS
<1>. QED
  BY <1>1

\* A write of a policy or an approval finds the sponsor's stripe free, so no
\* reservation rests on what it changes.
LEMMA PolicyStep ==
  ASSUME IInv, NEW s \in Sponsors,
         \/ CreatePolicy(s) \/ UpdatePolicy(s) \/ DeletePolicy(s)
         \/ BeginApproval(s) \/ SaveApproval(s) \/ DeleteApproval(s)
  PROVE  IInv'
<1>1. /\ UNCHANGED <<settings, stripe, request, start, retries>>
      /\ UNCHANGED changes \/ Change
  BY Zenon DEF CreatePolicy, UpdatePolicy, DeletePolicy, BeginApproval, SaveApproval, DeleteApproval
<1>2. /\ \A p \in Policy : p.sponsor \in Sponsors
      /\ NoPolicy.sponsor = "none" /\ "none" \notin Sponsors
      /\ PoliciesOf(s) \subseteq Policy /\ \A p \in PoliciesOf(s) : p.sponsor = s
  <2>1. PoliciesOf(s) \subseteq Policy
    BY Zenon, LimitsPositive DEF PoliciesOf, Policy
  <2>. QED
    BY <2>1, ServiceConstants DEF PoliciesOf, Policy, NoPolicy
<1>3. SponsorshipOK /\ ApprovalHasItsPolicy
  BY DEF IInv, ServicesTypeOK
<1>4. SponsorshipOK' /\ ApprovalHasItsPolicy'
  <2>. USE <1>2, <1>3 DEF SponsorshipOK, ApprovalHasItsPolicy
  <2>1. CASE CreatePolicy(s)
    BY <2>1 DEF CreatePolicy, InsertPolicy
  <2>2. CASE UpdatePolicy(s)
    BY <2>2 DEF UpdatePolicy, ReplacePolicy
  <2>3. CASE DeletePolicy(s)
    BY <2>3 DEF DeletePolicy, RemovePolicy
  <2>4. CASE BeginApproval(s)
    BY <2>4 DEF BeginApproval
  <2>5. CASE SaveApproval(s)
    BY <2>5 DEF SaveApproval, PolicyLocked
  <2>6. CASE DeleteApproval(s)
    BY <2>6 DEF DeleteApproval
  <2>. QED
    BY Zenon, <2>1, <2>2, <2>3, <2>4, <2>5, <2>6
<1>5. ServicesTypeOK'
  <2>1. SettingsOK'
    BY Zenon, <1>1 DEF IInv, ServicesTypeOK, SettingsOK, settings
  <2>2. changes' \in 0..MaxChanges
    BY <1>1, ServiceConstants DEF IInv, ServicesTypeOK, Change
  <2>. QED
    BY Zenon, <1>1, <1>4, <2>1, <2>2 DEF IInv, ServicesTypeOK
<1>6. Reserved'
  <2>. SUFFICES ASSUME NEW r \in Requests, NEW a \in 1..MaxStarts, At(r, a, "reserved"),
                       start[<<r, a>>].snap.sponsor # "none"
                PROVE  UNCHANGED <<policy, approval>>
    BY ZenonT(60), <1>1 DEF IInv, Reserved, At, StillSponsored, RunBy, SponsoredBy
  <2>1. /\ stripe[start[<<r, a>>].snap.sponsor] = <<r, a>>
        /\ policy.sponsor = start[<<r, a>>].snap.sponsor
    BY Zenon DEF IInv, Reserved, StillSponsored
  <2>2. Unheld(s) => policy.sponsor # s
    BY Zenon, <2>1, HeldIsNotFree DEF Unheld
  <2>. QED
    BY <1>2, <1>3, <2>1, <2>2
       DEF CreatePolicy, UpdatePolicy, DeletePolicy, BeginApproval, SaveApproval, DeleteApproval,
           InsertPolicy, ReplacePolicy, RemovePolicy, PolicyLocked, ApprovalHasItsPolicy
<1>7. Sandboxes'
  BY Zenon, <1>1 DEF IInv, Sandboxes, At, Own
<1>. QED
  BY Zenon, <1>4, <1>5, <1>6, <1>7 DEF IInv

-----------------------------------------------------------------------------
(* The steps of a request                                                  *)

\* A sponsor has finitely many runners, one more at most for each row that a
\* step writes.
LEMMA FewerRuns ==
  ASSUME NEW s, RunBy(s)' \subseteq RunBy(s)
  PROVE  /\ Cardinality(RunBy(s)) \in Nat /\ Cardinality(RunBy(s)') \in Nat
         /\ Cardinality(RunBy(s)') <= Cardinality(RunBy(s))
<1>1. IsFiniteSet(RunBy(s))
  <2>1. RunBy(s) \subseteq Requests
    BY Zenon DEF RunBy, SponsoredBy
  <2>. QED
    BY <2>1, FS_Subset, ServiceConstants
<1>. QED
  BY <1>1, FS_Subset, FS_CardinalityType

\* A request that joins a finite set of runs adds one.
LEMMA OneMoreRun ==
  ASSUME NEW s, NEW r, RunBy(s)' \subseteq RunBy(s) \cup {r}
  PROVE  /\ Cardinality(RunBy(s)) \in Nat /\ Cardinality(RunBy(s)') \in Nat
         /\ Cardinality(RunBy(s)') <= Cardinality(RunBy(s)) + 1
<1>1. IsFiniteSet(RunBy(s))
  <2>1. RunBy(s) \subseteq Requests
    BY Zenon DEF RunBy, SponsoredBy
  <2>. QED
    BY <2>1, FS_Subset, ServiceConstants
<1>2. /\ IsFiniteSet(RunBy(s) \cup {r})
      /\ Cardinality(RunBy(s) \cup {r}) \in {Cardinality(RunBy(s)), Cardinality(RunBy(s)) + 1}
  BY <1>1, FS_AddElement
<1>3. Cardinality(RunBy(s)') <= Cardinality(RunBy(s) \cup {r})
  BY <1>2, FS_Subset
<1>. QED
  BY <1>1, <1>2, <1>3, FS_Subset, FS_CardinalityType

\* What keeps the reservations: the policy stays, no stripe is taken from its
\* holder, and the sponsors of the reservations run no more than before.
LEMMA ReservedFrame ==
  ASSUME IInv, SponsorshipOK, UNCHANGED <<policy, approval>>,
         NEW r \in Requests, NEW a \in 1..MaxStarts,
         start'[<<r, a>>] = start[<<r, a>>],
         At(r, a, "reserved"), start[<<r, a>>].snap.sponsor # "none",
         stripe'[start[<<r, a>>].snap.sponsor] = stripe[start[<<r, a>>].snap.sponsor],
         RunBy(start[<<r, a>>].snap.sponsor)' \subseteq RunBy(start[<<r, a>>].snap.sponsor)
  PROVE  LET snap == start[<<r, a>>].snap
         IN (/\ stripe[snap.sponsor] = <<r, a>>
             /\ StillSponsored(snap)
             /\ Cardinality(RunBy(snap.sponsor)) < policy.limit)'
<1>. DEFINE snap == start[<<r, a>>].snap
<1>1. /\ stripe[snap.sponsor] = <<r, a>> /\ StillSponsored(snap)
      /\ Cardinality(RunBy(snap.sponsor)) < policy.limit
  BY Zenon DEF IInv, Reserved
<1>2. StillSponsored(snap)'
  BY Zenon, <1>1 DEF StillSponsored
<1>3. policy.limit \in Nat
  BY DEF SponsorshipOK, Policy, NoPolicy
<1>4. Cardinality(RunBy(snap.sponsor)') < policy.limit
  BY <1>1, <1>3, FewerRuns
<1>. QED
  BY Zenon, <1>1, <1>2, <1>4

Quiet(x) == start'[x] = start[x] \/ start'[x].at \notin {"reserved", "granted"}

\* A step that writes row q for request r: it makes no runner of a sponsor, it
\* reserves and grants nothing, and the row's sandbox is the snapshot's.
LEMMA RowFrame ==
  ASSUME IInv, ServicesTypeOK', UNCHANGED <<policy, approval>>,
         NEW r \in Requests, NEW q \in Request, request' = [request EXCEPT ![r] = q],
         \A x \in Starts : Quiet(x),
         \A s \in Sponsors, x \in Starts :
            stripe[s] = x /\ start'[x].at = "reserved" => stripe'[s] = x,
         q.status \in {"creating", "running"} /\ ~q.stray /\ q.snap.sponsor # "none" =>
            /\ request[r].status \in {"creating", "running"} /\ ~request[r].stray
            /\ request[r].snap = q.snap,
         q.status \in {"queued", "creating"} => q.sandbox = "none",
         q.sandbox # "none" /\ ~q.stray => q.snap.owner = q.sandbox,
         q.status = "creating" => q = request[r] \/ start'[<<r, q.attempt>>].at # "granted"
  PROVE  IInv'
<1>1. /\ request \in [Requests -> Request] /\ start \in [Starts -> Start]
      /\ SponsorshipOK /\ "none" \notin Sponsors
  BY ServiceConstants DEF IInv, ServicesTypeOK
<1>2. ASSUME NEW s, s # "none" PROVE RunBy(s)' \subseteq RunBy(s)
  BY <1>1, <1>2 DEF RunBy, SponsoredBy, InFlightStatus
<1>3. Reserved'
  <2>. SUFFICES ASSUME NEW p \in Requests, NEW a \in 1..MaxStarts,
                       At(p, a, "reserved")', start'[<<p, a>>].snap.sponsor # "none"
                PROVE  (/\ stripe[start[<<p, a>>].snap.sponsor] = <<p, a>>
                        /\ StillSponsored(start[<<p, a>>].snap)
                        /\ Cardinality(RunBy(start[<<p, a>>].snap.sponsor)) < policy.limit)'
    BY Zenon DEF Reserved
  <2>. DEFINE s == start[<<p, a>>].snap.sponsor
  <2>0. <<p, a>> \in Starts
    BY Zenon DEF Starts
  <2>1. start'[<<p, a>>] = start[<<p, a>>] /\ At(p, a, "reserved")
    BY Zenon, <2>0 DEF Quiet, At
  <2>2. stripe[s] = <<p, a>>
    BY ZenonT(30), <2>1 DEF IInv, Reserved
  <2>3. s \in Sponsors
    BY <1>1, <2>0, <2>1 DEF Start, Snapshot
  <2>4. stripe'[s] = stripe[s]
    BY Zenon, <2>0, <2>1, <2>2, <2>3 DEF At
  <2>. QED
    BY ZenonT(30), <1>1, <1>2, <2>1, <2>4, ReservedFrame
<1>4. Sandboxes'
  <2>. SUFFICES ASSUME NEW p \in Requests
                PROVE  (/\ request[p].status \in {"queued", "creating"} =>
                             request[p].sandbox = "none"
                        /\ request[p].sandbox # "none" /\ ~request[p].stray =>
                             request[p].snap.owner = request[p].sandbox
                        /\ \A a \in 1..MaxStarts :
                             At(p, a, "granted") /\ Own(p, a) /\ ~request[p].stray =>
                               request[p].snap.owner = start[<<p, a>>].snap.owner)'
    BY Zenon DEF Sandboxes
  <2>1. \A a \in 1..MaxStarts : At(p, a, "granted")' => start'[<<p, a>>] = start[<<p, a>>]
    BY Zenon DEF Quiet, At, Starts
  <2>2. CASE p # r \/ q = request[r]
    <3>1. request'[p] = request[p]
      BY <1>1, <2>2
    <3>. QED
      BY <2>1, <3>1 DEF IInv, Sandboxes, At, Own
  <2>3. CASE p = r /\ q # request[r]
    <3>1. request'[p] = q
      BY <1>1, <2>3
    <3>. QED
      BY ZenonT(30), <2>3, <3>1 DEF At, Own
  <2>. QED
    BY Zenon, <2>2, <2>3
<1>5. ApprovalHasItsPolicy'
  BY Zenon DEF IInv, ApprovalHasItsPolicy
<1>. QED
  BY Zenon, <1>3, <1>4, <1>5 DEF IInv

\* The steps of the request row alone, and the begin of a start.
LEMMA RequestStep ==
  ASSUME IInv, NEW r \in Requests,
         BeginStart(r) \/ StopServed(r) \/ EndRequest(r) \/ RetryEnded(r)
  PROVE  IInv'
<1>. DEFINE old == request[r]
<1>1. /\ ServicesTypeOK /\ request \in [Requests -> Request] /\ start \in [Starts -> Start]
      /\ old \in Request /\ NoSnapshot \in Snapshot /\ NoSnapshot.sponsor = "none"
  BY DEF IInv, ServicesTypeOK, NoSnapshot, Snapshot
<1>2. /\ old.status \in {"queued", "creating"} => old.sandbox = "none"
      /\ old.sandbox # "none" /\ ~old.stray => old.snap.owner = old.sandbox
  BY Zenon DEF IInv, Sandboxes
<1>3. UNCHANGED <<settings, sponsorship, stripe, changes>> /\ (UNCHANGED retries \/ Again)
  BY Zenon DEF BeginStart, StopServed, EndRequest, RetryEnded
<1>4. UNCHANGED <<policy, approval>>
  BY Zenon, <1>3 DEF sponsorship
<1>5. ASSUME request' \in [Requests -> Request], start' \in [Starts -> Start]
      PROVE  ServicesTypeOK'
  <2>1. SettingsOK' /\ SponsorshipOK'
    BY Zenon, <1>1, <1>3 DEF ServicesTypeOK, SettingsOK, settings, SponsorshipOK, sponsorship
  <2>2. retries' \in 0..MaxRetries
    BY <1>1, <1>3, ServiceConstants DEF ServicesTypeOK, Again
  <2>. QED
    BY Zenon, <1>1, <1>3, <1>5, <2>1, <2>2 DEF ServicesTypeOK
<1>6. CASE BeginStart(r)
  <2>. DEFINE a == old.attempt + 1
              q == [old EXCEPT !.status = "creating", !.attempt = a, !.stray = old.snap # NoSnapshot]
              begun == [at |-> "begun", snap |-> old.snap, seen |-> NewRequest("public")]
  <2>1. /\ old.status = "queued" /\ a \in 1..MaxStarts
        /\ request' = [request EXCEPT ![r] = q]
        /\ start' = [start EXCEPT ![<<r, a>>] = begun]
    BY <1>1, <1>6, ServiceConstants DEF BeginStart, Request
  <2>2. q \in Request /\ begun \in Start
    <3>1. q \in Request
      <4>1. \A n \in 0..MaxStarts, b \in BOOLEAN :
              [old EXCEPT !.status = "creating", !.attempt = n, !.stray = b] \in Request
        BY Zenon, <1>1 DEF Request, InFlightStatus
      <4>2. (old.snap # NoSnapshot) \in BOOLEAN /\ a \in 0..MaxStarts
        BY <2>1
      <4>. QED
        BY Zenon, <4>1, <4>2
    <3>2. old.snap \in Snapshot
      BY <1>1 DEF Request
    <3>. QED
      BY <3>1, <3>2, BlankTypes DEF Start
  <2>3. <<r, a>> \in Starts
    BY <2>1 DEF Starts
  <2>4. start' \in [Starts -> Start] /\ \A x \in Starts : Quiet(x)
    BY <1>1, <2>1, <2>2, <2>3 DEF Quiet
  <2>5. start'[<<r, q.attempt>>].at # "granted"
    BY <1>1, <2>1, <2>3 DEF Request
  <2>6. q.sandbox = "none" /\ (~q.stray => q.snap = NoSnapshot)
    BY Zenon, <1>1, <1>2, <2>1 DEF Request
  <2>. HIDE DEF q, begun
  <2>7. ServicesTypeOK'
    BY <1>1, <1>5, <2>1, <2>2, <2>4
  <2>. QED
    BY Zenon, <1>1, <1>3, <1>4, <2>1, <2>2, <2>4, <2>5, <2>6, <2>7, RowFrame
<1>7. CASE StopServed(r) \/ EndRequest(r) \/ RetryEnded(r)
  <2>1. UNCHANGED start /\ \E q \in Request :
          /\ request' = [request EXCEPT ![r] = q]
          /\ q.status \notin {"creating", "running"}
          /\ q.status = "queued" => q.sandbox = "none"
          /\ q.sandbox # "none" => q.sandbox = old.sandbox /\ q.snap = old.snap
          /\ q.stray = old.stray
    <3>1. CASE StopServed(r)
      <4>1. Stopping(r) \in Request
        BY <1>1 DEF Stopping, Request, InFlightStatus
      <4>. QED
        BY Zenon, <1>1, <3>1, <4>1 DEF StopServed, Stopping, Request
    <3>2. CASE RetryEnded(r)
      <4>1. Requeue(r) \in Request
        BY Zenon, <1>1 DEF Requeue, Request
      <4>. QED
        BY Zenon, <1>1, <3>2, <4>1 DEF RetryEnded, Requeue, Request
    <3>3. CASE EndRequest(r)
      <4>1. Requeue(r) \in Request
        BY Zenon, <1>1 DEF Requeue, Request
      <4>2. \A end \in {"completed", "failed"} :
              /\ [old EXCEPT !.status = end, !.sandbox = "none"] \in Request
              /\ [old EXCEPT !.status = end] \in Request
        BY Zenon, <1>1 DEF Request
      <4>3. CASE request' = [request EXCEPT ![r] = Requeue(r)]
        BY Zenon, <1>1, <3>3, <4>1, <4>3 DEF EndRequest, Requeue, Request
      <4>4. ASSUME NEW end \in {"completed", "failed"},
                   request' = [request EXCEPT ![r].status = end, ![r].sandbox = "none"]
            PROVE  request' = [request EXCEPT ![r] = [old EXCEPT !.status = end, !.sandbox = "none"]]
        BY Zenon, <1>1, <4>4 DEF Request
      <4>5. ASSUME request' = [request EXCEPT ![r].status = "failed"]
            PROVE  request' = [request EXCEPT ![r] = [old EXCEPT !.status = "failed"]]
        BY <1>1, <4>5 DEF Request
      <4>. QED
        BY <1>1, <3>3, <4>2, <4>3, <4>4, <4>5 DEF EndRequest, Request
    <3>. QED
      BY Zenon, <1>7, <3>1, <3>2, <3>3
  <2>2. PICK q \in Request :
          /\ request' = [request EXCEPT ![r] = q]
          /\ q.status \notin {"creating", "running"}
          /\ q.status = "queued" => q.sandbox = "none"
          /\ q.sandbox # "none" => q.sandbox = old.sandbox /\ q.snap = old.snap
          /\ q.stray = old.stray
    BY Zenon, <2>1
  <2>3. \A x \in Starts : Quiet(x)
    BY Zenon, <2>1 DEF Quiet
  <2>4. ServicesTypeOK'
    BY <1>1, <1>5, <2>1, <2>2
  <2>5. q.sandbox # "none" /\ ~q.stray => q.snap.owner = q.sandbox
    BY Zenon, <1>2, <2>2
  <2>. QED
    BY Zenon, <1>1, <1>3, <1>4, <2>1, <2>2, <2>3, <2>4, <2>5, RowFrame
<1>. QED
  BY Zenon, <1>6, <1>7

\* A step of a start alone keeps the types, and policy and approval as they are.
LEMMA StartTypes ==
  ASSUME IInv, UNCHANGED <<settings, sponsorship, changes, retries>>,
         request' \in [Requests -> Request], start' \in [Starts -> Start],
         stripe' \in [Sponsors -> Starts \cup {<<>>}]
  PROVE  ServicesTypeOK' /\ UNCHANGED <<policy, approval>>
<1>1. SettingsOK' /\ SponsorshipOK'
  BY Zenon DEF IInv, ServicesTypeOK, SettingsOK, settings, SponsorshipOK, sponsorship
<1>. QED
  BY Zenon, <1>1 DEF IInv, ServicesTypeOK, sponsorship

\* A start that neither reserves nor writes a snapshot: it moves on and may
\* write the row like the steps above.
LEMMA StartFrame ==
  ASSUME IInv, UNCHANGED <<settings, sponsorship, stripe, changes, retries>>,
         NEW r \in Requests, NEW a \in 1..MaxStarts, NEW x \in Start,
         start' = [start EXCEPT ![<<r, a>>] = x], x.at \notin {"reserved", "granted"},
         NEW q \in Request, request' = [request EXCEPT ![r] = q],
         \/ q = request[r]
         \/ q.status \notin {"creating", "running"} /\ q.sandbox = "none"
         \/ /\ q.status = "running" /\ request[r].status = "creating" /\ q.snap = request[r].snap
            /\ ~q.stray => ~request[r].stray
            /\ ~q.stray => q.snap.owner = q.sandbox
  PROVE  IInv'
<1>1. /\ request \in [Requests -> Request] /\ start \in [Starts -> Start]
      /\ stripe \in [Sponsors -> Starts \cup {<<>>}] /\ <<r, a>> \in Starts
  BY DEF IInv, ServicesTypeOK, Starts
<1>2. request' \in [Requests -> Request] /\ start' \in [Starts -> Start]
  BY <1>1
<1>3. ServicesTypeOK' /\ UNCHANGED <<policy, approval>>
  BY Zenon, <1>1, <1>2, StartTypes
<1>4. \A y \in Starts : Quiet(y)
  BY <1>1 DEF Quiet
<1>5. /\ request[r].status \in {"queued", "creating"} => request[r].sandbox = "none"
      /\ request[r].sandbox # "none" /\ ~request[r].stray =>
           request[r].snap.owner = request[r].sandbox
  BY Zenon DEF IInv, Sandboxes
<1>6. /\ q.status \in {"creating", "running"} /\ ~q.stray /\ q.snap.sponsor # "none" =>
           /\ request[r].status \in {"creating", "running"} /\ ~request[r].stray
           /\ request[r].snap = q.snap
      /\ q.status \in {"queued", "creating"} => q.sandbox = "none"
      /\ q.sandbox # "none" /\ ~q.stray => q.snap.owner = q.sandbox
      /\ q.status = "creating" => q = request[r]
  BY <1>5
<1>. QED
  BY Zenon, <1>3, <1>4, <1>6, RowFrame

\* A start resolves its service, or fails, before it has a sandbox.
LEMMA ResolveStep ==
  ASSUME IInv, NEW r \in Requests, NEW a \in 1..MaxStarts, Resolve(r, a)
  PROVE  IInv'
<1>1. /\ ServicesTypeOK /\ request \in [Requests -> Request] /\ start \in [Starts -> Start]
      /\ <<r, a>> \in Starts
  BY DEF IInv, ServicesTypeOK, Starts
<1>2. /\ request[r] \in Request /\ request[r].kind \in Kinds
      /\ start[<<r, a>>] \in Start /\ start[<<r, a>>].snap \in Snapshot
  BY <1>1 DEF Request, Start
<1>3. PICK snap \in Resolutions(request[r].kind, start[<<r, a>>].snap) :
        start' = [start EXCEPT ![<<r, a>>].snap = snap,
                               ![<<r, a>>].at = IF snap = NoSnapshot THEN "failing" ELSE "resolved"]
  BY Zenon DEF Resolve
<1>. DEFINE x == [start[<<r, a>>] EXCEPT !.snap = snap,
                                         !.at = IF snap = NoSnapshot THEN "failing" ELSE "resolved"]
<1>4. start' = [start EXCEPT ![<<r, a>>] = x]
  BY Zenon, <1>1, <1>3
<1>5. snap \in Snapshot
  BY Zenon, <1>1, <1>2, ResolutionTypes
<1>6. x \in Start /\ x.at \notin {"reserved", "granted"}
  BY Zenon, <1>2, <1>5 DEF Start
<1>7. request' = [request EXCEPT ![r] = request[r]]
  BY <1>1 DEF Resolve
<1>8. UNCHANGED <<settings, sponsorship, stripe, changes, retries>>
  BY Zenon DEF Resolve
<1>. QED
  BY Zenon, <1>2, <1>4, <1>6, <1>7, <1>8, StartFrame

\* A start that returns: it gives up, fails or hands its sandbox to the row.
LEMMA ReturnStep ==
  ASSUME IInv, NEW r \in Requests, NEW a \in 1..MaxStarts,
         Defer(r, a) \/ FailService(r, a) \/ Adopt(r, a)
  PROVE  IInv'
<1>. DEFINE old == request[r]
            x == [NoStart EXCEPT !.at = "done"]
<1>1. /\ request \in [Requests -> Request] /\ start \in [Starts -> Start]
      /\ <<r, a>> \in Starts /\ old \in Request
  BY DEF IInv, ServicesTypeOK, Starts
<1>2. x \in Start /\ x.at \notin {"reserved", "granted"}
  BY BlankTypes DEF Start
<1>3. /\ start' = [start EXCEPT ![<<r, a>>] = x]
      /\ UNCHANGED <<settings, sponsorship, stripe, changes, retries>>
  BY Zenon DEF Defer, FailService, Adopt, Finish
<1>4. request' = request => request' = [request EXCEPT ![r] = old]
  BY <1>1
<1>5. /\ Requeue(r) \in Request /\ Requeue(r).status \notin {"creating", "running"}
      /\ Requeue(r).sandbox = "none"
  BY Zenon, <1>1, BlankTypes DEF Requeue, Request
<1>6. CASE Defer(r, a)
  BY Zenon, <1>1, <1>2, <1>3, <1>4, <1>5, <1>6, StartFrame DEF Defer
<1>7. CASE FailService(r, a)
  <2>. DEFINE q == [old EXCEPT !.status = "failed", !.sandbox = "none"]
  <2>1. q \in Request /\ q.status \notin {"creating", "running"} /\ q.sandbox = "none"
    BY Zenon, <1>1 DEF Request
  <2>2. [request EXCEPT ![r].status = "failed", ![r].sandbox = "none"] = [request EXCEPT ![r] = q]
    BY Zenon, <1>1
  <2>. HIDE DEF q, x
  <2>3. \/ request' = [request EXCEPT ![r] = old]
        \/ request' = [request EXCEPT ![r] = Requeue(r)]
        \/ request' = [request EXCEPT ![r] = q]
    BY Zenon, <1>4, <1>7, <2>2 DEF FailService
  <2>4. CASE request' = [request EXCEPT ![r] = old]
    BY Zenon, <1>1, <1>2, <1>3, <2>4, StartFrame
  <2>5. CASE request' = [request EXCEPT ![r] = Requeue(r)]
    BY Zenon, <1>2, <1>3, <1>5, <2>5, StartFrame
  <2>6. CASE request' = [request EXCEPT ![r] = q]
    BY Zenon, <1>2, <1>3, <2>1, <2>6, StartFrame
  <2>. QED
    BY Zenon, <2>3, <2>4, <2>5, <2>6
<1>8. CASE Adopt(r, a)
  <2>. DEFINE q == [old EXCEPT !.status = "running", !.sandbox = start[<<r, a>>].snap.owner,
                               !.stray = @ \/ ~Own(r, a)]
  <2>1. start[<<r, a>>].snap.owner \in Owners \cup {"none"}
    BY <1>1 DEF Start, Snapshot
  <2>2. \A b \in BOOLEAN : [old EXCEPT !.status = "running",
                                       !.sandbox = start[<<r, a>>].snap.owner,
                                       !.stray = b] \in Request
    BY Zenon, <1>1, <2>1 DEF Request, InFlightStatus
  <2>3. q \in Request
    BY Zenon, <2>2
  <2>4. /\ q.status = "running" /\ q.snap = old.snap
        /\ ~q.stray => ~old.stray /\ Own(r, a)
        /\ q.sandbox = start[<<r, a>>].snap.owner
    BY Zenon, <1>1 DEF Request
  <2>5. ~q.stray => q.snap.owner = q.sandbox
    BY Zenon, <1>8, <2>4 DEF IInv, Sandboxes, Adopt
  <2>6. [request EXCEPT ![r].status = "running", ![r].sandbox = start[<<r, a>>].snap.owner,
                        ![r].stray = @ \/ ~Own(r, a)] = [request EXCEPT ![r] = q]
    BY Zenon, <1>1
  <2>. HIDE DEF q, x
  <2>7. \/ request' = [request EXCEPT ![r] = old]
        \/ request' = [request EXCEPT ![r] = q] /\ old.status = "creating"
    BY Zenon, <1>4, <1>8, <2>6 DEF Adopt
  <2>8. CASE request' = [request EXCEPT ![r] = old]
    BY Zenon, <1>1, <1>2, <1>3, <2>8, StartFrame
  <2>9. CASE request' = [request EXCEPT ![r] = q] /\ old.status = "creating"
    BY Zenon, <1>2, <1>3, <2>3, <2>4, <2>5, <2>9, StartFrame
  <2>. QED
    BY Zenon, <2>7, <2>8, <2>9
<1>. QED
  BY Zenon, <1>6, <1>7, <1>8

\* A start that takes a slot of its sponsor.
LEMMA ReserveStep ==
  ASSUME IInv, NEW r \in Requests, NEW a \in 1..MaxStarts, Reserve(r, a)
  PROVE  IInv'
<1>. DEFINE w == <<r, a>>
            s == start[w].snap.sponsor
<1>1. /\ request \in [Requests -> Request] /\ start \in [Starts -> Start] /\ w \in Starts
      /\ stripe \in [Sponsors -> Starts \cup {<<>>}] /\ SponsorshipOK
  BY DEF IInv, ServicesTypeOK, Starts
<1>2. UNCHANGED <<settings, sponsorship, request, changes, retries>> /\ At(r, a, "resolved")
  BY Zenon DEF Reserve
<1>3. request' = [request EXCEPT ![r] = request[r]] /\ request[r] \in Request
  BY <1>1, <1>2
<1>4. CASE Go(r, a, "deferred") /\ UNCHANGED stripe
  <2>. DEFINE x == [start[w] EXCEPT !.at = "deferred"]
  <2>1. x \in Start /\ x.at \notin {"reserved", "granted"}
    BY <1>1 DEF Start
  <2>2. start' = [start EXCEPT ![w] = x]
    BY <1>1, <1>4 DEF Go
  <2>. QED
    BY Zenon, <1>2, <1>3, <1>4, <2>1, <2>2, StartFrame
<1>5. CASE /\ start' = [start EXCEPT ![w].at = "reserved", ![w].seen = request[r]]
           /\ \/ s = "none" /\ UNCHANGED stripe
              \/ /\ s # "none" /\ Unheld(s) /\ StillSponsored(start[w].snap) /\ RoomFor(s)
                 /\ stripe' = [stripe EXCEPT ![s] = w]
  <2>. DEFINE x == [start[w] EXCEPT !.at = "reserved", !.seen = request[r]]
  <2>1. x \in Start /\ x.at = "reserved" /\ x.snap = start[w].snap
    BY Zenon, <1>1, <1>3 DEF Start
  <2>2. start' = [start EXCEPT ![w] = x]
    BY Zenon, <1>1, <1>5
  <2>. HIDE DEF x
  <2>3. s # "none" => s \in Sponsors
    BY <1>1 DEF Start, Snapshot
  <2>4. ServicesTypeOK' /\ UNCHANGED <<policy, approval>>
    <3>1. start' \in [Starts -> Start] /\ request' \in [Requests -> Request]
      BY <1>1, <1>2, <2>1, <2>2
    <3>2. stripe' \in [Sponsors -> Starts \cup {<<>>}]
      BY <1>1, <1>5
    <3>. QED
      BY Zenon, <1>2, <3>1, <3>2, StartTypes
  <2>5. \A p \in Requests, b \in 1..MaxStarts :
          <<p, b>> # w => start'[<<p, b>>] = start[<<p, b>>]
    BY <1>1, <2>2 DEF Starts
  <2>6. start'[w] = x
    BY <1>1, <2>2
  <2>7. Reserved'
    <3>. SUFFICES ASSUME NEW p \in Requests, NEW b \in 1..MaxStarts,
                         At(p, b, "reserved")', start'[<<p, b>>].snap.sponsor # "none"
                  PROVE  (/\ stripe[start[<<p, b>>].snap.sponsor] = <<p, b>>
                          /\ StillSponsored(start[<<p, b>>].snap)
                          /\ Cardinality(RunBy(start[<<p, b>>].snap.sponsor)) < policy.limit)'
      BY Zenon DEF Reserved
    <3>0. \A y : RunBy(y)' = RunBy(y)
      BY Zenon, <1>2 DEF RunBy, SponsoredBy
    <3>1. CASE <<p, b>> = w
      <4>0. start'[<<p, b>>].snap = start[w].snap /\ s # "none"
        BY Zenon, <2>1, <2>6, <3>1
      <4>1. stripe'[s] = w
        BY <1>1, <1>5, <2>3, <4>0
      <4>2. StillSponsored(start[w].snap)'
        BY Zenon, <1>5, <2>4, <2>1, <2>6, <4>0 DEF StillSponsored
      <4>3. Cardinality(RunBy(s)) < policy.limit
        <5>1. /\ RunBy(s) \subseteq SponsoredBy(s) /\ SponsoredBy(s) \subseteq Requests
              /\ Cardinality(SponsoredBy(s)) < policy.limit
          BY Zenon, <1>5, <4>0 DEF RunBy, SponsoredBy, RoomFor
        <5>2. policy.limit \in Nat
          BY <1>1 DEF SponsorshipOK, Policy, NoPolicy
        <5>. QED
          BY SMTT(20), <5>1, <5>2, FS_Subset, FS_CardinalityType, ServiceConstants
      <4>. QED
        BY Zenon, <2>4, <3>0, <3>1, <4>0, <4>1, <4>2, <4>3
    <3>2. CASE <<p, b>> # w
      <4>. DEFINE z == start[<<p, b>>].snap.sponsor
      <4>1. start'[<<p, b>>] = start[<<p, b>>] /\ At(p, b, "reserved") /\ z # "none"
        BY Zenon, <2>5, <3>2 DEF At
      <4>2. stripe[z] = <<p, b>> /\ z \in Sponsors
        BY Zenon, <1>1, <4>1 DEF IInv, Reserved, Start, Snapshot, Starts
      <4>3. Unheld(s) => z # s
        BY Zenon, <4>2, HeldIsNotFree DEF Unheld
      <4>4. stripe'[z] = stripe[z]
        BY <1>1, <1>5, <4>2, <4>3
      <4>. QED
        BY Zenon, <1>1, <2>4, <3>0, <4>1, <4>4, ReservedFrame
    <3>. QED
      BY Zenon, <3>1, <3>2
  <2>8. Sandboxes'
    <3>1. \A p \in Requests, b \in 1..MaxStarts :
            At(p, b, "granted")' => start'[<<p, b>>] = start[<<p, b>>] /\ At(p, b, "granted")
      BY <2>1, <2>5, <2>6 DEF At
    <3>. QED
      BY ZenonT(30), <1>2, <3>1 DEF IInv, Sandboxes, Own
  <2>9. ApprovalHasItsPolicy'
    BY Zenon, <2>4 DEF IInv, ApprovalHasItsPolicy
  <2>. QED
    BY Zenon, <2>4, <2>7, <2>8, <2>9 DEF IInv
<1>. QED
  BY Zenon, <1>4, <1>5 DEF Reserve, CanReserve

\* The write of the snapshot, then the release of the stripe.
LEMMA PersistStep ==
  ASSUME IInv, NEW r \in Requests, NEW a \in 1..MaxStarts, Persist(r, a)
  PROVE  IInv'
<1>. DEFINE w == <<r, a>>
            s == start[w].snap.sponsor
            old == request[r]
<1>1. /\ request \in [Requests -> Request] /\ start \in [Starts -> Start] /\ w \in Starts
      /\ stripe \in [Sponsors -> Starts \cup {<<>>}] /\ SponsorshipOK /\ old \in Request
  BY DEF IInv, ServicesTypeOK, Starts
<1>2. /\ UNCHANGED <<settings, sponsorship, changes, retries>>
      /\ At(r, a, "reserved") /\ Released(w)
  BY Zenon DEF Persist
<1>3. /\ stripe' \in [Sponsors -> Starts \cup {<<>>}]
      /\ \A z \in Sponsors, y \in Starts : stripe[z] = y /\ y # w => stripe'[z] = y
  BY <1>1, <1>2 DEF Released
<1>4. CASE request' = request /\ Go(r, a, "failing")
  <2>. DEFINE x == [start[w] EXCEPT !.at = "failing"]
  <2>1. x \in Start /\ x.at = "failing"
    BY <1>1 DEF Start
  <2>2. start' = [start EXCEPT ![w] = x]
    BY <1>1, <1>4 DEF Go
  <2>. HIDE DEF x
  <2>3. start' \in [Starts -> Start] /\ start'[w] = x /\ \A y \in Starts : Quiet(y)
    BY <1>1, <2>1, <2>2 DEF Quiet
  <2>4. request' = [request EXCEPT ![r] = old] /\ request' \in [Requests -> Request]
    BY <1>1, <1>4
  <2>5. ServicesTypeOK' /\ UNCHANGED <<policy, approval>>
    BY Zenon, <1>2, <1>3, <2>3, <2>4, StartTypes
  <2>6. \A z \in Sponsors, y \in Starts : stripe[z] = y /\ start'[y].at = "reserved" => stripe'[z] = y
    <3>1. start'[w].at # "reserved"
      BY <2>1, <2>3
    <3>. QED
      BY Zenon, <1>3, <3>1
  <2>7. /\ old.status \in {"queued", "creating"} => old.sandbox = "none"
        /\ old.sandbox # "none" /\ ~old.stray => old.snap.owner = old.sandbox
    BY Zenon DEF IInv, Sandboxes
  <2>. QED
    BY Zenon, <1>1, <2>3, <2>4, <2>5, <2>6, <2>7, RowFrame
<1>5. CASE /\ request' = [request EXCEPT ![r].snap = [start[w].snap EXCEPT !.fork = FALSE],
                                         ![r].stray = @ \/ ~Own(r, a)]
           /\ start' = [start EXCEPT ![w].at = "granted", ![w].seen = NewRequest("public")]
  <2>. DEFINE x == [start[w] EXCEPT !.at = "granted", !.seen = NewRequest("public")]
              q == [old EXCEPT !.snap = [start[w].snap EXCEPT !.fork = FALSE],
                               !.stray = @ \/ ~Own(r, a)]
  <2>1. x \in Start /\ x.at = "granted" /\ x.snap = start[w].snap
    BY Zenon, <1>1, BlankTypes DEF Start
  <2>2. /\ q \in Request /\ q.snap.sponsor = s /\ q.snap.owner = start[w].snap.owner
        /\ q.status = old.status /\ q.sandbox = old.sandbox /\ q.attempt = old.attempt
        /\ ~q.stray => ~old.stray /\ Own(r, a)
    <3>1. start[w].snap \in Snapshot
      BY <1>1 DEF Start
    <3>2. /\ [start[w].snap EXCEPT !.fork = FALSE] \in Snapshot
          /\ [start[w].snap EXCEPT !.fork = FALSE].sponsor = s
          /\ [start[w].snap EXCEPT !.fork = FALSE].owner = start[w].snap.owner
      BY Zenon, <3>1 DEF Snapshot
    <3>3. \A b \in BOOLEAN, y \in Snapshot : [old EXCEPT !.snap = y, !.stray = b] \in Request
      BY Zenon, <1>1 DEF Request
    <3>4. q \in Request
      BY Zenon, <3>2, <3>3
    <3>. QED
      BY Zenon, <1>1, <3>2, <3>4 DEF Request
  <2>3. start' = [start EXCEPT ![w] = x] /\ request' = [request EXCEPT ![r] = q]
    BY Zenon, <1>1, <1>5
  <2>. HIDE DEF x, q
  <2>4. /\ start' \in [Starts -> Start] /\ start'[w] = x
        /\ \A y \in Starts : y # w => start'[y] = start[y]
        /\ request' \in [Requests -> Request] /\ request'[r] = q
        /\ \A p \in Requests : p # r => request'[p] = request[p]
    BY <1>1, <2>1, <2>2, <2>3
  <2>5. ServicesTypeOK' /\ UNCHANGED <<policy, approval>>
    BY Zenon, <1>2, <1>3, <2>4, StartTypes
  <2>6. ASSUME NEW z, z # s PROVE RunBy(z)' \subseteq RunBy(z)
    BY <1>1, <2>2, <2>4, <2>6 DEF RunBy, SponsoredBy
  <2>7. Reserved'
    <3>. SUFFICES ASSUME NEW p \in Requests, NEW b \in 1..MaxStarts,
                         At(p, b, "reserved")', start'[<<p, b>>].snap.sponsor # "none"
                  PROVE  (/\ stripe[start[<<p, b>>].snap.sponsor] = <<p, b>>
                          /\ StillSponsored(start[<<p, b>>].snap)
                          /\ Cardinality(RunBy(start[<<p, b>>].snap.sponsor)) < policy.limit)'
      BY Zenon DEF Reserved
    <3>. DEFINE z == start[<<p, b>>].snap.sponsor
    <3>1. <<p, b>> # w /\ <<p, b>> \in Starts
      BY <2>1, <2>4 DEF At, Starts
    <3>2. start'[<<p, b>>] = start[<<p, b>>] /\ At(p, b, "reserved") /\ z # "none"
      BY Zenon, <2>4, <3>1 DEF At
    <3>3. stripe[z] = <<p, b>> /\ z \in Sponsors
      BY Zenon, <1>1, <3>1, <3>2 DEF IInv, Reserved, Start, Snapshot
    <3>4. stripe'[z] = stripe[z]
      BY Zenon, <1>3, <3>1, <3>3
    <3>5. z # s
      BY Zenon, <1>2, <3>1, <3>2, <3>3 DEF IInv, Reserved
    <3>. QED
      BY Zenon, <1>1, <2>5, <2>6, <3>2, <3>4, <3>5, ReservedFrame
  <2>8. Sandboxes'
    <3>. SUFFICES ASSUME NEW p \in Requests
                  PROVE  (/\ request[p].status \in {"queued", "creating"} =>
                               request[p].sandbox = "none"
                          /\ request[p].sandbox # "none" /\ ~request[p].stray =>
                               request[p].snap.owner = request[p].sandbox
                          /\ \A b \in 1..MaxStarts :
                               At(p, b, "granted") /\ Own(p, b) /\ ~request[p].stray =>
                                 request[p].snap.owner = start[<<p, b>>].snap.owner)'
      BY Zenon DEF Sandboxes
    <3>1. CASE p # r
      <4>1. request'[p] = request[p] /\ \A b \in 1..MaxStarts : start'[<<p, b>>] = start[<<p, b>>]
        BY <2>4, <3>1 DEF Starts
      <4>. QED
        BY <4>1 DEF IInv, Sandboxes, At, Own
    <3>2. CASE p = r
      <4>1. old.status \in {"queued", "creating"} => old.sandbox = "none"
        BY Zenon DEF IInv, Sandboxes
      <4>2. ~q.stray => old.status = "creating" /\ old.attempt = a
        BY Zenon, <2>2 DEF Own
      <4>. QED
        BY <2>1, <2>2, <2>4, <3>2, <4>1, <4>2 DEF Own
    <3>. QED
      BY Zenon, <3>1, <3>2
  <2>9. ApprovalHasItsPolicy'
    BY Zenon, <2>5 DEF IInv, ApprovalHasItsPolicy
  <2>. QED
    BY Zenon, <2>5, <2>7, <2>8, <2>9 DEF IInv
<1>. QED
  BY Zenon, <1>4, <1>5 DEF Persist

-----------------------------------------------------------------------------
(* The theorems                                                            *)

\* Every step keeps the inductive invariant.
LEMMA Step ==
  ASSUME IInv, [ServicesNext]_serviceVars PROVE IInv'
<1>1. CASE UNCHANGED serviceVars
  <2>1. /\ UNCHANGED <<policy, approval, stripe, request, start>>
        /\ UNCHANGED <<pref, secret, linked, default, audience, saving, approving, changes, retries>>
    BY Zenon, <1>1 DEF serviceVars, settings, sponsorship
  <2>2. ServicesTypeOK'
    BY Zenon, <2>1 DEF IInv, ServicesTypeOK, SettingsOK, SponsorshipOK
  <2>. QED
    BY Zenon, <2>1, <2>2, SettingsFrame
<1>2. ASSUME NEW r \in Requests, NEW a \in 1..MaxStarts,
             \/ Resolve(r, a) \/ Reserve(r, a) \/ Persist(r, a) \/ Defer(r, a)
             \/ FailService(r, a) \/ Adopt(r, a)
      PROVE  IInv'
  BY Zenon, <1>2, ResolveStep, ReserveStep, PersistStep, ReturnStep
<1>. QED
  BY Zenon, <1>1, <1>2, SettingsStep, PolicyStep, RequestStep DEF ServicesNext

(* Every reachable state has the four parts of the argument.               *)
LEMMA Invariance == ServicesSpec => []IInv
  BY InitIInv, Step, PTL DEF ServicesSpec

(* The settings, policies, approvals, rows and starts keep their types, the *)
(* snapshot a start resolves included.                                      *)
THEOREM ServicesTypes == ServicesSpec => []ServicesTypeOK
<1>1. IInv => ServicesTypeOK
  BY DEF IInv
<1>. QED
  BY <1>1, Invariance, PTL

(* No approval outlives its policy: UpsertForkSponsorshipApproval locks the *)
(* row of the policy it is for, and the delete takes both.                  *)
THEOREM ApprovalsHavePolicies == ServicesSpec => []ApprovalHasItsPolicy
<1>1. IInv => ApprovalHasItsPolicy
  BY DEF IInv
<1>. QED
  BY <1>1, Invariance, PTL

(* stopSandboxWithTimeout finds the service a sandbox was made with,        *)
(* whatever has been saved, linked, disabled or withdrawn since.            *)
THEOREM CleanupReaches == ServicesSpec => []CleanupFindsItsService
<1>1. IInv => CleanupFindsItsService
  <2>. SUFFICES ASSUME IInv, NEW r \in Requests, request[r].sandbox # "none", ~request[r].stray,
                       NEW service \in CleanupServices(r)
                PROVE  service.owner = request[r].sandbox
    BY Zenon DEF CleanupFindsItsService
  <2>1. request[r].snap.owner = request[r].sandbox
    BY Zenon DEF IInv, Sandboxes
  <2>2. request[r].snap # NoSnapshot
    BY <2>1 DEF NoSnapshot
  <2>3. service = [request[r].snap EXCEPT !.fork = FALSE]
    BY <2>2 DEF CleanupServices, Resolutions
  <2>4. request[r].snap \in Snapshot
    BY DEF IInv, ServicesTypeOK, Request
  <2>. QED
    BY <2>1, <2>3, <2>4 DEF Snapshot
<1>. QED
  BY <1>1, Invariance, PTL

\* Only Persist gives a request a sponsor.
LEMMA OnlyPersistGrants ==
  ASSUME IInv, ServicesNext, NEW r \in Requests,
         request[r].snap.sponsor = "none", request'[r].snap.sponsor # "none"
  PROVE  \E a \in 1..MaxStarts : Persist(r, a) /\ request[r] = start[<<r, a>>].seen
<1>1. request \in [Requests -> Request] /\ NoSnapshot.sponsor = "none"
  BY DEF IInv, ServicesTypeOK, NoSnapshot
<1>2. request' # request
  BY Zenon
<1>3. request'[r].snap \notin {request[r].snap, NoSnapshot}
  BY <1>1
<1>. DEFINE requeued(p) == request' = [request EXCEPT ![p] = Requeue(p)]
<1>0. \A p \in Requests : ~requeued(p)
  BY ZenonT(30), <1>1, <1>3 DEF Requeue, Request
<1>. HIDE DEF requeued
<1>4. ASSUME NEW p \in Requests, BeginStart(p) PROVE FALSE
  BY <1>1, <1>3, <1>4 DEF BeginStart, Request
<1>5. ASSUME NEW p \in Requests, StopServed(p) PROVE FALSE
  BY <1>1, <1>3, <1>5 DEF StopServed, Stopping, Request
<1>6. ASSUME NEW p \in Requests, EndRequest(p) \/ RetryEnded(p) PROVE FALSE
  <2>1. \/ \E end \in {"completed", "failed"} :
             request' = [request EXCEPT ![p].status = end, ![p].sandbox = "none"]
        \/ request' = [request EXCEPT ![p].status = "failed"]
    BY Zenon, <1>0, <1>6 DEF EndRequest, RetryEnded, requeued
  <2>. QED
    BY <1>1, <1>3, <2>1 DEF Request
<1>7. ASSUME NEW p \in Requests, NEW a \in 1..MaxStarts, Defer(p, a) \/ FailService(p, a) PROVE FALSE
  <2>1. request' = [request EXCEPT ![p].status = "failed", ![p].sandbox = "none"]
    BY Zenon, <1>0, <1>2, <1>7 DEF Defer, FailService, requeued
  <2>. QED
    BY <1>1, <1>3, <2>1 DEF Request
<1>8. ASSUME NEW p \in Requests, NEW a \in 1..MaxStarts, Adopt(p, a) PROVE FALSE
  BY <1>1, <1>2, <1>3, <1>8 DEF Adopt, Request
<1>9. ASSUME NEW p \in Requests, NEW a \in 1..MaxStarts, Persist(p, a)
      PROVE  p = r /\ request[r] = start[<<r, a>>].seen
  BY <1>1, <1>2, <1>3, <1>9 DEF Persist
<1>10. ASSUME NEW p \in Requests, NEW a \in 1..MaxStarts, Resolve(p, a) \/ Reserve(p, a) PROVE FALSE
  BY Zenon, <1>2, <1>10 DEF Resolve, Reserve
<1>11. ASSUME NEW s \in Sponsors, \/ CreatePolicy(s) \/ UpdatePolicy(s) \/ DeletePolicy(s)
                                  \/ BeginApproval(s) \/ SaveApproval(s) \/ DeleteApproval(s)
       PROVE  FALSE
  BY Zenon, <1>2, <1>11 DEF CreatePolicy, UpdatePolicy, DeletePolicy, BeginApproval, SaveApproval,
                            DeleteApproval
<1>12. ASSUME \/ \E s \in Scopes : SaveCustom(s) \/ DeleteKey(s)
              \/ \E s \in Installations : SaveInherit(s) \/ Link(s) \/ SetAudience(s)
              \/ SaveDefault \/ BeginKeepKey \/ SaveKeepKey \/ DeleteDefaultKey
       PROVE  FALSE
  BY Zenon, <1>2, <1>12 DEF SaveCustom, DeleteKey, SaveInherit, Link, SetAudience, SaveDefault,
                            BeginKeepKey, SaveKeepKey, DeleteDefaultKey
<1>. QED
  BY ZenonT(30), <1>4, <1>5, <1>6, <1>7, <1>8, <1>9, <1>10, <1>11, <1>12 DEF ServicesNext

\* The reservation of the start says the policy still is what was checked, and
\* that there is room for one more.
LEMMA GrantStep ==
  ASSUME IInv, ServicesNext, NEW r \in Requests,
         request[r].snap.sponsor = "none", request'[r].snap.sponsor # "none"
  PROVE  GrantInOrder(r)'
<1>1. PICK a \in 1..MaxStarts : Persist(r, a) /\ request[r] = start[<<r, a>>].seen
  BY Zenon, OnlyPersistGrants
<1>. DEFINE snap == start[<<r, a>>].snap
<1>2. /\ request \in [Requests -> Request] /\ snap \in Snapshot /\ SponsorshipOK
  BY DEF IInv, ServicesTypeOK, Starts, Start
<1>3. /\ UNCHANGED <<policy, approval>> /\ At(r, a, "reserved")
      /\ request' = [request EXCEPT ![r].snap = [snap EXCEPT !.fork = FALSE],
                                    ![r].stray = @ \/ ~Own(r, a)]
  BY Zenon, <1>1 DEF Persist, sponsorship
<1>4. request'[r].snap.sponsor = snap.sponsor /\ request'[r].snap.reason = snap.reason
  BY <1>2, <1>3 DEF Request, Snapshot
<1>5. StillSponsored(snap) /\ Cardinality(RunBy(snap.sponsor)) < policy.limit
  BY Zenon, <1>3, <1>4 DEF IInv, Reserved
<1>6. ASSUME NEW s PROVE RunBy(s)' \subseteq RunBy(s) \cup {r}
  BY <1>2, <1>3 DEF RunBy, SponsoredBy
<1>7. ASSUME NEW s, s = snap.sponsor PROVE Cardinality(RunBy(s)') <= policy'.limit
  <2>1. policy.limit \in Nat /\ policy' = policy
    BY <1>2, <1>3 DEF SponsorshipOK, Policy, NoPolicy
  <2>2. Cardinality(RunBy(s)) < policy.limit
    BY Zenon, <1>5, <1>7
  <2>3. /\ Cardinality(RunBy(s)) \in Nat /\ Cardinality(RunBy(s)') \in Nat
        /\ Cardinality(RunBy(s)') <= Cardinality(RunBy(s)) + 1
    BY Zenon, <1>6, OneMoreRun
  <2>. QED
    BY <2>1, <2>2, <2>3
<1>. QED
  BY Zenon, <1>3, <1>4, <1>5, <1>7 DEF GrantInOrder, StillSponsored

(* A sponsor is charged only under the policy, approval and limit in force  *)
(* at the write, whatever the interleaving of starts and withdrawals: the   *)
(* stripe of lockForkSponsorship spans check and write.                     *)
THEOREM GrantsInOrder == ServicesSpec => SponsorGrants
<1>1. IInv /\ [ServicesNext]_serviceVars =>
        [\A r \in Requests :
           request[r].snap.sponsor = "none" /\ request'[r].snap.sponsor # "none" => GrantInOrder(r)'
        ]_serviceVars
  BY Zenon, GrantStep
<1>. QED
  BY <1>1, Invariance, PTL DEF ServicesSpec, SponsorGrants

=============================================================================
