--------------------------- MODULE AutomationPolicy ---------------------------
(***************************************************************************)
(* core/automation_policy_service.py, worker/autopilot.py and the authority *)
(* checks of the submission worker: an operator signs a policy for form    *)
(* contracts that a canary proved; an application that passes every check  *)
(* of the policy gets a decision and a command in one transaction; the     *)
(* worker checks everything again at the commit boundary.                  *)
(***************************************************************************)
EXTENDS AdapterQualification

vars == <<clockVars, policyVars, qualificationVars, rowVars>>

Init == StateInit

----------------------------------------------------------------------------
(* The signed policy and the kill switch. *)

\* current_signed_policy
PolicyCurrent == policy.active /\ now < policy.until

\* activate_auto_submit_policy supersedes the policy that was active.
Activate(scope, limits) ==
    /\ policy.revision < MaxPolicies
    /\ scope # {} /\ \A c \in scope : ScopeQualified(c)
    /\ policy' = [revision |-> policy.revision + 1, active |-> TRUE, scope |-> scope,
                  limits |-> limits, profile |-> world.profile, artifacts |-> world.artifacts,
                  answers |-> world.answers, until |-> now + PolicyTTL]
    /\ UNCHANGED <<clockVars, kill, decision, qualificationVars, rowVars>>

\* revoke_auto_submit_policy
Revoke ==
    /\ policy.active
    /\ policy' = [policy EXCEPT !.active = FALSE]
    /\ UNCHANGED <<clockVars, kill, decision, qualificationVars, rowVars>>

\* set_automation_kill_switch, by the local operator.
SwitchKill ==
    /\ Drift
    /\ kill' = [kill EXCEPT !.active = ~@]
    /\ UNCHANGED <<now, world, running, policy, decision, qualificationVars, rowVars>>

\* set_automation_kill_switch, by the signed command of the control plane,
\* which is delivered again and again: only its first delivery counts.
RemoteKill ==
    /\ ~kill.remote
    /\ kill' = [active |-> TRUE, remote |-> TRUE]
    /\ UNCHANGED <<clockVars, policy, decision, qualificationVars, rowVars>>

----------------------------------------------------------------------------
(* Evaluation. *)

DayStart == now - (now % DayLength)
InActiveHours == now - DayStart < ActiveTicks

\* _require_current_artifact_bindings and latest_profile_version
BindingsCurrent == world.profile = policy.profile /\ world.artifacts = policy.artifacts

\* The fit decision and the application are the policy's.
FitMatches(a) ==
    /\ application[a].sameJob
    /\ application[a].profile = policy.profile
    /\ application[a].artifacts = policy.artifacts

\* validate_automation_inspection_candidate: what must hold before the
\* autopilot opens an employer's page.
InspectionCandidate(a) ==
    /\ PolicyCurrent /\ BindingsCurrent
    /\ ~kill.active /\ InActiveHours
    /\ application[a].draft
    /\ FitMatches(a)
    /\ world.answers = policy.answers
    /\ \E c \in policy.scope : ScopeQualified(c)

\* An inspection of the autopilot (AutopilotInspection has its leases).
AutopilotInspect(a, c) ==
    /\ InspectionCandidate(a) /\ InspectionQualified
    /\ OperatorInspect(a, c)

\* _usage_counts: allowed decisions, under whatever policy they were made.
Counted == {a \in Apps : decision[a].allowed}
Daily == Cardinality({a \in Counted : decision[a].at >= DayStart})
Hourly == Cardinality({a \in Counted : decision[a].at + Hour > now})
OfCompany(k) == Cardinality({a \in Counted : Company[a] = k /\ decision[a].at + Window > now})

Fault_LimitReached(a) ==
    \/ Daily > policy.limits.daily
    \/ Hourly > policy.limits.hourly
    \/ OfCompany(Company[a]) > policy.limits.company
LimitReached(a) ==
    \/ Daily >= policy.limits.daily
    \/ Hourly >= policy.limits.hourly
    \/ OfCompany(Company[a]) >= policy.limits.company

\* The reasons evaluate_auto_submit_policy finds: RETRYABLE_AUTOMATION_DENIALS
\* and all others.
RetryableReason(a) == kill.active \/ ~InActiveHours \/ LimitReached(a)
ReviewReason(a) ==
    \/ ~application[a].draft
    \/ ~FitMatches(a) \/ ~BindingsCurrent \/ plan[a].profile # policy.profile
    \/ world.answers # policy.answers
    \/ ~PlanReady(a)
    \/ plan[a].contract \notin policy.scope \/ ~ScopeQualified(plan[a].contract)

Evaluable(a) == PolicyCurrent /\ plan[a].made /\ ~decision[a].allowed

\* min(policy.expires_at, active_deadline, now + 5 minutes)
Fault_AuthorityDeadline == Sooner(policy.until, now + AuthorityTTL)
AuthorityDeadline == Sooner(Sooner(policy.until, now + AuthorityTTL), DayStart + ActiveTicks)

\* AutoSubmitDecisionV1 and _persist_decision
Allowed == [allowed |-> TRUE, policy |-> policy.revision, onPlan |-> TRUE,
            answers |-> world.answers, until |-> AuthorityDeadline, at |-> now]

\* dispatch_qualified_autopilot: the decision, the preparation and the command
\* in one transaction; a refused admission rolls all of it back.
Dispatch(a) ==
    /\ Evaluable(a) /\ ~RetryableReason(a) /\ ~ReviewReason(a)
    /\ Admissible(a) /\ LiveForPlan(a)
    /\ decision' = [decision EXCEPT ![a] = Allowed]
    /\ application' = [application EXCEPT ![a].prepared = TRUE]
    /\ attempt' = [attempt EXCEPT ![a] = Queued("autopilot")]
    /\ UNCHANGED <<clockVars, policy, kill, qualificationVars, plan, sends>>

----------------------------------------------------------------------------
(* The worker. *)

\* validate_current_automation_decision
Fault_DecisionValid(a) ==
    /\ decision[a].allowed /\ now < decision[a].until
    /\ PolicyCurrent /\ BindingsCurrent /\ decision[a].policy = policy.revision
    /\ InActiveHours
    /\ world.answers = decision[a].answers
    /\ decision[a].onPlan /\ plan[a].valid /\ now < plan[a].until
    /\ plan[a].contract \in policy.scope /\ ScopeQualified(plan[a].contract)
DecisionValid(a) ==
    /\ decision[a].allowed /\ now < decision[a].until
    /\ PolicyCurrent /\ BindingsCurrent /\ decision[a].policy = policy.revision
    /\ ~kill.active /\ InActiveHours
    /\ world.answers = decision[a].answers
    /\ decision[a].onPlan /\ plan[a].valid /\ now < plan[a].until
    /\ plan[a].contract \in policy.scope /\ ScopeQualified(plan[a].contract)

\* The claim and the commit boundary: the build, the plan and the authority.
Authorised(a) ==
    /\ attempt[a].release = running /\ ReleaseCurrent
    /\ PlanReady(a)
    /\ IF attempt[a].kind = "canary" THEN CanaryValid(a) ELSE DecisionValid(a)

CrossBoundary(a) ==
    /\ attempt[a].stage = "queued" /\ Authorised(a)
    /\ attempt' = [attempt EXCEPT ![a].stage = "committing"]
    /\ sends' = IF attempt[a].kind = "autopilot"
                  THEN sends \cup {<<plan[a].contract, running>>} ELSE sends
    /\ UNCHANGED <<clockVars, policyVars, qualificationVars, application, plan>>

RefuseBoundary(a) ==
    /\ attempt[a].stage = "queued" /\ ~Authorised(a)
    /\ attempt' = [attempt EXCEPT ![a].stage = "finished", ![a].outcome = "failed"]
    /\ application' = [application EXCEPT ![a].draft = FALSE]
    /\ UNCHANGED <<clockVars, policyVars, qualificationVars, plan, sends>>

\* The outcome is stored; a confirmed canary qualifies its contract.
Finish(a, outcome) ==
    /\ attempt[a].stage = "committing"
    /\ attempt' = [attempt EXCEPT ![a].stage = "finished", ![a].outcome = outcome]
    /\ application' = [application EXCEPT ![a].draft = FALSE]
    /\ live' = IF Promotes(a, outcome)
                 THEN live \cup {<<plan[a].contract, attempt[a].release>>} ELSE live
    /\ proved' = IF attempt[a].kind = "canary" /\ outcome = "confirmed"
                   THEN proved \cup {<<plan[a].contract, running>>} ELSE proved
    /\ UNCHANGED <<clockVars, policyVars, dryRun, canary, plan, sends>>

Next ==
    \/ Tick \/ Restart \/ Revoke \/ SwitchKill \/ RemoteKill
    \/ \E b \in DOMAIN world : WorldChanges(b)
    \/ \E scope \in SUBSET Contracts, limits \in LimitChoices : Activate(scope, limits)
    \/ \E a \in Apps :
          \/ EditApplication(a) \/ JobChanges(a) \/ DecideFit(a)
          \/ Approve(a) \/ AuthoriseCanary(a)
          \/ Dispatch(a) \/ CrossBoundary(a) \/ RefuseBoundary(a)
          \/ \E o \in {"confirmed", "unknown"} : Finish(a, o)
          \/ \E c \in Contracts :
                RecordDryRun(a, c) \/ OperatorInspect(a, c) \/ AutopilotInspect(a, c)

Spec == Init /\ [][Next]_vars

----------------------------------------------------------------------------
PolicyTypeOK ==
    /\ now \in 0 .. Horizon /\ running \in 0 .. world.release
    /\ policy.scope \subseteq Contracts
    /\ policy.active => policy.limits \in LimitChoices
    /\ live \subseteq Contracts \X (0 .. MaxDrifts)
    /\ \A a \in Apps :
          /\ decision[a].policy <= policy.revision /\ decision[a].at <= now
          /\ decision[a].allowed <=> attempt[a].kind = "autopilot"
          /\ canary[a].minted <=> attempt[a].kind = "canary"
          /\ plan[a].until <= now + PlanTTL

\* The signed limits hold over everything the autopilot was allowed to do,
\* under this policy or an earlier one: by the day, by the hour and by the
\* company, at the moment of each decision.
LimitsHold ==
    \A a \in Apps :
        decision[a].allowed /\ decision[a].at = now /\ decision[a].policy = policy.revision =>
            /\ Daily <= policy.limits.daily
            /\ Hourly <= policy.limits.hourly
            /\ OfCompany(Company[a]) <= policy.limits.company

\* The autopilot only acts on a form contract that this very release of the
\* runner submitted once before, with an employer's confirmation, whatever
\* was upgraded, restarted or re-inspected in between.
QualifiedByEmployer == sends \subseteq proved

\* Authority that was handed out never reaches beyond the active hours or the
\* policy it came from.
AuthorityInsideHours ==
    \A a \in Apps : now < decision[a].until =>
        /\ InActiveHours
        /\ decision[a].policy = policy.revision => decision[a].until <= policy.until

\* Nothing crosses the commit boundary for the autopilot while the kill
\* switch is on, for a policy that was revoked or superseded since the
\* decision, or for answers, CVs or a profile the policy was not signed for.
StoppedSendRefused ==
    \A a \in Apps :
        attempt[a].kind = "autopilot" /\ attempt[a].stage = "queued"
            /\ attempt'[a].stage = "committing" =>
          /\ ~kill.active
          /\ policy.active /\ decision[a].policy = policy.revision
          /\ <<world.profile, world.artifacts, world.answers>>
               = <<policy.profile, policy.artifacts, policy.answers>>
StopsReachTheBoundary == [][StoppedSendRefused]_vars

\* What the autopilot may do was earned, and is bounded: all of the above that
\* holds of states.
AuthorityIsEarned ==
    PolicyTypeOK /\ LimitsHold /\ AuthorityInsideHours /\ QualifiedByEmployer

----------------------------------------------------------------------------
(* The inductive invariant, by the rows it is about. *)

WorldHolds ==
    /\ now \in 0 .. Horizon /\ drifts \in 0 .. MaxDrifts
    /\ world \in [profile : Nat, artifacts : Nat, answers : Nat, release : Nat]
    /\ world.release <= drifts /\ running \in 0 .. world.release

\* Before the first policy there are no limits.
PolicyHolds ==
    /\ policy \in [revision : Nat, active : BOOLEAN, scope : SUBSET Contracts,
                  limits : {policy.limits}, profile : Nat, artifacts : Nat,
                  answers : Nat, until : Nat]
    /\ policy.active => policy.limits \in LimitChoices

\* A decision is of this policy or an earlier one; its authority ends with the day's
\* active hours, and while its policy is the newest, with that, too.
DecisionsHold ==
    /\ decision \in [Apps -> [allowed : BOOLEAN, policy : Nat, onPlan : BOOLEAN,
                              answers : Nat, until : Nat, at : Nat]]
    /\ \A a \in Apps :
          /\ decision[a].policy <= policy.revision /\ decision[a].at <= now
          /\ now < decision[a].until =>
                /\ decision[a].until <= DayStart + ActiveTicks
                /\ decision[a].policy = policy.revision => decision[a].until <= policy.until
          /\ decision[a].allowed /\ decision[a].policy = policy.revision =>
                decision[a].answers = policy.answers
    /\ LimitsHold

PlansHold ==
    /\ application \in [Apps -> [revision : Nat, draft : BOOLEAN, prepared : BOOLEAN,
                                 profile : Nat, artifacts : Nat, sameJob : BOOLEAN]]
    /\ plan \in [Apps -> [made : BOOLEAN, valid : BOOLEAN, revision : Nat, profile : Nat,
                          contract : Contracts \cup {"none"}, until : Nat]]
    /\ \A a \in Apps : /\ plan[a].made => plan[a].contract \in Contracts
                      /\ plan[a].until <= now + PlanTTL

\* A final action in flight is of the running release: a restart sweeps it up.
AttemptsHold ==
    /\ attempt \in [Apps -> [stage : {"none", "queued", "committing", "finished"},
                             kind : {"none", "canary", "autopilot"}, release : Nat,
                             outcome : {"none", "failed", "confirmed", "unknown"}]]
    /\ canary \in [Apps -> [minted : BOOLEAN, release : Nat, until : Nat]]
    /\ \A a \in Apps :
          /\ attempt[a].stage = "none" => attempt[a].kind = "none"
          /\ attempt[a].stage # "none" => plan[a].made
          /\ attempt[a].stage = "committing" => attempt[a].release = running
          /\ decision[a].allowed <=> attempt[a].kind = "autopilot"
          /\ canary[a].minted <=> attempt[a].kind = "canary"

QualificationHolds ==
    live \subseteq proved /\ sends \subseteq proved /\ live \subseteq Contracts \X (0 .. MaxDrifts)

PolicyInv ==
    /\ WorldHolds /\ PolicyHolds /\ DecisionsHold /\ PlansHold /\ AttemptsHold
    /\ QualificationHolds

=============================================================================
