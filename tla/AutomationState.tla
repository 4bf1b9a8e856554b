--------------------------- MODULE AutomationState ---------------------------
(***************************************************************************)
(* The rows that qualified autopilot reads and writes: the signed policy,  *)
(* the kill switch, policy decisions, adapter qualifications and canaries, *)
(* and, of each application, its row, its newest form plan and its attempt *)
(* (SubmissionKernel has those in full; here an application has one        *)
(* attempt, and the operator's retries are left to the kernel).            *)
(*                                                                         *)
(* A digest is the version number of what it hashes.  Every mutation of    *)
(* authority holds lock_automation_authority_fence, so each transaction is *)
(* one step.                                                               *)
(***************************************************************************)
EXTENDS Naturals, FiniteSets

CONSTANTS
    Apps,
    Company,       \* the employer of each application
    Contracts,     \* form contract digests the employers' forms may have
    LimitChoices,  \* [hourly, daily, company] an operator may sign
    DayLength,     \* ticks of a day
    ActiveTicks,   \* of these, the first ones are the active hours
    Hour,          \* ticks of the hourly window
    Window,        \* ticks of the company window, company_window_days
    PolicyTTL, PlanTTL, AuthorityTTL, CanaryTTL,
    Starts,        \* [qualified, drifts]: contracts that earlier canaries of this release
                   \*   proved, and how many of the MaxDrifts changes are over
    Horizon,       \* bound: ticks of time
    MaxPolicies,   \* bound: policies signed
    MaxDrifts      \* bound: changes of the world and of applications, and re-inspections

VARIABLES
    now,
    world,         \* versions of what a policy is bound to, and of the source on disk
    running,       \* the release the runner's processes loaded
    policy,        \* the newest automation_policy_revisions row
    kill,          \* the latest kill switch event, and whether the remote command was applied
    application,   \* Application rows with their job and fit decision
    plan,          \* the newest FormPlan row of each application
    decision,      \* its allowed ApplicationPolicyDecision row
    dryRun,        \* its newest dry-run qualification
    live,          \* live qualifications: contract and runner release
    canary,        \* its QualificationCanaryAuthorization
    attempt,       \* its Submission
    sends,         \* contract and release of every final action of the autopilot
    proved,        \* contract and release of every canary an employer confirmed
    drifts         \* changes so far

policyVars == <<policy, kill, decision>>
qualificationVars == <<dryRun, live, canary, proved>>
rowVars == <<application, plan, attempt, sends>>
clockVars == <<now, world, running, drifts>>

NoPlan == [made |-> FALSE, valid |-> FALSE, revision |-> 0, profile |-> 0, contract |-> "none",
           until |-> 0]
NoDecision == [allowed |-> FALSE, policy |-> 0, onPlan |-> FALSE, answers |-> 0, until |-> 0,
               at |-> 0]
NoDryRun == [made |-> FALSE, release |-> 0]
NoCanary == [minted |-> FALSE, release |-> 0, until |-> 0]
NoAttempt == [stage |-> "none", kind |-> "none", release |-> 0, outcome |-> "none"]
NoPolicy == [revision |-> 0, active |-> FALSE, scope |-> {}, limits |-> "none",
             profile |-> 0, artifacts |-> 0, answers |-> 0, until |-> 0]

StateInit ==
    /\ now = 0
    /\ world = [profile |-> 0, artifacts |-> 0, answers |-> 0, release |-> 0]
    /\ running = 0
    /\ policy = NoPolicy
    /\ kill = [active |-> FALSE, remote |-> FALSE]
    /\ application = [a \in Apps |->
          [revision |-> 1, draft |-> TRUE, prepared |-> FALSE, profile |-> 0, artifacts |-> 0,
           sameJob |-> TRUE]]
    /\ plan = [a \in Apps |-> NoPlan]
    /\ decision = [a \in Apps |-> NoDecision]
    /\ dryRun = [a \in Apps |-> NoDryRun]
    /\ canary = [a \in Apps |-> NoCanary]
    /\ attempt = [a \in Apps |-> NoAttempt]
    /\ \E s \in Starts : live = s.qualified \X {0} /\ drifts = s.drifts
    /\ proved = live
    /\ sends = {}

----------------------------------------------------------------------------
(* Application rows. *)

\* lock_application_for_mutation, for a change of content.
MutationBlocked(a) == attempt[a].stage # "none"

\* The domain plan's ready_for_permit_at, for the application as it is.
PlanReady(a) ==
    /\ plan[a].made /\ plan[a].valid /\ now < plan[a].until
    /\ plan[a].revision = application[a].revision

Drift == drifts < MaxDrifts /\ drifts' = drifts + 1

\* persist_inspected_form_plan: the new row, and every older one invalid, so
\* that what was decided or qualified on them is no longer on the plan.
PersistPlan(a, c) ==
    /\ plan' = [plan EXCEPT ![a] =
          [made |-> TRUE, valid |-> TRUE, revision |-> application[a].revision,
           profile |-> application[a].profile, contract |-> c, until |-> now + PlanTTL]]
    /\ decision' = [decision EXCEPT ![a].onPlan = FALSE]
    /\ IF plan[a].made THEN Drift ELSE UNCHANGED drifts
    /\ UNCHANGED <<now, world, running>>

----------------------------------------------------------------------------
(* The world around the rows. *)

\* A new profile version, CV or fit report, answer, or release on disk.
WorldChanges(b) ==
    /\ Drift
    /\ world' = [world EXCEPT ![b] = @ + 1]
    /\ UNCHANGED <<now, running, policyVars, qualificationVars, rowVars>>

\* The runner is restarted on the source that is on disk; a final action in
\* flight is swept up as unknown.
Restart ==
    /\ running # world.release
    /\ running' = world.release
    /\ attempt' = [a \in Apps |->
          IF attempt[a].stage = "committing"
            THEN [attempt[a] EXCEPT !.stage = "finished", !.outcome = "unknown"]
            ELSE attempt[a]]
    /\ UNCHANGED <<now, world, drifts, policyVars, qualificationVars, application, plan, sends>>

\* The operator edits an application: bump_application_revision and
\* invalidate_form_plans.
EditApplication(a) ==
    /\ Drift
    /\ ~MutationBlocked(a)
    /\ application' = [application EXCEPT
          ![a].revision = @ + 1, ![a].prepared = FALSE]
    /\ plan' = [plan EXCEPT ![a].valid = FALSE]
    /\ UNCHANGED <<now, world, running, policyVars, qualificationVars, attempt, sends>>

\* Discovery or the bridge stores a changed posting.
JobChanges(a) ==
    /\ Drift
    /\ application[a].sameJob
    /\ application' = [application EXCEPT ![a].sameJob = FALSE]
    /\ UNCHANGED <<now, world, running, policyVars, qualificationVars, plan, attempt, sends>>

\* Scoring decides the fit anew, with the current profile and CVs.
DecideFit(a) ==
    LET fresh == [application[a] EXCEPT !.profile = world.profile, !.artifacts = world.artifacts,
                                        !.sameJob = TRUE]
    IN  /\ ~MutationBlocked(a) /\ fresh # application[a]
        /\ application' = [application EXCEPT ![a] = fresh]
        /\ UNCHANGED <<clockVars, policyVars, qualificationVars, plan, attempt, sends>>

Tick ==
    /\ now < Horizon
    /\ now' = now + 1
    /\ UNCHANGED <<world, running, drifts, policyVars, qualificationVars, rowVars>>

=============================================================================
