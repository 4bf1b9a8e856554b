------------------------- MODULE AdapterQualification -------------------------
(***************************************************************************)
(* core/adapter_qualification_service.py: an adapter build earns final     *)
(* authority for one form contract in three steps, each bound to the exact *)
(* runner release: a dry run on a real form, a canary the operator         *)
(* authorises for one application, and the employer's confirmation of it.  *)
(***************************************************************************)
EXTENDS AutomationState

\* _current_runner_release: known only while the source on disk is the one
\* the processes loaded.
ReleaseCurrent == running = world.release

\* scope_has_live_qualification
Fault_ScopeQualified(c) == \E r \in 0 .. running : <<c, r>> \in live
ScopeQualified(c) == ReleaseCurrent /\ <<c, running>> \in live

\* effective_inspection_descriptor: some qualification of this build, dry run
\* or live.
InspectionQualified ==
    /\ ReleaseCurrent
    /\ \/ \E a \in Apps : dryRun[a].made /\ dryRun[a].release = running
       \/ \E c \in Contracts : <<c, running>> \in live

\* effective_live_descriptor_for_plan and _validate_adapter
LiveForPlan(a) == ScopeQualified(plan[a].contract)

\* An inspection in qualification mode, and record_dry_run_qualification in
\* the same transaction.
RecordDryRun(a, c) ==
    /\ ~MutationBlocked(a) /\ application[a].draft
    /\ ReleaseCurrent
    /\ PersistPlan(a, c)
    /\ dryRun' = [dryRun EXCEPT ![a] = [made |-> TRUE, release |-> running]]
    /\ UNCHANGED <<policy, kill, live, canary, proved, application, attempt, sends>>

\* Any other inspection: what was qualified belongs to an older plan.
OperatorInspect(a, c) ==
    /\ ~MutationBlocked(a) /\ application[a].draft
    /\ PersistPlan(a, c)
    /\ dryRun' = [dryRun EXCEPT ![a] = NoDryRun]
    /\ UNCHANGED <<policy, kill, live, canary, proved, application, attempt, sends>>

\* The operator approves what was reviewed (mark_locked_application_prepared).
Approve(a) ==
    /\ ~MutationBlocked(a) /\ application[a].draft /\ ~application[a].prepared
    /\ application' = [application EXCEPT ![a].prepared = TRUE]
    /\ UNCHANGED <<clockVars, policyVars, qualificationVars, plan, attempt, sends>>

\* _create_one: what every admission requires, whatever authorises it.
Admissible(a) ==
    /\ application[a].draft /\ attempt[a].stage = "none"
    /\ PlanReady(a)
    /\ ReleaseCurrent                                \* _require_runtime

Queued(kind) == [stage |-> "queued", kind |-> kind, release |-> running, outcome |-> "none"]

\* The canary route: mint_qualification_canary_authorization and the
\* admission that consumes it, in one transaction.
Sooner(x, y) == IF x < y THEN x ELSE y

AuthoriseCanary(a) ==
    /\ Admissible(a) /\ application[a].prepared
    /\ dryRun[a].made /\ dryRun[a].release = running
    /\ canary' = [canary EXCEPT ![a] =
          [minted |-> TRUE, release |-> running, until |-> Sooner(plan[a].until, now + CanaryTTL)]]
    /\ attempt' = [attempt EXCEPT ![a] = Queued("canary")]
    /\ UNCHANGED <<clockVars, policyVars, dryRun, live, proved, application, plan, sends>>

\* validate_qualification_canary_authorization, of a consumed authorization.
CanaryValid(a) ==
    /\ canary[a].minted /\ now < canary[a].until
    /\ canary[a].release = attempt[a].release
    /\ dryRun[a].made

\* record_live_canary_confirmation, after the employer confirmed; a failure
\* to record it does not touch the outcome.
Fault_Promotes(a, outcome) == attempt[a].kind = "canary"
Promotes(a, outcome) == attempt[a].kind = "canary" /\ outcome = "confirmed" /\ CanaryValid(a)

=============================================================================
