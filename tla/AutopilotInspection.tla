------------------------- MODULE AutopilotInspection -------------------------
(***************************************************************************)
(* worker/autopilot_inspection.py: the leased runs that inspect an         *)
(* employer's form and dispatch it.  One application; a run belongs to one *)
(* revision of it and one policy.  Wakeups are Celery messages, which may  *)
(* be lost, late or doubled, so any worker may try to claim any run at any *)
(* time; the claim, each fence and each finish is one transaction.         *)
(*                                                                         *)
(* What AutomationPolicy decides is an oracle here: a check of the policy  *)
(* passes, or denies for a while (RETRYABLE_AUTOMATION_DENIALS), or denies *)
(* for good.                                                               *)
(***************************************************************************)
EXTENDS Naturals, FiniteSets

CONSTANTS
    Workers,
    Lease,         \* ticks of _INSPECTION_LEASE
    MaxClaims,     \* bound: claims
    MaxRevisions,  \* bound: revisions of the application
    MaxPolicies    \* bound: policies signed

VARIABLES
    app,           \* the application: its revision, review mark and autopilot commands
    active,        \* the active policy, 0 when there is none
    runs,          \* AutopilotInspectionRun rows, by revision and policy
    plan,          \* who wrote the newest form plan
    claims,        \* claim tokens handed out
    worker         \* what each worker is doing

vars == <<app, active, runs, plan, claims, worker>>

Keys == (1 .. MaxRevisions) \X (1 .. MaxPolicies)
NoRun == [state |-> "none", token |-> 0, left |-> 0, reason |-> "none"]
Idle == [at |-> "idle", run |-> <<0, 0>>, token |-> 0, result |-> "none"]

Init ==
    /\ app = [revision |-> 1, review |-> FALSE, commands |-> 0]
    /\ active = 1
    /\ runs = [k \in Keys |-> NoRun]
    /\ plan = [run |-> <<0, 0>>, token |-> 0]
    /\ claims = 0
    /\ worker = [w \in Workers |-> Idle]

\* lock_application_for_mutation refuses once a command is admitted.
Fault_MutationBlocked == FALSE
MutationBlocked == app.commands > 0

\* validate_automation_inspection_candidate: what of it the application's own
\* row decides.
CandidateRow == ~app.review

Verdicts == {"allowed", "retryable", "denied"}

\* A row with its lease, token and claim cleared.
Fault_Settled(state, reason) == [NoRun EXCEPT !.state = state, !.reason = reason, !.token = claims]
Settled(state, reason) == [NoRun EXCEPT !.state = state, !.reason = reason]

\* enqueue_qualified_autopilot_inspection, from the scan or after scoring.
Enqueue ==
    /\ active # 0 /\ CandidateRow
    /\ runs[<<app.revision, active>>].state = "none"
    /\ runs' = [runs EXCEPT ![<<app.revision, active>>] = Settled("queued", "none")]
    /\ UNCHANGED <<app, active, plan, claims, worker>>

\* _claim_inspection_run
LeaseLive(k) == runs[k].state = "running" /\ runs[k].left > 0

Fault_Claimable(k) == runs[k].state \in {"queued", "running"}
Claimable(k) == runs[k].state \in {"queued", "running"} /\ ~LeaseLive(k)

Claim(w, k, verdict) ==
    /\ worker[w].at = "idle" /\ Claimable(k)
    /\ LET current == k = <<app.revision, active>> /\ CandidateRow
       IN  CASE verdict = "retryable" ->
                  /\ runs' = [runs EXCEPT ![k] = Settled("queued", "none")]
                  /\ UNCHANGED <<claims, worker>>
             [] verdict # "retryable" /\ (verdict = "denied" \/ ~current) ->
                  /\ runs' = [runs EXCEPT ![k] =
                        Settled("finished", "refused")]
                  /\ UNCHANGED <<claims, worker>>
             [] OTHER ->
                  /\ claims < MaxClaims
                  /\ claims' = claims + 1
                  /\ runs' = [runs EXCEPT ![k] = [state |-> "running", token |-> claims',
                                                  left |-> Lease, reason |-> "none"]]
                  /\ worker' = [worker EXCEPT ![w] =
                        [at |-> "begin", run |-> k, token |-> claims', result |-> "none"]]
    /\ UNCHANGED <<app, active, plan>>

To(w, at, result) == worker' = [worker EXCEPT ![w].at = at, ![w].result = result]

\* inspect_and_dispatch_qualified_autopilot up to the inspection: a blocked
\* application ends the run without a mark, any other refusal is finalised.
Begin(w) ==
    /\ worker[w].at = "begin"
    /\ IF MutationBlocked THEN To(w, "finish", "blocked")
       ELSE \/ CandidateRow /\ To(w, "persist", "none")
            \/ \E v \in {"retryable", "denied"} : To(w, "finalize", v)
            \/ To(w, "mark", "failed")
    /\ UNCHANGED <<app, active, runs, plan, claims>>

\* _fence_inspection_run
Fault_Holds(w) == runs[worker[w].run].state = "running"
Holds(w) ==
    /\ runs[worker[w].run].state = "running"
    /\ runs[worker[w].run].token = worker[w].token
    /\ runs[worker[w].run].left > 0
Renewed(w) == [runs EXCEPT ![worker[w].run].left = Lease]

LeaseLost(w) == ~Holds(w) /\ To(w, "finish", "not_claimed") /\ UNCHANGED runs

\* The browser returned: fence, lock at the revision inspected, and
\* persist_inspected_form_plan; an inspection that failed writes nothing.
Persist(w) ==
    /\ worker[w].at = "persist"
    /\ \/ To(w, "finalize", "denied") /\ UNCHANGED <<runs, plan>>
       \/ LeaseLost(w) /\ UNCHANGED plan
       \/ /\ Holds(w) /\ (MutationBlocked \/ app.revision # worker[w].run[1])
          /\ To(w, "finalize", "denied")
          /\ UNCHANGED <<runs, plan>>
       \/ /\ Holds(w) /\ ~MutationBlocked /\ app.revision = worker[w].run[1]
          /\ runs' = Renewed(w)
          /\ plan' = [run |-> worker[w].run, token |-> worker[w].token]
          /\ To(w, "dispatch", "none")
    /\ UNCHANGED <<app, active, claims>>

\* The second fence and dispatch_qualified_autopilot: the decision and the
\* command, or a denial that marks the application unless it is retryable.
Admits == ~MutationBlocked

Dispatch(w, verdict) ==
    /\ worker[w].at = "dispatch"
    /\ \/ LeaseLost(w) /\ UNCHANGED app
       \/ /\ Holds(w)
          /\ runs' = Renewed(w)
          /\ \/ /\ verdict = "allowed" /\ Admits
                /\ active = worker[w].run[2] /\ app.revision = worker[w].run[1]
                /\ plan.token = worker[w].token
                /\ app' = [app EXCEPT !.commands = @ + 1]
                /\ To(w, "finish", "queued")
             \/ /\ verdict # "allowed"
                /\ app' = [app EXCEPT !.review = verdict = "denied"]
                /\ To(w, "finalize", verdict)
             \/ To(w, "finalize", "denied") /\ UNCHANGED app   \* admission refused, rolled back
             \/ To(w, "mark", "failed") /\ UNCHANGED app       \* any other exception
    /\ UNCHANGED <<active, plan, claims>>

\* _mark_quarantined: fence, lock, mark.
Quarantine(w) ==
    /\ runs' = IF MutationBlocked THEN runs ELSE Renewed(w)
    /\ app' = IF MutationBlocked THEN app ELSE [app EXCEPT !.review = TRUE]

\* _restore_retryable_inspection
Restorable(w) == ~MutationBlocked /\ app.revision = worker[w].run[1] /\ ~app.review

\* _finalize_autopilot_dispatch_result
Finalize(w) ==
    /\ worker[w].at = "finalize"
    /\ \/ LeaseLost(w) /\ UNCHANGED app
       \/ /\ Holds(w) /\ worker[w].result = "retryable" /\ Restorable(w)
          /\ runs' = [runs EXCEPT ![worker[w].run] = Settled("queued", "none")]
          /\ worker' = [worker EXCEPT ![w] = Idle]
          /\ UNCHANGED app
       \/ /\ Holds(w) /\ ~(worker[w].result = "retryable" /\ Restorable(w))
          /\ Quarantine(w)
          /\ To(w, "finish", "quarantined")
    /\ UNCHANGED <<active, plan, claims>>

\* execute_qualified_autopilot_inspection after an exception: the mark, or,
\* when that fails too, the lease is left to expire.
Mark(w) ==
    /\ worker[w].at = "mark"
    /\ \/ LeaseLost(w) /\ UNCHANGED app
       \/ Holds(w) /\ Quarantine(w) /\ To(w, "finish", "quarantined")
       \/ worker' = [worker EXCEPT ![w] = Idle] /\ UNCHANGED <<app, runs>>
    /\ UNCHANGED <<active, plan, claims>>

\* _finish_inspection_run
Finish(w) ==
    /\ worker[w].at = "finish"
    /\ runs' = IF Holds(w)
                 THEN [runs EXCEPT ![worker[w].run] =
                         Settled("finished", worker[w].result)]
                 ELSE runs
    /\ worker' = [worker EXCEPT ![w] = Idle]
    /\ UNCHANGED <<app, active, plan, claims>>

\* The worker process dies.
Crash(w) ==
    /\ worker[w].at # "idle"
    /\ worker' = [worker EXCEPT ![w] = Idle]
    /\ UNCHANGED <<app, active, runs, plan, claims>>

Tick ==
    /\ \E k \in Keys : runs[k].left > 0
    /\ runs' = [k \in Keys |-> [runs[k] EXCEPT !.left = IF @ = 0 THEN 0 ELSE @ - 1]]
    /\ UNCHANGED <<app, active, plan, claims, worker>>

\* The operator edits the application, or clears its review mark by it.
Edit ==
    /\ ~MutationBlocked /\ app.revision < MaxRevisions
    /\ app' = [app EXCEPT !.revision = @ + 1, !.review = FALSE]
    /\ UNCHANGED <<active, runs, plan, claims, worker>>

\* The operator signs a new policy.
Activate ==
    /\ active < MaxPolicies
    /\ active' = active + 1
    /\ UNCHANGED <<app, runs, plan, claims, worker>>

WorkerStep(w) ==
    \/ Begin(w) \/ Persist(w) \/ Finalize(w) \/ Mark(w) \/ Finish(w)
    \/ \E v \in Verdicts : Dispatch(w, v)

Next ==
    \/ Enqueue \/ Tick \/ Edit \/ Activate
    \/ \E w \in Workers :
          \/ WorkerStep(w) \/ Crash(w)
          \/ \E k \in Keys, v \in Verdicts : Claim(w, k, v)

Spec == Init /\ [][Next]_vars

----------------------------------------------------------------------------
InspectionTypeOK ==
    /\ \A k \in Keys :
          /\ runs[k].state \in {"none", "queued", "running", "finished"}
          /\ runs[k].left \in 0 .. Lease
          /\ runs[k].token > 0 <=> runs[k].state = "running"
    /\ plan.token <= claims

\* A worker whose lease went to a successor writes nothing over it: within a
\* run, plans come from ever later claims, a run that is claimed is finished
\* or requeued by its last claimant only, and never two workers hold it.
SuccessorKeepsRun ==
    /\ \A v, w \in Workers : v # w /\ worker[v].at # "idle" /\ worker[w].at # "idle"
          /\ worker[v].run = worker[w].run => ~(Holds(v) /\ Holds(w))
    /\ \A w \in Workers : worker[w].at = "dispatch" /\ plan.run = worker[w].run
          => plan.token >= worker[w].token

\* However often an application is inspected, by workers that overlap, crash
\* or outlive their lease, the autopilot queues it once.
OneAutopilotCommand == app.commands <= 1

\* A run that says a command was queued is right.
QueuedIsTrue == \A k \in Keys : runs[k].reason = "queued" => app.commands = 1

\* A worker that outlived its lease changes nothing of its successor's run, and
\* the application is queued once.
SuccessorPrevails ==
    InspectionTypeOK /\ SuccessorKeepsRun /\ OneAutopilotCommand /\ QueuedIsTrue

Places == {"idle", "begin", "persist", "dispatch", "finalize", "mark", "finish"}
Results == {"none", "blocked", "retryable", "denied", "failed", "not_claimed", "queued",
            "quarantined"}
RunRows == [state : {"none", "queued", "running", "finished"}, token : Nat,
            left : 0 .. Lease, reason : Results \cup {"refused"}]
WorkerStates == [at : Places, run : Keys \cup {<<0, 0>>}, token : Nat, result : Results]

InspectionShape ==
    /\ app \in [revision : 1 .. MaxRevisions, review : BOOLEAN, commands : {0, 1}]
    /\ active \in 1 .. MaxPolicies
    /\ runs \in [Keys -> RunRows]
    /\ plan.token \in Nat /\ plan.token <= claims /\ claims \in Nat
    /\ worker \in [Workers -> WorkerStates]

\* A token is handed out once, and a run that is claimed has the newest of those
\* handed out for it.
TokensFollow ==
    /\ \A k \in Keys : runs[k].token <= claims
                     /\ (runs[k].token > 0 <=> runs[k].state = "running")
    /\ \A w \in Workers : worker[w].at # "idle" =>
          /\ worker[w].run \in Keys /\ worker[w].token \in 1 .. claims
          /\ runs[worker[w].run].state = "running" =>
                worker[w].token <= runs[worker[w].run].token
    /\ \A v, w \in Workers : v # w /\ worker[v].at # "idle" /\ worker[w].at # "idle" =>
          worker[v].token # worker[w].token

\* A worker that is about to dispatch wrote the plan or was overtaken.
PlanIsNewest ==
    \A w \in Workers : worker[w].at = "dispatch" /\ plan.run = worker[w].run
        => plan.token >= worker[w].token

QueuedOnce ==
    /\ \A k \in Keys : runs[k].reason = "queued" => app.commands = 1
    /\ \A w \in Workers : worker[w].result = "queued" => app.commands = 1

\* The inductive invariant of the leased runs.
InspectionInv == InspectionShape /\ TokensFollow /\ PlanIsNewest /\ QueuedOnce

=============================================================================
