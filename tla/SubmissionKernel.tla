--------------------------- MODULE SubmissionKernel ---------------------------
(***************************************************************************)
(* The submission kernel: how one reviewed application becomes at most one *)
(* employer-visible final action, and what the database says about it      *)
(* afterwards.  Operators (the API and the WhatsApp buttons) edit, inspect,*)
(* prepare, send, skip and reconcile applications; Celery workers claim    *)
(* durable commands and drive a browser through them; a sweeper redelivers *)
(* or quarantines stale claims.  Workers stall, crash and race.            *)
(*                                                                         *)
(* Every database transaction that takes the application row lock is one   *)
(* step.  The only lock held across steps is the one a worker keeps during *)
(* the irreversible browser call (pc "clicking" and "clicked").            *)
(*                                                                         *)
(* Time is kept as remaining lifetimes (plans, permits, prepared handles)  *)
(* and ages (claims) that Tick moves, so no clock has to be bounded.  A    *)
(* timestamp t of the code with t <= now is a lifetime of 0.               *)
(*                                                                         *)
(* job.status is written together with application.status by every         *)
(* transaction modelled here and is folded into it.                        *)
(***************************************************************************)
EXTENDS Naturals, FiniteSets, SubmissionState

CONSTANTS
    Apps,          \* applications
    Workers,       \* Celery worker processes
    Keys,          \* client idempotency keys
    Tokens,        \* claim tokens (secrets.token_hex)
    NoApp, NoKey, NoToken,
    MaxAttempts,   \* bound: attempts ever admitted
    MaxRevision,   \* bound: content revisions of one application
    MaxPlans,      \* bound: form plans ever stored for one application
    MaxCrashes,    \* bound: worker crashes
    PermitTTL,     \* submit_permit_ttl_seconds
    ClaimTTL,      \* submission_command_claim_ttl_seconds
    PlanTTL,       \* form_plan_ttl_minutes
    HandleTTL      \* lifetime of a prepared final action

ASSUME CountsAssumption ==
    /\ MaxAttempts \in Nat /\ MaxRevision \in Nat \ {0}
    /\ MaxPlans \in Nat /\ MaxCrashes \in Nat

ASSUME LifetimesAssumption ==
    /\ PermitTTL \in Nat \ {0} /\ ClaimTTL \in Nat \ {0}
    /\ PlanTTL \in Nat \ {0} /\ HandleTTL \in Nat \ {0}

ASSUME AbsentAssumption ==
    /\ NoApp \notin Apps /\ NoKey \notin Keys /\ NoToken \notin Tokens

VARIABLES
    application,   \* Application rows
    plan,          \* the newest FormPlan row of each application
    attempt,       \* Submission rows with their FinalSubmitPermit
    command,       \* SubmissionCommand rows
    worker,        \* what each worker process holds in memory
    inspection,    \* revision an in-flight browser inspection started from, or 0
    clicks,        \* final actions the employer has seen, per attempt
    crashes        \* worker crashes so far

vars == <<application, plan, attempt, command, worker, inspection, clicks, crashes>>

Attempts == 1 .. MaxAttempts

-----------------------------------------------------------------------------
(***************************************************************************)
(* Row and process state.                                                  *)
(***************************************************************************)
Statuses      == {"draft", "needs_review", "submitted", "failed", "skipped"}
Sources       == {"none", "manual_prepare", "whatsapp_prepare", "retry_prepare"}
Revisions     == 1 .. MaxRevision
RevisionRefs  == 0 .. MaxRevision               \* 0 is NULL
AppRefs       == Apps \cup {NoApp}
KeyRefs       == Keys \cup {NoKey}
PlanIds       == 0 .. MaxPlans                  \* 0: no plan yet
AttemptStages == Stages \cup {"absent"}
AttemptResults == Outcomes \cup {"none"}
CommandStates == {"absent", "pending", "claimed", "completed", "cancelled"}
ClaimTokens   == Tokens \cup {NoToken}
PermitLives   == 0 .. PermitTTL
PlanLives     == 0 .. PlanTTL
HandleLives   == 0 .. HandleTTL
ClaimAges     == 0 .. ClaimTTL + 1              \* saturating
PCs           == {"idle", "claimed", "refusing", "accepted", "preflight", "ready",
                  "boundary", "clicking", "clicked"}
CommandRefs   == 0 .. MaxAttempts               \* a command's id is its attempt's id
Reasons       == {"none",
                  "FORM_CHANGED",               \* FORM_CHANGED or SELECTOR_DRIFT
                  "REFUSED"}                    \* any other reason code

ApplicationRow ==
    [status : Statuses,
     revision : Revisions,
     preparedRevision : RevisionRefs,
     source : Sources,                          \* approval_source
     eligible : BOOLEAN]                        \* material_eligible

\* Storing a plan invalidates every earlier plan of the application, so only
\* the newest row can be valid: older rows are known by their id alone.
PlanRow ==
    [id : PlanIds,
     revision : RevisionRefs,
     left : PlanLives,                          \* until expires_at
     active : BOOLEAN,                          \* invalidated_at IS NULL
     ready : BOOLEAN]                           \* no blockers, attachment verified

AttemptRow ==
    [app : AppRefs, key : KeyRefs,
     revision : RevisionRefs, plan : PlanIds,
     stage : AttemptStages, outcome : AttemptResults,
     reconciled : BOOLEAN,                      \* reconciled_at IS NOT NULL
     permitLeft : PermitLives,                  \* until the permit's expires_at
     consumed : BOOLEAN]                        \* the permit's consumed_at, final_action_at

CommandRow ==
    [state : CommandStates,
     token : ClaimTokens,
     age : ClaimAges,                           \* since claimed_at
     redelivered : BOOLEAN]                     \* SAFE_PRECOMMIT_REDELIVERY happened

WorkerState ==
    [pc : PCs, cmd : CommandRefs, token : ClaimTokens, reason : Reasons,
     handle : HandleLives]                      \* until PreparedFinalActionV1 expires

TypeOK ==
    /\ application \in [Apps -> ApplicationRow]
    /\ plan \in [Apps -> PlanRow]
    /\ attempt \in [Attempts -> AttemptRow]
    /\ command \in [Attempts -> CommandRow]
    /\ worker \in [Workers -> WorkerState]
    /\ inspection \in [Apps -> RevisionRefs]
    /\ clicks \in [Attempts -> Nat]
    /\ crashes \in 0 .. MaxCrashes

NoAttempt == [app |-> NoApp, key |-> NoKey, revision |-> 0, plan |-> 0,
              stage |-> "absent", outcome |-> "none", reconciled |-> FALSE,
              permitLeft |-> 0, consumed |-> FALSE]

Idle == [pc |-> "idle", cmd |-> 0, token |-> NoToken, reason |-> "none", handle |-> 0]

Init ==
    /\ application = [p \in Apps |-> [status |-> "draft", revision |-> 1,
                                      preparedRevision |-> 0, source |-> "none",
                                      eligible |-> TRUE]]
    /\ plan = [p \in Apps |-> [id |-> 0, revision |-> 0, left |-> 0,
                               active |-> FALSE, ready |-> FALSE]]
    /\ attempt = [a \in Attempts |-> NoAttempt]
    /\ command = [a \in Attempts |-> [state |-> "absent", token |-> NoToken,
                                      age |-> 0, redelivered |-> FALSE]]
    /\ worker = [w \in Workers |-> Idle]
    /\ inspection = [p \in Apps |-> 0]
    /\ clicks = [a \in Attempts |-> 0]
    /\ crashes = 0

-----------------------------------------------------------------------------
(***************************************************************************)
(* Reads shared by several handlers.                                       *)
(***************************************************************************)
History(p) == {a \in Attempts : attempt[a].app = p}

\* ORDER BY attempt_number DESC: ids and attempt numbers grow together.
IsLatest(a, p) == a \in History(p) /\ \A b \in History(p) : b <= a

Unfinished(a) == attempt[a].stage \in PreCommit \cup PostCommit

\* A worker inside the irreversible call holds the application row lock.
Locked(p) == \E w \in Workers : /\ worker[w].pc \in {"clicking", "clicked"}
                                /\ attempt[worker[w].cmd].app = p

\* preparation_is_current: approved_at and prepared_revision are set and
\* cleared together.
PreparationIsCurrent(p) ==
    /\ application[p].preparedRevision # 0
    /\ application[p].preparedRevision = application[p].revision

\* _form_plan_review_ready of the newest plan.
ReviewReady(p) ==
    /\ plan[p].active /\ plan[p].ready /\ plan[p].left > 0
    /\ plan[p].revision = application[p].revision
    /\ application[p].eligible

\* Mutant: COMMITTING still counts as reversible and the permit is not looked at.
Fault_CrossedBoundary(a) == attempt[a].stage = "verifying"

\* crossed_boundary as the sweeper and the mutation lock compute it.
CrossedBoundary(a) == attempt[a].stage \in PostCommit \/ attempt[a].consumed

\* Mutant: only an attempt beyond the boundary blocks a new preparation or edit.
Fault_MutationAllowed(p, intent) ==
    /\ ~Locked(p)
    /\ \A a \in History(p) : attempt[a].outcome \notin ImmutableOutcomes
    /\ application[p].status # "submitted"
    /\ intent # "terminal" => application[p].status # "skipped"
    /\ \A a \in History(p) : IsLatest(a, p) /\ Unfinished(a) => ~CrossedBoundary(a)

\* lock_application_for_mutation grants the row to this intent.
MutationAllowed(p, intent) ==
    /\ ~Locked(p)
    /\ \A a \in History(p) : attempt[a].outcome \notin ImmutableOutcomes
    /\ application[p].status # "submitted"
    /\ intent # "terminal" => application[p].status # "skipped"
    /\ \A a \in History(p) :
           IsLatest(a, p) /\ Unfinished(a) =>
               /\ ~CrossedBoundary(a)
               /\ command[a].state \notin {"completed", "cancelled"}
               /\ intent = "terminal"

\* bump_application_revision: the new content identity revokes every review
\* and every plan bound to the old one.
Bumped(row, status, eligible) ==
    [status |-> status, revision |-> row.revision + 1, preparedRevision |-> 0,
     source |-> "none", eligible |-> eligible]

-----------------------------------------------------------------------------
(***************************************************************************)
(* Operator handlers.  A refused request changes nothing and is no step.   *)
(***************************************************************************)

\* New content under a new revision; materials that passed their audit or not.
RewriteContent(p, eligible) ==
    /\ MutationAllowed(p, "content")
    /\ application[p].revision < MaxRevision
    /\ application' = [application EXCEPT ![p] = Bumped(@, "draft", eligible)]
    /\ plan' = [plan EXCEPT ![p].active = FALSE]
    /\ UNCHANGED <<attempt, command, worker, inspection, clicks, crashes>>

\* Another CV, by routing or by override: the material audit is dropped with it.
RerouteCv(p) == RewriteContent(p, FALSE)

\* generate_application_task on an existing application, and realign_application:
\* the LLM runs without a lock, and what it wrote is kept only when the revision
\* it was generated for is still current.
Regenerate(p) == \E eligible \in BOOLEAN : RewriteContent(p, eligible)

EditContent(p) == RerouteCv(p) \/ Regenerate(p)

\* First half of inspect: read the review inputs, drop the lock, open a browser.
InspectStart(p) ==
    /\ inspection[p] = 0
    /\ MutationAllowed(p, "content")
    /\ application[p].status = "draft" /\ application[p].eligible
    /\ inspection' = [inspection EXCEPT ![p] = application[p].revision]
    /\ UNCHANGED <<application, plan, attempt, command, worker, clicks, crashes>>

\* Second half: relock, prove the revision did not move while the browser was
\* open, revoke the preparation and every older plan, store the new one.
InspectPersist(p) ==
    /\ inspection[p] # 0
    /\ MutationAllowed(p, "content")
    /\ application[p].revision = inspection[p]
    /\ plan[p].id < MaxPlans
    /\ application' = [application EXCEPT ![p].preparedRevision = 0, ![p].source = "none"]
    /\ \E r \in BOOLEAN :
           plan' = [plan EXCEPT ![p] = [id |-> @.id + 1, revision |-> inspection[p],
                                        left |-> PlanTTL, active |-> TRUE, ready |-> r]]
    /\ inspection' = [inspection EXCEPT ![p] = 0]
    /\ UNCHANGED <<attempt, command, worker, clicks, crashes>>

\* The browser fails, or the relock is refused: nothing is written.
InspectAbandon(p) ==
    /\ inspection[p] # 0
    /\ inspection' = [inspection EXCEPT ![p] = 0]
    /\ UNCHANGED <<application, plan, attempt, command, worker, clicks, crashes>>

\* confirm_application_answer: clone the plan under a bumped revision.
ConfirmAnswer(p) ==
    /\ MutationAllowed(p, "content")
    /\ plan[p].active /\ plan[p].left > 0
    /\ plan[p].revision = application[p].revision
    /\ application[p].revision < MaxRevision /\ plan[p].id < MaxPlans
    /\ application' = [application EXCEPT ![p] = Bumped(@, "draft", @.eligible)]
    /\ \E r \in BOOLEAN :
           plan' = [plan EXCEPT ![p].id = @ + 1, ![p].ready = r,
                                ![p].revision = application[p].revision + 1]
    /\ UNCHANGED <<attempt, command, worker, inspection, clicks, crashes>>

\* mark_locked_application_prepared: a preparation that is already current is
\* kept as it is, its source included.
MarkPrepared(p, source) ==
    application' = IF PreparationIsCurrent(p) THEN application
                   ELSE [application EXCEPT
                            ![p].status = "draft", ![p].source = source,
                            ![p].preparedRevision = application[p].revision]

Prepare(p, source) ==
    /\ MutationAllowed(p, "prepare")
    /\ application[p].status = "draft" /\ ~PreparationIsCurrent(p)
    /\ MarkPrepared(p, source)
    /\ UNCHANGED <<plan, attempt, command, worker, inspection, clicks, crashes>>

\* approve_application and its batch form.
Approve(p) == ReviewReady(p) /\ Prepare(p, "manual_prepare")

\* The WhatsApp button asks for a selected CV but for no reviewed plan.
WhatsAppApprove(p) == Prepare(p, "whatsapp_prepare")

\* retry_application.
Retry(p) ==
    /\ MutationAllowed(p, "prepare")
    /\ \E a \in History(p) : /\ IsLatest(a, p)
                             /\ attempt[a].outcome \in {"failed_before_commit", "draft_only"}
    /\ ReviewReady(p)
    /\ application[p].status \in {"draft", "failed", "needs_review"}
    /\ MarkPrepared(p, "retry_prepare")
    /\ UNCHANGED <<plan, attempt, command, worker, inspection, clicks, crashes>>

\* Mutant: the in-progress attempt is not looked for.
Fault_Admissible(p) ==
    /\ ~Locked(p)
    /\ application[p].status = "draft" /\ PreparationIsCurrent(p)
    /\ \A a \in History(p) : attempt[a].outcome \notin ImmutableOutcomes
    /\ \A a \in History(p) : IsLatest(a, p) /\ attempt[a].stage = "finished" =>
           /\ attempt[a].outcome \in {"failed_before_commit", "draft_only"}
           /\ application[p].source = "retry_prepare"
    /\ ReviewReady(p)

\* _create_one admits a fresh request; one that repeats a known key is answered
\* with the attempt it made the first time and changes nothing.
Admissible(p) ==
    /\ ~Locked(p)
    /\ application[p].status = "draft" /\ PreparationIsCurrent(p)
    /\ \A a \in History(p) : attempt[a].outcome \notin ImmutableOutcomes
    /\ \A a \in History(p) : IsLatest(a, p) /\ attempt[a].stage = "finished" =>
           /\ attempt[a].outcome \in {"failed_before_commit", "draft_only"}
           /\ application[p].source = "retry_prepare"
    /\ \A a \in History(p) : ~Unfinished(a)
    /\ ReviewReady(p)

\* Mutant: a replay is only recognised while the attempt is in progress.
Fault_KnownKey(k) == \E a \in Attempts : attempt[a].key = k /\ Unfinished(a)

KnownKey(k) == \E a \in Attempts : attempt[a].key = k

\* Mutant: the permit is not clipped to the plan's expiry.
Fault_PermitLifetime(p) == PermitTTL

\* issue_final_submit_permit: never beyond the plan it is bound to.
PermitLifetime(p) == IF plan[p].left < PermitTTL THEN plan[p].left ELSE PermitTTL

Submit(p, k) ==
    /\ ~KnownKey(k)
    /\ Admissible(p)
    /\ \E a \in Attempts :
           /\ attempt[a].stage = "absent"
           /\ \A b \in 1 .. a - 1 : attempt[b].stage # "absent"
           /\ attempt' = [attempt EXCEPT ![a] =
                  [app |-> p, key |-> k, revision |-> application[p].revision,
                   plan |-> plan[p].id, stage |-> "queued", outcome |-> "none",
                   reconciled |-> FALSE, permitLeft |-> PermitLifetime(p),
                   consumed |-> FALSE]]
           /\ command' = [command EXCEPT ![a].state = "pending"]
    /\ UNCHANGED <<application, plan, worker, inspection, clicks, crashes>>

\* transition_locked_application_to_skipped, called by reject, by the WhatsApp
\* skip button and by the expiry of stale jobs: cancel reversible work, revoke
\* the review, close the application.
Skip(p) ==
    /\ MutationAllowed(p, "terminal")
    /\ application[p].status # "skipped" \/ \E a \in History(p) : Unfinished(a)
    /\ application[p].revision < MaxRevision
    /\ LET cancelled == {a \in History(p) : IsLatest(a, p) /\ Unfinished(a)}
       IN  /\ attempt' = [a \in Attempts |->
                  IF a \in cancelled
                  THEN [attempt[a] EXCEPT !.stage = "finished",
                                          !.outcome = "failed_before_commit"]
                  ELSE attempt[a]]
           /\ command' = [a \in Attempts |->
                  IF a \in cancelled
                  THEN [command[a] EXCEPT !.state = "cancelled", !.token = NoToken, !.age = 0]
                  ELSE command[a]]
    /\ application' = [application EXCEPT ![p] = Bumped(@, "skipped", @.eligible)]
    /\ plan' = [plan EXCEPT ![p].active = FALSE]
    /\ UNCHANGED <<worker, inspection, clicks, crashes>>

\* What the application becomes when `a` gets a verdict: its other attempts
\* still count.
StatusReconciled(a, verdict) ==
    LET outcomes == {attempt[b].outcome : b \in History(attempt[a].app) \ {a}} \cup {verdict}
    IN  IF "unknown" \in outcomes THEN "needs_review"
        ELSE IF outcomes \cap ImmutableOutcomes # {} THEN "submitted"
        ELSE "draft"

\* _reconcile_attempt: the operator resolves an unknown outcome by looking at
\* the employer's portal.
OperatorReconcile(a) ==
    /\ attempt[a].outcome = "unknown"
    /\ ~Locked(attempt[a].app)
    /\ \E verdict \in {"operator_confirmed", "failed_before_commit"} :
           /\ attempt' = [attempt EXCEPT ![a].outcome = verdict, ![a].reconciled = TRUE]
           /\ application' = [application EXCEPT
                  ![attempt[a].app].status = StatusReconciled(a, verdict),
                  ![attempt[a].app].preparedRevision = 0, ![attempt[a].app].source = "none"]
    /\ UNCHANGED <<plan, command, worker, inspection, clicks, crashes>>

-----------------------------------------------------------------------------
(***************************************************************************)
(* What the worker's transactions share.                                   *)
(***************************************************************************)

\* The application still is what the attempt was admitted for.
StillCurrent(a) ==
    LET p == attempt[a].app
    IN  /\ application[p].status = "draft" /\ PreparationIsCurrent(p)
        /\ application[p].revision = attempt[a].revision

PlanActive(a) ==
    LET p == attempt[a].app IN plan[p].active /\ plan[p].id = attempt[a].plan

\* validate_final_submit_permit: not replayed, not expired.  The bindings it
\* compares are copied when the permit is issued and never written again.
PermitValid(a) == ~attempt[a].consumed /\ attempt[a].permitLeft > 0

\* PreparedFinalActionV1.binds: a live handle that does not outlive the permit.
Binds(handle, a) == handle > 0 /\ handle <= attempt[a].permitLeft

\* _lock_claimed_context succeeds: the row lock is free and the command is
\* still claimed under the token this worker holds.
Owns(w) ==
    LET a == worker[w].cmd
    IN  command[a].state = "claimed" /\ command[a].token = worker[w].token

Unlocked(w) == ~Locked(attempt[worker[w].cmd].app)

\* Mutant: the outcome is written over the status.
Fault_StatusAfter(outcome) == outcome

StatusAfter(outcome) ==
    IF outcome \in {"confirmed_submitted", "already_applied"} THEN "submitted"
    ELSE IF outcome \in {"needs_review", "unknown"} THEN "needs_review"
    ELSE IF outcome = "failed_before_commit" THEN "failed"
    ELSE "draft"

\* _finish_attempt, leaving `stage` with `outcome`.  A form that drifted also
\* invalidates the plan; every outcome revokes the preparation.
FinishAttempt(a, stage, outcome, reason) ==
    LET p == attempt[a].app
    IN  /\ CanFinish(stage, outcome)
        /\ attempt' = [attempt EXCEPT ![a].stage = "finished", ![a].outcome = outcome]
        /\ command' = [command EXCEPT ![a].state = "completed", ![a].token = NoToken,
                                      ![a].age = 0]
        /\ application' = [application EXCEPT
               ![p].status = StatusAfter(outcome),
               ![p].preparedRevision = 0, ![p].source = "none"]
        /\ plan' = IF outcome = "failed_before_commit" /\ reason = "FORM_CHANGED" /\ PlanActive(a)
                   THEN [plan EXCEPT ![p].active = FALSE] ELSE plan

\* _set_stage.
SetStage(a, stage) == [attempt EXCEPT ![a].stage = stage, ![a].outcome = "none"]

GoTo(w, pc) == worker' = [worker EXCEPT ![w].pc = pc]

\* The call returns "superseded" or "skipped": the rows belong to someone else.
GiveUp(w) ==
    /\ worker' = [worker EXCEPT ![w] = Idle]
    /\ UNCHANGED <<application, plan, attempt, command>>

-----------------------------------------------------------------------------
(***************************************************************************)
(* The worker, one action per transaction of execute_submission_command.   *)
(***************************************************************************)

\* Mutant: the claim does not move the attempt out of the queue.
Fault_Claim(w, a) ==
    /\ worker[w].pc = "idle"
    /\ command[a].state = "pending" /\ attempt[a].stage = "queued"
    /\ ~Locked(attempt[a].app)
    /\ \E t \in Tokens :
           /\ \A v \in Workers : ~(worker[v].cmd = a /\ worker[v].token = t)
           /\ command' = [command EXCEPT ![a].state = "claimed", ![a].token = t, ![a].age = 0]
    /\ worker' = [worker EXCEPT ![w].pc = "claimed", ![w].cmd = a]
    /\ UNCHANGED <<application, plan, attempt, inspection, clicks, crashes>>

\* claim_submission_command: SKIP LOCKED over the pending commands.
Claim(w, a) ==
    /\ worker[w].pc = "idle"
    /\ command[a].state = "pending" /\ attempt[a].stage = "queued"
    /\ ~Locked(attempt[a].app)
    /\ \E t \in Tokens :
           /\ \A v \in Workers : ~(worker[v].cmd = a /\ worker[v].token = t)
           /\ command' = [command EXCEPT ![a].state = "claimed", ![a].token = t, ![a].age = 0]
    /\ CanAdvance("queued", "inspecting")
    /\ attempt' = SetStage(a, "inspecting")
    /\ worker' = [worker EXCEPT ![w].pc = "claimed", ![w].cmd = a]
    /\ UNCHANGED <<application, plan, inspection, clicks, crashes>>

\* The claim meets an attempt that another release admitted.
ClaimBuildMismatch(w, a) ==
    /\ worker[w].pc = "idle"
    /\ command[a].state = "pending" /\ attempt[a].stage = "queued"
    /\ ~Locked(attempt[a].app)
    /\ FinishAttempt(a, "queued", "failed_before_commit", "REFUSED")
    /\ UNCHANGED <<worker, inspection, clicks, crashes>>

\* execute_claimed_submission_command starts by reading the command again: the
\* token it will prove ownership with is whatever the row holds by then.
Execute(w) ==
    LET a == worker[w].cmd
    IN  /\ worker[w].pc = "claimed"
        /\ \/ /\ command[a].state # "claimed"
              /\ GiveUp(w)
           \/ /\ command[a].state = "claimed"
              /\ \/ \* a runtime gate, the content, the permit, the adapter or the CV refuses
                    \E r \in {"REFUSED", "FORM_CHANGED"} :
                        worker' = [worker EXCEPT ![w].pc = "refusing",
                                                 ![w].token = command[a].token, ![w].reason = r]
                 \/ /\ StillCurrent(a) /\ PermitValid(a)
                    /\ worker' = [worker EXCEPT ![w].pc = "accepted",
                                                ![w].token = command[a].token]
              /\ UNCHANGED <<application, plan, attempt, command>>
        /\ UNCHANGED <<inspection, clicks, crashes>>

\* _finish_claimed_before_commit.
FinishRefused(w) ==
    LET a == worker[w].cmd
    IN  /\ worker[w].pc = "refusing" /\ Unlocked(w)
        /\ \/ /\ Owns(w) /\ attempt[a].stage \in {"inspecting", "preparing", "ready"}
              /\ FinishAttempt(a, attempt[a].stage, "failed_before_commit", worker[w].reason)
              /\ worker' = [worker EXCEPT ![w] = Idle]
           \/ /\ ~(Owns(w) /\ attempt[a].stage \in {"inspecting", "preparing", "ready"})
              /\ GiveUp(w)
        /\ UNCHANGED <<inspection, clicks, crashes>>

\* _enter_claimed_preflight.
EnterPreflight(w) ==
    LET a  == worker[w].cmd
        ok == Owns(w) /\ StillCurrent(a) /\ attempt[a].stage = "inspecting"
    IN  /\ worker[w].pc = "accepted" /\ Unlocked(w)
        /\ \/ /\ ok
              /\ CanAdvance(attempt[a].stage, "preparing")
              /\ attempt' = SetStage(a, "preparing")
              /\ GoTo(w, "preflight")
              /\ UNCHANGED <<application, plan, command>>
           \/ ~ok /\ GiveUp(w)
        /\ UNCHANGED <<inspection, clicks, crashes>>

\* The reversible browser run ends without a prepared action, or raises.
PreflightStops(w) ==
    LET a == worker[w].cmd
    IN  /\ worker[w].pc = "preflight" /\ Unlocked(w)
        /\ \/ /\ Owns(w)
              /\ \E outcome \in {"already_applied", "needs_review",
                                 "failed_before_commit", "draft_only"},
                    reason \in {"FORM_CHANGED", "REFUSED"} :
                     FinishAttempt(a, attempt[a].stage, outcome, reason)
              /\ worker' = [worker EXCEPT ![w] = Idle]
           \/ ~Owns(w) /\ GiveUp(w)
        /\ UNCHANGED <<inspection, clicks, crashes>>

\* The browser run returns a handle and _mark_claimed_attempt_ready binds it.
\* A handle that no longer binds, or content that moved, is FORM_CHANGED.
MarkReady(w) ==
    LET a  == worker[w].cmd
        ok == Owns(w) /\ attempt[a].stage = "preparing"
    IN  /\ worker[w].pc = "preflight" /\ Unlocked(w)
        /\ \/ /\ ok
              /\ \E h \in 0 .. HandleTTL :
                    \/ /\ StillCurrent(a) /\ Binds(h, a)
                       /\ CanAdvance(attempt[a].stage, "ready")
                       /\ attempt' = SetStage(a, "ready")
                       /\ command' = [command EXCEPT ![a].age = 0]
                       /\ worker' = [worker EXCEPT ![w].pc = "ready", ![w].handle = h]
                    \/ /\ ~(StillCurrent(a) /\ Binds(h, a))
                       /\ worker' = [worker EXCEPT ![w].pc = "refusing",
                                                   ![w].reason = "FORM_CHANGED"]
                       /\ UNCHANGED <<attempt, command>>
              /\ UNCHANGED <<application, plan>>
           \/ ~ok /\ GiveUp(w)
        /\ UNCHANGED <<inspection, clicks, crashes>>

\* What _enter_commit_boundary finds under the lock before it asks anyone.
AtBoundary(w) ==
    LET a == worker[w].cmd
    IN  Owns(w) /\ StillCurrent(a) /\ PlanActive(a) /\ attempt[a].stage = "ready"

\* _enter_commit_boundary: consume the permit and publish COMMITTING in one
\* transaction.  Both expiry-bound contracts are read again after the governor
\* answered, so the step is the last of its two validations.
EnterCommitBoundary(w) ==
    LET a == worker[w].cmd
    IN  /\ worker[w].pc = "ready" /\ Unlocked(w)
        /\ AtBoundary(w) /\ PermitValid(a) /\ Binds(worker[w].handle, a)
        /\ CanAdvance(attempt[a].stage, "committing")
        /\ attempt' = [SetStage(a, "committing") EXCEPT ![a].consumed = TRUE]
        /\ command' = [command EXCEPT ![a].age = 0]
        /\ GoTo(w, "boundary")
        /\ UNCHANGED <<application, plan, inspection, clicks, crashes>>

\* The boundary refuses: the source tree changed, the policy or canary lapsed,
\* the governor denied, the permit expired, or the handle no longer binds.  The
\* source tree is looked at before the rows are; a refusal that
\* _PERMIT_REASON_MAP does not know counts as FORM_CHANGED.
BoundaryRefused(w) ==
    LET a == worker[w].cmd
        reasons == IF AtBoundary(w) THEN {"REFUSED", "FORM_CHANGED"} ELSE {"REFUSED"}
    IN  /\ worker[w].pc = "ready" /\ Unlocked(w) /\ Owns(w)
        /\ \E r \in reasons : FinishAttempt(a, attempt[a].stage, "failed_before_commit", r)
        /\ worker' = [worker EXCEPT ![w] = Idle]
        /\ UNCHANGED <<inspection, clicks, crashes>>

BoundarySuperseded(w) ==
    /\ worker[w].pc = "ready" /\ Unlocked(w) /\ ~AtBoundary(w)
    /\ GiveUp(w)
    /\ UNCHANGED <<inspection, clicks, crashes>>

\* Mutant: the second lock does not prove that the claim still owns the work.
Fault_LockForCommit(w) ==
    LET a == worker[w].cmd
    IN  /\ worker[w].pc = "boundary" /\ Unlocked(w)
        /\ GoTo(w, "clicking")
        /\ UNCHANGED <<application, plan, attempt, command, inspection, clicks, crashes>>

\* Take the row lock again, and keep it: from here to FinishCommit nobody else
\* can write this application.  An expired handle is quarantined unclicked.
LockForCommit(w) ==
    LET a  == worker[w].cmd
        ok == Owns(w) /\ attempt[a].stage = "committing" /\ attempt[a].consumed
    IN  /\ worker[w].pc = "boundary" /\ Unlocked(w)
        /\ \/ /\ ok /\ Binds(worker[w].handle, a)
              /\ GoTo(w, "clicking")
              /\ UNCHANGED <<application, plan, attempt, command>>
           \/ /\ ok /\ ~Binds(worker[w].handle, a)
              /\ FinishAttempt(a, "committing", "unknown", "REFUSED")
              /\ worker' = [worker EXCEPT ![w] = Idle]
           \/ ~ok /\ GiveUp(w)
        /\ UNCHANGED <<inspection, clicks, crashes>>

\* executor.commit: the employer receives the application.
Click(w) ==
    /\ worker[w].pc = "clicking"
    /\ clicks' = [clicks EXCEPT ![worker[w].cmd] = @ + 1]
    /\ GoTo(w, "clicked")
    /\ UNCHANGED <<application, plan, attempt, command, inspection, crashes>>

\* Mutant: evidence is accepted although the final action was not taken.
Fault_FinishConfirmed(w) ==
    LET a == worker[w].cmd
    IN  /\ worker[w].pc \in {"clicking", "clicked"}
        /\ CanAdvance(attempt[a].stage, "verifying")
        /\ FinishAttempt(a, "verifying", "confirmed_submitted", "none")
        /\ worker' = [worker EXCEPT ![w] = Idle]
        /\ UNCHANGED <<inspection, clicks, crashes>>

\* The adapter returned post-action evidence that is bound to the attempt.
FinishConfirmed(w) ==
    LET a == worker[w].cmd
    IN  /\ worker[w].pc = "clicked"
        /\ CanAdvance(attempt[a].stage, "verifying")
        /\ FinishAttempt(a, "verifying", "confirmed_submitted", "none")
        /\ worker' = [worker EXCEPT ![w] = Idle]
        /\ UNCHANGED <<inspection, clicks, crashes>>

\* Mutant: an exception of the adapter is answered by trying once more.
Fault_FinishUnknown(w) ==
    /\ worker[w].pc = "clicked"
    /\ GoTo(w, "clicking")
    /\ UNCHANGED <<application, plan, attempt, command, inspection, clicks, crashes>>

\* The adapter raised, before or after the click, or returned anything else.
FinishUnknown(w) ==
    LET a == worker[w].cmd
    IN  /\ worker[w].pc \in {"clicking", "clicked"}
        /\ FinishAttempt(a, attempt[a].stage, "unknown", "none")
        /\ worker' = [worker EXCEPT ![w] = Idle]
        /\ UNCHANGED <<inspection, clicks, crashes>>

\* The process dies; its connection drops and the row locks with it.
Crash(w) ==
    /\ worker[w].pc # "idle" /\ crashes < MaxCrashes
    /\ worker' = [worker EXCEPT ![w] = Idle]
    /\ crashes' = crashes + 1
    /\ UNCHANGED <<application, plan, attempt, command, inspection, clicks>>

-----------------------------------------------------------------------------
(***************************************************************************)
(* The sweeper and the passage of time.                                    *)
(***************************************************************************)

\* Mutant: the sweeper does not take the application row lock.
Fault_Stale(a) == command[a].state = "claimed" /\ command[a].age > ClaimTTL

\* reconcile_stale_submission_commands on one stale command.
Stale(a) == /\ command[a].state = "claimed" /\ command[a].age > ClaimTTL
            /\ ~Locked(attempt[a].app)

Quarantine(a) ==
    /\ Stale(a) /\ CrossedBoundary(a)
    /\ FinishAttempt(a, attempt[a].stage, "unknown", "none")
    /\ UNCHANGED <<worker, inspection, clicks, crashes>>

\* Mutant: the redelivered command gets a fresh permit lifetime.
Fault_RedeliverRenews(a) ==
    /\ Stale(a) /\ ~CrossedBoundary(a)
    /\ command' = [command EXCEPT ![a] = [state |-> "pending", token |-> NoToken,
                                          age |-> 0, redelivered |-> TRUE]]
    /\ attempt' = [SetStage(a, "queued") EXCEPT ![a].permitLeft = PermitTTL]
    /\ UNCHANGED <<application, plan, worker, inspection, clicks, crashes>>

\* Mutant: the attempt keeps the stage the lost worker left it in.
Fault_RedeliverKeepsStage(a) ==
    /\ Stale(a) /\ ~CrossedBoundary(a)
    /\ command' = [command EXCEPT ![a] = [state |-> "pending", token |-> NoToken,
                                          age |-> 0, redelivered |-> TRUE]]
    /\ UNCHANGED <<application, plan, attempt, worker, inspection, clicks, crashes>>

Redeliver(a) ==
    /\ Stale(a) /\ ~CrossedBoundary(a)
    /\ command' = [command EXCEPT ![a] = [state |-> "pending", token |-> NoToken,
                                          age |-> 0, redelivered |-> TRUE]]
    /\ attempt' = SetStage(a, "queued")
    /\ UNCHANGED <<application, plan, worker, inspection, clicks, crashes>>

Less(n) == IF n = 0 THEN 0 ELSE n - 1

Tick ==
    /\ plan' = [p \in Apps |-> [plan[p] EXCEPT !.left = Less(@)]]
    /\ attempt' = [a \in Attempts |-> [attempt[a] EXCEPT !.permitLeft = Less(@)]]
    /\ command' = [a \in Attempts |->
           [command[a] EXCEPT !.age = IF command[a].state = "claimed" /\ @ <= ClaimTTL
                                      THEN @ + 1 ELSE @]]
    /\ worker' = [w \in Workers |-> [worker[w] EXCEPT !.handle = Less(@)]]
    /\ UNCHANGED <<application, inspection, clicks, crashes>>

-----------------------------------------------------------------------------
OperatorStep ==
    \/ \E p \in Apps :
           \/ EditContent(p) \/ ConfirmAnswer(p)
           \/ InspectStart(p) \/ InspectPersist(p) \/ InspectAbandon(p)
           \/ Approve(p) \/ WhatsAppApprove(p) \/ Retry(p) \/ Skip(p)
           \/ \E k \in Keys : Submit(p, k)
    \/ \E a \in Attempts : OperatorReconcile(a)

WorkerStep(w) ==
    \/ \E a \in Attempts : Claim(w, a) \/ ClaimBuildMismatch(w, a)
    \/ Execute(w) \/ FinishRefused(w) \/ EnterPreflight(w) \/ PreflightStops(w)
    \/ MarkReady(w) \/ EnterCommitBoundary(w) \/ BoundaryRefused(w) \/ BoundarySuperseded(w)
    \/ LockForCommit(w) \/ Click(w) \/ FinishConfirmed(w) \/ FinishUnknown(w)

Next ==
    \/ OperatorStep
    \/ \E w \in Workers : WorkerStep(w) \/ Crash(w)
    \/ \E a \in Attempts : Quarantine(a) \/ Redeliver(a)
    \/ Tick

Spec == Init /\ [][Next]_vars

-----------------------------------------------------------------------------
(***************************************************************************)
(* Safety.                                                                 *)
(***************************************************************************)

\* However workers stall, crash, adopt each other's claims or are redelivered,
\* the employer sees at most one final action per admitted attempt.
OneClickPerAttempt == \A a \in Attempts : clicks[a] <= 1

\* A second attempt may reach the employer only after the operator looked at the
\* portal and recorded that the earlier one had not been submitted.
NoSecondApplication ==
    \A a, b \in Attempts :
        /\ a < b /\ attempt[a].app = attempt[b].app
        /\ clicks[a] > 0 /\ clicks[b] > 0
        => attempt[a].reconciled /\ attempt[a].outcome = "failed_before_commit"

\* The truth of a final action is never downgraded by the machine: once the
\* employer saw it, the attempt is in flight, confirmed or unknown, unless the
\* operator reconciled it; and nothing is called confirmed that was not sent.
ClickIsNeverForgotten ==
    \A a \in Attempts :
        /\ clicks[a] > 0 /\ ~attempt[a].reconciled =>
               \/ attempt[a].stage = "committing"
               \/ attempt[a].outcome \in {"confirmed_submitted", "unknown"}
        /\ attempt[a].outcome = "confirmed_submitted" => clicks[a] = 1

\* While an attempt is unfinished, everything the operator reviewed stays as it
\* was admitted: the revision, the preparation, the plan and the materials.
ReviewedContentFrozen ==
    \A a \in Attempts :
        Unfinished(a) => /\ StillCurrent(a) /\ PlanActive(a)
                         /\ application[attempt[a].app].eligible

\* The worker inside the irreversible call is alone with the application: it
\* owns the claim, the attempt is COMMITTING under a consumed permit, and no
\* other worker is inside that call for the same application.
ClickerIsAlone ==
    \A w \in Workers : worker[w].pc \in {"clicking", "clicked"} =>
        LET a == worker[w].cmd
        IN  /\ Owns(w) /\ attempt[a].stage = "committing" /\ attempt[a].consumed
            /\ \A v \in Workers \ {w} :
                   worker[v].pc \in {"clicking", "clicked"} =>
                       attempt[worker[v].cmd].app # attempt[a].app

\* An application whose history holds an unresolved or positive outcome has no
\* attempt in progress, and at most one attempt is in progress at any time.
OneLiveAttempt ==
    \A a, b \in Attempts :
        a # b /\ attempt[a].app = attempt[b].app /\ Unfinished(a) =>
            ~Unfinished(b) /\ attempt[b].outcome \notin ImmutableOutcomes

\* A permit is issued for PermitTTL and a claim goes stale after ClaimTTL.  With
\* PermitTTL <= ClaimTTL, as the defaults have it (300 s and 900 s), a command
\* the sweeper redelivers carries a dead permit: it can fail, never act.
RedeliveredNeverActs ==
    \A a \in Attempts : command[a].redelivered =>
        attempt[a].permitLeft = 0 /\ ~attempt[a].consumed /\ clicks[a] = 0

\* The worker never looks at the plan's expiry; it does not have to, because a
\* permit that is still live proves that the plan it was issued for is too.
PermitWithinPlan ==
    \A a \in Attempts : Unfinished(a) =>
        attempt[a].permitLeft <= plan[attempt[a].app].left

\* One idempotency key names one attempt, for ever.
KeysAreUnique ==
    \A a, b \in Attempts : attempt[a].key = attempt[b].key /\ attempt[a].key # NoKey => a = b

-----------------------------------------------------------------------------
(***************************************************************************)
(* Two statements of the repository that the code does not keep.           *)
(***************************************************************************)

\* POST /applications/{id}/retry answers 202 "prepared" in this state.
RetryAccepted(p) ==
    /\ MutationAllowed(p, "prepare") /\ ReviewReady(p)
    /\ \E a \in History(p) : /\ IsLatest(a, p)
                             /\ attempt[a].outcome \in {"failed_before_commit", "draft_only"}
    /\ application[p].status \in {"draft", "failed", "needs_review"}

\* An accepted retry is the re-preparation that a second Send needs.  It is not
\* when the application had been prepared again by another route: the current
\* preparation is kept, its source is not retry_prepare, and Send answers
\* RETRY_PREPARATION_REQUIRED after every further accepted retry.
AcceptedRetryPermitsSend ==
    \A p \in Apps : RetryAccepted(p) /\ PreparationIsCurrent(p) =>
        application[p].source = "retry_prepare"

-----------------------------------------------------------------------------
(***************************************************************************)
(* Liveness.  Beat runs the drain and the sweeper every few seconds and    *)
(* time passes.  A worker that is alive takes its next step eventually; and*)
(* since a claim lasts for minutes and the steps that refuse a dead permit *)
(* take milliseconds, a worker that keeps getting the chance to take them  *)
(* under a live claim is not beaten by the sweeper every time.             *)
(***************************************************************************)
Drain(a) == \E w \in Workers : Claim(w, a) \/ ClaimBuildMismatch(w, a)

Advance(w) ==
    \/ Execute(w) \/ FinishRefused(w) \/ EnterPreflight(w) \/ PreflightStops(w)
    \/ MarkReady(w) \/ EnterCommitBoundary(w) \/ BoundaryRefused(w) \/ BoundarySuperseded(w)
    \/ LockForCommit(w) \/ Click(w) \/ FinishConfirmed(w) \/ FinishUnknown(w)

Fairness ==
    /\ WF_vars(Tick)
    /\ \A a \in Attempts : /\ WF_vars(Drain(a))
                           /\ WF_vars(Quarantine(a) \/ Redeliver(a))
    /\ \A w \in Workers : /\ WF_vars(Advance(w))
                          /\ SF_vars(Execute(w) /\ command[worker[w].cmd].state = "claimed")
                          /\ SF_vars(FinishRefused(w) /\ Owns(w))

FairSpec == Spec /\ Fairness

\* Every admitted attempt reaches a terminal outcome, whatever the workers, the
\* sweeper and a finite number of crashes do to it.
AttemptsTerminate ==
    \A a \in Attempts : attempt[a].stage = "queued" ~> attempt[a].stage = "finished"

=============================================================================
