-------------------------- MODULE RestoreQuarantine --------------------------
(***************************************************************************)
(* core/restore_safety.py: a backup of the private database was restored,  *)
(* and quarantine_restored_runtime takes away every authority in it before *)
(* a worker may run.  The backup is of any moment: the rows of the one     *)
(* application are chosen freely, as far as the code can write them.       *)
(***************************************************************************)
EXTENDS Naturals, FiniteSets

CONSTANTS Horizon, MaxPasses

VARIABLES
    now,
    rows,          \* policy, inspection run, plan, command and permit
    grant,         \* a ControlPlaneReviewGrant
    attempt,       \* a Submission
    application,
    passes, changed    \* quarantine passes so far, and what the last one counted

vars == <<now, rows, grant, attempt, application, passes, changed>>

Precommit == {"queued", "inspecting", "preparing", "ready"}
Postcommit == {"committing", "verifying"}

\* An attempt of the backup: the permit is consumed with the entry into
\* committing, the final action is stamped there, and proof of the employer
\* is stored with the confirmation.
Attempts ==
    {a \in [stage : {"none", "ready", "committing", "finished"},
            outcome : {"none", "failed_before_commit", "unknown", "confirmed_submitted"},
            acted : BOOLEAN, proof : BOOLEAN] :
        /\ a.stage # "finished" <=> a.outcome = "none"
        /\ a.proof => a.outcome = "confirmed_submitted"
        /\ a.acted <=> a.stage = "committing" \/ a.outcome \in {"unknown", "confirmed_submitted"}}

Init ==
    /\ now = 0
    /\ attempt \in Attempts
    /\ rows \in [policy : BOOLEAN, inspection : BOOLEAN, plan : BOOLEAN,
                 command : BOOLEAN, permit : BOOLEAN]
    /\ rows.command => attempt.stage \in {"ready", "committing"}
    /\ rows.permit => attempt.stage = "ready"
    /\ grant \in [made : BOOLEAN, revoked : BOOLEAN, consumed : BOOLEAN, until : 1 .. Horizon,
                  tombstone : {"none", "pending", "leased", "delivered", "expired"}]
    /\ grant.revoked <=> grant.tombstone # "none"
    /\ grant.made \/ (~grant.revoked /\ ~grant.consumed /\ grant.until = 1)
    /\ grant.consumed => ~grant.revoked
    /\ grant.tombstone # "expired"
    /\ application = [status |-> IF attempt.stage = "finished" THEN "finished" ELSE "draft",
                      reason |-> "none"]
    /\ passes = 0 /\ changed = FALSE

\* _has_employer_verified_evidence
Verified == attempt.proof

\* _rearm_review_grant_revocation
DesiredTombstone == IF grant.until <= now THEN "expired" ELSE "pending"
Rearms == grant.made /\ ~grant.consumed /\ grant.tombstone \notin {"delivered", DesiredTombstone}
RevokesGrant == grant.made /\ ~grant.consumed /\ ~grant.revoked

\* What decides that an attempt may have crossed the irreversible boundary.
Fault_Crossed == attempt.stage \in Postcommit \ {"committing"}
Crossed == attempt.stage \in Postcommit \/ attempt.acted

Unfinished == attempt.stage \notin {"none", "finished"} /\ ~Verified

\* affected_applications, and the reason of this application in it.
Affected ==
    /\ ~Verified
    /\ \/ rows.inspection \/ rows.plan \/ rows.permit \/ rows.command
       \/ RevokesGrant \/ Rearms \/ Unfinished
Reason == IF Unfinished /\ Crossed THEN "STALE_INDETERMINATE" ELSE "RUNTIME_NOT_READY"

\* What the quarantine makes of each row.
Fault_Disarmed == [rows EXCEPT !.policy = FALSE, !.inspection = FALSE, !.plan = FALSE,
                               !.command = FALSE]
Disarmed == [rows EXCEPT !.policy = FALSE, !.inspection = FALSE, !.plan = FALSE,
                         !.command = FALSE, !.permit = FALSE]
GrantAfter ==
    IF ~grant.made \/ grant.consumed THEN grant
    ELSE [grant EXCEPT !.revoked = TRUE, !.tombstone = IF Rearms THEN DesiredTombstone ELSE @]
AttemptAfter ==
    IF ~Unfinished THEN attempt
    ELSE [attempt EXCEPT !.stage = "finished",
                         !.outcome = IF Crossed THEN "unknown" ELSE "failed_before_commit"]
ApplicationAfter ==
    IF Affected THEN [status |-> "needs_review", reason |-> Reason] ELSE application

\* quarantine_restored_runtime, one transaction, and its summary.
Quarantine ==
    /\ passes < MaxPasses
    /\ passes' = passes + 1
    /\ rows' = Disarmed
    /\ grant' = GrantAfter
    /\ attempt' = AttemptAfter
    /\ application' = ApplicationAfter
    /\ changed' = (<<rows', grant', attempt', application'>>
                     # <<rows, grant, attempt, application>>)
    /\ UNCHANGED now

Tick == now < Horizon /\ now' = now + 1
        /\ UNCHANGED <<rows, grant, attempt, application, passes, changed>>

Next == Quarantine \/ Tick

Spec == Init /\ [][Next]_vars

----------------------------------------------------------------------------
\* After the quarantine nothing in the restored database can act or be
\* delivered as authority: no policy, run, plan, command, permit or grant,
\* and every unfinished attempt that may have been sent is unknown, which
\* nothing retries.
RestoredAuthorityGone ==
    passes > 0 =>
        /\ \A r \in DOMAIN rows : ~rows[r]
        /\ grant.made => grant.consumed \/ grant.revoked
        /\ attempt.stage \in {"none", "finished"}
        /\ attempt.acted => attempt.outcome \in {"unknown", "confirmed_submitted"}

\* The inductive invariant of the quarantine: its rows stay rows the code can write.
RestoreInv ==
    /\ attempt \in Attempts
    /\ rows \in [policy : BOOLEAN, inspection : BOOLEAN, plan : BOOLEAN,
                 command : BOOLEAN, permit : BOOLEAN]
    /\ grant \in [made : BOOLEAN, revoked : BOOLEAN, consumed : BOOLEAN, until : Nat,
                  tombstone : {"none", "pending", "leased", "delivered", "expired"}]
    /\ passes \in Nat
    /\ RestoredAuthorityGone

\* core/restore_safety.py: "Repeating this function is a no-op after the first
\* successful commit"; docs/recovery-runbooks.md: "A second quarantine pass
\* must report zero changes".
SecondPassIsNoop == passes > 1 => ~changed

=============================================================================
