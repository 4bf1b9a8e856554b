--------------------------- MODULE SubmissionState ---------------------------
(***************************************************************************)
(* The stage machine of one submission attempt: core/submission_state.py.  *)
(* The two tables are the code's two mappings; the operators below them    *)
(* are the functions the worker calls before it writes a stage.            *)
(***************************************************************************)

\* The reversible stages, in which no employer-visible action has happened.
PreCommit == {"queued", "inspecting", "preparing", "ready"}

\* The stages past the ambiguity boundary.
PostCommit == {"committing", "verifying"}

Stages == PreCommit \cup PostCommit \cup {"finished"}

Outcomes == {"confirmed_submitted", "already_applied", "needs_review", "unknown",
             "failed_before_commit", "draft_only", "operator_confirmed"}

\* Outcomes after which no further attempt may be admitted.
ImmutableOutcomes == {"confirmed_submitted", "already_applied", "unknown",
                      "operator_confirmed"}

\* _ALLOWED_NEXT_STAGES, read as a relation.
AllowedNextStage(stage, next) ==
    \/ stage = "queued"     /\ next \in {"inspecting", "finished"}
    \/ stage = "inspecting" /\ next \in {"preparing", "ready", "finished"}
    \/ stage = "preparing"  /\ next \in {"ready", "finished"}
    \/ stage = "ready"      /\ next \in {"committing", "finished"}
    \/ stage = "committing" /\ next \in {"verifying", "finished"}
    \/ stage = "verifying"  /\ next = "finished"

\* _ALLOWED_TERMINAL_OUTCOMES, read as a relation.
AllowedTerminalOutcome(stage, outcome) ==
    \/ /\ stage = "queued"
       /\ outcome \in {"needs_review", "failed_before_commit", "draft_only"}
    \/ /\ stage \in {"inspecting", "preparing", "ready"}
       /\ outcome \in {"already_applied", "needs_review", "failed_before_commit", "draft_only"}
    \/ stage = "committing" /\ outcome = "unknown"
    \/ stage = "verifying"  /\ outcome \in {"confirmed_submitted", "unknown"}

\* can_transition to a stage that is not terminal.
CanAdvance(stage, target) == target # "finished" /\ AllowedNextStage(stage, target)

\* can_transition to FINISHED with an outcome.
CanFinish(stage, outcome) ==
    AllowedNextStage(stage, "finished") /\ AllowedTerminalOutcome(stage, outcome)

=============================================================================
