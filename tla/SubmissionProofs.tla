--------------------------- MODULE SubmissionProofs ---------------------------
(***************************************************************************)
(* The safety of the submission kernel for every number of applications,   *)
(* workers, attempts, tokens and every choice of lifetimes: its types;     *)
(* what a claim, a click and an outcome say of each other; what that       *)
(* implies for an application's whole history (one live attempt, unique    *)
(* keys, no second application), for the review it was admitted on and for *)
(* redelivered commands; and all of it together, the inductive invariant.  *)
(* Last, that the kernel implements FinalAction.                           *)
(***************************************************************************)
EXTENDS SubmissionInvariant, TLAPS

-----------------------------------------------------------------------------
(***************************************************************************)
(* Types.                                                                  *)
(***************************************************************************)

\* The values the actions write belong to the fields they are written to.
LEMMA FieldValues ==
    /\ {"draft", "needs_review", "submitted", "failed", "skipped"} \subseteq Statuses
    /\ {"none", "manual_prepare", "whatsapp_prepare", "retry_prepare"} \subseteq Sources
    /\ 1 \in Revisions /\ 0 \in RevisionRefs /\ Revisions \subseteq RevisionRefs
    /\ \A n \in Revisions : n < MaxRevision => n + 1 \in Revisions
    /\ 0 \in PlanIds /\ \A n \in PlanIds : n < MaxPlans => n + 1 \in PlanIds
    /\ Stages \subseteq AttemptStages /\ "absent" \in AttemptStages
    /\ Outcomes \subseteq AttemptResults /\ "none" \in AttemptResults
    /\ {"queued", "inspecting", "preparing", "ready", "committing", "finished"} \subseteq Stages
    /\ {"failed_before_commit", "operator_confirmed"} \subseteq Outcomes
    /\ Apps \subseteq AppRefs /\ NoApp \in AppRefs /\ Keys \subseteq KeyRefs /\ NoKey \in KeyRefs
    /\ {"absent", "pending", "claimed", "completed", "cancelled"} \subseteq CommandStates
    /\ Tokens \subseteq ClaimTokens /\ NoToken \in ClaimTokens
    /\ 0 \in PermitLives /\ 0 \in PlanLives /\ PlanTTL \in PlanLives /\ 0 \in HandleLives
    /\ 0 \in ClaimAges
    /\ {"idle", "claimed", "refusing", "accepted", "preflight", "ready", "boundary",
        "clicking", "clicked"} \subseteq PCs
    /\ 0 \in CommandRefs /\ Attempts \subseteq CommandRefs
    /\ {"none", "FORM_CHANGED", "REFUSED"} \subseteq Reasons
<1> USE CountsAssumption, LifetimesAssumption, AbsentAssumption
<1>1. /\ {"draft", "needs_review", "submitted", "failed", "skipped"} \subseteq Statuses
      /\ {"none", "manual_prepare", "whatsapp_prepare", "retry_prepare"} \subseteq Sources
      /\ {"absent", "pending", "claimed", "completed", "cancelled"} \subseteq CommandStates
      /\ {"none", "FORM_CHANGED", "REFUSED"} \subseteq Reasons
      /\ Apps \subseteq AppRefs /\ NoApp \in AppRefs /\ Keys \subseteq KeyRefs /\ NoKey \in KeyRefs
      /\ Tokens \subseteq ClaimTokens /\ NoToken \in ClaimTokens
  BY DEF AppRefs, KeyRefs, Statuses, Sources, CommandStates, Reasons, ClaimTokens
<1>2. {"idle", "claimed", "refusing", "accepted", "preflight", "ready", "boundary",
       "clicking", "clicked"} \subseteq PCs
  BY DEF PCs
<1>3. /\ Stages \subseteq AttemptStages /\ "absent" \in AttemptStages
      /\ Outcomes \subseteq AttemptResults /\ "none" \in AttemptResults
      /\ {"queued", "inspecting", "preparing", "ready", "committing", "finished"} \subseteq Stages
      /\ {"failed_before_commit", "operator_confirmed"} \subseteq Outcomes
  BY DEF AttemptStages, AttemptResults, Stages, PreCommit, PostCommit, Outcomes
<1>4. /\ 1 \in Revisions /\ 0 \in RevisionRefs /\ Revisions \subseteq RevisionRefs
      /\ \A n \in Revisions : n < MaxRevision => n + 1 \in Revisions
      /\ 0 \in PlanIds /\ \A n \in PlanIds : n < MaxPlans => n + 1 \in PlanIds
  BY DEF Revisions, RevisionRefs, PlanIds
<1>5. /\ 0 \in PermitLives /\ 0 \in PlanLives /\ PlanTTL \in PlanLives /\ 0 \in HandleLives
      /\ 0 \in ClaimAges
      /\ 0 \in CommandRefs /\ Attempts \subseteq CommandRefs
  BY DEF PermitLives, PlanLives, HandleLives, ClaimAges, CommandRefs, Attempts
<1> QED BY <1>1, <1>2, <1>3, <1>4, <1>5

\* Every field starts in its range.
LEMMA TypeInit == Init => TypeOK
BY FieldValues, CountsAssumption
DEF Init, TypeOK, ApplicationRow, PlanRow, AttemptRow, CommandRow, WorkerState, NoAttempt, Idle

\* Writing typed values into a typed table leaves it typed.
LEMMA AttemptTable ==
    ASSUME NEW f \in [Attempts -> AttemptRow], NEW a, NEW s \in AttemptStages,
           NEW o \in AttemptResults, NEW b \in BOOLEAN
    PROVE  /\ [f EXCEPT ![a].stage = s, ![a].outcome = o] \in [Attempts -> AttemptRow]
           /\ [f EXCEPT ![a].outcome = o, ![a].reconciled = b] \in [Attempts -> AttemptRow]
           /\ [f EXCEPT ![a].consumed = b] \in [Attempts -> AttemptRow]
<1>1. [f EXCEPT ![a].stage = s, ![a].outcome = o] \in [Attempts -> AttemptRow]
  BY ZenonT(60) DEF AttemptRow
<1>2. [f EXCEPT ![a].outcome = o, ![a].reconciled = b] \in [Attempts -> AttemptRow]
  BY ZenonT(60) DEF AttemptRow
<1>3. [f EXCEPT ![a].consumed = b] \in [Attempts -> AttemptRow]
  BY DEF AttemptRow
<1> QED BY <1>1, <1>2, <1>3

\* Updating the fields of one command keeps the table typed.
LEMMA CommandTable ==
    ASSUME NEW f \in [Attempts -> CommandRow], NEW a, NEW s \in CommandStates,
           NEW t \in ClaimTokens, NEW n \in ClaimAges
    PROVE  /\ [f EXCEPT ![a].state = s, ![a].token = t, ![a].age = n] \in [Attempts -> CommandRow]
           /\ [f EXCEPT ![a].state = s] \in [Attempts -> CommandRow]
           /\ [f EXCEPT ![a].age = n] \in [Attempts -> CommandRow]
BY DEF CommandRow

\* Updating the fields of one application keeps the table typed.
LEMMA ApplicationTable ==
    ASSUME NEW f \in [Apps -> ApplicationRow], NEW p, NEW s \in Statuses,
           NEW r \in RevisionRefs, NEW src \in Sources
    PROVE  /\ [f EXCEPT ![p].status = s, ![p].preparedRevision = r, ![p].source = src]
                  \in [Apps -> ApplicationRow]
           /\ [f EXCEPT ![p].preparedRevision = r, ![p].source = src] \in [Apps -> ApplicationRow]
BY DEF ApplicationRow

\* Updating the fields of one worker keeps the table typed.
LEMMA WorkerTable ==
    ASSUME NEW f \in [Workers -> WorkerState], NEW w, NEW pc \in PCs, NEW a \in CommandRefs,
           NEW t \in ClaimTokens, NEW r \in Reasons, NEW h \in HandleLives
    PROVE  /\ [f EXCEPT ![w].pc = pc, ![w].token = t, ![w].reason = r] \in [Workers -> WorkerState]
           /\ [f EXCEPT ![w].pc = pc, ![w].token = t] \in [Workers -> WorkerState]
           /\ [f EXCEPT ![w].pc = pc, ![w].cmd = a] \in [Workers -> WorkerState]
           /\ [f EXCEPT ![w].pc = pc, ![w].handle = h] \in [Workers -> WorkerState]
           /\ [f EXCEPT ![w].pc = pc, ![w].reason = r] \in [Workers -> WorkerState]
           /\ [f EXCEPT ![w].pc = pc] \in [Workers -> WorkerState]
BY DEF WorkerState

\* What _finish_attempt writes is well typed, whatever the outcome.
LEMMA FinishType ==
    ASSUME TypeOK, NEW a, NEW stage, NEW outcome, NEW reason,
           FinishAttempt(a, stage, outcome, reason)
    PROVE  /\ application' \in [Apps -> ApplicationRow]
           /\ plan' \in [Apps -> PlanRow]
           /\ attempt' \in [Attempts -> AttemptRow]
           /\ command' \in [Attempts -> CommandRow]
<1>1. outcome \in AttemptResults
  BY FieldValues DEF FinishAttempt, CanFinish, AllowedTerminalOutcome, Outcomes
<1>2. attempt' \in [Attempts -> AttemptRow]
  <2>1. attempt' = [attempt EXCEPT ![a].stage = "finished", ![a].outcome = outcome]
    BY DEF FinishAttempt
  <2> QED BY <1>1, <2>1, FieldValues, AttemptTable DEF TypeOK
<1>3. command' \in [Attempts -> CommandRow]
  <2>1. command' = [command EXCEPT ![a].state = "completed", ![a].token = NoToken, ![a].age = 0]
    BY DEF FinishAttempt
  <2> QED BY <2>1, FieldValues, CommandTable DEF TypeOK
<1>4. application' \in [Apps -> ApplicationRow]
  <2>1. StatusAfter(outcome) \in Statuses
    BY FieldValues DEF StatusAfter
  <2>2. application' = [application EXCEPT
            ![attempt[a].app].status = StatusAfter(outcome),
            ![attempt[a].app].preparedRevision = 0, ![attempt[a].app].source = "none"]
    BY DEF FinishAttempt
  <2> QED BY <2>1, <2>2, FieldValues, ApplicationTable DEF TypeOK
<1>5. plan' \in [Apps -> PlanRow]
  BY DEF FinishAttempt, TypeOK, PlanRow
<1> QED BY <1>2, <1>3, <1>4, <1>5

\* Leaving a stage for another is well typed.
LEMMA SetStageType ==
    ASSUME TypeOK, NEW a, NEW s \in Stages, attempt' = SetStage(a, s)
    PROVE  attempt' \in [Attempts -> AttemptRow]
BY FieldValues, AttemptTable DEF SetStage, TypeOK

\* A worker that gives up, or finishes, is idle.
LEMMA IdleType ==
    ASSUME TypeOK, NEW w
    PROVE  [worker EXCEPT ![w] = Idle] \in [Workers -> WorkerState]
BY FieldValues DEF TypeOK, WorkerState, Idle

\* A remaining lifetime stays one when time passes.
LEMMA LessType ==
    /\ \A n \in PlanLives : Less(n) \in PlanLives
    /\ \A n \in PermitLives : Less(n) \in PermitLives
    /\ \A n \in HandleLives : Less(n) \in HandleLives
BY LifetimesAssumption DEF Less, PlanLives, PermitLives, HandleLives

\* A worker that moves on is still a worker.
LEMMA GoToType ==
    ASSUME TypeOK, NEW w, NEW pc \in PCs, GoTo(w, pc)
    PROVE  worker' \in [Workers -> WorkerState]
BY WorkerTable, FieldValues, ZenonT(60) DEF GoTo, TypeOK

\* Every step keeps every field in its range.
LEMMA TypeStep == TypeOK /\ BusyWorkers /\ [Next]_vars => TypeOK'
<1> SUFFICES ASSUME TypeOK, BusyWorkers, [Next]_vars PROVE TypeOK'
  OBVIOUS
<1>1. ASSUME NEW p \in Apps, EditContent(p) PROVE TypeOK'
  <2>0. PICK e \in BOOLEAN : RewriteContent(p, e)
    BY <1>1 DEF EditContent, RerouteCv, Regenerate
  <2>1. application' \in [Apps -> ApplicationRow]
    BY <2>0, FieldValues DEF RewriteContent, TypeOK, ApplicationRow, Bumped
  <2>2. plan' \in [Apps -> PlanRow]
    BY <2>0 DEF RewriteContent, TypeOK, PlanRow
  <2> QED BY <2>0, <2>1, <2>2 DEF RewriteContent, TypeOK
<1>2. ASSUME NEW p \in Apps, InspectStart(p) PROVE TypeOK'
  BY <1>2, FieldValues DEF InspectStart, TypeOK, ApplicationRow
<1>3. ASSUME NEW p \in Apps, InspectPersist(p) PROVE TypeOK'
  <2>1. application' \in [Apps -> ApplicationRow]
    BY <1>3, FieldValues, ApplicationTable, ZenonT(60) DEF InspectPersist, TypeOK
  <2>2. plan' \in [Apps -> PlanRow]
    BY <1>3, FieldValues DEF InspectPersist, TypeOK, PlanRow
  <2> QED BY <1>3, <2>1, <2>2, FieldValues DEF InspectPersist, TypeOK
<1>4. ASSUME NEW p \in Apps, InspectAbandon(p) PROVE TypeOK'
  BY <1>4, FieldValues DEF InspectAbandon, TypeOK
<1>5. ASSUME NEW p \in Apps, ConfirmAnswer(p) PROVE TypeOK'
  <2>1. application' \in [Apps -> ApplicationRow]
    BY <1>5, FieldValues DEF ConfirmAnswer, TypeOK, ApplicationRow, Bumped
  <2>2. application[p].revision + 1 \in RevisionRefs /\ plan[p].id + 1 \in PlanIds
    BY <1>5, FieldValues DEF ConfirmAnswer, TypeOK, ApplicationRow, PlanRow
  <2>3. plan' \in [Apps -> PlanRow]
    <3>1. PICK r \in BOOLEAN :
              plan' = [plan EXCEPT ![p].id = @ + 1, ![p].ready = r,
                                   ![p].revision = application[p].revision + 1]
      BY <1>5 DEF ConfirmAnswer
    <3>2. [plan[p] EXCEPT !.id = plan[p].id + 1, !.ready = r,
                          !.revision = application[p].revision + 1] \in PlanRow
      BY <2>2 DEF TypeOK, PlanRow
    <3> QED BY <3>1, <3>2 DEF TypeOK
  <2> QED BY <1>5, <2>1, <2>3 DEF ConfirmAnswer, TypeOK
<1>6. ASSUME NEW p \in Apps, NEW s \in Sources, MarkPrepared(p, s)
      PROVE  application' \in [Apps -> ApplicationRow]
  <2>1. application[p].revision \in RevisionRefs
    BY FieldValues DEF TypeOK, ApplicationRow
  <2>2. [application EXCEPT ![p].status = "draft", ![p].source = s,
                            ![p].preparedRevision = application[p].revision]
            \in [Apps -> ApplicationRow]
    BY <2>1, FieldValues, ZenonT(60) DEF TypeOK, ApplicationRow
  <2> QED BY <1>6, <2>2 DEF MarkPrepared, TypeOK
<1>7. ASSUME NEW p \in Apps, NEW s \in {"manual_prepare", "whatsapp_prepare"}, Prepare(p, s)
      PROVE  TypeOK'
  BY <1>6, <1>7, FieldValues DEF Prepare, TypeOK
<1>8. ASSUME NEW p \in Apps, Retry(p) PROVE TypeOK'
  BY <1>6, <1>8, FieldValues DEF Retry, TypeOK
<1>9. ASSUME NEW p \in Apps, NEW k \in Keys, Submit(p, k) PROVE TypeOK'
  <2>1. PermitLifetime(p) \in PermitLives
    BY LifetimesAssumption DEF PermitLifetime, TypeOK, PlanRow, PlanLives, PermitLives
  <2>2. application[p].revision \in RevisionRefs /\ plan[p].id \in PlanIds
    BY FieldValues DEF TypeOK, ApplicationRow, PlanRow
  <2>3. attempt' \in [Attempts -> AttemptRow]
    BY <1>9, <2>1, <2>2, FieldValues DEF Submit, TypeOK, AttemptRow
  <2>4. command' \in [Attempts -> CommandRow]
    <3>1. PICK a \in Attempts : command' = [command EXCEPT ![a].state = "pending"]
      BY <1>9 DEF Submit
    <3> QED BY <3>1, FieldValues, CommandTable DEF TypeOK
  <2> QED BY <1>9, <2>3, <2>4 DEF Submit, TypeOK
<1>10. ASSUME NEW p \in Apps, Skip(p) PROVE TypeOK'
  <2>1. application' \in [Apps -> ApplicationRow]
    BY <1>10, FieldValues DEF Skip, TypeOK, ApplicationRow, Bumped
  <2>2. plan' \in [Apps -> PlanRow]
    BY <1>10 DEF Skip, TypeOK, PlanRow
  <2>3. attempt' \in [Attempts -> AttemptRow]
    BY <1>10, FieldValues, ZenonT(60) DEF Skip, TypeOK, AttemptRow
  <2>4. command' \in [Attempts -> CommandRow]
    BY <1>10, FieldValues DEF Skip, TypeOK, CommandRow
  <2> QED BY <1>10, <2>1, <2>2, <2>3, <2>4 DEF Skip, TypeOK
<1>11. ASSUME NEW a \in Attempts, OperatorReconcile(a) PROVE TypeOK'
  <2>1. PICK verdict \in {"operator_confirmed", "failed_before_commit"} :
           /\ attempt' = [attempt EXCEPT ![a].outcome = verdict, ![a].reconciled = TRUE]
           /\ application' = [application EXCEPT
                  ![attempt[a].app].status = StatusReconciled(a, verdict),
                  ![attempt[a].app].preparedRevision = 0, ![attempt[a].app].source = "none"]
    BY <1>11 DEF OperatorReconcile
  <2>2. attempt' \in [Attempts -> AttemptRow]
    BY <2>1, FieldValues, AttemptTable DEF TypeOK
  <2>3. StatusReconciled(a, verdict) \in Statuses
    BY FieldValues DEF StatusReconciled
  <2>4. application' \in [Apps -> ApplicationRow]
    BY <2>1, <2>3, FieldValues, ApplicationTable DEF TypeOK
  <2> QED BY <1>11, <2>2, <2>4 DEF OperatorReconcile, TypeOK
<1>12. ASSUME NEW w \in Workers, NEW a \in Attempts, Claim(w, a) PROVE TypeOK'
  <2>1. attempt' \in [Attempts -> AttemptRow]
    BY <1>12, SetStageType, FieldValues DEF Claim
  <2>2. command' \in [Attempts -> CommandRow]
    <3>1. PICK t \in Tokens :
              command' = [command EXCEPT ![a].state = "claimed", ![a].token = t, ![a].age = 0]
      BY <1>12 DEF Claim
    <3> QED BY <3>1, CommandTable, FieldValues DEF TypeOK
  <2>3. worker' \in [Workers -> WorkerState]
    BY <1>12, WorkerTable, FieldValues, ZenonT(60) DEF Claim, TypeOK
  <2> QED BY <1>12, <2>1, <2>2, <2>3 DEF Claim, TypeOK
<1>13. ASSUME NEW w \in Workers, NEW a \in Attempts, ClaimBuildMismatch(w, a) PROVE TypeOK'
  BY <1>13, FinishType DEF ClaimBuildMismatch, TypeOK
<1>14. ASSUME NEW w \in Workers, FinishRefused(w) PROVE TypeOK'
  BY <1>14, FinishType, IdleType DEF FinishRefused, GiveUp, TypeOK
<1>15. ASSUME NEW w \in Workers, EnterPreflight(w) PROVE TypeOK'
  <2>1. CASE GiveUp(w)
    BY <1>15, <2>1, IdleType DEF EnterPreflight, GiveUp, TypeOK
  <2>2. CASE GoTo(w, "preflight") /\ attempt' = SetStage(worker[w].cmd, "preparing")
    <3>1. attempt' \in [Attempts -> AttemptRow]
      BY <2>2, SetStageType, FieldValues
    <3>2. worker' \in [Workers -> WorkerState]
      BY <2>2, GoToType, FieldValues
    <3>3. \/ UNCHANGED <<application, plan, command>>
          \/ UNCHANGED <<application, plan, attempt, command>>
      BY <1>15 DEF EnterPreflight, GiveUp
    <3> QED BY <1>15, <3>1, <3>2, <3>3 DEF EnterPreflight, TypeOK
  <2> QED BY <1>15, <2>1, <2>2 DEF EnterPreflight
<1>16. ASSUME NEW w \in Workers, PreflightStops(w) PROVE TypeOK'
  BY <1>16, FinishType, IdleType DEF PreflightStops, GiveUp, TypeOK
<1>17. ASSUME NEW w \in Workers, BoundaryRefused(w) PROVE TypeOK'
  BY <1>17, FinishType, IdleType DEF BoundaryRefused, TypeOK
<1>18. ASSUME NEW w \in Workers, BoundarySuperseded(w) PROVE TypeOK'
  BY <1>18, IdleType DEF BoundarySuperseded, GiveUp, TypeOK
<1>19. ASSUME NEW w \in Workers, LockForCommit(w) PROVE TypeOK'
  <2>1. CASE GiveUp(w)
    BY <1>19, <2>1, IdleType DEF LockForCommit, GiveUp, TypeOK
  <2>2. CASE GoTo(w, "clicking") /\ UNCHANGED <<application, plan, attempt, command>>
    BY <1>19, <2>2, GoToType, FieldValues DEF LockForCommit, TypeOK
  <2>3. CASE FinishAttempt(worker[w].cmd, "committing", "unknown", "REFUSED")
             /\ worker' = [worker EXCEPT ![w] = Idle]
    BY <1>19, <2>3, FinishType, IdleType DEF LockForCommit, TypeOK
  <2> QED BY <1>19, <2>1, <2>2, <2>3 DEF LockForCommit
<1>20. ASSUME NEW w \in Workers, Click(w) PROVE TypeOK'
  <2>1. clicks' \in [Attempts -> Nat]
    BY <1>20 DEF Click, BusyWorkers, TypeOK
  <2> QED BY <1>20, <2>1, GoToType, FieldValues DEF Click, TypeOK
<1>21. ASSUME NEW w \in Workers, FinishConfirmed(w) PROVE TypeOK'
  BY <1>21, FinishType, IdleType DEF FinishConfirmed, TypeOK
<1>22. ASSUME NEW w \in Workers, FinishUnknown(w) PROVE TypeOK'
  BY <1>22, FinishType, IdleType DEF FinishUnknown, TypeOK
<1>23. ASSUME NEW w \in Workers, Crash(w) PROVE TypeOK'
  BY <1>23, IdleType, CountsAssumption DEF Crash, TypeOK
<1>24. ASSUME NEW a \in Attempts, Quarantine(a) PROVE TypeOK'
  BY <1>24, FinishType DEF Quarantine, TypeOK
<1>25. ASSUME NEW a \in Attempts, Redeliver(a) PROVE TypeOK'
  <2>1. command' \in [Attempts -> CommandRow]
    BY <1>25, FieldValues DEF Redeliver, TypeOK, CommandRow
  <2> QED BY <1>25, <2>1, SetStageType, FieldValues DEF Redeliver, TypeOK
<1>26. ASSUME NEW w \in Workers, Execute(w) PROVE TypeOK'
  <2> DEFINE a == worker[w].cmd
  <2>1. CASE GiveUp(w)
    BY <1>26, <2>1, IdleType DEF Execute, GiveUp, TypeOK
  <2>2. CASE /\ UNCHANGED <<application, plan, attempt, command>>
             /\ \E pc \in {"refusing", "accepted"}, r \in Reasons :
                    \/ worker' = [worker EXCEPT ![w].pc = pc, ![w].token = command[a].token,
                                                ![w].reason = r]
                    \/ worker' = [worker EXCEPT ![w].pc = pc, ![w].token = command[a].token]
    <3>1. command[a].token \in ClaimTokens
      BY <1>26, FieldValues DEF Execute, BusyWorkers, TypeOK, CommandRow
    <3>2. worker' \in [Workers -> WorkerState]
      <4>1. PICK pc \in PCs, r \in Reasons :
                \/ worker' = [worker EXCEPT ![w].pc = pc, ![w].token = command[a].token,
                                            ![w].reason = r]
                \/ worker' = [worker EXCEPT ![w].pc = pc, ![w].token = command[a].token]
        BY <2>2, FieldValues
      <4> DEFINE t == command[a].token
      <4>2. worker \in [Workers -> WorkerState] /\ t \in ClaimTokens
        BY <3>1 DEF TypeOK
      <4> HIDE DEF t
      <4>3. [worker EXCEPT ![w].pc = pc, ![w].token = t, ![w].reason = r]
                \in [Workers -> WorkerState]
        BY <4>2 DEF WorkerState
      <4>4. [worker EXCEPT ![w].pc = pc, ![w].token = t] \in [Workers -> WorkerState]
        BY <4>2 DEF WorkerState
      <4> QED BY <4>1, <4>3, <4>4 DEF t
    <3> QED BY <1>26, <2>2, <3>2 DEF Execute, TypeOK
  <2> QED BY <1>26, <2>1, <2>2, FieldValues DEF Execute
<1>27. ASSUME NEW w \in Workers, MarkReady(w) PROVE TypeOK'
  <2> DEFINE a == worker[w].cmd
  <2>1. CASE GiveUp(w)
    BY <1>27, <2>1, IdleType DEF MarkReady, GiveUp, TypeOK
  <2>2. CASE /\ worker' = [worker EXCEPT ![w].pc = "refusing", ![w].reason = "FORM_CHANGED"]
             /\ UNCHANGED <<application, plan, attempt, command>>
    BY <1>27, <2>2, WorkerTable, FieldValues, ZenonT(60) DEF MarkReady, TypeOK
  <2>3. ASSUME NEW h \in HandleLives,
               attempt' = SetStage(a, "ready"), command' = [command EXCEPT ![a].age = 0],
               worker' = [worker EXCEPT ![w].pc = "ready", ![w].handle = h],
               UNCHANGED <<application, plan>>
        PROVE  TypeOK'
    <3>1. attempt' \in [Attempts -> AttemptRow]
      BY <2>3, SetStageType, FieldValues
    <3>2. command' \in [Attempts -> CommandRow]
      BY <2>3, CommandTable, FieldValues DEF TypeOK
    <3>3. worker' \in [Workers -> WorkerState]
      BY <2>3, WorkerTable, FieldValues, ZenonT(60) DEF TypeOK
    <3> QED BY <1>27, <2>3, <3>1, <3>2, <3>3 DEF MarkReady, TypeOK
  <2> QED BY <1>27, <2>1, <2>2, <2>3 DEF MarkReady, HandleLives
<1>28. ASSUME NEW w \in Workers, EnterCommitBoundary(w) PROVE TypeOK'
  <2> DEFINE a == worker[w].cmd
  <2>1. SetStage(a, "committing") \in [Attempts -> AttemptRow]
    BY FieldValues, AttemptTable DEF SetStage, TypeOK
  <2>2. attempt' \in [Attempts -> AttemptRow]
    <3>1. attempt' = [SetStage(a, "committing") EXCEPT ![a].consumed = TRUE]
      BY <1>28 DEF EnterCommitBoundary
    <3> QED BY <2>1, <3>1, AttemptTable, FieldValues
  <2>3. command' \in [Attempts -> CommandRow]
    BY <1>28, CommandTable, FieldValues DEF EnterCommitBoundary, TypeOK
  <2> QED BY <1>28, <2>2, <2>3, GoToType, FieldValues DEF EnterCommitBoundary, TypeOK
<1>29. CASE Tick
  <2>1. plan' \in [Apps -> PlanRow]
    <3>1. \A p \in Apps : Less(plan[p].left) \in PlanLives
      BY LessType DEF TypeOK, PlanRow
    <3> QED BY <1>29, <3>1 DEF Tick, TypeOK, PlanRow
  <2>2. attempt' \in [Attempts -> AttemptRow]
    <3>1. \A a \in Attempts : Less(attempt[a].permitLeft) \in PermitLives
      BY LessType DEF TypeOK, AttemptRow
    <3> QED BY <1>29, <3>1, ZenonT(60) DEF Tick, TypeOK, AttemptRow
  <2>3. command' \in [Attempts -> CommandRow]
    <3>1. \A a \in Attempts : command[a].age <= ClaimTTL => command[a].age + 1 \in ClaimAges
      BY LifetimesAssumption DEF TypeOK, CommandRow, ClaimAges
    <3> QED BY <1>29, <3>1 DEF Tick, TypeOK, CommandRow
  <2>4. worker' \in [Workers -> WorkerState]
    <3>1. \A w \in Workers : Less(worker[w].handle) \in HandleLives
      BY LessType DEF TypeOK, WorkerState
    <3> QED BY <1>29, <3>1 DEF Tick, TypeOK, WorkerState
  <2> QED BY <1>29, <2>1, <2>2, <2>3, <2>4 DEF Tick, TypeOK
<1>30. CASE UNCHANGED vars
  BY <1>30 DEF vars, TypeOK
<1> QED
  BY <1>1, <1>2, <1>3, <1>4, <1>5, <1>7, <1>8, <1>9, <1>10, <1>11, <1>12, <1>13, <1>14, <1>15,
     <1>16, <1>17, <1>18, <1>19, <1>20, <1>21, <1>22, <1>23, <1>24, <1>25, <1>26, <1>27, <1>28,
     <1>29, <1>30 DEF Next, OperatorStep, Approve, WhatsAppApprove, WorkerStep

\* A worker starts work with the command it claims and keeps it until it is idle.
LEMMA BusyStep == TypeOK /\ BusyWorkers /\ [Next]_vars => BusyWorkers'
<1> SUFFICES ASSUME TypeOK, BusyWorkers, [Next]_vars, NEW v \in Workers, worker'[v].pc # "idle"
             PROVE  worker'[v].cmd \in Attempts
  BY DEF BusyWorkers
<1>1. CASE worker' = worker
  BY <1>1 DEF BusyWorkers
<1>2. ASSUME NEW w \in Workers, worker' = [worker EXCEPT ![w] = Idle]
      PROVE  worker'[v].cmd \in Attempts
  BY <1>2 DEF BusyWorkers, TypeOK, Idle
<1>3. ASSUME NEW w \in Workers, NEW a \in Attempts, Claim(w, a) PROVE worker'[v].cmd \in Attempts
  BY <1>3 DEF Claim, BusyWorkers, TypeOK, WorkerState
<1>4. ASSUME NEW w \in Workers, worker[w].pc # "idle",
             worker'[w].cmd = worker[w].cmd,
             \A u \in Workers \ {w} : worker'[u] = worker[u]
      PROVE  worker'[v].cmd \in Attempts
  BY <1>4 DEF BusyWorkers
<1>5. ASSUME NEW w \in Workers, NEW pc, worker[w].pc # "idle", GoTo(w, pc)
      PROVE  worker'[v].cmd \in Attempts
  BY <1>4, <1>5 DEF GoTo, TypeOK, WorkerState
<1>6. ASSUME OperatorStep PROVE worker'[v].cmd \in Attempts
  BY <1>1, <1>6 DEF OperatorStep, Approve, WhatsAppApprove, EditContent, RewriteContent,
     RerouteCv, Regenerate, ConfirmAnswer, InspectStart, InspectPersist, InspectAbandon, Prepare,
     Retry, Skip, Submit, OperatorReconcile
<1>7. ASSUME NEW w \in Workers, NEW a \in Attempts, ClaimBuildMismatch(w, a)
      PROVE  worker'[v].cmd \in Attempts
  BY <1>1, <1>7 DEF ClaimBuildMismatch
<1>8. ASSUME NEW w \in Workers, Execute(w) PROVE worker'[v].cmd \in Attempts
  BY <1>2, <1>4, <1>8 DEF Execute, GiveUp, TypeOK, WorkerState
<1>9. ASSUME NEW w \in Workers, MarkReady(w) PROVE worker'[v].cmd \in Attempts
  BY <1>2, <1>4, <1>9 DEF MarkReady, GiveUp, TypeOK, WorkerState
<1>10. ASSUME NEW w \in Workers, EnterPreflight(w) \/ EnterCommitBoundary(w) \/ LockForCommit(w)
                                 \/ Click(w)
      PROVE  worker'[v].cmd \in Attempts
  BY <1>2, <1>5, <1>10 DEF EnterPreflight, EnterCommitBoundary, LockForCommit, Click, GiveUp
<1>11. ASSUME NEW w \in Workers,
              \/ FinishRefused(w) \/ PreflightStops(w) \/ BoundaryRefused(w) \/ Crash(w)
              \/ BoundarySuperseded(w) \/ FinishConfirmed(w) \/ FinishUnknown(w)
       PROVE  worker'[v].cmd \in Attempts
  BY <1>2, <1>11 DEF FinishRefused, PreflightStops, BoundaryRefused, BoundarySuperseded, Crash,
     FinishConfirmed, FinishUnknown, GiveUp
<1>12. CASE \E a \in Attempts : Quarantine(a) \/ Redeliver(a)
  BY <1>1, <1>12 DEF Quarantine, Redeliver
<1>13. CASE Tick
  BY <1>13 DEF Tick, BusyWorkers, TypeOK, WorkerState
<1>14. CASE UNCHANGED vars
  BY <1>1, <1>14 DEF vars
<1> QED
  BY <1>3, <1>6, <1>7, <1>8, <1>9, <1>10, <1>11, <1>12, <1>13, <1>14 DEF Next, WorkerStep

\* The rows and the workers' memory are always of the kind the code declares:
\* no handler, worker step or crash writes a stage, outcome, state, token or
\* lifetime outside its domain.
THEOREM TypeCorrect == Spec => []TypeOK
<1>1. Init => TypeOK /\ BusyWorkers
  BY TypeInit DEF Init, BusyWorkers, Idle
<1>2. TypeOK /\ BusyWorkers /\ [Next]_vars => (TypeOK /\ BusyWorkers)'
  BY TypeStep, BusyStep
<1> QED BY <1>1, <1>2, PTL DEF Spec

-----------------------------------------------------------------------------
(***************************************************************************)
(* Claims, clicks and what is remembered of them.                          *)
(***************************************************************************)

\* What a step leaves alone of the rows of one attempt, as far as a worker's
\* claim, and as far as the attempt's own story, is concerned.
KeptClaim(b) ==
    /\ attempt'[b].app = attempt[b].app /\ attempt'[b].stage = attempt[b].stage
    /\ command'[b].state = command[b].state /\ command'[b].token = command[b].token

KeptStory(b) ==
    /\ KeptClaim(b)
    /\ attempt'[b].outcome = attempt[b].outcome
    /\ attempt'[b].reconciled = attempt[b].reconciled
    /\ attempt'[b].consumed = attempt[b].consumed
    /\ clicks'[b] = clicks[b]

\* A step after which nobody owns b, and nobody who was clicking on b still is.
Released(b) ==
    /\ command'[b].state # "claimed"
    /\ \A v \in Workers : worker[v].cmd = b /\ Clicking(v) => worker'[v].pc = "idle"

KeptWorker(v) ==
    /\ worker'[v].pc = worker[v].pc /\ worker'[v].cmd = worker[v].cmd
    /\ worker'[v].token = worker[v].token

\* Rows whose story is kept still agree and account for their authority.
LEMMA KeptRows ==
    ASSUME NEW b \in Attempts, RowsAgree(b), AuthorityAccounted(b), KeptStory(b)
    PROVE  RowsAgree(b)' /\ AuthorityAccounted(b)'
BY DEF RowsAgree, AuthorityAccounted, KeptStory, KeptClaim

\* Workers that keep their memory or drop it stay on track when every claim is
\* kept or released.
LEMMA KeptWorkers ==
    ASSUME TypeOK, BusyWorkers, ClaimInv,
           \A b \in Attempts : clicks'[b] = clicks[b],
           \A b \in Attempts : KeptClaim(b) \/ Released(b),
           \A v \in Workers : KeptWorker(v) \/ worker'[v] = Idle
    PROVE  (\A w \in Workers : WorkerOnTrack(w))' /\ OneDriver'
<1>1. ASSUME NEW v \in Workers, KeptWorker(v), worker[v].pc # "idle", Owns(v)'
      PROVE  Owns(v) /\ KeptClaim(worker[v].cmd)
  BY <1>1 DEF KeptWorker, KeptClaim, Released, Owns, BusyWorkers
<1>2. ASSUME NEW v \in Workers, KeptWorker(v), Clicking(v)
      PROVE  Owns(v)' /\ KeptClaim(worker[v].cmd)
  BY <1>2 DEF KeptWorker, KeptClaim, Released, Owns, Clicking, BusyWorkers, ClaimInv, WorkerOnTrack
<1>3. ASSUME NEW v \in Workers PROVE WorkerOnTrack(v)'
  <2>1. CASE worker'[v] = Idle
    BY <2>1 DEF WorkerOnTrack, Idle, Clicking
  <2>2. CASE KeptWorker(v)
    <3>1. CASE worker[v].pc = "idle"
      BY <2>2, <3>1 DEF KeptWorker, WorkerOnTrack, Clicking, ClaimInv
    <3>2. CASE worker[v].pc # "idle"
      <4>1. WorkerOnTrack(v) /\ worker[v].cmd \in Attempts
        BY <3>2 DEF ClaimInv, BusyWorkers
      <4> QED BY <2>2, <3>2, <4>1, <1>1, <1>2 DEF KeptWorker, KeptClaim, WorkerOnTrack, Clicking
    <3> QED BY <3>1, <3>2
  <2> QED BY <2>1, <2>2
<1>4. OneDriver'
  <2> SUFFICES ASSUME NEW v \in Workers, NEW w \in Workers, v # w,
                      worker'[v].pc \in Driving, worker'[w].pc \in Driving
               PROVE  /\ worker'[v].cmd = worker'[w].cmd => ~(Owns(v)' /\ Owns(w)')
                      /\ Clicking(v)' /\ Clicking(w)' =>
                             attempt'[worker'[v].cmd].app # attempt'[worker'[w].cmd].app
    BY DEF OneDriver
  <2>1. KeptWorker(v) /\ KeptWorker(w) /\ worker[v].pc # "idle" /\ worker[w].pc # "idle"
    BY DEF KeptWorker, Idle, Driving
  <2>2. ~(worker[v].cmd = worker[w].cmd /\ Owns(v) /\ Owns(w))
    BY <2>1 DEF KeptWorker, ClaimInv, OneDriver
  <2>3. Clicking(v) /\ Clicking(w) => attempt[worker[v].cmd].app # attempt[worker[w].cmd].app
    BY <2>1 DEF KeptWorker, ClaimInv, OneDriver
  <2>4. Clicking(v)' /\ Clicking(w)' => Clicking(v) /\ Clicking(w)
    BY <2>1 DEF KeptWorker, Clicking
  <2> QED BY <1>1, <1>2, <2>1, <2>2, <2>3, <2>4 DEF KeptWorker, KeptClaim
<1> QED BY <1>3, <1>4

\* What _finish_attempt does to the rows.
LEMMA FinishRows ==
    ASSUME TypeOK, NEW a \in Attempts, NEW stage, NEW outcome, NEW reason,
           FinishAttempt(a, stage, outcome, reason)
    PROVE  /\ attempt'[a].stage = "finished" /\ attempt'[a].outcome = outcome
           /\ attempt'[a].app = attempt[a].app /\ attempt'[a].key = attempt[a].key
           /\ attempt'[a].reconciled = attempt[a].reconciled
           /\ attempt'[a].consumed = attempt[a].consumed
           /\ attempt'[a].permitLeft = attempt[a].permitLeft
           /\ command'[a].state = "completed" /\ command'[a].token = NoToken
           /\ command'[a].redelivered = command[a].redelivered
           /\ \A b \in Attempts \ {a} : attempt'[b] = attempt[b] /\ command'[b] = command[b]
           /\ AllowedTerminalOutcome(stage, outcome)
<1>1. attempt' = [attempt EXCEPT ![a].stage = "finished", ![a].outcome = outcome]
  BY DEF FinishAttempt
<1>2. command' = [command EXCEPT ![a].state = "completed", ![a].token = NoToken, ![a].age = 0]
  BY DEF FinishAttempt
<1>3. /\ attempt'[a].stage = "finished" /\ attempt'[a].outcome = outcome
      /\ attempt'[a].app = attempt[a].app /\ attempt'[a].key = attempt[a].key
      /\ attempt'[a].reconciled = attempt[a].reconciled
      /\ attempt'[a].consumed = attempt[a].consumed
      /\ attempt'[a].permitLeft = attempt[a].permitLeft
  BY <1>1 DEF TypeOK, AttemptRow
<1>4. /\ command'[a].state = "completed" /\ command'[a].token = NoToken
      /\ command'[a].redelivered = command[a].redelivered
  BY <1>2 DEF TypeOK, CommandRow
<1>5. \A b \in Attempts \ {a} : attempt'[b] = attempt[b] /\ command'[b] = command[b]
  BY <1>1, <1>2 DEF TypeOK
<1> QED BY <1>3, <1>4, <1>5 DEF FinishAttempt, CanFinish

\* What _set_stage does to the rows.
LEMMA StageRows ==
    ASSUME TypeOK, NEW a \in Attempts, NEW stage, attempt' = SetStage(a, stage)
    PROVE  /\ attempt'[a].stage = stage /\ attempt'[a].outcome = "none"
           /\ attempt'[a].app = attempt[a].app /\ attempt'[a].key = attempt[a].key
           /\ attempt'[a].reconciled = attempt[a].reconciled
           /\ attempt'[a].consumed = attempt[a].consumed
           /\ attempt'[a].permitLeft = attempt[a].permitLeft
           /\ \A b \in Attempts \ {a} : attempt'[b] = attempt[b]
BY DEF SetStage, TypeOK, AttemptRow

\* What the commit boundary does to the rows.
LEMMA CommitRows ==
    ASSUME TypeOK, NEW a \in Attempts,
           attempt' = [SetStage(a, "committing") EXCEPT ![a].consumed = TRUE]
    PROVE  /\ attempt'[a].stage = "committing" /\ attempt'[a].outcome = "none"
           /\ attempt'[a].app = attempt[a].app /\ attempt'[a].key = attempt[a].key
           /\ attempt'[a].reconciled = attempt[a].reconciled
           /\ attempt'[a].consumed = TRUE
           /\ attempt'[a].permitLeft = attempt[a].permitLeft
           /\ \A b \in Attempts \ {a} : attempt'[b] = attempt[b]
BY DEF SetStage, TypeOK, AttemptRow

\* An attempt may be finished out of the stage it is in, a final action being
\* confirmed only when the employer saw it; whoever drove it lets go.
LEMMA FinishKeepsClaims ==
    ASSUME TypeOK, BusyWorkers, ClaimInv, NEW a \in Attempts, NEW stage, NEW outcome, NEW reason,
           FinishAttempt(a, stage, outcome, reason), clicks' = clicks,
           \/ stage = attempt[a].stage
           \/ stage = "verifying" /\ attempt[a].stage = "committing" /\ clicks[a] = 1,
           \A v \in Workers : KeptWorker(v) \/ worker'[v] = Idle,
           \A v \in Workers : worker[v].cmd = a /\ Clicking(v) => worker'[v].pc = "idle"
    PROVE  ClaimInv'
<1>1. ASSUME NEW b \in Attempts PROVE RowsAgree(b)' /\ AuthorityAccounted(b)'
  <2>0. RowsAgree(b) /\ AuthorityAccounted(b)
    BY DEF ClaimInv
  <2>1. CASE b # a
    BY <2>0, <2>1, KeptRows, FinishRows DEF KeptStory, KeptClaim
  <2>2. CASE b = a
    <3>1. AllowedTerminalOutcome(stage, outcome)
      BY FinishRows
    <3>2. RowsAgree(a)'
      BY <2>0, <2>2, <3>1, FinishRows, AbsentAssumption
      DEF RowsAgree, AllowedTerminalOutcome, TypeOK, AttemptRow
    <3>3. AuthorityAccounted(a)'
      <4>1. attempt[a].stage # "verifying" /\ ~attempt[a].reconciled
        BY <2>0, <2>2, <3>1 DEF RowsAgree, AuthorityAccounted, AllowedTerminalOutcome
      <4> QED BY <2>0, <2>2, <3>1, <4>1, FinishRows
          DEF RowsAgree, AuthorityAccounted, AllowedTerminalOutcome, PreCommit
    <3> QED BY <2>2, <3>2, <3>3
  <2> QED BY <2>1, <2>2
<1>2. \A b \in Attempts : KeptClaim(b) \/ Released(b)
  BY FinishRows DEF KeptClaim, Released
<1>3. (\A w \in Workers : WorkerOnTrack(w))' /\ OneDriver'
  BY <1>2, KeptWorkers
<1> QED BY <1>1, <1>3 DEF ClaimInv

\* A step that leaves every claim alone, whatever workers it stops.
LEMMA QuietStep ==
    ASSUME TypeOK, BusyWorkers, ClaimInv,
           \A b \in Attempts : KeptStory(b),
           \A v \in Workers : KeptWorker(v) \/ worker'[v] = Idle
    PROVE  ClaimInv'
<1>1. \A b \in Attempts : clicks'[b] = clicks[b] /\ KeptClaim(b)
  BY DEF KeptStory
<1>2. \A b \in Attempts : RowsAgree(b)' /\ AuthorityAccounted(b)'
  BY KeptRows DEF ClaimInv
<1>3. (\A w \in Workers : WorkerOnTrack(w))' /\ OneDriver'
  BY <1>1, KeptWorkers
<1> QED BY <1>2, <1>3 DEF ClaimInv

\* A worker that gives up disturbs nobody.
LEMMA GiveUpKeepsClaims ==
    ASSUME TypeOK, BusyWorkers, ClaimInv, NEW w \in Workers, GiveUp(w), clicks' = clicks
    PROVE  ClaimInv'
BY QuietStep DEF GiveUp, KeptStory, KeptClaim, KeptWorker, TypeOK

\* Nobody clicks on an attempt of an application whose row lock is free.
LEMMA UnlockedNotClicked ==
    ASSUME NEW a \in Attempts, ~Locked(attempt[a].app), NEW v \in Workers, worker[v].cmd = a
    PROVE  ~Clicking(v)
BY DEF Locked, Clicking

\* A claim, the stages the worker publishes under it and the final action.
LEMMA ClaimKeepsClaims ==
    ASSUME TypeOK, BusyWorkers, ClaimInv, NEW w \in Workers, NEW a \in Attempts, Claim(w, a)
    PROVE  ClaimInv'
<1>1. PICK t \in Tokens :
         /\ \A v \in Workers : ~(worker[v].cmd = a /\ worker[v].token = t)
         /\ command' = [command EXCEPT ![a].state = "claimed", ![a].token = t, ![a].age = 0]
  BY DEF Claim
<1>2. /\ command'[a].state = "claimed" /\ command'[a].token = t
      /\ \A b \in Attempts \ {a} : command'[b] = command[b]
  BY <1>1 DEF TypeOK, CommandRow
<1>3. attempt' = SetStage(a, "inspecting")
  BY DEF Claim
<1>4. /\ worker'[w].pc = "claimed" /\ worker'[w].cmd = a /\ worker'[w].token = worker[w].token
      /\ \A v \in Workers \ {w} : worker'[v] = worker[v]
  BY DEF Claim, TypeOK, WorkerState
<1>5. /\ clicks' = clicks /\ worker[w].pc = "idle"
      /\ command[a].state = "pending" /\ attempt[a].stage = "queued"
  BY DEF Claim
<1>6. ASSUME NEW b \in Attempts PROVE RowsAgree(b)' /\ AuthorityAccounted(b)'
  <2>0. RowsAgree(b) /\ AuthorityAccounted(b)
    BY DEF ClaimInv
  <2>1. CASE b # a
    BY <1>2, <1>3, <1>5, <2>0, <2>1, KeptRows, StageRows DEF KeptStory, KeptClaim
  <2>2. CASE b = a
    BY <1>2, <1>3, <1>5, <2>0, <2>2, StageRows, AbsentAssumption
    DEF RowsAgree, AuthorityAccounted, PreCommit
  <2> QED BY <2>1, <2>2
<1>7. \A v \in Workers \ {w} : worker[v].cmd = a => ~Owns(v) /\ ~Owns(v)' /\ ~Clicking(v)
  <2> SUFFICES ASSUME NEW v \in Workers \ {w}, worker[v].cmd = a
               PROVE  ~Owns(v) /\ ~Owns(v)' /\ ~Clicking(v)
    OBVIOUS
  <2>1. ~Owns(v)
    BY <1>5 DEF Owns
  <2>2. ~Owns(v)'
    <3>1. worker[v].token # t
      BY <1>1
    <3>2. worker'[v] = worker[v]
      BY <1>4
    <3> QED BY <1>2, <3>1, <3>2 DEF Owns
  <2>3. ~Clicking(v)
    BY <2>1 DEF ClaimInv, WorkerOnTrack
  <2> QED BY <2>1, <2>2, <2>3
<1>8. \A v \in Workers \ {w} : worker[v].pc # "idle" /\ worker[v].cmd # a =>
          KeptClaim(worker[v].cmd) /\ (Owns(v)' <=> Owns(v))
  BY <1>2, <1>3, <1>4, StageRows DEF KeptClaim, Owns, BusyWorkers
<1>9. ASSUME NEW v \in Workers PROVE WorkerOnTrack(v)'
  <2>1. CASE v = w
    BY <1>4, <1>5, <2>1 DEF WorkerOnTrack, ClaimInv, Clicking
  <2>2. CASE v # w
    <3>1. WorkerOnTrack(v) /\ worker'[v] = worker[v] /\ clicks' = clicks
      BY <1>4, <1>5, <2>2 DEF ClaimInv
    <3> QED BY <1>7, <1>8, <2>2, <3>1 DEF WorkerOnTrack, Clicking, KeptClaim
  <2> QED BY <2>1, <2>2
<1>10. OneDriver'
  <2> SUFFICES ASSUME NEW u \in Workers, NEW v \in Workers, u # v,
                      worker'[u].pc \in Driving, worker'[v].pc \in Driving
               PROVE  /\ worker'[u].cmd = worker'[v].cmd => ~(Owns(u)' /\ Owns(v)')
                      /\ Clicking(u)' /\ Clicking(v)' =>
                             attempt'[worker'[u].cmd].app # attempt'[worker'[v].cmd].app
    BY DEF OneDriver
  <2>1. u # w /\ v # w /\ worker'[u] = worker[u] /\ worker'[v] = worker[v]
    BY <1>4 DEF Driving
  <2> QED BY <1>7, <1>8, <2>1 DEF ClaimInv, OneDriver, Driving, Clicking, KeptClaim
<1> QED BY <1>6, <1>9, <1>10 DEF ClaimInv

\* The worker reads the command again: it may adopt a claim, never a browser.
LEMMA ExecuteKeepsClaims ==
    ASSUME TypeOK, BusyWorkers, ClaimInv, NEW w \in Workers, Execute(w)
    PROVE  ClaimInv'
<1>1. CASE GiveUp(w)
  BY <1>1, GiveUpKeepsClaims DEF Execute
<1>2. CASE ~GiveUp(w)
  <2> DEFINE a == worker[w].cmd
  <2>1. /\ worker[w].pc = "claimed" /\ command[a].state = "claimed" /\ a \in Attempts
        /\ attempt' = attempt /\ command' = command /\ clicks' = clicks
    BY <1>2 DEF Execute, GiveUp, BusyWorkers
  <2>2. /\ worker'[w].pc \in {"refusing", "accepted"} /\ worker'[w].cmd = a
        /\ worker'[w].token = command[a].token
        /\ \A v \in Workers \ {w} : worker'[v] = worker[v]
    BY <1>2 DEF Execute, TypeOK, WorkerState
  <2>3. worker'[w].token # NoToken
    BY <2>1, <2>2 DEF ClaimInv, RowsAgree
  <2>4. \A b \in Attempts : RowsAgree(b)' /\ AuthorityAccounted(b)'
    BY <2>1 DEF ClaimInv, RowsAgree, AuthorityAccounted
  <2>5. \A v \in Workers : WorkerOnTrack(v)'
    BY <2>1, <2>2, <2>3 DEF ClaimInv, WorkerOnTrack, Owns, Clicking
  <2>6. OneDriver'
    BY <2>1, <2>2 DEF ClaimInv, OneDriver, Driving, Owns, Clicking
  <2> QED BY <2>4, <2>5, <2>6 DEF ClaimInv
<1> QED BY <1>1, <1>2

\* The owner of a claim publishes the next stage and moves on; it is the only
\* driver, because any other would have found another stage.
LEMMA AdvanceKeepsClaims ==
    ASSUME TypeOK, BusyWorkers, ClaimInv, NEW w \in Workers, NEW a \in Attempts,
           worker[w].cmd = a, Owns(w), clicks' = clicks,
           \/ /\ worker[w].pc = "accepted" /\ worker'[w].pc = "preflight"
              /\ attempt[a].stage = "inspecting" /\ attempt'[a].stage = "preparing"
              /\ attempt'[a].consumed = attempt[a].consumed
           \/ /\ worker[w].pc = "preflight" /\ worker'[w].pc = "ready"
              /\ attempt[a].stage = "preparing" /\ attempt'[a].stage = "ready"
              /\ attempt'[a].consumed = attempt[a].consumed
           \/ /\ worker[w].pc = "ready" /\ worker'[w].pc = "boundary"
              /\ attempt[a].stage = "ready" /\ attempt'[a].stage = "committing"
              /\ attempt'[a].consumed = TRUE,
           attempt'[a].outcome = "none",
           attempt'[a].app = attempt[a].app, attempt'[a].reconciled = attempt[a].reconciled,
           command'[a].state = command[a].state, command'[a].token = command[a].token,
           \A b \in Attempts \ {a} : attempt'[b] = attempt[b] /\ command'[b] = command[b],
           worker'[w].cmd = a, worker'[w].token = worker[w].token,
           \A v \in Workers \ {w} : worker'[v] = worker[v]
    PROVE  ClaimInv'
<1>0. RowsAgree(a) /\ AuthorityAccounted(a) /\ WorkerOnTrack(w)
  BY DEF ClaimInv
<1>1. ASSUME NEW b \in Attempts PROVE RowsAgree(b)' /\ AuthorityAccounted(b)'
  <2>1. CASE b # a
    BY <2>1, KeptRows DEF ClaimInv, KeptStory, KeptClaim
  <2>2. CASE b = a
    <3>1. RowsAgree(a)'
      BY <1>0 DEF RowsAgree
    <3>2. AuthorityAccounted(a)'
      BY <1>0 DEF RowsAgree, AuthorityAccounted, PreCommit
    <3> QED BY <2>2, <3>1, <3>2
  <2> QED BY <2>1, <2>2
<1>2. clicks[a] = 0
  BY <1>0 DEF AuthorityAccounted, PreCommit, TypeOK
<1>3. \A v \in Workers \ {w} : worker[v].cmd = a /\ worker[v].pc \in Driving => ~Owns(v)
  <2> SUFFICES ASSUME NEW v \in Workers \ {w}, worker[v].cmd = a, worker[v].pc \in Driving, Owns(v)
               PROVE  FALSE
    OBVIOUS
  <2>1. WorkerOnTrack(v)
    BY DEF ClaimInv
  <2>2. CASE worker[w].pc = "accepted"
    BY <2>1, <2>2 DEF WorkerOnTrack, Driving, Clicking
  <2>3. CASE worker[w].pc # "accepted"
    BY <2>3 DEF ClaimInv, OneDriver, Driving
  <2> QED BY <2>2, <2>3
<1>4. Owns(w)' /\ \A v \in Workers \ {w} : worker[v].pc # "idle" => (Owns(v)' <=> Owns(v))
  BY DEF Owns, BusyWorkers
<1>5. ASSUME NEW v \in Workers PROVE WorkerOnTrack(v)'
  <2>1. CASE v = w
    BY <1>0, <1>2, <2>1 DEF WorkerOnTrack, Clicking
  <2>2. CASE v # w
    <3>1. WorkerOnTrack(v) /\ worker'[v] = worker[v]
      BY <2>2 DEF ClaimInv
    <3>2. CASE worker[v].cmd = a
      BY <1>3, <1>4, <2>2, <3>1, <3>2 DEF WorkerOnTrack, Clicking, Driving
    <3>3. CASE worker[v].cmd # a
      BY <1>4, <2>2, <3>1, <3>3 DEF WorkerOnTrack, Clicking, BusyWorkers
    <3> QED BY <3>2, <3>3
  <2> QED BY <2>1, <2>2
<1>6. OneDriver'
  <2> SUFFICES ASSUME NEW u \in Workers, NEW v \in Workers, u # v,
                      worker'[u].pc \in Driving, worker'[v].pc \in Driving
               PROVE  /\ worker'[u].cmd = worker'[v].cmd => ~(Owns(u)' /\ Owns(v)')
                      /\ Clicking(u)' /\ Clicking(v)' =>
                             attempt'[worker'[u].cmd].app # attempt'[worker'[v].cmd].app
    BY DEF OneDriver
  <2>1. CASE u = w \/ v = w
    BY <1>3, <1>4, <2>1 DEF Clicking, Driving
  <2>2. CASE u # w /\ v # w
    BY <1>4, <2>2, SMTT(60) DEF ClaimInv, OneDriver, Driving, Clicking, BusyWorkers
  <2> QED BY <2>1, <2>2
<1> QED BY <1>1, <1>5, <1>6 DEF ClaimInv

\* The row lock is taken before the irreversible call.
LEMMA LockKeepsClaims ==
    ASSUME TypeOK, BusyWorkers, ClaimInv, NEW w \in Workers, LockForCommit(w)
    PROVE  ClaimInv'
<1> DEFINE a == worker[w].cmd
<1>0. worker[w].pc = "boundary" /\ a \in Attempts /\ clicks' = clicks /\ ~Locked(attempt[a].app)
  BY DEF LockForCommit, BusyWorkers, Unlocked
<1>1. CASE GiveUp(w)
  BY <1>0, <1>1, GiveUpKeepsClaims
<1>2. CASE /\ FinishAttempt(a, "committing", "unknown", "REFUSED")
           /\ worker' = [worker EXCEPT ![w] = Idle] /\ attempt[a].stage = "committing"
  <2>1. \A v \in Workers : KeptWorker(v) \/ worker'[v] = Idle
    BY <1>2 DEF KeptWorker, TypeOK
  <2>2. \A v \in Workers : worker[v].cmd = a => ~Clicking(v)
    BY <1>0, UnlockedNotClicked
  <2> QED BY <1>0, <1>2, <2>1, <2>2, FinishKeepsClaims
<1>3. CASE /\ GoTo(w, "clicking") /\ Owns(w) /\ attempt[a].stage = "committing"
           /\ attempt' = attempt /\ command' = command
  <2>1. /\ worker'[w].pc = "clicking" /\ worker'[w].cmd = a /\ worker'[w].token = worker[w].token
        /\ \A v \in Workers \ {w} : worker'[v] = worker[v]
    BY <1>3 DEF GoTo, TypeOK, WorkerState
  <2>2. \A b \in Attempts : RowsAgree(b)' /\ AuthorityAccounted(b)'
    BY <1>0, <1>3 DEF ClaimInv, RowsAgree, AuthorityAccounted
  <2>3. \A v \in Workers : WorkerOnTrack(v)'
    BY <1>0, <1>3, <2>1 DEF ClaimInv, WorkerOnTrack, Owns, Clicking
  <2>4. \A v \in Workers : Clicking(v) => attempt[worker[v].cmd].app # attempt[a].app
    BY <1>0 DEF Locked, Clicking
  <2>5. OneDriver'
    BY <1>0, <1>3, <2>1, <2>4 DEF ClaimInv, OneDriver, Driving, Owns, Clicking
  <2> QED BY <2>2, <2>3, <2>5 DEF ClaimInv
<1> QED BY <1>0, <1>1, <1>2, <1>3 DEF LockForCommit

\* The final action itself.
LEMMA ClickKeepsClaims ==
    ASSUME TypeOK, BusyWorkers, ClaimInv, NEW w \in Workers, Click(w)
    PROVE  ClaimInv'
<1> DEFINE a == worker[w].cmd
<1>0. worker[w].pc = "clicking" /\ a \in Attempts /\ attempt' = attempt /\ command' = command
  BY DEF Click, BusyWorkers
<1>1. /\ worker'[w].pc = "clicked" /\ worker'[w].cmd = a /\ worker'[w].token = worker[w].token
      /\ \A v \in Workers \ {w} : worker'[v] = worker[v]
  BY DEF Click, GoTo, TypeOK, WorkerState
<1>2. Owns(w) /\ attempt[a].stage = "committing" /\ clicks[a] = 0
  BY <1>0 DEF ClaimInv, WorkerOnTrack, Clicking
<1>3. clicks'[a] = 1 /\ \A b \in Attempts \ {a} : clicks'[b] = clicks[b]
  BY <1>0, <1>2 DEF Click, TypeOK
<1>4. attempt[a].consumed /\ ~attempt[a].reconciled /\ attempt[a].outcome = "none"
  BY <1>0, <1>2 DEF ClaimInv, RowsAgree, AuthorityAccounted
<1>5. ASSUME NEW b \in Attempts PROVE RowsAgree(b)' /\ AuthorityAccounted(b)'
  BY <1>0, <1>2, <1>3, <1>4 DEF ClaimInv, RowsAgree, AuthorityAccounted, PreCommit
<1>6. \A v \in Workers \ {w} : worker[v].pc \in Driving /\ worker[v].cmd = a => ~Owns(v)
  BY <1>0, <1>2 DEF ClaimInv, OneDriver, Driving
<1>7. ASSUME NEW v \in Workers PROVE WorkerOnTrack(v)'
  <2>1. CASE v = w
    BY <1>0, <1>1, <1>2, <1>3, <2>1 DEF ClaimInv, WorkerOnTrack, Owns, Clicking
  <2>2. CASE v # w
    <3>1. WorkerOnTrack(v) /\ worker'[v] = worker[v]
      BY <1>1, <2>2 DEF ClaimInv
    <3> QED BY <1>0, <1>3, <1>6, <2>2, <3>1 DEF WorkerOnTrack, Owns, Clicking, Driving, BusyWorkers
  <2> QED BY <2>1, <2>2
<1>8. OneDriver'
  BY <1>0, <1>1 DEF ClaimInv, OneDriver, Driving, Owns, Clicking
<1> QED BY <1>5, <1>7, <1>8 DEF ClaimInv

\* Every step keeps the claims, the authority and the workers consistent.
LEMMA ClaimStep == TypeOK /\ BusyWorkers /\ ClaimInv /\ [Next]_vars => ClaimInv'
<1> SUFFICES ASSUME TypeOK, BusyWorkers, ClaimInv, [Next]_vars PROVE ClaimInv'
  OBVIOUS
<1>1. CASE UNCHANGED <<attempt, command, worker, clicks>>
  BY <1>1, QuietStep DEF KeptStory, KeptClaim, KeptWorker
<1>2. ASSUME NEW p \in Apps, NEW k \in Keys, Submit(p, k) PROVE ClaimInv'
  <2>1. PICK a \in Attempts :
           /\ attempt[a].stage = "absent"
           /\ attempt' = [attempt EXCEPT ![a] =
                  [app |-> p, key |-> k, revision |-> application[p].revision,
                   plan |-> plan[p].id, stage |-> "queued", outcome |-> "none",
                   reconciled |-> FALSE, permitLeft |-> PermitLifetime(p),
                   consumed |-> FALSE]]
           /\ command' = [command EXCEPT ![a].state = "pending"]
    BY <1>2 DEF Submit
  <2>2. /\ attempt'[a].app = p /\ attempt'[a].stage = "queued" /\ attempt'[a].outcome = "none"
        /\ attempt'[a].reconciled = FALSE /\ attempt'[a].consumed = FALSE
        /\ \A b \in Attempts \ {a} : attempt'[b] = attempt[b]
    BY <2>1 DEF TypeOK
  <2>3. /\ command'[a].state = "pending" /\ command'[a].token = command[a].token
        /\ \A b \in Attempts \ {a} : command'[b] = command[b]
    BY <2>1 DEF TypeOK, CommandRow
  <2>4. clicks' = clicks /\ worker' = worker /\ command[a].state = "absent"
    BY <1>2, <2>1 DEF Submit, ClaimInv, RowsAgree
  <2>5. ASSUME NEW b \in Attempts PROVE RowsAgree(b)' /\ AuthorityAccounted(b)'
    <3>0. RowsAgree(b) /\ AuthorityAccounted(b)
      BY DEF ClaimInv
    <3>1. CASE b # a
      BY <2>2, <2>3, <2>4, <3>0, <3>1, KeptRows DEF KeptStory, KeptClaim
    <3>2. CASE b = a
      BY <2>1, <2>2, <2>3, <2>4, <3>0, <3>2, AbsentAssumption DEF RowsAgree, AuthorityAccounted
    <3> QED BY <3>1, <3>2
  <2>6. \A b \in Attempts : KeptClaim(b) \/ Released(b)
    <3>1. \A v \in Workers : worker[v].cmd = a => ~Clicking(v)
      BY <2>4 DEF ClaimInv, WorkerOnTrack, Owns
    <3> QED BY <2>2, <2>3, <3>1 DEF KeptClaim, Released
  <2>7. (\A w \in Workers : WorkerOnTrack(w))' /\ OneDriver'
    BY <2>4, <2>6, KeptWorkers DEF KeptWorker
  <2> QED BY <2>5, <2>7 DEF ClaimInv
<1>3. ASSUME NEW p \in Apps, Skip(p) PROVE ClaimInv'
  <2> DEFINE cancelled == {a \in History(p) : IsLatest(a, p) /\ Unfinished(a)}
  <2>1. /\ attempt' = [a \in Attempts |->
               IF a \in cancelled
               THEN [attempt[a] EXCEPT !.stage = "finished", !.outcome = "failed_before_commit"]
               ELSE attempt[a]]
        /\ command' = [a \in Attempts |->
               IF a \in cancelled
               THEN [command[a] EXCEPT !.state = "cancelled", !.token = NoToken, !.age = 0]
               ELSE command[a]]
        /\ clicks' = clicks /\ worker' = worker
    BY <1>3 DEF Skip
  <2>2. \A a \in cancelled : ~CrossedBoundary(a) /\ Unfinished(a) /\ attempt[a].app = p
    BY <1>3 DEF Skip, MutationAllowed, History
  <2>3. ~Locked(p)
    BY <1>3 DEF Skip, MutationAllowed
  <2> HIDE DEF cancelled
  <2>4. ASSUME NEW b \in Attempts, b \in cancelled
        PROVE  /\ attempt'[b].stage = "finished" /\ attempt'[b].outcome = "failed_before_commit"
               /\ attempt'[b].app = attempt[b].app
               /\ attempt'[b].reconciled = attempt[b].reconciled
               /\ attempt'[b].consumed = attempt[b].consumed
               /\ command'[b].state = "cancelled" /\ command'[b].token = NoToken
    BY <2>1, <2>4 DEF TypeOK, AttemptRow, CommandRow
  <2>5. ASSUME NEW b \in Attempts, b \notin cancelled PROVE KeptStory(b)
    BY <2>1, <2>5 DEF KeptStory, KeptClaim
  <2>6. ASSUME NEW b \in Attempts PROVE RowsAgree(b)' /\ AuthorityAccounted(b)'
    <3>0. RowsAgree(b) /\ AuthorityAccounted(b)
      BY DEF ClaimInv
    <3>1. CASE b \in cancelled
      BY <2>1, <2>2, <2>4, <3>0, <3>1, ZenonT(60)
      DEF RowsAgree, AuthorityAccounted, CrossedBoundary, Unfinished, PreCommit, PostCommit
    <3>2. CASE b \notin cancelled
      BY <2>5, <3>0, <3>2, KeptRows
    <3> QED BY <3>1, <3>2
  <2>7. ASSUME NEW b \in Attempts PROVE KeptClaim(b) \/ Released(b)
    <3>1. CASE b \in cancelled
      BY <2>2, <2>3, <2>4, <3>1, UnlockedNotClicked DEF Released
    <3>2. CASE b \notin cancelled
      BY <2>5, <3>2 DEF KeptStory
    <3> QED BY <3>1, <3>2
  <2>8. (\A w \in Workers : WorkerOnTrack(w))' /\ OneDriver'
    BY <2>1, <2>7, KeptWorkers DEF KeptWorker
  <2> QED BY <2>6, <2>8 DEF ClaimInv
<1>4. ASSUME NEW a \in Attempts, OperatorReconcile(a) PROVE ClaimInv'
  <2>1. PICK verdict \in {"operator_confirmed", "failed_before_commit"} :
            attempt' = [attempt EXCEPT ![a].outcome = verdict, ![a].reconciled = TRUE]
    BY <1>4 DEF OperatorReconcile
  <2>2. /\ command' = command /\ clicks' = clicks /\ worker' = worker
        /\ attempt[a].outcome = "unknown"
    BY <1>4 DEF OperatorReconcile
  <2>3. /\ attempt'[a].outcome = verdict /\ attempt'[a].reconciled = TRUE
        /\ attempt'[a].app = attempt[a].app /\ attempt'[a].stage = attempt[a].stage
        /\ attempt'[a].consumed = attempt[a].consumed
        /\ \A b \in Attempts \ {a} : attempt'[b] = attempt[b]
    BY <2>1 DEF TypeOK, AttemptRow
  <2>4. ASSUME NEW b \in Attempts PROVE RowsAgree(b)' /\ AuthorityAccounted(b)'
    <3>0. RowsAgree(b) /\ AuthorityAccounted(b)
      BY DEF ClaimInv
    <3>1. CASE b # a
      BY <2>2, <2>3, <3>0, <3>1, KeptRows DEF KeptStory, KeptClaim
    <3>2. CASE b = a
      BY <2>2, <2>3, <3>0, <3>2 DEF RowsAgree, AuthorityAccounted
    <3> QED BY <3>1, <3>2
  <2>5. (\A w \in Workers : WorkerOnTrack(w))' /\ OneDriver'
    BY <2>2, <2>3, KeptWorkers DEF KeptWorker, KeptClaim
  <2> QED BY <2>4, <2>5 DEF ClaimInv
<1>5. ASSUME NEW w \in Workers, NEW a \in Attempts, ClaimBuildMismatch(w, a) PROVE ClaimInv'
  <2>1. /\ FinishAttempt(a, "queued", "failed_before_commit", "REFUSED")
        /\ attempt[a].stage = "queued" /\ clicks' = clicks /\ worker' = worker
        /\ ~Locked(attempt[a].app)
    BY <1>5 DEF ClaimBuildMismatch
  <2> QED BY <2>1, FinishKeepsClaims, UnlockedNotClicked DEF KeptWorker
<1>6. ASSUME NEW w \in Workers, NEW outcome, NEW reason,
             worker[w].pc # "idle", Unlocked(w),
             FinishAttempt(worker[w].cmd, attempt[worker[w].cmd].stage, outcome, reason),
             worker' = [worker EXCEPT ![w] = Idle], clicks' = clicks
      PROVE  ClaimInv'
  <2>1. worker[w].cmd \in Attempts /\ ~Locked(attempt[worker[w].cmd].app)
    BY <1>6 DEF BusyWorkers, Unlocked
  <2>2. \A v \in Workers : KeptWorker(v) \/ worker'[v] = Idle
    BY <1>6 DEF KeptWorker, TypeOK
  <2> QED BY <1>6, <2>1, <2>2, FinishKeepsClaims, UnlockedNotClicked
<1>7. ASSUME NEW w \in Workers, FinishRefused(w) \/ PreflightStops(w) \/ BoundaryRefused(w)
      PROVE  ClaimInv'
  BY <1>6, <1>7, GiveUpKeepsClaims DEF FinishRefused, PreflightStops, BoundaryRefused
<1>8. ASSUME NEW w \in Workers, EnterPreflight(w) PROVE ClaimInv'
  <2> DEFINE a == worker[w].cmd
  <2>1. CASE GiveUp(w)
    BY <1>8, <2>1, GiveUpKeepsClaims DEF EnterPreflight
  <2>2. CASE /\ Owns(w) /\ attempt[a].stage = "inspecting" /\ attempt' = SetStage(a, "preparing")
             /\ GoTo(w, "preflight") /\ command' = command
    <3>1. worker[w].pc = "accepted" /\ a \in Attempts /\ clicks' = clicks
      BY <1>8 DEF EnterPreflight, BusyWorkers
    <3>2. /\ worker'[w].pc = "preflight" /\ worker'[w].cmd = a
          /\ worker'[w].token = worker[w].token
          /\ \A v \in Workers \ {w} : worker'[v] = worker[v]
      BY <2>2 DEF GoTo, TypeOK, WorkerState
    <3> QED BY <2>2, <3>1, <3>2, StageRows, AdvanceKeepsClaims, ZenonT(60)
  <2> QED BY <1>8, <2>1, <2>2 DEF EnterPreflight
<1>9. ASSUME NEW w \in Workers, MarkReady(w) PROVE ClaimInv'
  <2> DEFINE a == worker[w].cmd
  <2>0. worker[w].pc = "preflight" /\ a \in Attempts /\ clicks' = clicks
    BY <1>9 DEF MarkReady, BusyWorkers
  <2>1. CASE GiveUp(w)
    BY <2>0, <2>1, GiveUpKeepsClaims
  <2>2. CASE /\ worker' = [worker EXCEPT ![w].pc = "refusing", ![w].reason = "FORM_CHANGED"]
             /\ attempt' = attempt /\ command' = command
    <3>1. /\ worker'[w].pc = "refusing" /\ worker'[w].cmd = a
          /\ worker'[w].token = worker[w].token
          /\ \A v \in Workers \ {w} : worker'[v] = worker[v]
      BY <2>2 DEF TypeOK, WorkerState
    <3>2. attempt' = attempt /\ command' = command /\ clicks' = clicks
      BY <2>0, <2>2
    <3>3. \A b \in Attempts : RowsAgree(b)' /\ AuthorityAccounted(b)'
      BY <3>2 DEF ClaimInv, RowsAgree, AuthorityAccounted
    <3>4. \A v \in Workers : WorkerOnTrack(v)'
      BY <2>0, <3>1, <3>2 DEF ClaimInv, WorkerOnTrack, Owns, Clicking
    <3>5. OneDriver'
      BY <2>0, <3>1, <3>2 DEF ClaimInv, OneDriver, Driving, Owns, Clicking
    <3> QED BY <3>3, <3>4, <3>5 DEF ClaimInv
  <2>3. ASSUME NEW h, Owns(w), attempt[a].stage = "preparing", attempt' = SetStage(a, "ready"),
               command' = [command EXCEPT ![a].age = 0],
               worker' = [worker EXCEPT ![w].pc = "ready", ![w].handle = h]
        PROVE  ClaimInv'
    <3>1. /\ worker'[w].pc = "ready" /\ worker'[w].cmd = a
          /\ worker'[w].token = worker[w].token
          /\ \A v \in Workers \ {w} : worker'[v] = worker[v]
      BY <2>3 DEF TypeOK, WorkerState
    <3>2. /\ command'[a].state = command[a].state /\ command'[a].token = command[a].token
          /\ \A b \in Attempts \ {a} : command'[b] = command[b]
      BY <2>0, <2>3 DEF TypeOK, CommandRow
    <3> QED BY <2>0, <2>3, <3>1, <3>2, StageRows, AdvanceKeepsClaims, ZenonT(60)
  <2> QED BY <1>9, <2>1, <2>2, <2>3 DEF MarkReady
<1>10. ASSUME NEW w \in Workers, EnterCommitBoundary(w) PROVE ClaimInv'
  <2> DEFINE a == worker[w].cmd
  <2>0. /\ worker[w].pc = "ready" /\ a \in Attempts /\ clicks' = clicks /\ Owns(w)
        /\ attempt[a].stage = "ready" /\ GoTo(w, "boundary")
        /\ attempt' = [SetStage(a, "committing") EXCEPT ![a].consumed = TRUE]
        /\ command' = [command EXCEPT ![a].age = 0]
    BY <1>10 DEF EnterCommitBoundary, AtBoundary, BusyWorkers
  <2>1. /\ worker'[w].pc = "boundary" /\ worker'[w].cmd = a
        /\ worker'[w].token = worker[w].token
        /\ \A v \in Workers \ {w} : worker'[v] = worker[v]
    BY <2>0 DEF GoTo, TypeOK, WorkerState
  <2>2. /\ command'[a].state = command[a].state /\ command'[a].token = command[a].token
        /\ \A b \in Attempts \ {a} : command'[b] = command[b]
    BY <2>0 DEF TypeOK, CommandRow
  <2> QED BY <2>0, <2>1, <2>2, CommitRows, AdvanceKeepsClaims
<1>11. ASSUME NEW w \in Workers, FinishConfirmed(w) \/ FinishUnknown(w) PROVE ClaimInv'
  <2> DEFINE a == worker[w].cmd
  <2>1. Clicking(w) /\ a \in Attempts /\ clicks' = clicks /\ worker' = [worker EXCEPT ![w] = Idle]
    BY <1>11 DEF FinishConfirmed, FinishUnknown, Clicking, BusyWorkers
  <2>2. attempt[a].stage = "committing"
    BY <2>1 DEF ClaimInv, WorkerOnTrack
  <2>3. \A v \in Workers : KeptWorker(v) \/ worker'[v] = Idle
    BY <2>1 DEF KeptWorker, TypeOK
  <2>4. \A v \in Workers : worker[v].cmd = a /\ Clicking(v) => worker'[v].pc = "idle"
    <3>1. \A v \in Workers : worker[v].cmd = a /\ Clicking(v) => v = w
      BY <2>1 DEF ClaimInv, OneDriver, Driving, Clicking
    <3> QED BY <2>1, <3>1 DEF Idle, TypeOK
  <2>5. CASE FinishUnknown(w)
    BY <2>1, <2>3, <2>4, <2>5, FinishKeepsClaims DEF FinishUnknown
  <2>6. CASE FinishConfirmed(w)
    <3>1. clicks[a] = 1 /\ FinishAttempt(a, "verifying", "confirmed_submitted", "none")
      BY <2>6 DEF FinishConfirmed, ClaimInv, WorkerOnTrack
    <3> QED BY <2>1, <2>2, <2>3, <2>4, <3>1, FinishKeepsClaims
  <2> QED BY <1>11, <2>5, <2>6
<1>12. ASSUME NEW w \in Workers, Crash(w) \/ BoundarySuperseded(w) PROVE ClaimInv'
  BY <1>12, GiveUpKeepsClaims DEF Crash, BoundarySuperseded, GiveUp
<1>13. ASSUME NEW a \in Attempts, Quarantine(a) PROVE ClaimInv'
  <2>1. /\ FinishAttempt(a, attempt[a].stage, "unknown", "none")
        /\ clicks' = clicks /\ worker' = worker /\ ~Locked(attempt[a].app)
    BY <1>13 DEF Quarantine, Stale
  <2> QED BY <2>1, FinishKeepsClaims, UnlockedNotClicked DEF KeptWorker
<1>14. ASSUME NEW a \in Attempts, Redeliver(a) PROVE ClaimInv'
  <2>1. /\ attempt' = SetStage(a, "queued") /\ clicks' = clicks /\ worker' = worker
        /\ ~Locked(attempt[a].app) /\ ~CrossedBoundary(a) /\ command[a].state = "claimed"
    BY <1>14 DEF Redeliver, Stale
  <2>2. /\ command'[a].state = "pending" /\ command'[a].token = NoToken
        /\ \A b \in Attempts \ {a} : command'[b] = command[b]
    BY <1>14 DEF Redeliver, TypeOK
  <2>3. ASSUME NEW b \in Attempts PROVE RowsAgree(b)' /\ AuthorityAccounted(b)'
    <3>0. RowsAgree(b) /\ AuthorityAccounted(b)
      BY DEF ClaimInv
    <3>1. CASE b # a
      BY <2>1, <2>2, <3>0, <3>1, KeptRows, StageRows DEF KeptStory, KeptClaim
    <3>2. CASE b = a
      BY <2>1, <2>2, <3>0, <3>2, StageRows
      DEF RowsAgree, AuthorityAccounted, CrossedBoundary
    <3> QED BY <3>1, <3>2
  <2>4. \A b \in Attempts : KeptClaim(b) \/ Released(b)
    BY <2>1, <2>2, StageRows, UnlockedNotClicked DEF KeptClaim, Released
  <2>5. (\A w \in Workers : WorkerOnTrack(w))' /\ OneDriver'
    BY <2>1, <2>4, KeptWorkers DEF KeptWorker
  <2> QED BY <2>3, <2>5 DEF ClaimInv
<1>15. CASE Tick
  <2>1. \A b \in Attempts : KeptStory(b)
    BY <1>15 DEF Tick, KeptStory, KeptClaim, TypeOK, AttemptRow, CommandRow
  <2>2. \A v \in Workers : KeptWorker(v)
    BY <1>15 DEF Tick, KeptWorker, TypeOK, WorkerState
  <2> QED BY <2>1, <2>2, QuietStep
<1>16. CASE OperatorStep
  BY <1>1, <1>2, <1>3, <1>4, <1>16, ZenonT(60) DEF OperatorStep, Approve, WhatsAppApprove, EditContent,
     RewriteContent, RerouteCv, Regenerate, ConfirmAnswer, InspectStart, InspectPersist,
     InspectAbandon, Prepare, Retry
<1> QED
  BY <1>1, <1>5, <1>7, <1>8, <1>9, <1>10, <1>11, <1>12, <1>13, <1>14, <1>15, <1>16,
     ClaimKeepsClaims, ExecuteKeepsClaims, LockKeepsClaims, ClickKeepsClaims
  DEF Next, WorkerStep, vars

\* The empty tables agree.
LEMMA ClaimInit == Init => ClaimInv
<1> SUFFICES ASSUME Init PROVE ClaimInv
  OBVIOUS
<1>1. \A a \in Attempts : RowsAgree(a) /\ AuthorityAccounted(a)
  BY DEF Init, NoAttempt, RowsAgree, AuthorityAccounted
<1>2. (\A w \in Workers : WorkerOnTrack(w)) /\ OneDriver
  BY DEF Init, Idle, WorkerOnTrack, OneDriver, Clicking, Driving
<1> QED BY <1>1, <1>2 DEF ClaimInv

\* The core of the argument: rows, spent authority, claims and workers always
\* agree, and one worker drives the browser of a command.
THEOREM ClaimsConsistent == Spec => [](TypeOK /\ BusyWorkers /\ ClaimInv)
<1>1. Init => TypeOK /\ BusyWorkers /\ ClaimInv
  BY TypeInit, ClaimInit DEF Init, BusyWorkers, Idle
<1>2. TypeOK /\ BusyWorkers /\ ClaimInv /\ [Next]_vars => (TypeOK /\ BusyWorkers /\ ClaimInv)'
  BY TypeStep, BusyStep, ClaimStep
<1> QED BY <1>1, <1>2, PTL DEF Spec

\* The employer sees at most one final action per attempt, however many workers
\* stall, crash, adopt a claim or are redelivered.
THEOREM AtMostOneClick == Spec => []OneClickPerAttempt
<1>1. ClaimInv => OneClickPerAttempt
  BY DEF ClaimInv, AuthorityAccounted, OneClickPerAttempt
<1> QED BY <1>1, ClaimsConsistent, PTL

\* A worker inside executor.commit owns its claim and is alone with the
\* application, although the claim token fences nobody by itself.
THEOREM ClickerAlone == Spec => []ClickerIsAlone
<1>1. BusyWorkers /\ ClaimInv => ClickerIsAlone
  <2> SUFFICES ASSUME BusyWorkers, ClaimInv, NEW w \in Workers, Clicking(w)
               PROVE  /\ Owns(w) /\ attempt[worker[w].cmd].stage = "committing"
                      /\ attempt[worker[w].cmd].consumed
                      /\ \A v \in Workers \ {w} : Clicking(v) =>
                             attempt[worker[v].cmd].app # attempt[worker[w].cmd].app
    BY DEF ClickerIsAlone, Clicking
  <2>1. Owns(w) /\ attempt[worker[w].cmd].stage = "committing" /\ worker[w].cmd \in Attempts
    BY DEF ClaimInv, WorkerOnTrack, BusyWorkers, Clicking
  <2>2. attempt[worker[w].cmd].consumed
    BY <2>1 DEF ClaimInv, AuthorityAccounted
  <2>3. \A v \in Workers \ {w} : Clicking(v) =>
            attempt[worker[v].cmd].app # attempt[worker[w].cmd].app
    BY DEF ClaimInv, OneDriver, Clicking, Driving
  <2> QED BY <2>1, <2>2, <2>3
<1> QED BY <1>1, ClaimsConsistent, PTL

\* Once the employer saw a final action, only the operator can say that it did
\* not happen; and CONFIRMED_SUBMITTED always means that it did.
THEOREM ClickRemembered == Spec => []ClickIsNeverForgotten
<1>1. TypeOK /\ ClaimInv => ClickIsNeverForgotten
  BY DEF ClaimInv, AuthorityAccounted, ClickIsNeverForgotten
<1> QED BY <1>1, ClaimsConsistent, PTL

-----------------------------------------------------------------------------
(***************************************************************************)
(* Histories.                                                              *)
(***************************************************************************)

\* How a step may change an attempt that exists already.
Ages(b) ==
    /\ attempt'[b].app = attempt[b].app /\ attempt'[b].key = attempt[b].key
    /\ attempt'[b].revision = attempt[b].revision /\ attempt'[b].plan = attempt[b].plan
    /\ attempt'[b].stage = "absent" <=> attempt[b].stage = "absent"
    /\ Unfinished(b)' => Unfinished(b)
    /\ attempt'[b].outcome \in ImmutableOutcomes =>
           attempt[b].outcome \in ImmutableOutcomes \/ Unfinished(b)
    /\ attempt[b].reconciled /\ attempt[b].outcome = "failed_before_commit" =>
           attempt'[b].reconciled /\ attempt'[b].outcome = "failed_before_commit"

\* An untouched attempt ages.
LEMMA SameAges == ASSUME NEW b, attempt'[b] = attempt[b] PROVE Ages(b)
BY DEF Ages, Unfinished

\* _finish_attempt lets attempts age.
LEMMA FinishAges ==
    ASSUME TypeOK, ClaimInv, NEW a \in Attempts, NEW stage, NEW outcome, NEW reason,
           FinishAttempt(a, stage, outcome, reason),
           \/ stage = attempt[a].stage
           \/ stage = "verifying" /\ attempt[a].stage = "committing"
    PROVE  \A b \in Attempts : Ages(b)
<1>1. Unfinished(a) /\ ~attempt[a].reconciled
  BY FinishRows DEF AllowedTerminalOutcome, Unfinished, PreCommit, PostCommit, ClaimInv, RowsAgree,
     AuthorityAccounted
<1>2. attempt' = [attempt EXCEPT ![a].stage = "finished", ![a].outcome = outcome]
  BY DEF FinishAttempt
<1>3. /\ attempt'[a].app = attempt[a].app /\ attempt'[a].key = attempt[a].key
      /\ attempt'[a].revision = attempt[a].revision /\ attempt'[a].plan = attempt[a].plan
      /\ attempt'[a].stage = "finished"
  BY <1>2 DEF TypeOK, AttemptRow
<1>4. Ages(a)
  BY <1>1, <1>3 DEF Ages, Unfinished, PreCommit, PostCommit
<1> QED BY <1>4, SameAges, FinishRows

\* _set_stage lets an attempt in progress age.
LEMMA StageAges ==
    ASSUME TypeOK, ClaimInv, NEW a \in Attempts, NEW stage, attempt' = SetStage(a, stage),
           stage # "absent", Unfinished(a)
    PROVE  \A b \in Attempts : Ages(b)
<1>1. /\ attempt'[a].app = attempt[a].app /\ attempt'[a].key = attempt[a].key
      /\ attempt'[a].revision = attempt[a].revision /\ attempt'[a].plan = attempt[a].plan
      /\ attempt'[a].stage = stage /\ attempt'[a].outcome = "none"
  BY DEF SetStage, TypeOK, AttemptRow
<1>2. ~attempt[a].reconciled
  BY DEF ClaimInv, RowsAgree, AuthorityAccounted, Unfinished, PreCommit, PostCommit
<1>3. Ages(a)
  BY <1>1, <1>2 DEF Ages, Unfinished, PreCommit, PostCommit, ImmutableOutcomes
<1> QED BY <1>3, SameAges, StageRows

\* Only Submit brings an attempt into being; every other step lets it age.
LEMMA AttemptsAge ==
    ASSUME TypeOK, BusyWorkers, ClaimInv, [Next]_vars,
           ~ \E p \in Apps, k \in Keys : Submit(p, k)
    PROVE  \A b \in Attempts : Ages(b)
<1>1. CASE UNCHANGED attempt
  BY <1>1, SameAges
<1>2. ASSUME NEW p \in Apps, Skip(p) PROVE \A b \in Attempts : Ages(b)
  <2> DEFINE cancelled == {a \in History(p) : IsLatest(a, p) /\ Unfinished(a)}
  <2>1. attempt' = [a \in Attempts |->
               IF a \in cancelled
               THEN [attempt[a] EXCEPT !.stage = "finished", !.outcome = "failed_before_commit"]
               ELSE attempt[a]]
    BY <1>2 DEF Skip
  <2>2. \A a \in cancelled : Unfinished(a)
    OBVIOUS
  <2> HIDE DEF cancelled
  <2>3. ASSUME NEW b \in Attempts, b \in cancelled PROVE Ages(b)
    <3>1. /\ attempt'[b].app = attempt[b].app /\ attempt'[b].key = attempt[b].key
          /\ attempt'[b].revision = attempt[b].revision /\ attempt'[b].plan = attempt[b].plan
          /\ attempt'[b].stage = "finished" /\ attempt'[b].outcome = "failed_before_commit"
          /\ attempt'[b].reconciled = attempt[b].reconciled
      BY <2>1, <2>3 DEF TypeOK, AttemptRow
    <3> QED BY <2>2, <2>3, <3>1 DEF Ages, Unfinished, PreCommit, PostCommit, ImmutableOutcomes
  <2>4. ASSUME NEW b \in Attempts, b \notin cancelled PROVE Ages(b)
    BY <2>1, <2>4, SameAges
  <2> QED BY <2>3, <2>4
<1>3. ASSUME NEW a \in Attempts, OperatorReconcile(a) PROVE \A b \in Attempts : Ages(b)
  <2>1. PICK verdict \in {"operator_confirmed", "failed_before_commit"} :
            attempt' = [attempt EXCEPT ![a].outcome = verdict, ![a].reconciled = TRUE]
    BY <1>3 DEF OperatorReconcile
  <2>2. attempt[a].outcome = "unknown"
    BY <1>3 DEF OperatorReconcile
  <2>3. /\ attempt'[a].app = attempt[a].app /\ attempt'[a].key = attempt[a].key
        /\ attempt'[a].revision = attempt[a].revision /\ attempt'[a].plan = attempt[a].plan
        /\ attempt'[a].stage = attempt[a].stage
        /\ \A b \in Attempts \ {a} : attempt'[b] = attempt[b]
    BY <2>1 DEF TypeOK, AttemptRow
  <2>4. Ages(a)
    BY <2>2, <2>3 DEF Ages, Unfinished, ImmutableOutcomes
  <2> QED BY <2>3, <2>4, SameAges
<1>4. ASSUME NEW w \in Workers, NEW a \in Attempts, Claim(w, a) \/ ClaimBuildMismatch(w, a)
      PROVE  \A b \in Attempts : Ages(b)
  <2>1. attempt[a].stage = "queued"
    BY <1>4 DEF Claim, ClaimBuildMismatch
  <2>2. CASE Claim(w, a)
    BY <2>1, <2>2, StageAges DEF Claim, Unfinished, PreCommit
  <2>3. CASE ClaimBuildMismatch(w, a)
    <3>1. FinishAttempt(a, "queued", "failed_before_commit", "REFUSED")
      BY <2>3 DEF ClaimBuildMismatch
    <3> QED BY <2>1, <3>1, FinishAges
  <2> QED BY <1>4, <2>2, <2>3
<1>5. ASSUME NEW w \in Workers,
             \/ FinishRefused(w) \/ PreflightStops(w) \/ BoundaryRefused(w) \/ LockForCommit(w)
             \/ FinishConfirmed(w) \/ FinishUnknown(w)
      PROVE  \A b \in Attempts : Ages(b)
  <2>1. worker[w].cmd \in Attempts
    BY <1>5 DEF FinishRefused, PreflightStops, BoundaryRefused, LockForCommit, FinishConfirmed,
       FinishUnknown, BusyWorkers
  <2>2. worker[w].pc = "clicked" => attempt[worker[w].cmd].stage = "committing"
    BY DEF ClaimInv, WorkerOnTrack, Clicking
  <2>3. CASE FinishRefused(w) \/ PreflightStops(w) \/ BoundaryRefused(w)
    <3>1. \/ UNCHANGED attempt
          \/ \E outcome, reason :
                 FinishAttempt(worker[w].cmd, attempt[worker[w].cmd].stage, outcome, reason)
      BY <2>3 DEF FinishRefused, PreflightStops, BoundaryRefused, GiveUp
    <3> QED BY <1>1, <2>1, <3>1, FinishAges
  <2>4. CASE LockForCommit(w)
    BY <1>1, <2>1, <2>4, FinishAges DEF LockForCommit, GiveUp
  <2>5. CASE FinishConfirmed(w) \/ FinishUnknown(w)
    <3>1. \/ FinishAttempt(worker[w].cmd, "verifying", "confirmed_submitted", "none")
             /\ worker[w].pc = "clicked"
          \/ FinishAttempt(worker[w].cmd, attempt[worker[w].cmd].stage, "unknown", "none")
      BY <2>5 DEF FinishConfirmed, FinishUnknown
    <3> QED BY <2>1, <2>2, <3>1, FinishAges
  <2> QED BY <1>5, <2>3, <2>4, <2>5
<1>6. ASSUME NEW w \in Workers, EnterPreflight(w) \/ MarkReady(w)
      PROVE  \A b \in Attempts : Ages(b)
  <2>1. worker[w].cmd \in Attempts
    BY <1>6 DEF EnterPreflight, MarkReady, BusyWorkers
  <2> QED BY <1>1, <1>6, <2>1, StageAges
      DEF EnterPreflight, MarkReady, GiveUp, Unfinished, PreCommit
<1>7. ASSUME NEW w \in Workers, EnterCommitBoundary(w) PROVE \A b \in Attempts : Ages(b)
  <2> DEFINE a == worker[w].cmd
  <2>1. /\ a \in Attempts /\ attempt[a].stage = "ready"
        /\ attempt' = [SetStage(a, "committing") EXCEPT ![a].consumed = TRUE]
    BY <1>7 DEF EnterCommitBoundary, AtBoundary, BusyWorkers
  <2>2. /\ attempt'[a].app = attempt[a].app /\ attempt'[a].key = attempt[a].key
        /\ attempt'[a].revision = attempt[a].revision /\ attempt'[a].plan = attempt[a].plan
        /\ attempt'[a].stage = "committing" /\ attempt'[a].outcome = "none"
        /\ \A b \in Attempts \ {a} : attempt'[b] = attempt[b]
    BY <2>1 DEF SetStage, TypeOK, AttemptRow
  <2>3. ~attempt[a].reconciled
    BY <2>1 DEF ClaimInv, RowsAgree, AuthorityAccounted
  <2>4. Ages(a)
    BY <2>1, <2>2, <2>3 DEF Ages, Unfinished, PreCommit, PostCommit, ImmutableOutcomes
  <2> QED BY <2>2, <2>4, SameAges
<1>8. ASSUME NEW a \in Attempts, Quarantine(a) \/ Redeliver(a) PROVE \A b \in Attempts : Ages(b)
  <2>1. Unfinished(a)
    BY <1>8 DEF Quarantine, Redeliver, Stale, ClaimInv, RowsAgree, Unfinished, PreCommit, PostCommit
  <2>2. CASE Quarantine(a)
    <3>1. FinishAttempt(a, attempt[a].stage, "unknown", "none")
      BY <2>2 DEF Quarantine
    <3> QED BY <3>1, FinishAges
  <2>3. CASE Redeliver(a)
    BY <2>1, <2>3, StageAges DEF Redeliver
  <2> QED BY <1>8, <2>2, <2>3
<1>9. CASE Tick
  BY <1>9 DEF Tick, Ages, Unfinished, TypeOK, AttemptRow
<1> QED
  BY <1>1, <1>2, <1>3, <1>4, <1>5, <1>6, <1>7, <1>8, <1>9
  DEF Next, OperatorStep, Approve, WhatsAppApprove, WorkerStep, vars, EditContent, RewriteContent,
      RerouteCv, Regenerate, ConfirmAnswer, InspectStart, InspectPersist, InspectAbandon, Prepare,
      Retry, Execute, GiveUp, BoundarySuperseded, Click, Crash

\* What _create_one writes.
Admitted(a, p, k) ==
    /\ attempt[a].stage = "absent"
    /\ \A b \in 1 .. a - 1 : attempt[b].stage # "absent"
    /\ attempt'[a].app = p /\ attempt'[a].key = k
    /\ attempt'[a].stage = "queued" /\ attempt'[a].outcome = "none"
    /\ attempt'[a].revision = application[p].revision
    /\ attempt'[a].plan = plan[p].id
    /\ attempt'[a].permitLeft = PermitLifetime(p)
    /\ attempt'[a].consumed = FALSE
    /\ command[a].state = "absent" /\ command'[a].state = "pending"
    /\ command'[a].redelivered = command[a].redelivered
    /\ \A b \in Attempts \ {a} : attempt'[b] = attempt[b] /\ command'[b] = command[b]

\* Submit admits exactly one attempt.
LEMMA SubmitRows ==
    ASSUME TypeOK, ClaimInv, NEW p \in Apps, NEW k \in Keys, Submit(p, k)
    PROVE  \E a \in Attempts : Admitted(a, p, k)
<1>1. PICK a \in Attempts :
         /\ attempt[a].stage = "absent"
         /\ \A b \in 1 .. a - 1 : attempt[b].stage # "absent"
         /\ attempt' = [attempt EXCEPT ![a] =
                [app |-> p, key |-> k, revision |-> application[p].revision,
                 plan |-> plan[p].id, stage |-> "queued", outcome |-> "none",
                 reconciled |-> FALSE, permitLeft |-> PermitLifetime(p),
                 consumed |-> FALSE]]
         /\ command' = [command EXCEPT ![a].state = "pending"]
  BY DEF Submit
<1>2. /\ attempt'[a].app = p /\ attempt'[a].key = k
      /\ attempt'[a].stage = "queued" /\ attempt'[a].outcome = "none"
      /\ attempt'[a].revision = application[p].revision
      /\ attempt'[a].plan = plan[p].id
      /\ attempt'[a].permitLeft = PermitLifetime(p)
      /\ attempt'[a].consumed = FALSE
      /\ \A b \in Attempts \ {a} : attempt'[b] = attempt[b]
  BY <1>1 DEF TypeOK
<1>3. /\ command'[a].state = "pending" /\ command'[a].redelivered = command[a].redelivered
      /\ \A b \in Attempts \ {a} : command'[b] = command[b]
  BY <1>1 DEF TypeOK, CommandRow
<1>4. command[a].state = "absent"
  BY <1>1 DEF ClaimInv, RowsAgree
<1>5. attempt[a].stage = "absent" /\ \A b \in 1 .. a - 1 : attempt[b].stage # "absent"
  BY <1>1
<1> QED BY <1>2, <1>3, <1>4, <1>5 DEF Admitted

\* No step admits a second live attempt, reuses a key or leaves a gap.
LEMMA HistoryStep ==
    TypeOK /\ BusyWorkers /\ ClaimInv /\ HistoryInv /\ [Next]_vars => HistoryInv'
<1> SUFFICES ASSUME TypeOK, BusyWorkers, ClaimInv, HistoryInv, [Next]_vars PROVE HistoryInv'
  OBVIOUS
<1>1. CASE \A b \in Attempts : Ages(b)
  <2>1. \A a, b \in Attempts :
            a < b /\ attempt'[a].stage = "absent" => attempt'[b].stage = "absent"
    BY <1>1 DEF HistoryInv, Ages
  <2>2. \A a, b \in Attempts : Unfinished(a)' /\ attempt'[b].app = attempt'[a].app => b <= a
    BY <1>1 DEF HistoryInv, Ages
  <2>3. OneLiveAttempt'
    BY <1>1 DEF HistoryInv, OneLiveAttempt, Ages
  <2>4. KeysAreUnique'
    BY <1>1 DEF HistoryInv, KeysAreUnique, Ages
  <2> QED BY <2>1, <2>2, <2>3, <2>4 DEF HistoryInv
<1>2. ASSUME NEW p \in Apps, NEW k \in Keys, Submit(p, k) PROVE HistoryInv'
  <2>0. PICK a \in Attempts : Admitted(a, p, k)
    BY <1>2, SubmitRows
  <2>1. /\ attempt[a].stage = "absent"
        /\ \A b \in 1 .. a - 1 : attempt[b].stage # "absent"
        /\ attempt'[a].app = p /\ attempt'[a].key = k
        /\ attempt'[a].stage = "queued" /\ attempt'[a].outcome = "none"
        /\ \A b \in Attempts \ {a} : attempt'[b] = attempt[b]
    BY <2>0 DEF Admitted
  <2>2. \A b \in Attempts : a < b => attempt[b].stage = "absent" /\ attempt[b].app = NoApp
    BY <2>1 DEF HistoryInv, ClaimInv, RowsAgree
  <2>3. \A b \in Attempts : attempt[b].app = p =>
            ~Unfinished(b) /\ attempt[b].outcome \notin ImmutableOutcomes
    BY <1>2 DEF Submit, Admissible, History
  <2>4. \A b \in Attempts : attempt[b].key # k
    BY <1>2 DEF Submit, KnownKey
  <2>5. \A b, c \in Attempts :
            b < c /\ attempt'[b].stage = "absent" => attempt'[c].stage = "absent"
    <3> SUFFICES ASSUME NEW b \in Attempts, NEW c \in Attempts, b < c,
                        attempt'[b].stage = "absent"
                 PROVE  attempt'[c].stage = "absent"
      OBVIOUS
    <3>1. b # a /\ attempt[b].stage = "absent"
      BY <2>1
    <3>2. b \in Nat /\ a \in Nat /\ b >= 1
      BY DEF Attempts
    <3>3. ~(b < a)
      BY <2>1, <3>1, <3>2
    <3>4. c # a
      BY <3>1, <3>2, <3>3
    <3> QED BY <2>1, <3>1, <3>4 DEF HistoryInv
  <2>6. \A b, c \in Attempts : Unfinished(b)' /\ attempt'[c].app = attempt'[b].app => c <= b
    <3> SUFFICES ASSUME NEW b \in Attempts, NEW c \in Attempts, Unfinished(b)',
                        attempt'[c].app = attempt'[b].app
                 PROVE  c <= b
      OBVIOUS
    <3>1. b \in Nat /\ c \in Nat /\ a \in Nat
      BY DEF Attempts
    <3>2. CASE b = a
      <4>1. c # a => attempt[c].app = p
        BY <2>1, <3>2
      <4>2. NoApp # p
        BY AbsentAssumption
      <4> QED BY <2>2, <3>1, <3>2, <4>1, <4>2
    <3>3. CASE b # a /\ c = a
      BY <2>1, <2>3, <3>3 DEF Unfinished
    <3>4. CASE b # a /\ c # a
      BY <2>1, <3>4 DEF HistoryInv, Unfinished
    <3> QED BY <3>2, <3>3, <3>4
  <2>7. OneLiveAttempt'
    <3> SUFFICES ASSUME NEW b \in Attempts, NEW c \in Attempts, b # c,
                        attempt'[b].app = attempt'[c].app, Unfinished(b)'
                 PROVE  ~Unfinished(c)' /\ attempt'[c].outcome \notin ImmutableOutcomes
      BY DEF OneLiveAttempt
    <3>1. CASE b = a
      BY <2>1, <2>3, <3>1 DEF Unfinished
    <3>2. CASE c = a
      BY <2>1, <2>3, <3>2 DEF Unfinished
    <3>3. CASE b # a /\ c # a
      BY <2>1, <3>3 DEF HistoryInv, OneLiveAttempt, Unfinished
    <3> QED BY <3>1, <3>2, <3>3
  <2>8. KeysAreUnique'
    BY <2>1, <2>4 DEF HistoryInv, KeysAreUnique
  <2> QED BY <2>5, <2>6, <2>7, <2>8 DEF HistoryInv
<1> QED BY <1>1, <1>2, AttemptsAge

\* A second final action needs the operator's word about the first.
LEMMA SecondStep ==
    ASSUME TypeOK, BusyWorkers, ClaimInv, HistoryInv, NoSecondApplication, [Next]_vars, ClaimInv'
    PROVE  NoSecondApplication'
<1>1. CASE clicks' = clicks
  <2> SUFFICES ASSUME NEW a \in Attempts, NEW b \in Attempts, a < b,
                      attempt'[a].app = attempt'[b].app, clicks[a] > 0, clicks[b] > 0
               PROVE  attempt'[a].reconciled /\ attempt'[a].outcome = "failed_before_commit"
    BY <1>1 DEF NoSecondApplication
  <2>1. attempt[a].stage # "absent" /\ attempt[b].stage # "absent"
    BY DEF ClaimInv, AuthorityAccounted
  <2>2. CASE \A c \in Attempts : Ages(c)
    BY <2>2 DEF Ages, NoSecondApplication
  <2>3. CASE \E p \in Apps, k \in Keys : Submit(p, k)
    <3>1. PICK p \in Apps, k \in Keys : Submit(p, k)
      BY <2>3
    <3>2. PICK c \in Attempts : Admitted(c, p, k)
      BY <3>1, SubmitRows
    <3>3. attempt'[a] = attempt[a] /\ attempt'[b] = attempt[b]
      BY <2>1, <3>2 DEF Admitted
    <3> QED BY <3>3 DEF NoSecondApplication
  <2> QED BY <2>2, <2>3, AttemptsAge
<1>2. ASSUME NEW w \in Workers, Click(w) PROVE NoSecondApplication'
  <2> DEFINE c == worker[w].cmd
  <2>1. /\ c \in Attempts /\ attempt' = attempt /\ attempt[c].stage = "committing"
        /\ \A b \in Attempts \ {c} : clicks'[b] = clicks[b]
    BY <1>2 DEF Click, BusyWorkers, ClaimInv, WorkerOnTrack, Clicking, TypeOK
  <2>2. Unfinished(c) /\ \A b \in Attempts : Unfinished(c) /\ attempt[b].app = attempt[c].app => b <= c
    BY <2>1 DEF HistoryInv, Unfinished, PostCommit
  <2> SUFFICES ASSUME NEW a \in Attempts, NEW b \in Attempts, a < b,
                      attempt[a].app = attempt[b].app, clicks'[a] > 0, clicks'[b] > 0
               PROVE  attempt[a].reconciled /\ attempt[a].outcome = "failed_before_commit"
    BY <2>1 DEF NoSecondApplication
  <2>3. a \in Nat /\ b \in Nat /\ c \in Nat
    BY <2>1 DEF Attempts
  <2>4. a # c
    BY <2>1, <2>2, <2>3
  <2>5. CASE b = c
    <3>1. ~Unfinished(a) /\ attempt[a].outcome \notin ImmutableOutcomes
      BY <2>1, <2>2, <2>4, <2>5 DEF HistoryInv, OneLiveAttempt
    <3>2. clicks[a] > 0 /\ AuthorityAccounted(a)
      BY <2>1, <2>4 DEF ClaimInv
    <3> QED BY <3>1, <3>2 DEF AuthorityAccounted, ImmutableOutcomes, Unfinished, PostCommit
  <2>6. CASE b # c
    BY <2>1, <2>4, <2>6 DEF NoSecondApplication
  <2> QED BY <2>5, <2>6
<1>3. clicks' = clicks \/ \E w \in Workers : Click(w)
  <2>1. CASE OperatorStep
    BY <2>1 DEF OperatorStep, Approve, WhatsAppApprove, EditContent, RewriteContent, RerouteCv,
       Regenerate, ConfirmAnswer, InspectStart, InspectPersist, InspectAbandon, Prepare, Retry,
       Skip, Submit, OperatorReconcile
  <2>2. ASSUME NEW w \in Workers, WorkerStep(w) PROVE clicks' = clicks \/ Click(w)
    BY <2>2 DEF WorkerStep, Claim, ClaimBuildMismatch, Execute, FinishRefused, EnterPreflight,
       PreflightStops, MarkReady, EnterCommitBoundary, BoundaryRefused, BoundarySuperseded,
       LockForCommit, FinishConfirmed, FinishUnknown
  <2>3. ASSUME NEW w \in Workers, Crash(w) PROVE clicks' = clicks
    BY <2>3 DEF Crash
  <2>4. CASE \E a \in Attempts : Quarantine(a) \/ Redeliver(a)
    BY <2>4 DEF Quarantine, Redeliver
  <2>5. CASE Tick \/ UNCHANGED vars
    BY <2>5 DEF Tick, vars
  <2> QED
    BY <2>1, <2>2, <2>3, <2>4, <2>5 DEF Next
<1> QED BY <1>1, <1>2, <1>3

\* The history facts hold together, from the empty history on.
Histories == TypeOK /\ BusyWorkers /\ ClaimInv /\ HistoryInv /\ NoSecondApplication

\* They hold of the empty tables.
LEMMA HistoriesInit == Init => Histories
<1> SUFFICES ASSUME Init PROVE Histories
  OBVIOUS
<1>1. \A a \in Attempts : attempt[a].stage = "absent" /\ attempt[a].key = NoKey /\ clicks[a] = 0
  BY DEF Init, NoAttempt
<1>2. TypeOK /\ BusyWorkers /\ ClaimInv
  BY TypeInit, ClaimInit DEF Init, BusyWorkers, Idle
<1>3. HistoryInv /\ NoSecondApplication
  BY <1>1 DEF HistoryInv, OneLiveAttempt, KeysAreUnique, NoSecondApplication, Unfinished, PreCommit,
     PostCommit
<1> QED BY <1>2, <1>3 DEF Histories

\* And they are kept by every step.
LEMMA HistoriesStep == Histories /\ [Next]_vars => Histories'
BY TypeStep, BusyStep, ClaimStep, HistoryStep, SecondStep DEF Histories

\* The attempt rows, their commands, the workers' beliefs and the history of
\* every application agree in every reachable state.
THEOREM HistoriesConsistent == Spec => []Histories
BY HistoriesInit, HistoriesStep, PTL DEF Spec

\* However requests race, an application has at most one attempt in progress, and
\* none over an unresolved or positive outcome.
THEOREM OneLive == Spec => []OneLiveAttempt
<1>1. Histories => OneLiveAttempt
  BY DEF Histories, HistoryInv
<1> QED BY <1>1, HistoriesConsistent, PTL

\* _find_replay answers every repetition of a key with the attempt it named first.
THEOREM UniqueKeys == Spec => []KeysAreUnique
<1>1. Histories => KeysAreUnique
  BY DEF Histories, HistoryInv
<1> QED BY <1>1, HistoriesConsistent, PTL

\* The employer sees a second attempt of an application only after the operator
\* recorded that the first one had not arrived.
THEOREM NoSecond == Spec => []NoSecondApplication
<1>1. Histories => NoSecondApplication
  BY DEF Histories
<1> QED BY <1>1, HistoriesConsistent, PTL

-----------------------------------------------------------------------------
(***************************************************************************)
(* What an operator reviewed is what a worker sends: nothing the review    *)
(* covered can change while an attempt is in progress, and a live permit   *)
(* proves that the plan it was issued for is still live.                   *)
(***************************************************************************)

\* The mutation lock refuses content and preparation changes while the newest
\* attempt, hence while any attempt, is in progress.
LEMMA MutationMeansQuiet ==
    ASSUME TypeOK, HistoryInv, NEW p \in Apps, NEW intent, MutationAllowed(p, intent),
           intent # "terminal", NEW b \in Attempts, attempt[b].app = p
    PROVE  ~Unfinished(b)
<1> SUFFICES ASSUME Unfinished(b) PROVE FALSE
  OBVIOUS
<1>1. IsLatest(b, p)
  BY DEF IsLatest, History, HistoryInv
<1> QED BY <1>1 DEF MutationAllowed, History

FrozenInv == ReviewedContentFrozen /\ PermitWithinPlan

\* What has to survive for the attempts that are still in progress afterwards.
KeptReview(b) ==
    LET p == attempt[b].app
    IN  /\ Unfinished(b) /\ attempt'[b].app = p
        /\ attempt'[b].revision = attempt[b].revision /\ attempt'[b].plan = attempt[b].plan
        /\ application'[p] = application[p]
        /\ plan'[p].id = plan[p].id /\ plan'[p].active = plan[p].active
        /\ attempt'[b].permitLeft <= plan'[p].left

\* Then the frozen review survives too.
LEMMA KeptReviews ==
    ASSUME FrozenInv, \A b \in Attempts : Unfinished(b)' => KeptReview(b)
    PROVE  FrozenInv'
<1>1. ASSUME NEW b \in Attempts, Unfinished(b)'
      PROVE  /\ StillCurrent(b)' /\ PlanActive(b)' /\ application'[attempt'[b].app].eligible
             /\ attempt'[b].permitLeft <= plan'[attempt'[b].app].left
  <2>1. KeptReview(b) /\ Unfinished(b)
    BY <1>1 DEF KeptReview
  <2>2. StillCurrent(b) /\ PlanActive(b) /\ application[attempt[b].app].eligible
    BY <2>1 DEF FrozenInv, ReviewedContentFrozen
  <2> QED BY <2>1, <2>2 DEF KeptReview, StillCurrent, PlanActive, PreparationIsCurrent
<1> QED BY <1>1 DEF FrozenInv, ReviewedContentFrozen, PermitWithinPlan

\* A step that writes only p's rows, when no attempt of p is in progress after it.
LEMMA OneAppStep ==
    ASSUME TypeOK, ClaimInv, FrozenInv, NEW p,
           \A b \in Attempts : Ages(b) /\ attempt'[b].permitLeft = attempt[b].permitLeft,
           \A q \in Apps \ {p} : application'[q] = application[q] /\ plan'[q] = plan[q],
           \A b \in Attempts : attempt[b].app = p => ~Unfinished(b)'
    PROVE  FrozenInv'
<1>1. ASSUME NEW b \in Attempts, Unfinished(b)' PROVE KeptReview(b)
  <2>1. Unfinished(b) /\ attempt[b].app # p /\ Ages(b)
    BY <1>1 DEF Ages
  <2>2. attempt[b].app \in Apps
    <3>1. attempt[b].stage # "absent"
      BY <2>1 DEF Unfinished, PreCommit, PostCommit
    <3>2. attempt[b].app # NoApp /\ attempt[b].app \in AppRefs
      BY <3>1 DEF ClaimInv, RowsAgree, TypeOK, AttemptRow
    <3> QED BY <3>2 DEF AppRefs
  <2>3. attempt[b].permitLeft <= plan[attempt[b].app].left
    BY <2>1 DEF FrozenInv, PermitWithinPlan
  <2> QED BY <2>1, <2>2, <2>3 DEF KeptReview, Ages
<1> QED BY <1>1, KeptReviews

\* A step that leaves the applications, the plans and the permits alone.
LEMMA NoReviewStep ==
    ASSUME TypeOK, ClaimInv, FrozenInv, application' = application, plan' = plan,
           \A b \in Attempts : Ages(b) /\ attempt'[b].permitLeft = attempt[b].permitLeft
    PROVE  FrozenInv'
<1>1. ASSUME NEW b \in Attempts, Unfinished(b)' PROVE KeptReview(b)
  <2>1. Unfinished(b) /\ Ages(b)
    BY <1>1 DEF Ages
  <2>2. attempt[b].permitLeft <= plan[attempt[b].app].left
    BY <2>1 DEF FrozenInv, PermitWithinPlan
  <2> QED BY <2>1, <2>2 DEF KeptReview, Ages
<1> QED BY <1>1, KeptReviews

\* Only Submit issues a permit and only time uses it up.
LEMMA PermitsKept ==
    ASSUME TypeOK, BusyWorkers, [Next]_vars, ~Tick,
           ~ \E p \in Apps, k \in Keys : Submit(p, k)
    PROVE  \A b \in Attempts : attempt'[b].permitLeft = attempt[b].permitLeft
<1>1. CASE UNCHANGED attempt
  BY <1>1
<1>2. ASSUME NEW p \in Apps, Skip(p)
      PROVE  \A b \in Attempts : attempt'[b].permitLeft = attempt[b].permitLeft
  BY <1>2 DEF Skip, TypeOK, AttemptRow
<1>3. ASSUME NEW a \in Attempts, OperatorReconcile(a)
      PROVE  \A b \in Attempts : attempt'[b].permitLeft = attempt[b].permitLeft
  <2>1. PICK verdict \in {"operator_confirmed", "failed_before_commit"} :
            attempt' = [attempt EXCEPT ![a].outcome = verdict, ![a].reconciled = TRUE]
    BY <1>3 DEF OperatorReconcile
  <2> QED BY <2>1 DEF TypeOK, AttemptRow
<1>4. ASSUME NEW a \in Attempts, \E stage, outcome, reason : FinishAttempt(a, stage, outcome, reason)
      PROVE  \A b \in Attempts : attempt'[b].permitLeft = attempt[b].permitLeft
  BY <1>4, FinishRows
<1>5. ASSUME NEW a \in Attempts, \E stage : attempt' = SetStage(a, stage)
      PROVE  \A b \in Attempts : attempt'[b].permitLeft = attempt[b].permitLeft
  BY <1>5, StageRows
<1>6. ASSUME NEW w \in Workers, EnterCommitBoundary(w)
      PROVE  \A b \in Attempts : attempt'[b].permitLeft = attempt[b].permitLeft
  <2>1. /\ worker[w].cmd \in Attempts
        /\ attempt' = [SetStage(worker[w].cmd, "committing") EXCEPT ![worker[w].cmd].consumed = TRUE]
    BY <1>6 DEF EnterCommitBoundary, BusyWorkers
  <2> QED BY <2>1, CommitRows, ZenonT(60)
<1>7. ASSUME NEW w \in Workers, NEW a \in Attempts, Claim(w, a) \/ ClaimBuildMismatch(w, a)
      PROVE  \A b \in Attempts : attempt'[b].permitLeft = attempt[b].permitLeft
  BY <1>4, <1>5, <1>7 DEF Claim, ClaimBuildMismatch
<1>8. ASSUME NEW w \in Workers,
             \/ FinishRefused(w) \/ PreflightStops(w) \/ BoundaryRefused(w) \/ LockForCommit(w)
             \/ FinishConfirmed(w) \/ FinishUnknown(w) \/ EnterPreflight(w) \/ MarkReady(w)
      PROVE  \A b \in Attempts : attempt'[b].permitLeft = attempt[b].permitLeft
  <2>1. worker[w].cmd \in Attempts
    BY <1>8 DEF FinishRefused, PreflightStops, BoundaryRefused, LockForCommit, FinishConfirmed,
       FinishUnknown, EnterPreflight, MarkReady, BusyWorkers
  <2>2. \/ UNCHANGED attempt
        \/ \E stage, outcome, reason : FinishAttempt(worker[w].cmd, stage, outcome, reason)
        \/ \E stage : attempt' = SetStage(worker[w].cmd, stage)
    BY <1>8 DEF FinishRefused, PreflightStops, BoundaryRefused, LockForCommit, FinishConfirmed,
       FinishUnknown, EnterPreflight, MarkReady, GiveUp
  <2> QED BY <1>1, <1>4, <1>5, <2>1, <2>2
<1>9. ASSUME NEW a \in Attempts, Quarantine(a) \/ Redeliver(a)
      PROVE  \A b \in Attempts : attempt'[b].permitLeft = attempt[b].permitLeft
  BY <1>4, <1>5, <1>9 DEF Quarantine, Redeliver
<1> QED
  BY <1>1, <1>2, <1>3, <1>6, <1>7, <1>8, <1>9
  DEF Next, OperatorStep, Approve, WhatsAppApprove, WorkerStep, vars, EditContent, RewriteContent,
      RerouteCv, Regenerate, ConfirmAnswer, InspectStart, InspectPersist, InspectAbandon, Prepare,
      Retry, Execute, GiveUp, BoundarySuperseded, Click, Crash

\* A finished attempt revokes the review it ran under, and no other attempt of
\* its application was in progress.
LEMMA FinishFrozen ==
    ASSUME TypeOK, ClaimInv, HistoryInv, FrozenInv, NEW a \in Attempts, NEW stage, NEW outcome,
           NEW reason, FinishAttempt(a, stage, outcome, reason),
           \/ stage = attempt[a].stage
           \/ stage = "verifying" /\ attempt[a].stage = "committing"
    PROVE  FrozenInv'
<1>1. \A b \in Attempts : Ages(b) /\ attempt'[b].permitLeft = attempt[b].permitLeft
  BY FinishAges, FinishRows
<1>2. Unfinished(a)
  BY FinishRows DEF AllowedTerminalOutcome, Unfinished, PreCommit, PostCommit
<1>3. ~Unfinished(a)'
  BY FinishRows DEF Unfinished, PreCommit, PostCommit
<1>4. \A b \in Attempts : attempt[b].app = attempt[a].app => ~Unfinished(b)'
  BY <1>1, <1>2, <1>3 DEF HistoryInv, OneLiveAttempt, Ages
<1>5. \A q \in Apps \ {attempt[a].app} : application'[q] = application[q] /\ plan'[q] = plan[q]
  BY DEF FinishAttempt, TypeOK
<1> QED BY <1>1, <1>4, <1>5, OneAppStep

\* No step changes what an attempt in progress was reviewed for.
LEMMA FrozenStep ==
    ASSUME TypeOK, BusyWorkers, ClaimInv, HistoryInv, FrozenInv, [Next]_vars
    PROVE  FrozenInv'
<1>1. ASSUME NEW p \in Apps, NEW k \in Keys, Submit(p, k) PROVE FrozenInv'
  <2>0. PICK a \in Attempts : Admitted(a, p, k)
    BY <1>1, SubmitRows
  <2>1. /\ attempt[a].stage = "absent" /\ attempt'[a].app = p
        /\ attempt'[a].revision = application[p].revision /\ attempt'[a].plan = plan[p].id
        /\ attempt'[a].permitLeft = PermitLifetime(p)
        /\ \A b \in Attempts \ {a} : attempt'[b] = attempt[b]
    BY <2>0 DEF Admitted
  <2>2. application' = application /\ plan' = plan
    BY <1>1 DEF Submit
  <2>3. /\ application[p].status = "draft" /\ PreparationIsCurrent(p)
        /\ plan[p].active /\ application[p].eligible
    BY <1>1 DEF Submit, Admissible, ReviewReady
  <2>4. PermitLifetime(p) <= plan[p].left
    <3>1. plan[p].left \in Nat /\ PermitTTL \in Nat
      BY LifetimesAssumption DEF TypeOK, PlanRow, PlanLives
    <3> QED BY <3>1 DEF PermitLifetime
  <2>5. ASSUME NEW b \in Attempts, Unfinished(b)'
        PROVE  /\ StillCurrent(b)' /\ PlanActive(b)' /\ application'[attempt'[b].app].eligible
               /\ attempt'[b].permitLeft <= plan'[attempt'[b].app].left
    <3>1. CASE b = a
      BY <2>1, <2>2, <2>3, <2>4, <3>1 DEF StillCurrent, PlanActive, PreparationIsCurrent
    <3>2. CASE b # a
      <4>1. attempt'[b] = attempt[b] /\ Unfinished(b)
        BY <2>1, <2>5, <3>2 DEF Unfinished
      <4>2. /\ StillCurrent(b) /\ PlanActive(b) /\ application[attempt[b].app].eligible
            /\ attempt[b].permitLeft <= plan[attempt[b].app].left
        BY <4>1 DEF FrozenInv, ReviewedContentFrozen, PermitWithinPlan
      <4> QED BY <2>2, <4>1, <4>2 DEF StillCurrent, PlanActive, PreparationIsCurrent
    <3> QED BY <3>1, <3>2
  <2> QED BY <2>5 DEF FrozenInv, ReviewedContentFrozen, PermitWithinPlan
<1>2. CASE Tick
  <2>1. /\ application' = application
        /\ \A p \in Apps : /\ plan'[p].id = plan[p].id /\ plan'[p].active = plan[p].active
                           /\ plan'[p].left = Less(plan[p].left)
    BY <1>2 DEF Tick, TypeOK, PlanRow
  <2>2. \A b \in Attempts :
            /\ attempt'[b].app = attempt[b].app /\ attempt'[b].stage = attempt[b].stage
            /\ attempt'[b].revision = attempt[b].revision /\ attempt'[b].plan = attempt[b].plan
            /\ attempt'[b].permitLeft = Less(attempt[b].permitLeft)
    BY <1>2 DEF Tick, TypeOK, AttemptRow
  <2>3. ASSUME NEW b \in Attempts, Unfinished(b)' PROVE KeptReview(b)
    <3>1. Unfinished(b) /\ attempt[b].stage # "absent"
      BY <2>2, <2>3 DEF Unfinished, PreCommit, PostCommit
    <3>2. attempt[b].app \in Apps
      <4>1. attempt[b].app # NoApp /\ attempt[b].app \in AppRefs
        BY <3>1 DEF ClaimInv, RowsAgree, TypeOK, AttemptRow
      <4> QED BY <4>1 DEF AppRefs
    <3>3. attempt[b].permitLeft <= plan[attempt[b].app].left
      BY <3>1 DEF FrozenInv, PermitWithinPlan
    <3>4. attempt[b].permitLeft \in Nat /\ plan[attempt[b].app].left \in Nat
      BY <3>2, LifetimesAssumption DEF TypeOK, AttemptRow, PermitLives, PlanRow, PlanLives
    <3>5. Less(attempt[b].permitLeft) <= Less(plan[attempt[b].app].left)
      BY <3>3, <3>4 DEF Less
    <3> QED BY <2>1, <2>2, <3>1, <3>2, <3>5 DEF KeptReview
  <2> QED BY <2>3, KeptReviews
<1>3. ASSUME ~Tick, ~ \E p \in Apps, k \in Keys : Submit(p, k) PROVE FrozenInv'
  <2>1. \A b \in Attempts : Ages(b) /\ attempt'[b].permitLeft = attempt[b].permitLeft
    BY <1>3, AttemptsAge, PermitsKept
  <2>2. CASE application' = application /\ plan' = plan
    BY <2>1, <2>2, NoReviewStep
  <2>3. ASSUME NEW p \in Apps, NEW intent, MutationAllowed(p, intent), intent # "terminal",
               \A q \in Apps \ {p} : application'[q] = application[q] /\ plan'[q] = plan[q]
        PROVE  FrozenInv'
    <3>1. \A b \in Attempts : attempt[b].app = p => ~Unfinished(b)'
      BY <2>1, <2>3, MutationMeansQuiet DEF Ages
    <3> QED BY <2>1, <2>3, <3>1, OneAppStep
  <2>4. ASSUME NEW p \in Apps, EditContent(p) \/ ConfirmAnswer(p) \/ InspectPersist(p)
        PROVE  FrozenInv'
    <3>1. MutationAllowed(p, "content")
      BY <2>4 DEF EditContent, RewriteContent, RerouteCv, Regenerate, ConfirmAnswer, InspectPersist
    <3>2. \A q \in Apps \ {p} : application'[q] = application[q] /\ plan'[q] = plan[q]
      BY <2>4 DEF EditContent, RewriteContent, RerouteCv, Regenerate, ConfirmAnswer, InspectPersist, TypeOK
    <3> QED BY <2>3, <3>1, <3>2
  <2>5. ASSUME NEW p \in Apps, NEW s, Prepare(p, s) \/ Retry(p) PROVE FrozenInv'
    <3>1. MutationAllowed(p, "prepare") /\ plan' = plan
      BY <2>5 DEF Prepare, Retry
    <3>2. \A q \in Apps \ {p} : application'[q] = application[q]
      BY <2>5 DEF Prepare, Retry, MarkPrepared, TypeOK
    <3> QED BY <2>3, <3>1, <3>2
  <2>6. ASSUME NEW p \in Apps, Skip(p) PROVE FrozenInv'
    <3>1. \A b \in Attempts : attempt[b].app = p => ~Unfinished(b)'
      <4> SUFFICES ASSUME NEW b \in Attempts, attempt[b].app = p, Unfinished(b) PROVE ~Unfinished(b)'
        BY <2>1 DEF Ages
      <4>1. b \in History(p) /\ IsLatest(b, p)
        BY DEF IsLatest, History, HistoryInv
      <4>2. attempt'[b] = [attempt[b] EXCEPT !.stage = "finished", !.outcome = "failed_before_commit"]
        BY <2>6, <4>1 DEF Skip
      <4> QED BY <4>2 DEF Unfinished, PreCommit, PostCommit, TypeOK, AttemptRow
    <3>2. \A q \in Apps \ {p} : application'[q] = application[q] /\ plan'[q] = plan[q]
      BY <2>6 DEF Skip, TypeOK
    <3> QED BY <2>1, <3>1, <3>2, OneAppStep
  <2>7. ASSUME NEW a \in Attempts, OperatorReconcile(a) PROVE FrozenInv'
    <3>1. attempt[a].outcome = "unknown" /\ plan' = plan
      BY <2>7 DEF OperatorReconcile
    <3>2. \A b \in Attempts : attempt[b].app = attempt[a].app => ~Unfinished(b)
      <4> SUFFICES ASSUME NEW b \in Attempts, attempt[b].app = attempt[a].app, Unfinished(b)
                   PROVE  FALSE
        OBVIOUS
      <4>1. b # a
        BY <3>1 DEF ClaimInv, RowsAgree, Unfinished, PreCommit, PostCommit
      <4> QED BY <3>1, <4>1 DEF HistoryInv, OneLiveAttempt, ImmutableOutcomes
    <3>3. \A b \in Attempts : attempt[b].app = attempt[a].app => ~Unfinished(b)'
      BY <2>1, <3>2 DEF Ages
    <3>4. \A q \in Apps \ {attempt[a].app} : application'[q] = application[q] /\ plan'[q] = plan[q]
      BY <2>7, <3>1 DEF OperatorReconcile, TypeOK
    <3> QED BY <2>1, <3>3, <3>4, OneAppStep
  <2>8. ASSUME NEW w \in Workers, NEW a \in Attempts, ClaimBuildMismatch(w, a) PROVE FrozenInv'
    <3>1. attempt[a].stage = "queued" /\ FinishAttempt(a, "queued", "failed_before_commit", "REFUSED")
      BY <2>8 DEF ClaimBuildMismatch
    <3> QED BY <3>1, FinishFrozen
  <2>9. ASSUME NEW w \in Workers,
               \/ FinishRefused(w) \/ PreflightStops(w) \/ BoundaryRefused(w) \/ LockForCommit(w)
               \/ FinishConfirmed(w) \/ FinishUnknown(w)
        PROVE  FrozenInv'
    <3>1. worker[w].cmd \in Attempts
      BY <2>9 DEF FinishRefused, PreflightStops, BoundaryRefused, LockForCommit, FinishConfirmed,
         FinishUnknown, BusyWorkers
    <3>2. worker[w].pc = "clicked" => attempt[worker[w].cmd].stage = "committing"
      BY DEF ClaimInv, WorkerOnTrack, Clicking
    <3>3. \/ application' = application /\ plan' = plan
          \/ \E stage, outcome, reason :
                 /\ FinishAttempt(worker[w].cmd, stage, outcome, reason)
                 /\ \/ stage = attempt[worker[w].cmd].stage
                    \/ stage = "verifying" /\ attempt[worker[w].cmd].stage = "committing"
      BY <2>9, <3>2 DEF FinishRefused, PreflightStops, BoundaryRefused, LockForCommit,
         FinishConfirmed, FinishUnknown, GiveUp
    <3> QED BY <2>2, <3>1, <3>3, FinishFrozen
  <2>10. ASSUME NEW a \in Attempts, Quarantine(a) PROVE FrozenInv'
    <3>1. FinishAttempt(a, attempt[a].stage, "unknown", "none")
      BY <2>10 DEF Quarantine
    <3> QED BY <3>1, FinishFrozen
  <2> QED
    BY <1>3, <2>2, <2>4, <2>5, <2>6, <2>7, <2>8, <2>9, <2>10, ZenonT(60)
    DEF Next, OperatorStep, Approve, WhatsAppApprove, WorkerStep, vars, InspectStart,
        InspectAbandon, Claim, Execute, EnterPreflight, MarkReady, EnterCommitBoundary, GiveUp,
        BoundarySuperseded, Click, Crash, Redeliver
<1> QED BY <1>1, <1>2, <1>3

\* The history and the reviews are consistent in every reachable state.
LEMMA ReviewsConsistent == Spec => [](Histories /\ FrozenInv)
<1>1. Init => FrozenInv
  BY DEF Init, NoAttempt, FrozenInv, ReviewedContentFrozen, PermitWithinPlan, Unfinished, PreCommit,
     PostCommit
<1>2. Histories /\ FrozenInv /\ [Next]_vars => (Histories /\ FrozenInv)'
  BY HistoriesStep, FrozenStep DEF Histories
<1> QED BY <1>1, <1>2, HistoriesInit, PTL DEF Spec

\* From admission to the terminal outcome the operator's edits, inspections, new
\* preparations and races with the WhatsApp buttons leave the reviewed content,
\* its plan and its materials as they were admitted.
THEOREM ContentFrozen == Spec => []ReviewedContentFrozen
<1>1. FrozenInv => ReviewedContentFrozen
  BY DEF FrozenInv
<1> QED BY <1>1, ReviewsConsistent, PTL

\* The worker may leave out the plan's expiry: its permit covers it.
THEOREM PermitCoversPlan == Spec => []PermitWithinPlan
<1>1. FrozenInv => PermitWithinPlan
  BY DEF FrozenInv
<1> QED BY <1>1, ReviewsConsistent, PTL

-----------------------------------------------------------------------------
(***************************************************************************)
(* Redelivered commands.                                                   *)
(***************************************************************************)

LeaseInv == PermitAges /\ RedeliveredNeverActs

\* How a step that neither admits, redelivers nor lets time pass may change what
\* LeaseInv says of an attempt.
KeptLease(b) ==
    /\ command'[b].redelivered = command[b].redelivered
    /\ command'[b].state = "absent" => command[b].state = "absent"
    /\ command'[b].state = "claimed" =>
           \/ command'[b].age = 0
           \/ command[b].state = "claimed" /\ command'[b].age = command[b].age
    /\ attempt'[b].permitLeft = attempt[b].permitLeft
    /\ attempt'[b].consumed => attempt[b].consumed \/ attempt[b].permitLeft > 0
    /\ clicks'[b] = clicks[b] \/ attempt[b].consumed

\* Such a change keeps the clocks together and a redelivered command harmless.
LEMMA KeptLeases ==
    ASSUME TypeOK, LeaseInv, \A b \in Attempts : KeptLease(b)
    PROVE  LeaseInv'
<1>1. \A b \in Attempts : attempt[b].permitLeft \in 0 .. PermitTTL
  BY DEF TypeOK, AttemptRow, PermitLives
<1>2. PermitAges'
  BY <1>1, LifetimesAssumption DEF LeaseInv, PermitAges, KeptLease
<1>3. RedeliveredNeverActs'
  BY <1>1, LifetimesAssumption DEF LeaseInv, RedeliveredNeverActs, KeptLease
<1> QED BY <1>2, <1>3 DEF LeaseInv

\* A finished or a cancelled command is no longer claimed.
LEMMA FinishLease ==
    ASSUME TypeOK, NEW a \in Attempts, clicks' = clicks,
           \E stage, outcome, reason : FinishAttempt(a, stage, outcome, reason)
    PROVE  \A b \in Attempts : KeptLease(b)
<1>1. /\ attempt'[a].consumed = attempt[a].consumed
      /\ attempt'[a].permitLeft = attempt[a].permitLeft
      /\ command'[a].state = "completed" /\ command'[a].redelivered = command[a].redelivered
      /\ \A b \in Attempts \ {a} : attempt'[b] = attempt[b] /\ command'[b] = command[b]
  BY FinishRows
<1> QED BY <1>1 DEF KeptLease

\* A stage that is published without touching the permit keeps the lease.
LEMMA StageLease ==
    ASSUME TypeOK, NEW a \in Attempts, clicks' = clicks,
           \E stage : attempt' = SetStage(a, stage),
           command'[a].redelivered = command[a].redelivered, command'[a].state = "claimed",
           command'[a].age = 0 \/ command'[a] = command[a],
           \A b \in Attempts \ {a} : command'[b] = command[b]
    PROVE  \A b \in Attempts : KeptLease(b)
<1>1. /\ attempt'[a].consumed = attempt[a].consumed
      /\ attempt'[a].permitLeft = attempt[a].permitLeft
      /\ \A b \in Attempts \ {a} : attempt'[b] = attempt[b]
  BY StageRows
<1> QED BY <1>1 DEF KeptLease

\* Only admission, redelivery and time move a lease in any other way.
LEMMA LeasesKept ==
    ASSUME TypeOK, BusyWorkers, ClaimInv, [Next]_vars, ~Tick,
           ~ \E p \in Apps, k \in Keys : Submit(p, k),
           ~ \E a \in Attempts : Redeliver(a)
    PROVE  \A b \in Attempts : KeptLease(b)
<1>1. CASE UNCHANGED <<attempt, command, clicks>>
  BY <1>1 DEF KeptLease
<1>2. ASSUME NEW p \in Apps, Skip(p) PROVE \A b \in Attempts : KeptLease(b)
  <2> DEFINE cancelled == {a \in History(p) : IsLatest(a, p) /\ Unfinished(a)}
  <2>1. /\ attempt' = [a \in Attempts |->
               IF a \in cancelled
               THEN [attempt[a] EXCEPT !.stage = "finished", !.outcome = "failed_before_commit"]
               ELSE attempt[a]]
        /\ clicks' = clicks
    BY <1>2 DEF Skip
  <2>2. command' = [a \in Attempts |->
               IF a \in cancelled
               THEN [command[a] EXCEPT !.state = "cancelled", !.token = NoToken, !.age = 0]
               ELSE command[a]]
    BY <1>2 DEF Skip
  <2> HIDE DEF cancelled
  <2>3. \A b \in Attempts : /\ attempt'[b].consumed = attempt[b].consumed
                            /\ attempt'[b].permitLeft = attempt[b].permitLeft
    BY <2>1 DEF TypeOK, AttemptRow
  <2>4. \A b \in Attempts : /\ command'[b].redelivered = command[b].redelivered
                            /\ command'[b].state = "cancelled" \/ command'[b] = command[b]
    BY <2>2 DEF TypeOK, CommandRow
  <2> QED BY <2>1, <2>3, <2>4 DEF KeptLease
<1>3. ASSUME NEW a \in Attempts, OperatorReconcile(a) PROVE \A b \in Attempts : KeptLease(b)
  <2>1. PICK verdict \in {"operator_confirmed", "failed_before_commit"} :
            attempt' = [attempt EXCEPT ![a].outcome = verdict, ![a].reconciled = TRUE]
    BY <1>3 DEF OperatorReconcile
  <2>2. \A b \in Attempts : /\ attempt'[b].consumed = attempt[b].consumed
                            /\ attempt'[b].permitLeft = attempt[b].permitLeft
    BY <2>1 DEF TypeOK, AttemptRow
  <2>3. command' = command /\ clicks' = clicks
    BY <1>3 DEF OperatorReconcile
  <2> QED BY <2>2, <2>3 DEF KeptLease
<1>4. ASSUME NEW w \in Workers, NEW a \in Attempts, Claim(w, a) \/ ClaimBuildMismatch(w, a)
      PROVE  \A b \in Attempts : KeptLease(b)
  <2>1. CASE Claim(w, a)
    <3>1. PICK t \in Tokens :
              command' = [command EXCEPT ![a].state = "claimed", ![a].token = t, ![a].age = 0]
      BY <2>1 DEF Claim
    <3>2. /\ command'[a].redelivered = command[a].redelivered /\ command'[a].state = "claimed"
          /\ command'[a].age = 0 /\ \A b \in Attempts \ {a} : command'[b] = command[b]
      BY <3>1 DEF TypeOK, CommandRow
    <3>3. clicks' = clicks /\ attempt' = SetStage(a, "inspecting")
      BY <2>1 DEF Claim
    <3> QED BY <3>2, <3>3, StageLease
  <2>2. CASE ClaimBuildMismatch(w, a)
    BY <2>2, FinishLease DEF ClaimBuildMismatch
  <2> QED BY <1>4, <2>1, <2>2
<1>5. ASSUME NEW w \in Workers,
             \/ FinishRefused(w) \/ PreflightStops(w) \/ BoundaryRefused(w) \/ LockForCommit(w)
             \/ FinishConfirmed(w) \/ FinishUnknown(w)
      PROVE  \A b \in Attempts : KeptLease(b)
  <2>1. worker[w].cmd \in Attempts
    BY <1>5 DEF FinishRefused, PreflightStops, BoundaryRefused, LockForCommit, FinishConfirmed,
       FinishUnknown, BusyWorkers
  <2>2. /\ clicks' = clicks
        /\ \/ UNCHANGED <<attempt, command>>
           \/ \E stage, outcome, reason : FinishAttempt(worker[w].cmd, stage, outcome, reason)
    BY <1>5 DEF FinishRefused, PreflightStops, BoundaryRefused, LockForCommit, FinishConfirmed,
       FinishUnknown, GiveUp
  <2> QED BY <1>1, <2>1, <2>2, FinishLease
<1>6. ASSUME NEW w \in Workers, EnterPreflight(w) \/ MarkReady(w)
      PROVE  \A b \in Attempts : KeptLease(b)
  <2> DEFINE a == worker[w].cmd
  <2>1. a \in Attempts /\ clicks' = clicks
    BY <1>6 DEF EnterPreflight, MarkReady, BusyWorkers
  <2>2. CASE UNCHANGED <<attempt, command>>
    BY <1>1, <2>1, <2>2
  <2>3. CASE ~UNCHANGED <<attempt, command>>
    <3>1. /\ \E stage : attempt' = SetStage(a, stage)
          /\ command[a].state = "claimed"
          /\ command' = command \/ command' = [command EXCEPT ![a].age = 0]
      BY <1>6, <2>3 DEF EnterPreflight, MarkReady, GiveUp, Owns
    <3>2. /\ command'[a].redelivered = command[a].redelivered /\ command'[a].state = "claimed"
          /\ command'[a].age = 0 \/ command'[a] = command[a]
          /\ \A b \in Attempts \ {a} : command'[b] = command[b]
      BY <2>1, <3>1 DEF TypeOK, CommandRow
    <3> QED BY <2>1, <3>1, <3>2, StageLease
  <2> QED BY <2>2, <2>3
<1>7. ASSUME NEW w \in Workers, EnterCommitBoundary(w) PROVE \A b \in Attempts : KeptLease(b)
  <2> DEFINE a == worker[w].cmd
  <2>1. /\ a \in Attempts /\ clicks' = clicks /\ attempt[a].permitLeft > 0
        /\ attempt' = [SetStage(a, "committing") EXCEPT ![a].consumed = TRUE]
        /\ command' = [command EXCEPT ![a].age = 0]
    BY <1>7 DEF EnterCommitBoundary, PermitValid, BusyWorkers
  <2>2. /\ attempt'[a].permitLeft = attempt[a].permitLeft
        /\ \A b \in Attempts \ {a} : attempt'[b] = attempt[b]
    BY <2>1, CommitRows
  <2>3. /\ command'[a].redelivered = command[a].redelivered
        /\ command'[a].state = command[a].state /\ command'[a].age = 0
        /\ \A b \in Attempts \ {a} : command'[b] = command[b]
    BY <2>1 DEF TypeOK, CommandRow
  <2> QED BY <2>1, <2>2, <2>3 DEF KeptLease
<1>8. ASSUME NEW w \in Workers, Click(w) PROVE \A b \in Attempts : KeptLease(b)
  <2>1. /\ worker[w].cmd \in Attempts /\ attempt[worker[w].cmd].consumed
        /\ attempt' = attempt /\ command' = command
    BY <1>8 DEF Click, BusyWorkers, ClaimInv, WorkerOnTrack, AuthorityAccounted, Clicking
  <2>2. \A b \in Attempts \ {worker[w].cmd} : clicks'[b] = clicks[b]
    BY <1>8 DEF Click, TypeOK
  <2> QED BY <2>1, <2>2 DEF KeptLease
<1>9. ASSUME NEW a \in Attempts, Quarantine(a) PROVE \A b \in Attempts : KeptLease(b)
  BY <1>9, FinishLease DEF Quarantine
<1> QED
  BY <1>1, <1>2, <1>3, <1>4, <1>5, <1>6, <1>7, <1>8, <1>9
  DEF Next, OperatorStep, Approve, WhatsAppApprove, WorkerStep, vars, EditContent, RewriteContent,
      RerouteCv, Regenerate, ConfirmAnswer, InspectStart, InspectPersist, InspectAbandon, Prepare,
      Retry, Execute, GiveUp, BoundarySuperseded, Crash

\* Every step keeps the clocks together when a permit does not outlive a claim.
LEMMA LeaseStep ==
    ASSUME PermitTTL <= ClaimTTL, TypeOK, BusyWorkers, ClaimInv, LeaseInv, [Next]_vars
    PROVE  LeaseInv'
<1>1. ASSUME NEW p \in Apps, NEW k \in Keys, Submit(p, k) PROVE LeaseInv'
  <2>1. PICK a \in Attempts : Admitted(a, p, k)
    BY <1>1, SubmitRows
  <2>2. /\ command[a].state = "absent" /\ command'[a].state = "pending"
        /\ command'[a].redelivered = command[a].redelivered
        /\ \A b \in Attempts \ {a} : attempt'[b] = attempt[b] /\ command'[b] = command[b]
    BY <2>1 DEF Admitted
  <2>3. clicks' = clicks
    BY <1>1 DEF Submit
  <2> QED BY <2>2, <2>3 DEF LeaseInv, PermitAges, RedeliveredNeverActs
<1>2. ASSUME NEW a \in Attempts, Redeliver(a) PROVE LeaseInv'
  <2>1. /\ attempt[a].permitLeft \in Nat /\ command[a].age \in Nat
        /\ PermitTTL \in Nat /\ ClaimTTL \in Nat
    BY LifetimesAssumption DEF TypeOK, AttemptRow, PermitLives, CommandRow, ClaimAges
  <2>2. command[a].state = "claimed" /\ command[a].age > ClaimTTL /\ ~attempt[a].consumed
    BY <1>2 DEF Redeliver, Stale, CrossedBoundary
  <2>3. attempt[a].permitLeft = 0
    BY <2>1, <2>2 DEF LeaseInv, PermitAges
  <2>4. clicks[a] = 0
    <3>1. clicks[a] \in Nat
      BY DEF TypeOK
    <3> QED BY <2>2, <3>1 DEF ClaimInv, AuthorityAccounted
  <2>5. clicks' = clicks /\ attempt' = SetStage(a, "queued")
    BY <1>2 DEF Redeliver
  <2>6. /\ attempt'[a].consumed = attempt[a].consumed
        /\ attempt'[a].permitLeft = attempt[a].permitLeft
        /\ \A b \in Attempts \ {a} : attempt'[b] = attempt[b]
    BY <2>5, StageRows
  <2>7. command'[a].state = "pending" /\ \A b \in Attempts \ {a} : command'[b] = command[b]
    BY <1>2 DEF Redeliver, TypeOK
  <2> QED BY <2>2, <2>3, <2>4, <2>5, <2>6, <2>7 DEF LeaseInv, PermitAges, RedeliveredNeverActs
<1>3. CASE Tick
  <2>1. \A b \in Attempts :
            /\ attempt'[b].consumed = attempt[b].consumed
            /\ attempt'[b].permitLeft = Less(attempt[b].permitLeft)
    BY <1>3 DEF Tick, TypeOK, AttemptRow
  <2>2. \A b \in Attempts :
            /\ command'[b].state = command[b].state
            /\ command'[b].redelivered = command[b].redelivered
            /\ command'[b].age = command[b].age \/ command'[b].age = command[b].age + 1
    BY <1>3 DEF Tick, TypeOK, CommandRow
  <2>3. clicks' = clicks
    BY <1>3 DEF Tick
  <2>4. \A b \in Attempts : attempt[b].permitLeft \in Nat /\ command[b].age \in Nat
    BY LifetimesAssumption DEF TypeOK, AttemptRow, PermitLives, CommandRow, ClaimAges
  <2>5. RedeliveredNeverActs'
    BY <2>1, <2>2, <2>3 DEF LeaseInv, RedeliveredNeverActs, Less
  <2>6. PermitAges'
    BY <2>1, <2>2, <2>4, LifetimesAssumption DEF LeaseInv, PermitAges, Less
  <2> QED BY <2>5, <2>6 DEF LeaseInv
<1>4. CASE ~Tick /\ (~ \E p \in Apps, k \in Keys : Submit(p, k)) /\ ~ \E a \in Attempts : Redeliver(a)
  BY <1>4, LeasesKept, KeptLeases
<1> QED BY <1>1, <1>2, <1>3, <1>4

\* The clocks stay together in every reachable state.
LEMMA LeasesConsistent ==
    ASSUME PermitTTL <= ClaimTTL
    PROVE  Spec => []LeaseInv
<1>1. Init => LeaseInv
  BY DEF Init, LeaseInv, PermitAges, RedeliveredNeverActs
<1>2. Histories /\ LeaseInv /\ [Next]_vars => LeaseInv'
  BY LeaseStep DEF Histories
<1> QED BY <1>1, <1>2, HistoriesConsistent, PTL DEF Spec

\* Under the shipped lifetimes (300 s and 900 s) the sweeper's redelivery never
\* leads to a final action: the permit died before the claim went stale.
THEOREM RedeliveryIsDead ==
    ASSUME PermitTTL <= ClaimTTL
    PROVE  Spec => []RedeliveredNeverActs
<1>1. LeaseInv => RedeliveredNeverActs
  BY DEF LeaseInv
<1> QED BY <1>1, LeasesConsistent, PTL

\* The strengthening that carries every safety property of the kernel (rows that
\* agree, workers on track, histories in order, frozen reviews, clocks that stay
\* together) is an invariant, under the order of lifetimes the shipped settings
\* have; only its last two conjuncts need that order.
THEOREM KernelInvariant ==
    ASSUME PermitTTL <= ClaimTTL
    PROVE  Spec => []KernelInv
<1>1. (Histories /\ FrozenInv) /\ LeaseInv => KernelInv
  BY DEF Histories, FrozenInv, LeaseInv, KernelInv
<1> QED BY <1>1, ReviewsConsistent, LeasesConsistent, PTL

-----------------------------------------------------------------------------
(***************************************************************************)
(* The submission kernel implements FinalAction, for every number of       *)
(* applications, attempts and workers.  At most one attempt of an          *)
(* application ever has a say in what the application promises; every step *)
(* of the kernel moves that attempt as FinalAction allows, or none at all. *)
(***************************************************************************)

\* What one attempt contributes to the phase of its application.
Role(a) ==
    IF attempt[a].stage \in PostCommit THEN "acting"
    ELSE IF attempt[a].outcome = "unknown" THEN "uncertain"
    ELSE IF attempt[a].outcome \in ImmutableOutcomes THEN "closed"
    ELSE "open"

\* What it contributes to the sent flag.
Received(a) == clicks[a] > 0 /\ attempt[a].outcome # "failed_before_commit"

\* Two attempts of one application never both hold a verdict.
SoleVerdict ==
    \A a, b \in Attempts :
        /\ a # b /\ attempt[a].app = attempt[b].app
        /\ attempt[a].outcome \in ImmutableOutcomes
        => attempt[b].outcome \notin ImmutableOutcomes

Promises == Histories /\ SoleVerdict

\* A verdict is reached by an attempt in progress, and then by that one alone.
LEMMA SoleVerdictStep == Promises /\ [Next]_vars => SoleVerdict'
<1> SUFFICES ASSUME Promises, [Next]_vars PROVE SoleVerdict'
  OBVIOUS
<1>0. TypeOK /\ BusyWorkers /\ ClaimInv /\ HistoryInv /\ SoleVerdict
  BY DEF Promises, Histories
<1>1. CASE \A b \in Attempts : Ages(b)
  <2> SUFFICES ASSUME NEW a \in Attempts, NEW b \in Attempts, a # b,
                      attempt'[a].app = attempt'[b].app,
                      attempt'[a].outcome \in ImmutableOutcomes,
                      attempt'[b].outcome \in ImmutableOutcomes
               PROVE  FALSE
    BY DEF SoleVerdict
  <2>1. attempt[a].app = attempt[b].app
    BY <1>1 DEF Ages
  <2>2. /\ attempt[a].outcome \in ImmutableOutcomes \/ Unfinished(a)
        /\ attempt[b].outcome \in ImmutableOutcomes \/ Unfinished(b)
    BY <1>1 DEF Ages
  <2>3. OneLiveAttempt
    BY <1>0 DEF HistoryInv
  <2> QED BY <1>0, <2>1, <2>2, <2>3 DEF SoleVerdict, OneLiveAttempt
<1>2. ASSUME NEW p \in Apps, NEW k \in Keys, Submit(p, k) PROVE SoleVerdict'
  <2>1. PICK c \in Attempts : Admitted(c, p, k)
    BY <1>0, <1>2, SubmitRows
  <2>2. /\ attempt'[c].outcome = "none"
        /\ \A b \in Attempts \ {c} : attempt'[b] = attempt[b]
    BY <2>1 DEF Admitted
  <2> QED BY <1>0, <2>2 DEF SoleVerdict, ImmutableOutcomes
<1> QED BY <1>0, <1>1, <1>2, AttemptsAge

\* The reachable states keep it.
LEMMA PromisesStep == Promises /\ [Next]_vars => Promises'
BY HistoriesStep, SoleVerdictStep DEF Promises

\* They hold of the empty tables.
LEMMA PromisesInit == Init => Promises
<1>1. Init => SoleVerdict
  BY DEF Init, NoAttempt, SoleVerdict, ImmutableOutcomes
<1> QED BY <1>1, HistoriesInit DEF Promises

-----------------------------------------------------------------------------
(***************************************************************************)
(* Which attempt speaks for the application.                               *)
(***************************************************************************)

\* Only one attempt of an application does not leave it open, ...
LEMMA OneSpeaker ==
    Promises => \A a, b \in Attempts :
        attempt[a].app = attempt[b].app /\ Role(a) # "open" /\ Role(b) # "open" => a = b
<1> SUFFICES ASSUME Promises, NEW a \in Attempts, NEW b \in Attempts,
                    attempt[a].app = attempt[b].app, Role(a) # "open", Role(b) # "open", a # b
             PROVE  FALSE
  OBVIOUS
<1>1. OneLiveAttempt /\ SoleVerdict
  BY DEF Promises, Histories, HistoryInv
<1>2. \A c \in Attempts : Role(c) # "open" =>
          Unfinished(c) \/ attempt[c].outcome \in ImmutableOutcomes
  BY DEF Role, Unfinished, ImmutableOutcomes
<1> QED BY <1>1, <1>2 DEF OneLiveAttempt, SoleVerdict

\* ... the phase is what that attempt says, ...
LEMMA SpeakerPhase ==
    Promises => \A a \in Attempts : Role(a) # "open" => PhaseOf(attempt[a].app) = Role(a)
<1> SUFFICES ASSUME Promises, NEW a \in Attempts, Role(a) # "open"
             PROVE  PhaseOf(attempt[a].app) = Role(a)
  OBVIOUS
<1> DEFINE p == attempt[a].app
<1>1. a \in History(p) /\ \A b \in History(p) : b # a => Role(b) = "open"
  BY OneSpeaker DEF History
<1>2. \A b \in History(p) : b # a => /\ attempt[b].stage \notin PostCommit
                                     /\ attempt[b].outcome # "unknown"
                                     /\ attempt[b].outcome \notin ImmutableOutcomes
  BY <1>1 DEF Role, ImmutableOutcomes
<1>3. CASE attempt[a].stage \in PostCommit
  BY <1>1, <1>3 DEF PhaseOf, Role
<1>4. CASE attempt[a].stage \notin PostCommit
  <2>1. ~ \E b \in History(p) : attempt[b].stage \in PostCommit
    BY <1>2, <1>4
  <2>2. CASE attempt[a].outcome = "unknown"
    BY <1>1, <1>4, <2>1, <2>2 DEF PhaseOf, Role, OutcomesOf
  <2>3. CASE attempt[a].outcome # "unknown"
    <3>1. attempt[a].outcome \in ImmutableOutcomes /\ Role(a) = "closed"
      BY <1>4, <2>3 DEF Role
    <3>2. "unknown" \notin OutcomesOf(p)
      BY <1>2, <2>3 DEF OutcomesOf
    <3>3. OutcomesOf(p) \cap ImmutableOutcomes # {}
      BY <1>1, <3>1 DEF OutcomesOf
    <3> QED BY <2>1, <3>1, <3>2, <3>3 DEF PhaseOf
  <2> QED BY <2>2, <2>3
<1> QED BY <1>3, <1>4

\* ... and without one the application is open.
LEMMA SilentPhase ==
    \A p \in Apps :
        (\A a \in Attempts : attempt[a].app = p => Role(a) = "open") => PhaseOf(p) = "open"
<1> SUFFICES ASSUME NEW p \in Apps, \A a \in Attempts : attempt[a].app = p => Role(a) = "open"
             PROVE  PhaseOf(p) = "open"
  OBVIOUS
<1>1. \A b \in History(p) : /\ attempt[b].stage \notin PostCommit
                            /\ attempt[b].outcome # "unknown"
                            /\ attempt[b].outcome \notin ImmutableOutcomes
  BY DEF History, Role, ImmutableOutcomes
<1>2. "unknown" \notin OutcomesOf(p) /\ OutcomesOf(p) \cap ImmutableOutcomes = {}
  BY <1>1 DEF OutcomesOf
<1> QED BY <1>1, <1>2 DEF PhaseOf

\* An attempt the employer received, and nobody ruled out, is the speaker.
LEMMA ReceivedSpeaks == Promises => \A a \in Attempts : Received(a) => Role(a) # "open"
<1> SUFFICES ASSUME Promises, NEW a \in Attempts, Received(a) PROVE Role(a) # "open"
  OBVIOUS
<1>1. AuthorityAccounted(a)
  BY DEF Promises, Histories, ClaimInv
<1> QED BY <1>1 DEF AuthorityAccounted, Received, Role, PostCommit, ImmutableOutcomes

\* The same of the state a step leads to.
LEMMA SpeakersNext ==
    /\ Promises' => (\A a \in Attempts : Role(a) # "open" => PhaseOf(attempt[a].app) = Role(a))'
    /\ Promises' => (\A a, b \in Attempts :
           attempt[a].app = attempt[b].app /\ Role(a) # "open" /\ Role(b) # "open" => a = b)'
    /\ (\A p \in Apps :
           (\A a \in Attempts : attempt[a].app = p => Role(a) = "open") => PhaseOf(p) = "open")'
BY SpeakerPhase, OneSpeaker, SilentPhase, PTL

-----------------------------------------------------------------------------
(***************************************************************************)
(* From what a step does to the attempts, to what it does to FinalAction.  *)
(***************************************************************************)
Phases == [p \in Apps |-> PhaseOf(p)]
Sents  == [p \in Apps |-> SentOf(p)]

\* A step that changes no attempt's contribution is a stuttering step.
LEMMA QuietPromise ==
    ASSUME Promises, Promises',
           \A b \in Attempts : /\ Role(b)' = Role(b)
                               /\ Received(b)' <=> Received(b)
                               /\ Role(b) # "open" => attempt'[b].app = attempt[b].app
    PROVE  Phases' = Phases /\ Sents' = Sents
<1>1. (\A a \in Attempts : Role(a) # "open" => PhaseOf(attempt[a].app) = Role(a))'
  BY SpeakersNext
<1>2. (\A p \in Apps :
          (\A a \in Attempts : attempt[a].app = p => Role(a) = "open") => PhaseOf(p) = "open")'
  BY SpeakersNext
<1>3. ASSUME NEW p \in Apps PROVE PhaseOf(p)' = PhaseOf(p)
  <2>1. CASE \E a \in Attempts : attempt[a].app = p /\ Role(a) # "open"
    <3>1. PICK a \in Attempts : attempt[a].app = p /\ Role(a) # "open"
      BY <2>1
    <3>2. attempt'[a].app = p /\ Role(a)' = Role(a)
      BY <3>1
    <3>3. PhaseOf(p) = Role(a)
      BY <3>1, SpeakerPhase
    <3>4. PhaseOf(p)' = Role(a)'
      BY <1>1, <3>1, <3>2
    <3> QED BY <3>2, <3>3, <3>4
  <2>2. CASE \A a \in Attempts : attempt[a].app = p => Role(a) = "open"
    <3>1. \A a \in Attempts : attempt'[a].app = p => Role(a)' = "open"
      BY <2>2
    <3>2. PhaseOf(p)' = "open"
      BY <1>2, <3>1
    <3>3. PhaseOf(p) = "open"
      BY <2>2, SilentPhase
    <3> QED BY <3>2, <3>3
  <2> QED BY <2>1, <2>2
<1>4. ASSUME NEW p \in Apps PROVE SentOf(p)' = SentOf(p)
  <2>1. \A a \in Attempts : Received(a) => attempt'[a].app = attempt[a].app
    BY ReceivedSpeaks
  <2>2. SentOf(p) <=> \E a \in Attempts : attempt[a].app = p /\ Received(a)
    BY DEF SentOf, History, Received
  <2>3. SentOf(p)' <=> \E a \in Attempts : attempt'[a].app = p /\ Received(a)'
    BY DEF SentOf, History, Received
  <2>4. SentOf(p)' <=> SentOf(p)
    BY <2>1, <2>2, <2>3
  <2> QED BY <2>4 DEF SentOf
<1> QED BY <1>3, <1>4 DEF Phases, Sents

\* A step that moves one attempt moves its application, and only that.
LEMMA MovedPromise ==
    ASSUME Promises, Promises', NEW a \in Attempts, attempt[a].app \in Apps,
           attempt'[a].app = attempt[a].app,
           \A b \in Attempts \ {a} : attempt'[b] = attempt[b] /\ clicks'[b] = clicks[b],
           Role(a) # "open" \/ Role(a)' # "open"
    PROVE  LET p == attempt[a].app
           IN  /\ Phases[p] = Role(a) /\ Phases' = [Phases EXCEPT ![p] = Role(a)']
               /\ Sents[p] = Received(a) /\ Sents' = [Sents EXCEPT ![p] = Received(a)']
<1> DEFINE p == attempt[a].app
<1>1. (\A c \in Attempts : Role(c) # "open" => PhaseOf(attempt[c].app) = Role(c))'
  BY SpeakersNext
<1>2. (\A q \in Apps :
          (\A c \in Attempts : attempt[c].app = q => Role(c) = "open") => PhaseOf(q) = "open")'
  BY SpeakersNext
<1>3. (\A c, d \in Attempts :
          attempt[c].app = attempt[d].app /\ Role(c) # "open" /\ Role(d) # "open" => c = d)'
  BY SpeakersNext
<1>4. \A b \in Attempts \ {a} :
          Role(b)' = Role(b) /\ Received(b)' = Received(b) /\ attempt'[b].app = attempt[b].app
  BY DEF Role, Received
<1>5. \A b \in Attempts \ {a} : attempt[b].app = p => Role(b) = "open"
  <2> SUFFICES ASSUME NEW b \in Attempts \ {a}, attempt[b].app = p, Role(b) # "open"
               PROVE  FALSE
    OBVIOUS
  <2>1. CASE Role(a) # "open"
    BY <2>1, OneSpeaker
  <2>2. CASE Role(a)' # "open"
    <3>1. Role(b)' # "open" /\ attempt'[b].app = attempt'[a].app
      BY <1>4
    <3> QED BY <1>3, <2>2, <3>1
  <2> QED BY <2>1, <2>2
<1>6. PhaseOf(p) = Role(a)
  <2>1. CASE Role(a) # "open"
    BY <2>1, SpeakerPhase
  <2>2. CASE Role(a) = "open"
    BY <1>5, <2>2, SilentPhase
  <2> QED BY <2>1, <2>2
<1>7. PhaseOf(p)' = Role(a)'
  <2>1. CASE Role(a)' # "open"
    BY <1>1, <2>1
  <2>2. CASE Role(a)' = "open"
    <3>1. \A c \in Attempts : attempt'[c].app = p => Role(c)' = "open"
      BY <1>4, <1>5, <2>2
    <3> QED BY <1>2, <2>2, <3>1
  <2> QED BY <2>1, <2>2
<1>8. \A b \in Attempts \ {a} : attempt[b].app = p => ~Received(b)
  BY <1>5, ReceivedSpeaks
<1>9. SentOf(p) = Received(a) /\ SentOf(p)' = Received(a)'
  <2>1. SentOf(p) <=> \E c \in Attempts : attempt[c].app = p /\ Received(c)
    BY DEF SentOf, History, Received
  <2>2. SentOf(p)' <=> \E c \in Attempts : attempt'[c].app = p /\ Received(c)'
    BY DEF SentOf, History, Received
  <2>3. (SentOf(p) <=> Received(a)) /\ (SentOf(p)' <=> Received(a)')
    BY <1>4, <1>8, <2>1, <2>2
  <2> QED BY <2>3 DEF SentOf, Received
<1>10. ASSUME NEW q \in Apps, q # p PROVE PhaseOf(q)' = PhaseOf(q) /\ SentOf(q)' = SentOf(q)
  <2>1. History(q)' = History(q) /\ a \notin History(q)
    BY <1>4, <1>10 DEF History
  <2>2. \A b \in History(q) : attempt'[b] = attempt[b] /\ clicks'[b] = clicks[b]
    BY <2>1 DEF History
  <2>3. OutcomesOf(q)' = OutcomesOf(q)
    BY <2>1, <2>2 DEF OutcomesOf
  <2> QED BY <2>1, <2>2, <2>3 DEF PhaseOf, SentOf
<1> QED BY <1>6, <1>7, <1>9, <1>10 DEF Phases, Sents

-----------------------------------------------------------------------------
(***************************************************************************)
(* Every step of the kernel.                                               *)
(***************************************************************************)
Allowed == [Promise!Next]_(Promise!vars)

\* A quiet step is allowed.
LEMMA QuietAllowed == ASSUME Phases' = Phases, Sents' = Sents PROVE Allowed
BY DEF Allowed, Promise!vars, Phases, Sents

\* The moves of FinalAction.
LEMMA MoveAllowed ==
    ASSUME NEW p \in Apps, NEW from, NEW to, NEW before \in BOOLEAN, NEW after \in BOOLEAN,
           Phases[p] = from, Phases' = [Phases EXCEPT ![p] = to],
           Sents[p] = before, Sents' = [Sents EXCEPT ![p] = after],
           \/ from = "open" /\ to = "acting" /\ after = before
           \/ from = "acting" /\ to = "acting" /\ ~before /\ after
           \/ from = "acting" /\ to = "closed" /\ before /\ after
           \/ from = "acting" /\ to = "uncertain" /\ after = before
           \/ from = "uncertain" /\ to = "closed" /\ after = before
           \/ from = "uncertain" /\ to = "open" /\ ~after
           \/ from = "open" /\ to = "closed" /\ after = before
    PROVE  Allowed
<1>1. after = before => Sents' = Sents
  BY DEF Sents
<1>2. to = from => Phases' = Phases
  BY DEF Phases
<1>3. Promise!Next
  <2>1. CASE from = "open" /\ to = "acting" /\ after = before
    BY <1>1, <2>1 DEF Promise!Next, Promise!Authorize, Promise!Move, Phases, Sents
  <2>2. CASE from = "acting" /\ to = "acting" /\ ~before /\ after
    BY <1>2, <2>2 DEF Promise!Next, Promise!Send, Phases, Sents
  <2>3. CASE from = "acting" /\ to = "closed" /\ before /\ after
    BY <1>1, <2>3 DEF Promise!Next, Promise!Verify, Promise!Move, Phases, Sents
  <2>4. CASE from = "acting" /\ to = "uncertain" /\ after = before
    BY <1>1, <2>4 DEF Promise!Next, Promise!Quarantine, Promise!Move, Phases, Sents
  <2>5. CASE from = "uncertain" /\ to = "closed" /\ after = before
    BY <1>1, <2>5 DEF Promise!Next, Promise!ResolveSubmitted, Promise!Move, Phases, Sents
  <2>6. CASE from = "uncertain" /\ to = "open" /\ ~after
    BY <2>6 DEF Promise!Next, Promise!ResolveNotSubmitted, Promise!Move, Phases, Sents
  <2>7. CASE from = "open" /\ to = "closed" /\ after = before
    BY <1>1, <2>7 DEF Promise!Next, Promise!FoundApplied, Promise!Move, Phases, Sents
  <2> QED BY <2>1, <2>2, <2>3, <2>4, <2>5, <2>6, <2>7
<1> QED BY <1>3 DEF Allowed

\* An attempt that was admitted belongs to an application.
LEMMA Owned ==
    ASSUME TypeOK, ClaimInv, NEW a \in Attempts, attempt[a].stage # "absent"
    PROVE  attempt[a].app \in Apps
BY DEF TypeOK, AttemptRow, AppRefs, ClaimInv, RowsAgree

\* _finish_attempt: a verdict of the portal, of the evidence, or none.
LEMMA FinishAllowed ==
    ASSUME Promises, Promises', NEW a \in Attempts, NEW stage, NEW outcome, NEW reason,
           FinishAttempt(a, stage, outcome, reason), clicks' = clicks,
           \/ stage = attempt[a].stage
           \/ stage = "verifying" /\ attempt[a].stage = "committing" /\ clicks[a] = 1
    PROVE  Allowed
<1>0. TypeOK /\ ClaimInv /\ RowsAgree(a) /\ AuthorityAccounted(a) /\ clicks[a] \in Nat
  BY DEF Promises, Histories, ClaimInv, TypeOK
<1>1. /\ attempt'[a].stage = "finished" /\ attempt'[a].outcome = outcome
      /\ attempt'[a].app = attempt[a].app
      /\ \A b \in Attempts \ {a} : attempt'[b] = attempt[b]
      /\ AllowedTerminalOutcome(stage, outcome)
  BY <1>0, FinishRows
<1>2. attempt[a].outcome = "none" /\ attempt[a].app \in Apps
  BY <1>0, <1>1, Owned DEF AllowedTerminalOutcome, RowsAgree
<1>3. CASE attempt[a].stage \in PreCommit
  <2>1. /\ Role(a) = "open" /\ ~Received(a) /\ ~Received(a)'
        /\ outcome \in {"already_applied", "needs_review", "failed_before_commit", "draft_only"}
    BY <1>0, <1>1, <1>2, <1>3 DEF Role, Received, AuthorityAccounted, AllowedTerminalOutcome,
       PreCommit, PostCommit, ImmutableOutcomes
  <2>2. CASE outcome = "already_applied"
    <3>1. Role(a)' = "closed"
      BY <1>1, <2>2 DEF Role, PostCommit, ImmutableOutcomes
    <3>2. LET p == attempt[a].app
          IN  /\ Phases[p] = Role(a) /\ Phases' = [Phases EXCEPT ![p] = Role(a)']
              /\ Sents[p] = Received(a) /\ Sents' = [Sents EXCEPT ![p] = Received(a)']
      BY <1>1, <1>2, <3>1, MovedPromise
    <3>3. Received(a) = FALSE /\ Received(a)' = FALSE
      BY <2>1 DEF Received
    <3> QED BY <1>2, <2>1, <3>1, <3>2, <3>3, MoveAllowed
  <2>3. CASE outcome # "already_applied"
    <3>1. Role(a)' = "open"
      BY <1>1, <2>1, <2>3 DEF Role, PostCommit, ImmutableOutcomes
    <3>2. \A b \in Attempts : /\ Role(b)' = Role(b)
                              /\ Received(b)' <=> Received(b)
                              /\ attempt'[b].app = attempt[b].app
      BY <1>1, <2>1, <3>1 DEF Role, Received
    <3> QED BY <3>2, QuietPromise, QuietAllowed
  <2> QED BY <2>2, <2>3
<1>4. CASE attempt[a].stage = "committing"
  <2>1. Role(a) = "acting" /\ Received(a)' = Received(a) /\ Received(a) \in BOOLEAN
    BY <1>1, <1>2, <1>4 DEF Role, Received, PostCommit, AllowedTerminalOutcome
  <2>2. LET p == attempt[a].app
        IN  /\ Phases[p] = Role(a) /\ Phases' = [Phases EXCEPT ![p] = Role(a)']
            /\ Sents[p] = Received(a) /\ Sents' = [Sents EXCEPT ![p] = Received(a)']
    BY <1>1, <1>2, <2>1, MovedPromise
  <2>3. CASE outcome = "unknown"
    <3>1. Role(a)' = "uncertain"
      BY <1>1, <2>3 DEF Role, PostCommit
    <3> QED BY <1>2, <2>1, <2>2, <3>1, MoveAllowed
  <2>4. CASE outcome = "confirmed_submitted"
    <3>1. Role(a)' = "closed"
      BY <1>1, <2>4 DEF Role, PostCommit, ImmutableOutcomes
    <3>2. Received(a)
      BY <1>1, <1>2, <1>4, <2>4 DEF Received, AllowedTerminalOutcome
    <3> QED BY <1>2, <2>1, <2>2, <3>1, <3>2, MoveAllowed
  <2> QED BY <1>1, <1>4, <2>3, <2>4 DEF AllowedTerminalOutcome
<1> QED BY <1>0, <1>1, <1>3, <1>4 DEF AllowedTerminalOutcome, RowsAgree, PreCommit

\* A reversible stage is written: nothing is promised yet.
LEMMA StageAllowed ==
    ASSUME Promises, Promises', NEW a \in Attempts, NEW stage, attempt' = SetStage(a, stage),
           clicks' = clicks, attempt[a].stage \in PreCommit, stage \in PreCommit
    PROVE  Allowed
<1>0. TypeOK /\ RowsAgree(a) /\ AuthorityAccounted(a) /\ clicks[a] \in Nat
  BY DEF Promises, Histories, ClaimInv, TypeOK
<1>1. /\ attempt'[a].stage = stage /\ attempt'[a].outcome = "none"
      /\ attempt'[a].app = attempt[a].app
      /\ \A b \in Attempts \ {a} : attempt'[b] = attempt[b]
  BY <1>0, StageRows
<1>2. attempt[a].outcome = "none"
  BY <1>0 DEF RowsAgree, PreCommit
<1>3. \A b \in Attempts : /\ Role(b)' = Role(b)
                          /\ Received(b)' <=> Received(b)
                          /\ attempt'[b].app = attempt[b].app
  BY <1>1, <1>2 DEF Role, Received, PreCommit, PostCommit
<1> QED BY <1>3, QuietPromise, QuietAllowed

\* Submit, the operator's part: an attempt is admitted, cancelled or resolved.
LEMMA OperatorAllowed ==
    ASSUME Promises, Promises', OperatorStep
    PROVE  Allowed
<1>0. TypeOK /\ ClaimInv /\ clicks' = clicks
  BY DEF Promises, Histories, OperatorStep, EditContent, RewriteContent, RerouteCv, Regenerate,
     ConfirmAnswer, InspectStart, InspectPersist, InspectAbandon, Approve, WhatsAppApprove, Prepare,
     Retry, Skip, Submit, OperatorReconcile
<1>1. CASE UNCHANGED attempt
  <2>1. \A b \in Attempts : /\ Role(b)' = Role(b)
                            /\ Received(b)' <=> Received(b)
                            /\ attempt'[b].app = attempt[b].app
    BY <1>0, <1>1 DEF Role, Received
  <2> QED BY <2>1, QuietPromise, QuietAllowed
<1>2. ASSUME NEW p \in Apps, NEW k \in Keys, Submit(p, k) PROVE Allowed
  <2>1. PICK c \in Attempts : Admitted(c, p, k)
    BY <1>0, <1>2, SubmitRows
  <2>2. /\ attempt[c].stage = "absent" /\ attempt'[c].stage = "queued"
        /\ attempt'[c].outcome = "none"
        /\ \A b \in Attempts \ {c} : attempt'[b] = attempt[b]
    BY <2>1 DEF Admitted
  <2>3. attempt[c].outcome = "none" /\ ~(clicks[c] > 0)
    BY <1>0, <2>2 DEF ClaimInv, RowsAgree, AuthorityAccounted
  <2>4. \A b \in Attempts : /\ Role(b)' = Role(b)
                            /\ Received(b)' <=> Received(b)
                            /\ Role(b) # "open" => attempt'[b].app = attempt[b].app
    BY <1>0, <2>2, <2>3 DEF Role, Received, PostCommit, ImmutableOutcomes
  <2> QED BY <2>4, QuietPromise, QuietAllowed
<1>3. ASSUME NEW p \in Apps, Skip(p) PROVE Allowed
  <2> DEFINE cancelled == {a \in History(p) : IsLatest(a, p) /\ Unfinished(a)}
  <2>1. attempt' = [a \in Attempts |->
               IF a \in cancelled
               THEN [attempt[a] EXCEPT !.stage = "finished", !.outcome = "failed_before_commit"]
               ELSE attempt[a]]
    BY <1>3 DEF Skip
  <2>2. \A a \in cancelled : Unfinished(a) /\ ~CrossedBoundary(a) /\ a \in Attempts
    BY <1>3 DEF Skip, MutationAllowed, History
  <2> HIDE DEF cancelled
  <2>3. ASSUME NEW b \in Attempts, b \in cancelled
        PROVE  /\ Role(b)' = Role(b) /\ (Received(b)' <=> Received(b))
               /\ attempt'[b].app = attempt[b].app
    <3>1. /\ attempt'[b].app = attempt[b].app /\ attempt'[b].stage = "finished"
          /\ attempt'[b].outcome = "failed_before_commit"
      BY <1>0, <2>1, <2>3 DEF TypeOK, AttemptRow
    <3>2. /\ attempt[b].outcome = "none" /\ attempt[b].stage \notin PostCommit
          /\ ~(clicks[b] > 0)
      BY <1>0, <2>2, <2>3 DEF ClaimInv, RowsAgree, AuthorityAccounted, Unfinished,
         CrossedBoundary, PreCommit, PostCommit
    <3> QED BY <1>0, <3>1, <3>2 DEF Role, Received, PostCommit, ImmutableOutcomes
  <2>4. ASSUME NEW b \in Attempts, b \notin cancelled
        PROVE  /\ Role(b)' = Role(b) /\ (Received(b)' <=> Received(b))
               /\ attempt'[b].app = attempt[b].app
    BY <1>0, <2>1, <2>4 DEF Role, Received
  <2> QED BY <2>3, <2>4, QuietPromise, QuietAllowed
<1>4. ASSUME NEW a \in Attempts, OperatorReconcile(a) PROVE Allowed
  <2>1. PICK verdict \in {"operator_confirmed", "failed_before_commit"} :
            attempt' = [attempt EXCEPT ![a].outcome = verdict, ![a].reconciled = TRUE]
    BY <1>4 DEF OperatorReconcile
  <2>2. attempt[a].outcome = "unknown"
    BY <1>4 DEF OperatorReconcile
  <2>3. /\ attempt'[a].app = attempt[a].app /\ attempt'[a].outcome = verdict
        /\ attempt'[a].stage = attempt[a].stage
        /\ \A b \in Attempts \ {a} : attempt'[b] = attempt[b]
    BY <1>0, <2>1 DEF TypeOK, AttemptRow
  <2>4. attempt[a].stage = "finished" /\ attempt[a].app \in Apps
    BY <1>0, <2>2, Owned DEF ClaimInv, RowsAgree
  <2>5. Role(a) = "uncertain" /\ Received(a) \in BOOLEAN /\ Received(a)' \in BOOLEAN
    BY <2>2, <2>4 DEF Role, Received, PostCommit
  <2>6. LET p == attempt[a].app
        IN  /\ Phases[p] = Role(a) /\ Phases' = [Phases EXCEPT ![p] = Role(a)']
            /\ Sents[p] = Received(a) /\ Sents' = [Sents EXCEPT ![p] = Received(a)']
    BY <1>0, <2>3, <2>4, <2>5, MovedPromise
  <2>7. CASE verdict = "operator_confirmed"
    <3>1. Role(a)' = "closed" /\ Received(a)' = Received(a)
      BY <1>0, <2>2, <2>3, <2>4, <2>7 DEF Role, Received, PostCommit, ImmutableOutcomes
    <3> QED BY <2>4, <2>5, <2>6, <3>1, MoveAllowed
  <2>8. CASE verdict = "failed_before_commit"
    <3>1. Role(a)' = "open" /\ ~Received(a)'
      BY <2>3, <2>4, <2>8 DEF Role, Received, PostCommit, ImmutableOutcomes
    <3> QED BY <2>4, <2>5, <2>6, <3>1, MoveAllowed
  <2> QED BY <2>7, <2>8
<1> QED
  BY <1>1, <1>2, <1>3, <1>4
  DEF OperatorStep, EditContent, RewriteContent, RerouteCv, Regenerate, ConfirmAnswer,
      InspectStart, InspectPersist, InspectAbandon, Approve, WhatsAppApprove, Prepare, Retry

\* The worker's part: authority is spent, the employer is told, a verdict falls.
LEMMA WorkerAllowed ==
    ASSUME Promises, Promises', NEW w \in Workers, WorkerStep(w)
    PROVE  Allowed
<1>0. TypeOK /\ BusyWorkers /\ ClaimInv /\ WorkerOnTrack(w)
  BY DEF Promises, Histories, ClaimInv
<1>1. CASE UNCHANGED <<attempt, clicks>>
  <2>1. \A b \in Attempts : /\ Role(b)' = Role(b)
                            /\ Received(b)' <=> Received(b)
                            /\ attempt'[b].app = attempt[b].app
    BY <1>1 DEF Role, Received
  <2> QED BY <2>1, QuietPromise, QuietAllowed
<1>2. ASSUME NEW a \in Attempts, Claim(w, a) \/ ClaimBuildMismatch(w, a) PROVE Allowed
  <2>1. attempt[a].stage = "queued" /\ clicks' = clicks
    BY <1>2 DEF Claim, ClaimBuildMismatch
  <2>2. CASE Claim(w, a)
    BY <2>1, <2>2, StageAllowed DEF Claim, PreCommit
  <2>3. CASE ClaimBuildMismatch(w, a)
    <3>1. FinishAttempt(a, "queued", "failed_before_commit", "REFUSED")
      BY <2>3 DEF ClaimBuildMismatch
    <3> QED BY <2>1, <3>1, FinishAllowed
  <2> QED BY <1>2, <2>2, <2>3
<1> DEFINE a == worker[w].cmd
<1>3. worker[w].pc # "idle" => a \in Attempts
  BY <1>0 DEF BusyWorkers
<1>4. CASE EnterPreflight(w) \/ MarkReady(w)
  BY <1>1, <1>3, <1>4, StageAllowed DEF EnterPreflight, MarkReady, GiveUp, PreCommit
<1>5. CASE FinishRefused(w) \/ PreflightStops(w) \/ BoundaryRefused(w) \/ LockForCommit(w)
           \/ FinishConfirmed(w) \/ FinishUnknown(w)
  <2>1. a \in Attempts /\ clicks' = clicks
    BY <1>3, <1>5 DEF FinishRefused, PreflightStops, BoundaryRefused, LockForCommit,
       FinishConfirmed, FinishUnknown
  <2>2. \/ UNCHANGED attempt
        \/ \E outcome, reason : FinishAttempt(a, attempt[a].stage, outcome, reason)
        \/ /\ FinishAttempt(a, "verifying", "confirmed_submitted", "none")
           /\ worker[w].pc = "clicked"
    BY <1>5 DEF FinishRefused, PreflightStops, BoundaryRefused, LockForCommit, FinishConfirmed,
       FinishUnknown, GiveUp
  <2>3. worker[w].pc = "clicked" => attempt[a].stage = "committing" /\ clicks[a] = 1
    BY <1>0 DEF WorkerOnTrack, Clicking
  <2> QED BY <1>1, <2>1, <2>2, <2>3, FinishAllowed
<1>6. CASE EnterCommitBoundary(w)
  <2>0. PICK c \in Attempts : c = worker[w].cmd
    BY <1>3, <1>6 DEF EnterCommitBoundary
  <2>1. /\ attempt[c].stage = "ready" /\ clicks' = clicks
        /\ attempt' = [SetStage(c, "committing") EXCEPT ![c].consumed = TRUE]
    BY <1>6, <2>0 DEF EnterCommitBoundary, AtBoundary
  <2>2. /\ attempt'[c].stage = "committing" /\ attempt'[c].outcome = "none"
        /\ attempt'[c].app = attempt[c].app
        /\ \A b \in Attempts \ {c} : attempt'[b] = attempt[b]
    BY <1>0, <2>1, CommitRows
  <2>3. attempt[c].outcome = "none" /\ attempt[c].app \in Apps
    BY <1>0, <2>1, Owned DEF ClaimInv, RowsAgree
  <2>4. /\ Role(c) = "open" /\ Role(c)' = "acting"
        /\ Received(c)' = Received(c) /\ Received(c) \in BOOLEAN
    BY <2>1, <2>2, <2>3 DEF Role, Received, PostCommit, ImmutableOutcomes
  <2>5. LET p == attempt[c].app
        IN  /\ Phases[p] = Role(c) /\ Phases' = [Phases EXCEPT ![p] = Role(c)']
            /\ Sents[p] = Received(c) /\ Sents' = [Sents EXCEPT ![p] = Received(c)']
    BY <2>1, <2>2, <2>3, <2>4, MovedPromise
  <2> QED BY <2>3, <2>4, <2>5, MoveAllowed
<1>7. CASE Click(w)
  <2>0. PICK c \in Attempts : c = worker[w].cmd
    BY <1>3, <1>7 DEF Click
  <2>1. /\ attempt' = attempt /\ attempt[c].stage = "committing"
        /\ clicks[c] = 0 /\ clicks'[c] = 1
        /\ \A b \in Attempts \ {c} : clicks'[b] = clicks[b]
    BY <1>0, <1>7, <2>0 DEF Click, WorkerOnTrack, Clicking, TypeOK
  <2>2. attempt[c].outcome = "none" /\ attempt[c].app \in Apps
    BY <1>0, <2>1, Owned DEF ClaimInv, RowsAgree
  <2>3. /\ Role(c) = "acting" /\ Role(c)' = "acting"
        /\ Received(c) = FALSE /\ Received(c)' = TRUE
    BY <2>1, <2>2 DEF Role, Received, PostCommit
  <2>4. LET p == attempt[c].app
        IN  /\ Phases[p] = Role(c) /\ Phases' = [Phases EXCEPT ![p] = Role(c)']
            /\ Sents[p] = Received(c) /\ Sents' = [Sents EXCEPT ![p] = Received(c)']
    BY <2>1, <2>2, <2>3, MovedPromise
  <2> QED BY <2>2, <2>3, <2>4, MoveAllowed
<1> QED
  BY <1>1, <1>2, <1>4, <1>5, <1>6, <1>7 DEF WorkerStep, Execute, BoundarySuperseded, GiveUp

\* Every step of the kernel is a step of FinalAction or none.
LEMMA StepAllowed == ASSUME Promises, Promises', [Next]_vars PROVE Allowed
<1>0. TypeOK /\ ClaimInv
  BY DEF Promises, Histories
<1>1. CASE \A b \in Attempts : /\ attempt'[b].app = attempt[b].app /\ clicks'[b] = clicks[b]
                               /\ attempt'[b].stage = attempt[b].stage
                               /\ attempt'[b].outcome = attempt[b].outcome
  <2>1. \A b \in Attempts : /\ Role(b)' = Role(b)
                            /\ Received(b)' <=> Received(b)
                            /\ attempt'[b].app = attempt[b].app
    BY <1>1 DEF Role, Received
  <2> QED BY <2>1, QuietPromise, QuietAllowed
<1>2. CASE Tick
  BY <1>0, <1>1, <1>2 DEF Tick, TypeOK, AttemptRow
<1>3. ASSUME NEW a \in Attempts, Quarantine(a) PROVE Allowed
  <2>1. FinishAttempt(a, attempt[a].stage, "unknown", "none") /\ clicks' = clicks
    BY <1>3 DEF Quarantine
  <2> QED BY <2>1, FinishAllowed
<1>4. ASSUME NEW a \in Attempts, Redeliver(a) PROVE Allowed
  <2>1. attempt' = SetStage(a, "queued") /\ clicks' = clicks
    BY <1>4 DEF Redeliver
  <2>2. attempt[a].stage \in PreCommit
    BY <1>0, <1>4 DEF Redeliver, Stale, CrossedBoundary, ClaimInv, RowsAgree, PreCommit, PostCommit
  <2> QED BY <2>1, <2>2, StageAllowed DEF PreCommit
<1> QED
  BY <1>1, <1>2, <1>3, <1>4, OperatorAllowed, WorkerAllowed DEF Next, Crash, vars

\* The kernel keeps FinalAction's promise for every number of applications,
\* attempts and workers: the API, the workers and the sweeper together never
\* authorise over an outstanding final action, send twice, or reopen what closed.
THEOREM KernelImplementsFinalAction == Spec => ImplementsFinalAction
<1>1. Init => Promise!Init
  <2> SUFFICES ASSUME Init PROVE Promise!Init
    OBVIOUS
  <2>1. \A a \in Attempts : Role(a) = "open" /\ ~(clicks[a] > 0)
    BY DEF Init, NoAttempt, Role, PostCommit, ImmutableOutcomes
  <2>2. \A p \in Apps : PhaseOf(p) = "open"
    BY <2>1, SilentPhase
  <2>3. \A p \in Apps : SentOf(p) = FALSE
    BY <2>1 DEF SentOf, History
  <2> QED BY <2>2, <2>3 DEF Promise!Init
<1>2. Promises /\ Promises' /\ [Next]_vars => [Promise!Next]_(Promise!vars)
  BY StepAllowed DEF Allowed
<1>3. Spec => []Promises
  BY PromisesInit, PromisesStep, PTL DEF Spec
<1> QED BY <1>1, <1>2, <1>3, PTL DEF Spec, ImplementsFinalAction, Promise!Spec

=============================================================================
