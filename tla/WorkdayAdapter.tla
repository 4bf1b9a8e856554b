--------------------------- MODULE WorkdayAdapter ---------------------------
(***************************************************************************)
(* WorkdayBrowserV2 over one persistent Playwright profile.  The form has  *)
(* several reversible steps and a review page.  Inspection walks the steps *)
(* and plans them; preflight walks them again and must find the same;      *)
(* commit compares the review page with the prepared one, captures the     *)
(* form data, arms a one-shot gate and submits.                            *)
(***************************************************************************)
EXTENDS CandidatePage

CONSTANTS
    Callers,    \* coroutines that may call commit with the same action
    MaxSteps    \* _MAX_REVERSIBLE_STEPS

VARIABLES
    window,    \* plan, permit and prepared action are unexpired
    plan,      \* FormPlanV1 of the inspection
    walk,      \* steps observed and CV attached on the current walk
    session,   \* PlaywrightWorkdayCandidateSession
    gates,     \* the _OneShotFinalRequestGate of each commit call
    current,   \* _final_request_gate: whose gate it is
    seenGate,  \* the gate each request's handler read
    pc,        \* where inspect and preflight stand
    reason,    \* the reason code preflight returned
    prepared,  \* _prepared[nonce]
    commit     \* commit calls

vars == <<page, changes, posts, requests, sent, window, plan, walk, session, gates, current,
          seenGate, pc, reason, prepared, commit>>

gateVars == <<gates, current, seenGate>>

----------------------------------------------------------------------------
\* Markers in the order assess_workday_v2_snapshot looks for them.
Markers == <<"challenge", "mfa", "login", "closed", "already_applied", "confirmation",
             "review", "resume_upload", "form", "job">>

assess(marks) ==
    LET hits == {i \in DOMAIN Markers : Markers[i] \in marks}
    IN  IF hits = {} THEN "selector_drift"
                     ELSE Markers[CHOOSE i \in hits : \A j \in hits : i <= j]

observe_fields(p) == p.fields
final_action_contract(p) == p.action

\* The document of the review page; it does not show what is submitted.
Html(p) == <<p.marks, p.fields, p.action>>

IsAt(states) == page.bound /\ assess(page.marks) \in states
ReversibleStep == {"form", "resume_upload"}
form_fingerprint(steps, action) == <<steps, action>>

NoPlan == [made |-> FALSE, steps |-> <<>>, last |-> "none", action |-> "none", blocked |-> FALSE]
NoWalk == [steps |-> <<>>, attached |-> FALSE]
NoSession == [open |-> FALSE, uploaded |-> FALSE, clicked |-> FALSE]
NoGate == [expected |-> NoPayload, completed |-> FALSE, rejected |-> FALSE, sent |-> FALSE]
NoPrepared == [made |-> FALSE, clicked |-> FALSE, html |-> Html(BlankPage)]
NoCommit == [pc |-> "idle", captured |-> NoPayload, seen |-> "none", outcome |-> "none"]

navigate == Served /\ session' = [NoSession EXCEPT !.open = TRUE] /\ walk' = NoWalk

\* The gate of a closed session judges no more requests.
close == session' = NoSession

ensure_resume_attachment ==
    /\ page' = [page EXCEPT !.file = "routed"]
    /\ session' = [session EXCEPT !.uploaded = TRUE]

verify_resume_attachment == session.uploaded /\ page.file = "routed"

\* fill, then one click on Next: the site serves its next step.
advance_reversible_step ==
    \E m \in Looks, f \in FieldSets :
        page' = [page EXCEPT !.answers = "planned", !.marks = m,
                             !.fields = IF assess(m) \in ReversibleStep THEN f ELSE @]

reject(g) == IF g.completed THEN g ELSE [g EXCEPT !.rejected = TRUE, !.completed = TRUE]

----------------------------------------------------------------------------
InspectBegin ==
    /\ pc = "new"
    /\ navigate
    /\ pc' = "inspect_load"
    /\ UNCHANGED <<changes, posts, requests, sent, window, plan, gateVars, reason, prepared,
                   commit>>

Inspecting == pc \in {"inspect_load", "inspect_step", "inspect_attach", "inspect_answer",
                      "inspect_fill", "inspect_review"}

Fault_InspectAbandon ==
    /\ Inspecting
    /\ pc' = "abandoned"
    /\ UNCHANGED <<pageVars, window, plan, walk, session, gateVars, reason, prepared, commit>>

\* A terminal page, a changed form, too many steps or an exception; the
\* finally clause closes the session.
InspectAbandon ==
    /\ Inspecting
    /\ close
    /\ pc' = "abandoned"
    /\ UNCHANGED <<pageVars, window, plan, walk, gateVars, reason, prepared, commit>>

\* The job page's apply button, on the first snapshot only.
InspectOpen ==
    /\ pc = "inspect_load"
    /\ IsAt({"job"})
    /\ FormOpened
    /\ pc' = "inspect_step"
    /\ UNCHANGED <<changes, posts, requests, sent, window, plan, walk, session, gateVars,
                   reason, prepared, commit>>

InspectStep ==
    /\ pc \in {"inspect_load", "inspect_step"}
    /\ IsAt(ReversibleStep)
    /\ Len(walk.steps) < MaxSteps
    /\ walk' = [walk EXCEPT !.steps = Append(@, observe_fields(page))]
    /\ pc' = IF assess(page.marks) = "resume_upload" THEN "inspect_attach" ELSE "inspect_answer"
    /\ UNCHANGED <<pageVars, window, plan, session, gateVars, reason, prepared, commit>>

InspectAttach ==
    /\ pc = "inspect_attach"
    /\ ensure_resume_attachment
    /\ walk' = [walk EXCEPT !.attached = TRUE]
    /\ pc' = "inspect_answer"
    /\ UNCHANGED <<changes, posts, requests, sent, window, plan, gateVars, reason, prepared,
                   commit>>

PlanMade(action, blocked) ==
    /\ plan' = [made |-> TRUE, steps |-> walk.steps, last |-> page.fields, action |-> action,
                blocked |-> blocked]
    /\ close
    /\ pc' = "reviewed"

\* The answer policy; with a blocker the page is not advanced and the plan is
\* a partial one with FORM_PLAN_INCOMPLETE.
InspectAnswer ==
    /\ pc = "inspect_answer"
    /\ \/ pc' = "inspect_fill" /\ UNCHANGED <<plan, session>>
       \/ PlanMade("none", TRUE)
    /\ UNCHANGED <<pageVars, window, walk, gateVars, reason, prepared, commit>>

InspectFill ==
    /\ pc = "inspect_fill"
    /\ IsAt(ReversibleStep)
    /\ advance_reversible_step
    /\ pc' = "inspect_step"
    /\ UNCHANGED <<changes, posts, requests, sent, window, plan, walk, session, gateVars,
                   reason, prepared, commit>>

InspectReview ==
    /\ pc = "inspect_step"
    /\ IsAt({"review"})
    /\ walk.steps # <<>> /\ walk.attached /\ Len(walk.steps) < MaxSteps
    /\ plan' = [plan EXCEPT !.action = final_action_contract(page)]
    /\ pc' = "inspect_review"
    /\ UNCHANGED <<pageVars, window, walk, session, gateVars, reason, prepared, commit>>

InspectComplete ==
    /\ pc = "inspect_review"
    /\ verify_resume_attachment
    /\ PlanMade(plan.action, FALSE)
    /\ UNCHANGED <<pageVars, window, walk, gateVars, reason, prepared, commit>>

----------------------------------------------------------------------------
Preflighting == pc \in {"pre_load", "pre_step", "pre_attach", "pre_fill", "pre_verify"}

PreflightReturns(code) == pc' = "pre_failed" /\ reason' = code
PreflightFrame == UNCHANGED <<window, plan, gateVars, commit>>

PreflightBegin ==
    /\ pc = "reviewed"
    /\ IF ~plan.blocked /\ window
         THEN navigate /\ pc' = "pre_load" /\ UNCHANGED reason
         ELSE PreflightReturns("ADAPTER_NOT_QUALIFIED") /\ UNCHANGED <<page, session, walk>>
    /\ UNCHANGED <<changes, posts, requests, sent, prepared>> /\ PreflightFrame

PreflightRefuse ==
    /\ Preflighting
    /\ \E code \in {"FORM_CHANGED", "ATTACHMENT_UNVERIFIED", "INTERNAL_ERROR"} :
          PreflightReturns(code)
    /\ UNCHANGED <<pageVars, walk, session, prepared>> /\ PreflightFrame

PreflightAlready ==
    /\ pc \in {"pre_load", "pre_step"}
    /\ IsAt({"already_applied"})
    /\ PreflightReturns("ALREADY_APPLIED")
    /\ UNCHANGED <<pageVars, walk, session, prepared>> /\ PreflightFrame

PreflightGoes(at, to) == pc = at /\ pc' = to /\ UNCHANGED reason /\ PreflightFrame

PreflightOpen ==
    /\ PreflightGoes("pre_load", "pre_step")
    /\ IsAt({"job"})
    /\ FormOpened
    /\ UNCHANGED <<changes, posts, requests, sent, walk, session, prepared>>

Fault_PreflightStep ==
    /\ \E at \in {"pre_load", "pre_step"} :
          PreflightGoes(at, IF assess(page.marks) = "resume_upload" THEN "pre_attach" ELSE "pre_fill")
    /\ IsAt(ReversibleStep)
    /\ Len(walk.steps) < Len(plan.steps)
    /\ walk' = [walk EXCEPT !.steps = Append(@, plan.steps[Len(@) + 1])]
    /\ UNCHANGED <<pageVars, session, prepared>>

\* The step's fields are those the plan has next.
PreflightStep ==
    /\ \E at \in {"pre_load", "pre_step"} :
          PreflightGoes(at, IF assess(page.marks) = "resume_upload" THEN "pre_attach" ELSE "pre_fill")
    /\ IsAt(ReversibleStep)
    /\ Len(walk.steps) < Len(plan.steps)
    /\ observe_fields(page) = plan.steps[Len(walk.steps) + 1]
    /\ walk' = [walk EXCEPT !.steps = Append(@, observe_fields(page))]
    /\ UNCHANGED <<pageVars, session, prepared>>

PreflightAttach ==
    /\ PreflightGoes("pre_attach", "pre_fill")
    /\ ensure_resume_attachment
    /\ walk' = [walk EXCEPT !.attached = TRUE]
    /\ UNCHANGED <<changes, posts, requests, sent, prepared>>

PreflightFill ==
    /\ PreflightGoes("pre_fill", "pre_step")
    /\ IsAt(ReversibleStep)
    /\ advance_reversible_step
    /\ UNCHANGED <<changes, posts, requests, sent, walk, session, prepared>>

PreflightReview ==
    /\ PreflightGoes("pre_step", "pre_verify")
    /\ IsAt({"review"})
    /\ walk.attached
    /\ form_fingerprint(walk.steps, final_action_contract(page))
         = form_fingerprint(plan.steps, plan.action)
    /\ prepared' = [prepared EXCEPT !.html = Html(page)]
    /\ UNCHANGED <<pageVars, walk, session>>

PreflightVerify ==
    /\ PreflightGoes("pre_verify", "ready")
    /\ verify_resume_attachment
    /\ prepared' = [prepared EXCEPT !.made = TRUE]
    /\ UNCHANGED <<pageVars, walk, session>>

----------------------------------------------------------------------------
Returns(c, outcome) == commit' = [commit EXCEPT ![c].pc = "returned", ![c].outcome = outcome]
Goes(c, to) == commit' = [commit EXCEPT ![c].pc = to]
CommitFrame == UNCHANGED <<window, plan, walk, pc, reason>>

\* The prepared action is looked at here ...
CommitBegin(c) ==
    /\ pc \in {"ready", "released"}
    /\ commit[c].pc = "idle"
    /\ IF ~prepared.made \/ prepared.clicked \/ ~window
         THEN Returns(c, "replay")
         ELSE Goes(c, "verify")
    /\ UNCHANGED <<pageVars, session, gateVars, prepared>> /\ CommitFrame

CommitVerify(c) ==
    /\ commit[c].pc = "verify"
    /\ \/ verify_resume_attachment /\ Goes(c, "compare")
       \/ Returns(c, "withheld")
    /\ UNCHANGED <<pageVars, session, gateVars, prepared>> /\ CommitFrame

SameReview == IsAt({"review"}) /\ Html(page) = prepared.html

\* ... and marked clicked here, two awaits later; commit_final_action looks
\* at the session's own flag before it awaits.
CommitCompare(c) ==
    /\ commit[c].pc = "compare"
    /\ \/ /\ SameReview /\ window
          /\ prepared' = [prepared EXCEPT !.clicked = TRUE]
          /\ IF session.clicked THEN Returns(c, "withheld") ELSE Goes(c, "arm_compare")
       \/ Returns(c, "withheld") /\ UNCHANGED prepared
    /\ UNCHANGED <<pageVars, session, gateVars>> /\ CommitFrame

ArmCompare(c) ==
    /\ commit[c].pc = "arm_compare"
    /\ \/ SameReview /\ Goes(c, "arm_verify")
       \/ Returns(c, "withheld") \/ Returns(c, "unknown")
    /\ UNCHANGED <<pageVars, session, gateVars, prepared>> /\ CommitFrame

ArmVerify(c) ==
    /\ commit[c].pc = "arm_verify"
    /\ \/ verify_resume_attachment /\ Goes(c, "capture")
       \/ Returns(c, "withheld")
    /\ UNCHANGED <<pageVars, session, gateVars, prepared>> /\ CommitFrame

\* workday_v2_answer_bindings: the reviewed submission has the fields and the
\* target of the plan, the planned answers and the routed CV.
PlannedPayload == Reviewed(<<plan.last, plan.action>>)

finalControlState == IsAt({"review"})
formDataCommitment == Payload(page)
answerControlOwners == page.fields = PlannedPayload.fields
answerBindingsValid == page.answers = PlannedPayload.answers
markerValid == page.file = PlannedPayload.file

Fault_ArmCapture(c) ==
    /\ commit[c].pc = "capture"
    /\ \/ /\ finalControlState
          /\ commit' = [commit EXCEPT ![c].pc = "arm", ![c].captured = formDataCommitment]
       \/ Returns(c, "withheld")
    /\ UNCHANGED <<pageVars, session, gateVars, prepared>> /\ CommitFrame

\* The capture script: every control belongs to a reviewed field, holds its
\* reviewed answer, and the request target is the reviewed one.
ArmCapture(c) ==
    /\ commit[c].pc = "capture"
    /\ \/ /\ finalControlState /\ answerControlOwners /\ answerBindingsValid /\ markerValid
          /\ page.action = plan.action
          /\ commit' = [commit EXCEPT ![c].pc = "arm", ![c].captured = formDataCommitment]
       \/ Returns(c, "withheld")
    /\ UNCHANGED <<pageVars, session, gateVars, prepared>> /\ CommitFrame

ArmGate(c) ==
    /\ commit[c].pc = "arm"
    /\ \/ /\ verify_resume_attachment
          /\ gates' = [gates EXCEPT ![c] = [NoGate EXCEPT !.expected = commit[c].captured]]
          /\ current' = {c}
          /\ session' = [session EXCEPT !.clicked = TRUE]
          /\ Goes(c, "script")
       \/ Returns(c, "withheld") /\ UNCHANGED <<gates, current, session>>
    /\ UNCHANGED <<pageVars, seenGate, prepared>> /\ CommitFrame

\* The final script hashes the state and the form data across awaits and
\* compares them again in the turn that submits; its result may be lost.
structurallyValid(c) == finalControlState /\ page.action = commit[c].captured.action

Releasable(c) ==
    /\ structurallyValid(c) /\ markerValid /\ answerBindingsValid
    /\ formDataCommitment = commit[c].captured

ClickScript(c) ==
    /\ commit[c].pc = "script"
    /\ \/ /\ Releasable(c)
          /\ Issue(TRUE)
          /\ Goes(c, "wait") \/ Returns(c, "unknown")
       \/ /\ ~Releasable(c)
          /\ Goes(c, "status") \/ Returns(c, "unknown")
          /\ UNCHANGED requests
    /\ UNCHANGED <<page, changes, posts, sent, session, gateVars, prepared>> /\ CommitFrame

\* The script did not submit: the gate is shut and the attempt handed back.
ClickStatus(c) ==
    /\ commit[c].pc = "status"
    /\ gates' = [gates EXCEPT ![c] = reject(@)]
    /\ Returns(c, "withheld")
    /\ UNCHANGED <<pageVars, session, current, seenGate, prepared>> /\ CommitFrame

Fault_ClickWait(c) ==
    /\ commit[c].pc = "wait"
    /\ IF gates[c].completed THEN Goes(c, "evidence") ELSE Returns(c, "withheld")
    /\ UNCHANGED <<pageVars, session, gateVars, prepared>> /\ CommitFrame

\* A rejected request never left; a silent gate is an unknown outcome.
ClickWait(c) ==
    /\ commit[c].pc = "wait"
    /\ \/ /\ gates[c].completed
          /\ IF gates[c].rejected THEN Returns(c, "withheld") ELSE Goes(c, "evidence")
       \/ ~gates[c].completed /\ Returns(c, "unknown")
    /\ UNCHANGED <<pageVars, session, gateVars, prepared>> /\ CommitFrame

Fault_EvidenceSnapshot(c) ==
    /\ commit[c].pc = "evidence"
    /\ \/ /\ page.bound
          /\ commit' = [commit EXCEPT ![c].pc = "reference", ![c].seen = assess(page.marks)]
       \/ Returns(c, "failed")
    /\ UNCHANGED <<pageVars, session, gateVars, prepared>> /\ CommitFrame

EvidenceSnapshot(c) ==
    /\ commit[c].pc = "evidence"
    /\ \/ /\ page.bound
          /\ commit' = [commit EXCEPT ![c].pc = "reference", ![c].seen = assess(page.marks)]
       \/ Returns(c, "unknown")
    /\ UNCHANGED <<pageVars, session, gateVars, prepared>> /\ CommitFrame

EvidenceReference(c) ==
    /\ commit[c].pc = "reference"
    /\ \/ commit[c].seen = "already_applied" /\ Returns(c, "already_applied")
       \/ /\ commit[c].seen = "confirmation"
          /\ page.bound /\ "confirmation" \in page.marks
          /\ Returns(c, "confirmed")
       \/ Returns(c, "unknown")
    /\ UNCHANGED <<pageVars, session, gateVars, prepared>> /\ CommitFrame

----------------------------------------------------------------------------
(* _guard_request reads the current gate, checks the address in a thread   *)
(* and then has that gate judge the request in one go.                     *)

\* Only a request for the reviewed posting's own address is sure to pass.
may_refuse_url(r) == ~session.open \/ ~requests[r].native

GuardAddress(r) ==
    /\ requests[r].stage = "new"
    /\ \/ /\ session.open
          /\ Moved(r, "checked")
          /\ seenGate' = [seenGate EXCEPT ![r] = current]
          /\ UNCHANGED <<sent, gates>>
       \/ /\ may_refuse_url(r)
          /\ Abort(r)
          /\ gates' = [c \in Callers |-> IF c \in current THEN reject(gates[c]) ELSE gates[c]]
          /\ UNCHANGED seenGate
    /\ UNCHANGED <<page, changes, posts, window, plan, walk, session, current, pc, reason,
                   prepared, commit>>

\* The digest of the body, recomputed from what the browser is about to send.
canonical_payload(r) == requests[r].payload

request_matches(r, c) == requests[r].native /\ canonical_payload(r) = gates[c].expected

Fault_evaluate(r, c) ==
    IF ~request_matches(r, c)
      THEN Abort(r) /\ gates' = [gates EXCEPT ![c] = reject(@)]
      ELSE /\ Release(r)
           /\ gates' = [gates EXCEPT ![c].sent = TRUE, ![c].completed = TRUE]

evaluate(r, c) ==
    IF gates[c].completed \/ ~request_matches(r, c)
      THEN Abort(r) /\ gates' = [gates EXCEPT ![c] = reject(@)]
      ELSE /\ Release(r)
           /\ gates' = [gates EXCEPT ![c].sent = TRUE, ![c].completed = TRUE]

GuardDecide(r) ==
    /\ requests[r].stage = "checked"
    /\ \/ (seenGate[r] = {} \/ ~session.open) /\ Abort(r) /\ UNCHANGED gates
       \/ session.open /\ \E c \in seenGate[r] : evaluate(r, c)
    /\ UNCHANGED <<page, changes, posts, window, plan, walk, session, current, seenGate, pc,
                   reason, prepared, commit>>

----------------------------------------------------------------------------
CleanupPreflight ==
    /\ pc = "pre_failed" /\ session.open
    /\ close
    /\ UNCHANGED <<pageVars, window, plan, walk, gateVars, pc, reason, prepared, commit>>

CleanupPrepared ==
    /\ pc = "ready"
    /\ \E c \in Callers : commit[c].pc = "returned"
    /\ \A c \in Callers : commit[c].pc \in {"idle", "returned"}
    /\ prepared' = [prepared EXCEPT !.made = FALSE]
    /\ close
    /\ pc' = "released"
    /\ UNCHANGED <<pageVars, window, plan, walk, gateVars, reason, commit>>

PageStep ==
    /\ session.open
    /\ PageChange \/ PagePosts
    /\ UNCHANGED <<window, plan, walk, session, gateVars, pc, reason, prepared, commit>>

Expire ==
    /\ window
    /\ window' = FALSE
    /\ UNCHANGED <<pageVars, plan, walk, session, gateVars, pc, reason, prepared, commit>>

Init ==
    /\ PageInit(Callers)
    /\ window = TRUE /\ plan = NoPlan /\ walk = NoWalk /\ session = NoSession
    /\ gates = [c \in Callers |-> NoGate] /\ current = {}
    /\ seenGate = [r \in RequestIds(Callers) |-> {}]
    /\ pc = "new" /\ reason = "none" /\ prepared = NoPrepared
    /\ commit = [c \in Callers |-> NoCommit]

Inspection == InspectBegin \/ InspectAbandon \/ InspectOpen \/ InspectStep \/ InspectAttach
              \/ InspectAnswer \/ InspectFill \/ InspectReview \/ InspectComplete

Preflight == PreflightBegin \/ PreflightRefuse \/ PreflightAlready \/ PreflightOpen
             \/ PreflightStep \/ PreflightAttach \/ PreflightFill \/ PreflightReview
             \/ PreflightVerify

CommitStep(c) == CommitBegin(c) \/ CommitVerify(c) \/ CommitCompare(c) \/ ArmCompare(c)
                 \/ ArmVerify(c) \/ ArmCapture(c) \/ ArmGate(c) \/ ClickScript(c)
                 \/ ClickStatus(c) \/ ClickWait(c) \/ EvidenceSnapshot(c)
                 \/ EvidenceReference(c)

Guard == \E r \in DOMAIN requests : GuardAddress(r) \/ GuardDecide(r)

\* What the adapter itself does next.
AdapterStep ==
    \/ Inspection \/ Preflight \/ Guard
    \/ \E c \in Callers : CommitStep(c)
    \/ CleanupPreflight \/ CleanupPrepared

Next == AdapterStep \/ PageStep \/ Expire

Spec == Init /\ [][Next]_vars

----------------------------------------------------------------------------
WorkdayTypeOK ==
    /\ PageTypeOK
    /\ window \in BOOLEAN
    /\ plan.made \in BOOLEAN /\ Len(plan.steps) <= MaxSteps /\ Len(walk.steps) <= MaxSteps
    /\ current \subseteq Callers /\ \A r \in DOMAIN requests : seenGate[r] \subseteq Callers
    /\ \A c \in Callers : gates[c].completed = (gates[c].rejected # gates[c].sent)
    /\ \A c \in Callers : commit[c].outcome \in
          {"none", "replay", "withheld", "unknown", "already_applied", "confirmed"}

\* Whatever leaves is what was reviewed: the fields of the last step and the
\* target of the review page, planned answers, routed CV, of a complete plan
\* whose every step was found again on the second walk.
SendsReviewed ==
    \A i \in DOMAIN sent :
        /\ sent[i] = PlannedPayload /\ ~plan.blocked
        /\ walk.steps = plan.steps

\* The outcome the worker gets (see OneShotSend).
Report ==
    LET done == {c \in Callers : commit[c].outcome \notin {"none", "replay"}}
        Some(o) == \E c \in done : commit[c].outcome = o
    IN  CASE pc = "pre_failed" -> IF reason = "ALREADY_APPLIED" THEN "unclear" ELSE "not_sent"
          [] pc # "pre_failed" /\ done = {} -> "none"
          [] pc # "pre_failed" /\ done # {} /\ Some("confirmed") -> "confirmed"
          [] pc # "pre_failed" /\ ~Some("confirmed") /\ Some("withheld") -> "not_sent"
          [] OTHER -> "unclear"

=============================================================================
