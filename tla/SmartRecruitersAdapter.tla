----------------------- MODULE SmartRecruitersAdapter -----------------------
(***************************************************************************)
(* SmartRecruitersBrowserV1 over one persistent Playwright profile.  The   *)
(* final proof is taken and used inside the page: a MutationObserver       *)
(* watches the document between preflight and commit, and the commit       *)
(* script checks everything and submits in one turn.  A one-shot gate in   *)
(* the route handler lets at most the proved request out.                  *)
(***************************************************************************)
EXTENDS CandidatePage

CONSTANTS Callers     \* coroutines that may call commit with the same action

VARIABLES
    window,    \* plan, permit and prepared action are unexpired
    plan,      \* FormPlanV1 of the inspection
    session,   \* PlaywrightSmartRecruitersCandidateSession
    gate,      \* _OneShotCandidatePostGate
    seenGate,  \* requests whose handler read the gate before it was armed
    pc,        \* where inspect and preflight stand
    reason,    \* the reason code preflight returned
    prepared,  \* _prepared[nonce]
    commit     \* commit calls

vars == <<page, changes, posts, requests, sent, window, plan, session, gate, seenGate, pc,
          reason, prepared, commit>>

----------------------------------------------------------------------------
\* Markers in the order assess_smartrecruiters_v1_snapshot looks for them.
\* The first five need no identity.
Interstitials == <<"challenge", "mfa", "login", "closed", "already_applied", "confirmation">>

assess(marks) ==
    LET hits == {i \in DOMAIN Interstitials : Interstitials[i] \in marks}
    IN  CASE hits # {} -> Interstitials[CHOOSE i \in hits : \A j \in hits : i <= j]
          [] hits = {} /\ "form" \in marks -> "form"
          [] hits = {} /\ "form" \notin marks /\ "apply" \in marks -> "job"
          [] OTHER -> "selector_drift"

terminal_reason(state) == state \in {"challenge", "mfa", "login", "closed", "already_applied"}

observe_fields(p) == p.fields
\* The consent and disclosure texts are versioned with the fields.
observe_disclosures(p) == p.fields
final_action_binding(p) == p.action
form_fingerprint(p) == <<observe_fields(p), final_action_binding(p)>>

Shows(form) ==
    /\ page.bound /\ assess(page.marks) = "form"
    /\ form_fingerprint(page) = form /\ observe_disclosures(page) = form[1]

NoForm == form_fingerprint(BlankPage)
NoPlan == [made |-> FALSE, form |-> NoForm, blocked |-> FALSE]
NoSession == [open |-> FALSE, uploaded |-> FALSE, proof |-> NoPayload, clicked |-> FALSE,
              touched |-> FALSE]
NoGate == [armed |-> FALSE, completed |-> FALSE, rejected |-> FALSE, possibly_sent |-> FALSE]
NoCommit == [pc |-> "idle", seen |-> "none", outcome |-> "none"]

navigate == Served /\ session' = [NoSession EXCEPT !.open = TRUE]
close == session' = NoSession

ensure_resume_attachment ==
    /\ page' = [page EXCEPT !.file = "routed"]
    /\ session' = [session EXCEPT !.uploaded = TRUE]

verify_resume_attachment == session.uploaded /\ page.file = "routed"

Fault_reject(g) == [g EXCEPT !.rejected = TRUE, !.completed = TRUE]

reject(g) == IF g.completed THEN g ELSE [g EXCEPT !.rejected = TRUE, !.completed = TRUE]

----------------------------------------------------------------------------
InspectBegin ==
    /\ pc = "new"
    /\ navigate
    /\ pc' = "inspect_load"
    /\ UNCHANGED <<changes, posts, requests, sent, window, plan, gate, seenGate, reason,
                   prepared, commit>>

Inspecting == pc \in {"inspect_load", "inspect_open", "inspect_attach", "inspect_plan"}

Fault_InspectAbandon ==
    /\ Inspecting
    /\ pc' = "abandoned"
    /\ UNCHANGED <<pageVars, window, plan, session, gate, seenGate, reason, prepared, commit>>

\* A terminal page, an unresolved identity or an exception; the finally
\* clause closes the session.
InspectAbandon ==
    /\ Inspecting
    /\ close
    /\ pc' = "abandoned"
    /\ UNCHANGED <<pageVars, window, plan, gate, seenGate, reason, prepared, commit>>

InspectLoad ==
    /\ pc \in {"inspect_load", "inspect_open"}
    /\ page.bound /\ ~terminal_reason(assess(page.marks))
    /\ \/ /\ pc = "inspect_load" /\ assess(page.marks) = "job"
          /\ FormOpened
          /\ pc' = "inspect_open"
          /\ UNCHANGED plan
       \/ /\ assess(page.marks) = "form"
          /\ plan' = [plan EXCEPT !.form = form_fingerprint(page)]
          /\ pc' = "inspect_attach"
          /\ UNCHANGED page
    /\ UNCHANGED <<changes, posts, requests, sent, window, session, gate, seenGate, reason,
                   prepared, commit>>

InspectAttach ==
    /\ pc = "inspect_attach"
    /\ ensure_resume_attachment
    /\ pc' = "inspect_plan"
    /\ UNCHANGED <<changes, posts, requests, sent, window, plan, gate, seenGate, reason,
                   prepared, commit>>

\* Blockers: those of the answer policy, an unverified attachment, and any
\* decision, of a required field or not, that is not resolved.
InspectPlan ==
    /\ pc = "inspect_plan"
    /\ \E blocked \in BOOLEAN : plan' = [plan EXCEPT !.made = TRUE, !.blocked = blocked]
    /\ close
    /\ pc' = "reviewed"
    /\ UNCHANGED <<pageVars, window, gate, seenGate, reason, prepared, commit>>

----------------------------------------------------------------------------
Preflighting == pc \in {"pre_load", "pre_open", "pre_attach", "pre_fill", "pre_filled",
                        "pre_verify", "pre_prove", "pre_seal"}

PreflightReturns(code) == pc' = "pre_failed" /\ reason' = code
PreflightFrame == UNCHANGED <<window, plan, gate, seenGate, commit>>

Fault_PreflightBegin ==
    /\ pc = "reviewed"
    /\ IF window
         THEN navigate /\ pc' = "pre_load" /\ UNCHANGED reason
         ELSE PreflightReturns("ADAPTER_NOT_QUALIFIED") /\ UNCHANGED <<page, session>>
    /\ UNCHANGED <<changes, posts, requests, sent, prepared>> /\ PreflightFrame

PreflightBegin ==
    /\ pc = "reviewed"
    /\ IF ~plan.blocked /\ window
         THEN navigate /\ pc' = "pre_load" /\ UNCHANGED reason
         ELSE PreflightReturns("ADAPTER_NOT_QUALIFIED") /\ UNCHANGED <<page, session>>
    /\ UNCHANGED <<changes, posts, requests, sent, prepared>> /\ PreflightFrame

PreflightRefuse ==
    /\ Preflighting
    /\ \E code \in {"FORM_CHANGED", "ATTACHMENT_UNVERIFIED", "INTERNAL_ERROR"} :
          PreflightReturns(code)
    /\ UNCHANGED <<pageVars, session, prepared>> /\ PreflightFrame

\* Looked for on the first page, after the fill and once more at the end.
PreflightAlready ==
    /\ \/ pc \in {"pre_load", "pre_open"}
          /\ assess(page.marks) \in {"already_applied", "confirmation"}
       \/ pc \in {"pre_filled", "pre_seal"} /\ assess(page.marks) = "already_applied"
    /\ PreflightReturns("ALREADY_APPLIED")
    /\ UNCHANGED <<pageVars, session, prepared>> /\ PreflightFrame

PreflightStep(at, to) == pc = at /\ pc' = to /\ UNCHANGED reason /\ PreflightFrame

PreflightOpen ==
    /\ PreflightStep("pre_load", "pre_open")
    /\ page.bound /\ assess(page.marks) = "job"
    /\ FormOpened
    /\ UNCHANGED <<changes, posts, requests, sent, session, prepared>>

PreflightLoad ==
    /\ \E at \in {"pre_load", "pre_open"} : PreflightStep(at, "pre_attach")
    /\ Shows(plan.form)
    /\ UNCHANGED <<pageVars, session, prepared>>

PreflightAttach ==
    /\ PreflightStep("pre_attach", "pre_fill")
    /\ ensure_resume_attachment
    /\ UNCHANGED <<changes, posts, requests, sent, prepared>>

PreflightFill ==
    /\ PreflightStep("pre_fill", "pre_filled")
    /\ page' = [page EXCEPT !.answers = "planned"]
    /\ UNCHANGED <<changes, posts, requests, sent, session, prepared>>

PreflightFilled ==
    /\ PreflightStep("pre_filled", "pre_verify")
    /\ Shows(plan.form)
    /\ UNCHANGED <<pageVars, session, prepared>>

PreflightVerify ==
    /\ PreflightStep("pre_verify", "pre_prove")
    /\ verify_resume_attachment
    /\ UNCHANGED <<pageVars, session, prepared>>

\* The capture script: form, target, disclosures, answers and the upload
\* marker are those of the plan.
exactForm(form) == Shows(form)
answersMatch(form) == Payload(page) = Reviewed(form)
FormProves(form) == exactForm(form) /\ answersMatch(form)

\* Its last act is to observe the document: whatever changes from here on is
\* counted.
prepare_final_action ==
    /\ PreflightStep("pre_prove", "pre_seal")
    /\ FormProves(plan.form)
    /\ session' = [session EXCEPT !.proof = Payload(page), !.touched = FALSE]
    /\ UNCHANGED <<pageVars, prepared>>

PreflightSeal ==
    /\ PreflightStep("pre_seal", "ready")
    /\ page.bound /\ assess(page.marks) = "form"
    /\ prepared' = [made |-> TRUE, clicked |-> FALSE]
    /\ UNCHANGED <<pageVars, session>>

----------------------------------------------------------------------------
Returns(c, outcome) == commit' = [commit EXCEPT ![c].pc = "returned", ![c].outcome = outcome]
Goes(c, to) == commit' = [commit EXCEPT ![c].pc = to]

Fault_CommitClick(c) ==
    /\ pc \in {"ready", "released"}
    /\ commit[c].pc = "idle"
    /\ IF ~prepared.made \/ ~window
         THEN Returns(c, "replay") /\ UNCHANGED <<prepared, session, gate>>
         ELSE /\ prepared' = [prepared EXCEPT !.clicked = TRUE]
              /\ session' = [session EXCEPT !.clicked = TRUE]
              /\ gate' = [NoGate EXCEPT !.armed = TRUE]
              /\ Goes(c, "click")
    /\ UNCHANGED <<pageVars, window, plan, seenGate, pc, reason>>

\* The claim of the action, and click_final_action up to the armed gate, run
\* without an await between them.
CommitClick(c) ==
    /\ pc \in {"ready", "released"}
    /\ commit[c].pc = "idle"
    /\ IF ~prepared.made \/ prepared.clicked \/ ~window
         THEN Returns(c, "replay") /\ UNCHANGED <<prepared, session, gate>>
         ELSE /\ prepared' = [prepared EXCEPT !.clicked = TRUE]
              /\ IF session.clicked
                   THEN Returns(c, "refused") /\ UNCHANGED <<session, gate>>
                   ELSE /\ session' = [session EXCEPT !.clicked = TRUE]
                        /\ gate' = [NoGate EXCEPT !.armed = TRUE]
                        /\ Goes(c, "click")
    /\ UNCHANGED <<pageVars, window, plan, seenGate, pc, reason>>

\* The final action script, one turn of the page: nothing moved since the
\* proof and everything is still as proved, or nothing is submitted.  Its
\* result, or the browser itself, may be lost either way.
Releasable(form) == ~session.touched /\ FormProves(form) /\ Payload(page) = session.proof

ClickScript(c) ==
    /\ commit[c].pc = "click"
    /\ \/ /\ Releasable(plan.form)
          /\ Issue(TRUE)
          /\ Goes(c, "wait") \/ Returns(c, "unknown")
       \/ /\ ~Releasable(plan.form)
          /\ Goes(c, "withheld") \/ Returns(c, "unknown")
          /\ UNCHANGED requests
    /\ UNCHANGED <<page, changes, posts, sent, window, plan, session, gate, seenGate, pc,
                   reason, prepared>>

Fault_ClickWithheld(c) ==
    /\ commit[c].pc = "withheld"
    /\ gate' = reject(gate)
    /\ Returns(c, "refused")
    /\ UNCHANGED <<pageVars, window, plan, session, seenGate, pc, reason, prepared>>

\* Withheld by the script: unless the gate has judged a request meanwhile,
\* it is shut and the call fails before the commit.
ClickWithheld(c) ==
    /\ commit[c].pc = "withheld"
    /\ IF gate.completed
         THEN Returns(c, "unknown") /\ UNCHANGED gate
         ELSE gate' = reject(gate) /\ Returns(c, "refused")
    /\ UNCHANGED <<pageVars, window, plan, session, seenGate, pc, reason, prepared>>

\* The gate decides, or the wait times out; then the confirmation has to
\* become visible.
ClickWait(c) ==
    /\ commit[c].pc = "wait"
    /\ \/ /\ gate.completed /\ ~gate.rejected /\ gate.possibly_sent
          /\ "confirmation" \in page.marks
          /\ Goes(c, "evidence")
       \/ Returns(c, "unknown")
    /\ UNCHANGED <<pageVars, window, plan, session, gate, seenGate, pc, reason, prepared>>

\* snapshot asserts the page's address first, with the exception that
\* click_final_action uses for a withheld click.
EvidenceSnapshot(c) ==
    /\ commit[c].pc = "evidence"
    /\ \/ /\ page.bound
          /\ commit' = [commit EXCEPT ![c].pc = "reference", ![c].seen = assess(page.marks)]
       \/ ~page.bound /\ Returns(c, "lost_page")
       \/ Returns(c, "unknown")
    /\ UNCHANGED <<pageVars, window, plan, session, gate, seenGate, pc, reason, prepared>>

EvidenceReference(c) ==
    /\ commit[c].pc = "reference"
    /\ \/ /\ commit[c].seen = "confirmation"
          /\ "confirmation" \in page.marks
          /\ Returns(c, "confirmed")
       \/ Returns(c, "unknown")
    /\ UNCHANGED <<pageVars, window, plan, session, gate, seenGate, pc, reason, prepared>>

----------------------------------------------------------------------------
(* _guard_request reads the gate, checks the address in a thread and only  *)
(* then has the gate judge the request, without another await.             *)

\* Only a request for the reviewed posting's own address is sure to pass.
may_refuse_url(r) == ~session.open \/ ~requests[r].native

GuardAddress(r) ==
    /\ requests[r].stage = "new"
    /\ \/ /\ session.open
          /\ Moved(r, "checked")
          /\ seenGate' = [seenGate EXCEPT ![r] = gate.armed]
          /\ UNCHANGED <<sent, gate>>
       \/ /\ may_refuse_url(r)
          /\ Abort(r)
          /\ gate' = IF gate.armed THEN reject(gate) ELSE gate
          /\ UNCHANGED seenGate
    /\ UNCHANGED <<page, changes, posts, window, plan, session, pc, reason, prepared, commit>>

Matches(r) == requests[r].native /\ requests[r].payload = session.proof

evaluate(r) ==
    IF gate.completed \/ ~Matches(r)
      THEN Abort(r) /\ gate' = reject(gate)
      ELSE /\ Release(r)
           /\ gate' = [gate EXCEPT !.possibly_sent = TRUE, !.completed = TRUE]

Fault_GuardDecide(r) ==
    /\ requests[r].stage = "checked"
    /\ IF seenGate[r] /\ session.open THEN evaluate(r) ELSE Release(r) /\ UNCHANGED gate
    /\ UNCHANGED <<page, changes, posts, window, plan, session, seenGate, pc, reason,
                   prepared, commit>>

GuardDecide(r) ==
    /\ requests[r].stage = "checked"
    /\ IF seenGate[r] /\ session.open THEN evaluate(r) ELSE Abort(r) /\ UNCHANGED gate
    /\ UNCHANGED <<page, changes, posts, window, plan, session, seenGate, pc, reason,
                   prepared, commit>>

----------------------------------------------------------------------------
CleanupPreflight ==
    /\ pc = "pre_failed" /\ session.open
    /\ close
    /\ UNCHANGED <<pageVars, window, plan, gate, seenGate, pc, reason, prepared, commit>>

CleanupPrepared ==
    /\ pc = "ready"
    /\ \E c \in Callers : commit[c].pc = "returned"
    /\ \A c \in Callers : commit[c].pc \in {"idle", "returned"}
    /\ prepared' = [prepared EXCEPT !.made = FALSE]
    /\ close
    /\ pc' = "released"
    /\ UNCHANGED <<pageVars, window, plan, gate, seenGate, reason, commit>>

\* The observer sees every change of the document from the proof on.
PageStep ==
    /\ session.open
    /\ \/ PageChange /\ session' = [session EXCEPT !.touched = TRUE]
       \/ PagePosts /\ UNCHANGED session
    /\ UNCHANGED <<window, plan, gate, seenGate, pc, reason, prepared, commit>>

Expire ==
    /\ window
    /\ window' = FALSE
    /\ UNCHANGED <<pageVars, plan, session, gate, seenGate, pc, reason, prepared, commit>>

Init ==
    /\ PageInit(Callers)
    /\ window = TRUE /\ plan = NoPlan /\ session = NoSession /\ gate = NoGate
    /\ seenGate = [r \in RequestIds(Callers) |-> FALSE]
    /\ pc = "new" /\ reason = "none"
    /\ prepared = [made |-> FALSE, clicked |-> FALSE]
    /\ commit = [c \in Callers |-> NoCommit]

Inspection == InspectBegin \/ InspectAbandon \/ InspectLoad \/ InspectAttach \/ InspectPlan

Preflight == PreflightBegin \/ PreflightRefuse \/ PreflightAlready \/ PreflightOpen
             \/ PreflightLoad \/ PreflightAttach \/ PreflightFill \/ PreflightFilled
             \/ PreflightVerify \/ prepare_final_action \/ PreflightSeal

CommitStep(c) == CommitClick(c) \/ ClickScript(c) \/ ClickWithheld(c) \/ ClickWait(c)
                 \/ EvidenceSnapshot(c) \/ EvidenceReference(c)

Guard == \E r \in DOMAIN requests : GuardAddress(r) \/ GuardDecide(r)

\* What the adapter itself does next.
AdapterStep ==
    \/ Inspection \/ Preflight \/ Guard
    \/ \E c \in Callers : CommitStep(c)
    \/ CleanupPreflight \/ CleanupPrepared

Next == AdapterStep \/ PageStep \/ Expire

Spec == Init /\ [][Next]_vars

----------------------------------------------------------------------------
SmartRecruitersTypeOK ==
    /\ PageTypeOK
    /\ window \in BOOLEAN
    /\ plan \in [made : BOOLEAN, form : (FieldSets \X Actions) \cup {NoForm}, blocked : BOOLEAN]
    /\ gate \in [armed : BOOLEAN, completed : BOOLEAN, rejected : BOOLEAN,
                 possibly_sent : BOOLEAN]
    /\ gate.completed => gate.armed /\ (gate.rejected # gate.possibly_sent)
    /\ prepared \in [made : BOOLEAN, clicked : BOOLEAN]
    /\ \A c \in Callers : commit[c].outcome \in
          {"none", "replay", "refused", "lost_page", "unknown", "confirmed"}

\* Whatever the page does between review, proof and submit, only the reviewed
\* form with the planned answers and the routed CV leaves, only once, and
\* never for a plan with blockers.
SendsReviewedOnce ==
    /\ Len(sent) <= 1
    /\ \A i \in DOMAIN sent : sent[i] = Reviewed(plan.form) /\ ~plan.blocked

\* The gate's verdict is what happened: a gate that says possibly sent let
\* exactly one request out, any other gate none.
GateTellsSent == gate.possibly_sent <=> sent # <<>>

\* smartrecruiters_playwright.click_final_action: once the native primitive
\* was invoked it is no longer safe to classify the outcome as pre-send.  What
\* is at stake is the adapter's own classification (FailedBeforeCommitOutcome);
\* the worker records either outcome of commit as unknown.
FailedMeansUnsent ==
    \A c \in Callers : commit[c].outcome \in {"refused", "lost_page"} => sent = <<>>

\* The page lost its address between the click and the evidence, and commit
\* takes the exception for a click that never happened.
LostPage == \E c \in Callers : commit[c].outcome = "lost_page"

\* The outcome the adapter returns (see OneShotSend).
Report ==
    LET done == {c \in Callers : commit[c].outcome \notin {"none", "replay"}}
        Some(o) == \E c \in done : commit[c].outcome = o
    IN  CASE pc = "pre_failed" -> IF reason = "ALREADY_APPLIED" THEN "unclear" ELSE "not_sent"
          [] pc # "pre_failed" /\ done = {} -> "none"
          [] pc # "pre_failed" /\ done # {} /\ Some("confirmed") -> "confirmed"
          [] pc # "pre_failed" /\ ~Some("confirmed") /\ (Some("refused") \/ LostPage) -> "not_sent"
          [] OTHER -> "unclear"

=============================================================================
