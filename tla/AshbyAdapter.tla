---------------------------- MODULE AshbyAdapter ----------------------------
(***************************************************************************)
(* AshbyBrowserV1 over a fresh browser context.  Answers make the page     *)
(* render further fields, so inspection goes over the form in passes.      *)
(* Commit compares the document with the prepared one twice, arms an       *)
(* outbound gate and runs a script that hashes the form data, hands the    *)
(* hash to the gate and submits.                                           *)
(***************************************************************************)
EXTENDS CandidatePage

CONSTANTS
    Callers,     \* coroutines that may call commit with the same action
    Controls,    \* the controls of each version of the form
    MaxPasses    \* _MAX_REACT_PASSES

VARIABLES
    window,    \* plan, permit and prepared action are unexpired
    plan,      \* the inspection's growing plan
    session,   \* PlaywrightAshbyCandidateSession
    gate,      \* _OutboundGate
    pc,        \* where inspect and preflight stand
    reason,    \* the reason code preflight returned
    prepared,  \* _prepared[nonce]
    commit     \* commit calls

vars == <<page, changes, posts, requests, sent, window, plan, session, gate, pc, reason,
          prepared, commit>>

----------------------------------------------------------------------------
\* Markers in the order assess_ashby_v1_snapshot looks for them.
Interstitials == <<"challenge", "mfa", "login", "closed", "already_applied", "confirmation">>

assess(marks) ==
    LET hits == {i \in DOMAIN Interstitials : Interstitials[i] \in marks}
    IN  CASE hits # {} -> Interstitials[CHOOSE i \in hits : \A j \in hits : i <= j]
          [] hits = {} /\ "form" \in marks -> "form"
          [] hits = {} /\ "form" \notin marks /\ "apply" \in marks -> "job"
          [] OTHER -> "selector_drift"

observe_fields(p) == p.fields
final_request_contract(p) == p.action
form_fingerprint(p) == <<observe_fields(p), final_request_contract(p)>>

controls(f) == IF f = "none" THEN {} ELSE Controls[f]
IsForm == page.bound /\ assess(page.marks) = "form"
Shows(form) == IsForm /\ form_fingerprint(page) = form

\* The serialized document: it shows the form but not what its controls hold.
Html(p) == <<p.marks, p.fields, p.action>>

NoForm == form_fingerprint(BlankPage)
NoPlan == [made |-> FALSE, known |-> "none", form |-> NoForm, passes |-> 0, attached |-> FALSE,
           blocked |-> FALSE]
NoSession == [open |-> FALSE, uploaded |-> FALSE, commit_claimed |-> FALSE, touched |-> FALSE]
NoGate == [armed |-> FALSE, expected |-> NoPayload, event |-> FALSE, may_have_left |-> FALSE,
           refused |-> FALSE, closed |-> FALSE]
NoPrepared == [made |-> FALSE, claimed |-> FALSE, html |-> Html(BlankPage)]
NoCommit == [pc |-> "idle", captured |-> NoPayload, seen |-> "none", outcome |-> "none"]

navigate == Served /\ session' = [NoSession EXCEPT !.open = TRUE]
close == session' = NoSession

\* A new upload receipt names the routed CV.
ensure_resume_attachment ==
    /\ page' = [page EXCEPT !.file = "routed"]
    /\ session' = [session EXCEPT !.uploaded = TRUE]

verify_resume_attachment == session.uploaded /\ page.file = "routed"

\* fill_once and settle_react: an answer may render further controls.
fill_once ==
    \E f \in {g \in FieldSets : controls(page.fields) \subseteq controls(g)} :
        page' = [page EXCEPT !.answers = "planned", !.fields = f]

----------------------------------------------------------------------------
InspectBegin ==
    /\ pc = "new"
    /\ navigate
    /\ pc' = "inspect_load"
    /\ UNCHANGED <<changes, posts, requests, sent, window, plan, gate, reason, prepared, commit>>

Inspecting == pc \in {"inspect_load", "inspect_open", "inspect_pass", "inspect_attach",
                      "inspect_answer", "inspect_fill"}

Fault_InspectAbandon ==
    /\ Inspecting
    /\ pc' = "abandoned"
    /\ UNCHANGED <<pageVars, window, plan, session, gate, reason, prepared, commit>>

\* Any refusal or exception, a form that never settles among them; the
\* finally clause closes the session.
InspectAbandon ==
    /\ Inspecting
    /\ close
    /\ pc' = "abandoned"
    /\ UNCHANGED <<pageVars, window, plan, gate, reason, prepared, commit>>

InspectOpen ==
    /\ pc = "inspect_load"
    /\ page.bound /\ assess(page.marks) = "job"
    /\ FormOpened
    /\ pc' = "inspect_open"
    /\ UNCHANGED <<changes, posts, requests, sent, window, plan, session, gate, reason,
                   prepared, commit>>

NewControls == controls(page.fields) \ controls(plan.known)

\* One pass of the loop over a form with further fields: those of earlier
\* passes must all be there unchanged.
InspectPass ==
    /\ pc \in {"inspect_load", "inspect_open", "inspect_pass"}
    /\ IsForm
    /\ plan.passes < MaxPasses
    /\ controls(plan.known) \subseteq controls(page.fields) /\ NewControls # {}
    /\ "cv" \in NewControls => ~plan.attached
    /\ plan' = [plan EXCEPT !.known = observe_fields(page), !.passes = @ + 1]
    /\ pc' = IF "cv" \in NewControls THEN "inspect_attach" ELSE "inspect_answer"
    /\ UNCHANGED <<pageVars, window, session, gate, reason, prepared, commit>>

InspectAttach ==
    /\ pc = "inspect_attach"
    /\ ensure_resume_attachment
    /\ plan' = [plan EXCEPT !.attached = TRUE]
    /\ pc' = "inspect_answer"
    /\ UNCHANGED <<changes, posts, requests, sent, window, gate, reason, prepared, commit>>

PlanMade(form, blocked) ==
    /\ plan' = [plan EXCEPT !.made = TRUE, !.form = form, !.blocked = blocked]
    /\ close
    /\ pc' = "reviewed"

\* plan_fields over the new fields; with a blocker the loop ends, and the
\* plan is bound to the fields seen so far only.
InspectAnswer ==
    /\ pc = "inspect_answer"
    /\ \/ pc' = "inspect_fill" /\ UNCHANGED <<plan, session>>
       \/ PlanMade(<<plan.known, "none">>, TRUE)
    /\ UNCHANGED <<pageVars, window, gate, reason, prepared, commit>>

InspectFill ==
    /\ pc = "inspect_fill"
    /\ fill_once
    /\ pc' = "inspect_pass"
    /\ UNCHANGED <<changes, posts, requests, sent, window, plan, session, gate, reason,
                   prepared, commit>>

Fault_InspectSettled ==
    /\ pc = "inspect_pass"
    /\ IsForm
    /\ plan.passes < MaxPasses
    /\ PlanMade(form_fingerprint(page), ~plan.attached)
    /\ UNCHANGED <<pageVars, window, gate, reason, prepared, commit>>

\* The pass that finds nothing new takes the request contract.
InspectSettled ==
    /\ pc = "inspect_pass"
    /\ IsForm
    /\ plan.passes < MaxPasses
    /\ page.fields = plan.known
    /\ PlanMade(form_fingerprint(page), ~plan.attached)
    /\ UNCHANGED <<pageVars, window, gate, reason, prepared, commit>>

----------------------------------------------------------------------------
Preflighting == pc \in {"pre_load", "pre_open", "pre_attach", "pre_fill", "pre_filled",
                        "pre_verify"}

PreflightReturns(code) == pc' = "pre_failed" /\ reason' = code
PreflightFrame == UNCHANGED <<window, plan, gate, commit>>

PreflightBegin ==
    /\ pc = "reviewed"
    /\ IF ~plan.blocked /\ window
         THEN navigate /\ pc' = "pre_load" /\ UNCHANGED reason
         ELSE PreflightReturns("ADAPTER_NOT_QUALIFIED") /\ UNCHANGED <<page, session>>
    /\ UNCHANGED <<changes, posts, requests, sent, prepared>> /\ PreflightFrame

\* Any early return or exception, _typed_pre_request_block included: the
\* session stays pending until cleanup.
PreflightRefuse ==
    /\ Preflighting
    /\ \E code \in {"FORM_CHANGED", "ATTACHMENT_UNVERIFIED", "INTERNAL_ERROR"} :
          PreflightReturns(code)
    /\ UNCHANGED <<pageVars, session, prepared>> /\ PreflightFrame

PreflightAlready ==
    /\ pc \in {"pre_load", "pre_open"}
    /\ assess(page.marks) = "already_applied"
    /\ PreflightReturns("ALREADY_APPLIED")
    /\ UNCHANGED <<pageVars, session, prepared>> /\ PreflightFrame

PreflightStep(at, to) == pc = at /\ pc' = to /\ UNCHANGED reason /\ PreflightFrame

PreflightOpen ==
    /\ PreflightStep("pre_load", "pre_open")
    /\ page.bound /\ assess(page.marks) = "job"
    /\ FormOpened
    /\ UNCHANGED <<changes, posts, requests, sent, session, prepared>>

\* The first snapshot must already show all the plan's fields.
PreflightLoad ==
    /\ \E at \in {"pre_load", "pre_open"} : PreflightStep(at, "pre_attach")
    /\ IsForm /\ observe_fields(page) = plan.form[1]
    /\ UNCHANGED <<pageVars, session, prepared>>

PreflightAttach ==
    /\ PreflightStep("pre_attach", "pre_fill")
    /\ ensure_resume_attachment
    /\ UNCHANGED <<changes, posts, requests, sent, prepared>>

PreflightFill ==
    /\ PreflightStep("pre_fill", "pre_filled")
    /\ fill_once
    /\ UNCHANGED <<changes, posts, requests, sent, session, prepared>>

\* The document of this snapshot is what commit will compare with.
PreflightFilled ==
    /\ PreflightStep("pre_filled", "pre_verify")
    /\ page.bound /\ form_fingerprint(page) = plan.form
    /\ prepared' = [prepared EXCEPT !.html = Html(page)]
    /\ UNCHANGED <<pageVars, session>>

PreflightVerify ==
    /\ PreflightStep("pre_verify", "ready")
    /\ verify_resume_attachment
    /\ prepared' = [prepared EXCEPT !.made = TRUE]
    /\ UNCHANGED <<pageVars, session>>

----------------------------------------------------------------------------
Returns(c, outcome) == commit' = [commit EXCEPT ![c].pc = "returned", ![c].outcome = outcome]
Goes(c, to) == commit' = [commit EXCEPT ![c].pc = to]
CommitFrame == UNCHANGED <<window, plan, pc, reason>>

\* The prepared action is claimed before the first await.
CommitClaim(c) ==
    /\ pc \in {"ready", "released"}
    /\ commit[c].pc = "idle"
    /\ IF ~prepared.made \/ prepared.claimed \/ ~window
         THEN Returns(c, "replay") /\ UNCHANGED prepared
         ELSE prepared' = [prepared EXCEPT !.claimed = TRUE] /\ Goes(c, "verify")
    /\ UNCHANGED <<pageVars, session, gate>> /\ CommitFrame

CommitVerify(c) ==
    /\ commit[c].pc = "verify"
    /\ \/ verify_resume_attachment /\ Goes(c, "compare")
       \/ Returns(c, "withheld")
    /\ UNCHANGED <<pageVars, session, gate, prepared>> /\ CommitFrame

\* The document is the prepared one, byte for byte, and the permit still
\* binds: the action is released to the session.
CommitCompare(c) ==
    /\ commit[c].pc = "compare"
    /\ \/ page.bound /\ Html(page) = prepared.html /\ window /\ Goes(c, "arm_compare")
       \/ Returns(c, "withheld")
    /\ UNCHANGED <<pageVars, session, gate, prepared>> /\ CommitFrame

\* commit_final_action claims the session and compares again ...
ArmCompare(c) ==
    /\ commit[c].pc = "arm_compare"
    /\ IF session.commit_claimed
         THEN Returns(c, "unknown") /\ UNCHANGED session
         ELSE /\ session' = [session EXCEPT !.commit_claimed = TRUE]
              /\ \/ page.bound /\ Html(page) = prepared.html /\ Goes(c, "arm_verify")
                 \/ Returns(c, "withheld") \/ Returns(c, "unknown")
    /\ UNCHANGED <<pageVars, gate, prepared>> /\ CommitFrame

\* ... verifies the upload again and arms the gate.
ArmGate(c) ==
    /\ commit[c].pc = "arm_verify"
    /\ \/ /\ verify_resume_attachment
          /\ gate' = [NoGate EXCEPT !.armed = TRUE]
          /\ Goes(c, "script")
       \/ Returns(c, "withheld") /\ UNCHANGED gate
       \/ Returns(c, "unknown") /\ UNCHANGED gate
    /\ UNCHANGED <<pageVars, session, prepared>> /\ CommitFrame

\* The submit button and its form are visible, enabled and connected.
actionable == IsForm

\* ashby_v1_answer_bindings, compared with the live form data.
answers_bound == Payload(page) = Reviewed(plan.form)

\* The release script.  An observer watches the document while the form data
\* are hashed and compared with the reviewed answers.
ScriptHash(c) ==
    /\ commit[c].pc = "script"
    /\ session' = [session EXCEPT !.touched = FALSE]
    /\ IF actionable /\ answers_bound
         THEN commit' = [commit EXCEPT ![c].pc = "capture", ![c].captured = Payload(page)]
         ELSE Goes(c, "status")
    /\ UNCHANGED <<pageVars, gate, prepared>> /\ CommitFrame

\* The exposed binding: the gate learns the payload it may let out.
ScriptCapture(c) ==
    /\ commit[c].pc = "capture"
    /\ IF gate.closed \/ gate.expected # NoPayload
         THEN Goes(c, "status") /\ UNCHANGED gate
         ELSE gate' = [gate EXCEPT !.expected = commit[c].captured] /\ Goes(c, "submit")
    /\ UNCHANGED <<pageVars, session, prepared>> /\ CommitFrame

ScriptSubmit(c) ==
    /\ commit[c].pc = "submit"
    /\ IF ~session.touched /\ actionable
         THEN Issue(TRUE) /\ Goes(c, "wait")
         ELSE Goes(c, "status") /\ UNCHANGED requests
    /\ UNCHANGED <<page, changes, posts, sent, session, gate, prepared>> /\ CommitFrame

\* The evaluation context is lost, before the submit or after it.
ScriptLost(c) ==
    /\ commit[c].pc \in {"script", "capture", "submit", "wait"}
    /\ gate' = [gate EXCEPT !.closed = TRUE]
    /\ Returns(c, "unknown")
    /\ UNCHANGED <<pageVars, session, prepared>> /\ CommitFrame

\* The script says it did not submit; a signal of the gate contradicts it.
CommitStatus(c) ==
    /\ commit[c].pc = "status"
    /\ gate' = [gate EXCEPT !.closed = TRUE]
    /\ Returns(c, IF gate.event THEN "unknown" ELSE "withheld")
    /\ UNCHANGED <<pageVars, session, prepared>> /\ CommitFrame

Fault_CommitWait(c) ==
    /\ commit[c].pc = "wait"
    /\ Goes(c, "evidence")
    /\ UNCHANGED <<pageVars, session, gate, prepared>> /\ CommitFrame

\* Two seconds for the gate; without its receipt the outcome is unknown.
CommitWait(c) ==
    /\ commit[c].pc = "wait"
    /\ gate' = [gate EXCEPT !.closed = TRUE]
    /\ IF gate.event /\ gate.may_have_left /\ ~gate.refused
         THEN Goes(c, "evidence")
         ELSE Returns(c, "unknown")
    /\ UNCHANGED <<pageVars, session, prepared>> /\ CommitFrame

Fault_EvidenceSnapshot(c) ==
    /\ commit[c].pc = "evidence"
    /\ \/ /\ page.bound
          /\ commit' = [commit EXCEPT ![c].pc = "reference", ![c].seen = assess(page.marks)]
       \/ Returns(c, "failed")
    /\ UNCHANGED <<pageVars, session, gate, prepared>> /\ CommitFrame

EvidenceSnapshot(c) ==
    /\ commit[c].pc = "evidence"
    /\ \/ /\ page.bound
          /\ commit' = [commit EXCEPT ![c].pc = "reference", ![c].seen = assess(page.marks)]
       \/ Returns(c, "unknown")
    /\ UNCHANGED <<pageVars, session, gate, prepared>> /\ CommitFrame

EvidenceReference(c) ==
    /\ commit[c].pc = "reference"
    /\ \/ commit[c].seen = "already_applied" /\ Returns(c, "already_applied")
       \/ /\ commit[c].seen = "confirmation"
          /\ page.bound /\ "confirmation" \in page.marks
          /\ Returns(c, "confirmed")
       \/ Returns(c, "unknown")
    /\ UNCHANGED <<pageVars, session, gate, prepared>> /\ CommitFrame

----------------------------------------------------------------------------
(* _guard_request and _guard_outbound.  The gate is consulted on entry; the *)
(* address, the headers and the body are read across awaits; then the       *)
(* payload alone decides.                                                   *)

Refuse(r, closing) ==
    /\ Abort(r)
    /\ gate' = [gate EXCEPT !.refused = TRUE, !.event = TRUE, !.closed = @ \/ closing]

GuardEnter(r) ==
    /\ requests[r].stage = "new"
    /\ CASE ~session.open \/ ~gate.armed -> Abort(r) /\ UNCHANGED gate
         [] session.open /\ gate.armed /\ (gate.closed \/ gate.may_have_left) -> Refuse(r, FALSE)
         [] session.open /\ gate.armed /\ ~gate.closed /\ ~gate.may_have_left ->
              IF requests[r].native /\ gate.expected # NoPayload
                THEN Moved(r, "checked") /\ UNCHANGED <<sent, gate>>
                ELSE Refuse(r, TRUE)
    /\ UNCHANGED <<page, changes, posts, window, plan, session, pc, reason, prepared, commit>>

\* The commitment of the multipart body about to be sent.
payload_commitment(r) == requests[r].payload

Fault_GuardPayload(r) ==
    /\ requests[r].stage = "checked"
    /\ Release(r)
    /\ gate' = [gate EXCEPT !.may_have_left = TRUE, !.event = TRUE]
    /\ UNCHANGED <<page, changes, posts, window, plan, session, pc, reason, prepared, commit>>

GuardPayload(r) ==
    /\ requests[r].stage = "checked"
    /\ IF session.open /\ payload_commitment(r) = gate.expected
         THEN /\ Release(r)
              /\ gate' = [gate EXCEPT !.may_have_left = TRUE, !.event = TRUE]
         ELSE Refuse(r, TRUE)
    /\ UNCHANGED <<page, changes, posts, window, plan, session, pc, reason, prepared, commit>>

----------------------------------------------------------------------------
CleanupPreflight ==
    /\ pc = "pre_failed" /\ session.open
    /\ close
    /\ UNCHANGED <<pageVars, window, plan, gate, pc, reason, prepared, commit>>

CleanupPrepared ==
    /\ pc = "ready"
    /\ \E c \in Callers : commit[c].pc = "returned"
    /\ \A c \in Callers : commit[c].pc \in {"idle", "returned"}
    /\ prepared' = [prepared EXCEPT !.made = FALSE]
    /\ close
    /\ pc' = "released"
    /\ UNCHANGED <<pageVars, window, plan, gate, reason, commit>>

\* The script's observer sees changes of the document, not of values.
PageStep ==
    /\ session.open
    /\ \/ /\ PageChange
          /\ session' = [session EXCEPT !.touched = @ \/ Html(page') # Html(page)]
       \/ PagePosts /\ UNCHANGED session
    /\ UNCHANGED <<window, plan, gate, pc, reason, prepared, commit>>

Expire ==
    /\ window
    /\ window' = FALSE
    /\ UNCHANGED <<pageVars, plan, session, gate, pc, reason, prepared, commit>>

Init ==
    /\ PageInit(Callers)
    /\ window = TRUE /\ plan = NoPlan /\ session = NoSession /\ gate = NoGate
    /\ pc = "new" /\ reason = "none" /\ prepared = NoPrepared
    /\ commit = [c \in Callers |-> NoCommit]

Inspection == InspectBegin \/ InspectAbandon \/ InspectOpen \/ InspectPass \/ InspectAttach
              \/ InspectAnswer \/ InspectFill \/ InspectSettled

Preflight == PreflightBegin \/ PreflightRefuse \/ PreflightAlready \/ PreflightOpen
             \/ PreflightLoad \/ PreflightAttach \/ PreflightFill \/ PreflightFilled
             \/ PreflightVerify

CommitStep(c) == CommitClaim(c) \/ CommitVerify(c) \/ CommitCompare(c) \/ ArmCompare(c)
                 \/ ArmGate(c) \/ ScriptHash(c) \/ ScriptCapture(c) \/ ScriptSubmit(c)
                 \/ ScriptLost(c) \/ CommitStatus(c) \/ CommitWait(c)
                 \/ EvidenceSnapshot(c) \/ EvidenceReference(c)

Guard == \E r \in DOMAIN requests : GuardEnter(r) \/ GuardPayload(r)

\* What the adapter itself does next.
AdapterStep ==
    \/ Inspection \/ Preflight \/ Guard
    \/ \E c \in Callers : CommitStep(c)
    \/ CleanupPreflight \/ CleanupPrepared

Next == AdapterStep \/ PageStep \/ Expire

Spec == Init /\ [][Next]_vars

----------------------------------------------------------------------------
AshbyTypeOK ==
    /\ PageTypeOK
    /\ window \in BOOLEAN
    /\ plan.known \in FieldSets \cup {"none"} /\ plan.passes \in 0 .. MaxPasses
    /\ plan.form \in (FieldSets \cup {"none"}) \X (Actions \cup {"none"})
    /\ {gate.armed, gate.event, gate.may_have_left, gate.refused, gate.closed} \subseteq BOOLEAN
    /\ prepared.made \in BOOLEAN /\ prepared.claimed \in BOOLEAN
    /\ \A c \in Callers : commit[c].outcome \in
          {"none", "replay", "withheld", "unknown", "already_applied", "confirmed"}
    /\ gate.may_have_left => gate.event

\* Whatever leaves is the reviewed form, complete to its last conditional
\* field, with the planned answers and the routed CV, of a plan without
\* blockers, even when the page itself posts through the armed gate.
SendsReviewed ==
    \A i \in DOMAIN sent : sent[i] = Reviewed(plan.form) /\ ~plan.blocked

\* A plan ready for a permit was settled: the pass before it answered every
\* field the form had.
ReadyPlanSettled == plan.made /\ ~plan.blocked => plan.form[1] = plan.known /\ plan.attached

\* The outcome the worker gets (see OneShotSend).
Report ==
    LET done == {c \in Callers : commit[c].outcome \notin {"none", "replay"}}
        Some(o) == \E c \in done : commit[c].outcome = o
    IN  CASE pc = "pre_failed" -> IF reason = "ALREADY_APPLIED" THEN "unclear" ELSE "not_sent"
          [] pc # "pre_failed" /\ done = {} -> "none"
          [] pc # "pre_failed" /\ done # {} /\ Some("confirmed") -> "confirmed"
          [] pc # "pre_failed" /\ ~Some("confirmed") /\ Some("withheld") -> "not_sent"
          [] OTHER -> "unclear"

=============================================================================
