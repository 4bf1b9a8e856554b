---------------------------- MODULE LeverAdapter ----------------------------
(***************************************************************************)
(* LeverBrowserV1 over one persistent Playwright profile.  Inspection      *)
(* observes the form once and plans the answers; preflight fills them and  *)
(* takes a proof of the exact submission; commit proves it again inside    *)
(* the page, submits once and reads the confirmation.                      *)
(***************************************************************************)
EXTENDS CandidatePage

CONSTANTS Callers     \* coroutines that may call commit with the same action

VARIABLES
    window,    \* plan, permit and prepared action are unexpired
    plan,      \* FormPlanV1 of the inspection
    session,   \* PlaywrightLeverCandidateSession
    pc,        \* where inspect and preflight stand
    reason,    \* the reason code preflight returned
    prepared,  \* _prepared[nonce]
    commit     \* commit calls

vars == <<page, changes, posts, requests, sent, window, plan, session, pc, reason,
          prepared, commit>>

----------------------------------------------------------------------------
\* Markers in the order assess_lever_v1_snapshot looks for them.
Interstitials == <<"challenge", "mfa", "login", "closed", "already_applied", "confirmation">>

assess(marks) ==
    LET hits == {i \in DOMAIN Interstitials : Interstitials[i] \in marks}
    IN  CASE hits # {} -> Interstitials[CHOOSE i \in hits : \A j \in hits : i <= j]
          [] hits = {} /\ "form" \in marks -> "form"
          [] hits = {} /\ "form" \notin marks /\ "apply" \in marks -> "job"
          [] OTHER -> "selector_drift"

observe_fields(p) == p.fields
final_action_binding(p) == p.action
form_fingerprint(p) == <<observe_fields(p), final_action_binding(p)>>

\* The snapshot names the posting and shows exactly this form.
Shows(form) == page.bound /\ assess(page.marks) = "form" /\ form_fingerprint(page) = form

NoForm == form_fingerprint(BlankPage)
NoPlan == [made |-> FALSE, form |-> NoForm, abstained |-> FALSE, blocked |-> FALSE]

NoSession == [open |-> FALSE, uploaded |-> FALSE, proof |-> NoPayload, clicked |-> FALSE,
              mutations |-> 0, count |-> 0, valid |-> FALSE, violation |-> FALSE]

NoCommit == [pc |-> "idle", seen |-> "none", outcome |-> "none"]

\* navigate: the lease of the profile is taken and a browser started in it.
navigate == Served /\ session' = [NoSession EXCEPT !.open = TRUE]

\* close: browser, lease and every expectation of the session go.
close == session' = NoSession

\* ensure_resume_attachment, when it succeeds: the file is set anew and read
\* back from the control.
ensure_resume_attachment ==
    /\ page' = [page EXCEPT !.file = "routed"]
    /\ session' = [session EXCEPT !.uploaded = TRUE]

verify_resume_attachment == session.uploaded /\ page.file = "routed"

----------------------------------------------------------------------------
InspectBegin ==
    /\ pc = "new"
    /\ navigate
    /\ pc' = "inspect_load"
    /\ UNCHANGED <<changes, posts, requests, sent, window, plan, reason, prepared, commit>>

Inspecting == pc \in {"inspect_load", "inspect_open", "inspect_attach", "inspect_plan"}

Fault_InspectAbandon ==
    /\ Inspecting
    /\ pc' = "abandoned"
    /\ UNCHANGED <<pageVars, window, plan, session, reason, prepared, commit>>

\* Any refusal or exception; the finally clause closes the session.
InspectAbandon ==
    /\ Inspecting
    /\ close
    /\ pc' = "abandoned"
    /\ UNCHANGED <<pageVars, window, plan, reason, prepared, commit>>

\* A job page is opened once; then it must be the form.
InspectLoad ==
    /\ pc \in {"inspect_load", "inspect_open"}
    /\ page.bound
    /\ \/ /\ pc = "inspect_load" /\ assess(page.marks) = "job"
          /\ FormOpened
          /\ pc' = "inspect_open"
          /\ UNCHANGED plan
       \/ /\ assess(page.marks) = "form"
          /\ plan' = [plan EXCEPT !.form = form_fingerprint(page)]
          /\ pc' = "inspect_attach"
          /\ UNCHANGED page
    /\ UNCHANGED <<changes, posts, requests, sent, window, session, reason, prepared, commit>>

InspectAttach ==
    /\ pc = "inspect_attach"
    /\ ensure_resume_attachment
    /\ pc' = "inspect_plan"
    /\ UNCHANGED <<changes, posts, requests, sent, window, plan, reason, prepared, commit>>

\* The answer policy blocks on unresolved required fields only; an optional
\* field may abstain.
InspectPlan ==
    /\ pc = "inspect_plan"
    /\ \E blocked, abstained \in BOOLEAN :
          plan' = [plan EXCEPT !.made = TRUE, !.blocked = blocked, !.abstained = abstained]
    /\ close
    /\ pc' = "reviewed"
    /\ UNCHANGED <<pageVars, window, reason, prepared, commit>>

----------------------------------------------------------------------------
Preflighting == pc \in {"pre_load", "pre_attach", "pre_fill", "pre_filled", "pre_verify",
                        "pre_prove", "pre_seal"}

PreflightReturns(code) == pc' = "pre_failed" /\ reason' = code

Fault_PreflightBegin ==
    /\ pc = "reviewed"
    /\ IF window
         THEN navigate /\ pc' = "pre_load" /\ UNCHANGED reason
         ELSE PreflightReturns("ADAPTER_NOT_QUALIFIED") /\ UNCHANGED <<page, session>>
    /\ UNCHANGED <<changes, posts, requests, sent, window, plan, prepared, commit>>

PreflightBegin ==
    /\ pc = "reviewed"
    /\ IF ~plan.blocked /\ window
         THEN navigate /\ pc' = "pre_load" /\ UNCHANGED reason
         ELSE PreflightReturns("ADAPTER_NOT_QUALIFIED") /\ UNCHANGED <<page, session>>
    /\ UNCHANGED <<changes, posts, requests, sent, window, plan, prepared, commit>>

\* A lost page, a changed form, an upload that does not stick: the session
\* stays pending until cleanup.
PreflightRefuse ==
    /\ Preflighting
    /\ \E code \in {"FORM_CHANGED", "ATTACHMENT_UNVERIFIED", "INTERNAL_ERROR"} :
          PreflightReturns(code)
    /\ UNCHANGED <<pageVars, window, plan, session, prepared, commit>>

PreflightAlready ==
    /\ pc = "pre_load"
    /\ assess(page.marks) = "already_applied"
    /\ PreflightReturns("ALREADY_APPLIED")
    /\ UNCHANGED <<pageVars, window, plan, session, prepared, commit>>

PreflightStep(at, to) == pc = at /\ pc' = to /\ UNCHANGED <<window, plan, reason, commit>>

PreflightLoad ==
    /\ PreflightStep("pre_load", "pre_attach")
    /\ Shows(plan.form)
    /\ UNCHANGED <<pageVars, session, prepared>>

PreflightAttach ==
    /\ PreflightStep("pre_attach", "pre_fill")
    /\ ensure_resume_attachment
    /\ UNCHANGED <<changes, posts, requests, sent, prepared>>

\* fill takes resolved and operator-confirmed-blank decisions and no others.
PreflightFill ==
    /\ PreflightStep("pre_fill", "pre_filled")
    /\ ~plan.abstained
    /\ page' = [page EXCEPT !.answers = "planned"]
    /\ UNCHANGED <<changes, posts, requests, sent, session, prepared>>

PreflightFillRefuses ==
    /\ pc = "pre_fill"
    /\ plan.abstained
    /\ PreflightReturns("REQUIRED_FIELD_UNKNOWN")
    /\ UNCHANGED <<pageVars, window, plan, session, prepared, commit>>

PreflightFilled ==
    /\ PreflightStep("pre_filled", "pre_verify")
    /\ Shows(plan.form)
    /\ UNCHANGED <<pageVars, session, prepared>>

PreflightVerify ==
    /\ PreflightStep("pre_verify", "pre_prove")
    /\ verify_resume_attachment
    /\ UNCHANGED <<pageVars, session, prepared>>

\* structureValid and actionableCapture: the form, its wrappers and its one
\* visible, enabled submitter are those of the plan.
StructureValid(form) == Shows(form)

\* The proof script: the live form is the planned one, its controls hold the
\* decided values and its file hashes to the routed CV.
FormProves(form) ==
    StructureValid(form) /\ Payload(page) = Reviewed(form)

prepare_final_action ==
    /\ PreflightStep("pre_prove", "pre_seal")
    /\ session.mutations = 0
    /\ FormProves(plan.form)
    /\ session' = [session EXCEPT !.proof = Payload(page)]
    /\ UNCHANGED <<pageVars, prepared>>

PreflightSeal ==
    /\ PreflightStep("pre_seal", "ready")
    /\ page.bound /\ assess(page.marks) = "form"
    /\ prepared' = [made |-> TRUE, clicked |-> FALSE]
    /\ UNCHANGED <<pageVars, session>>

----------------------------------------------------------------------------
Returns(c, outcome) == commit' = [commit EXCEPT ![c].pc = "returned", ![c].outcome = outcome]
Goes(c, to) == commit' = [commit EXCEPT ![c].pc = to]

Fault_CommitClick(c) ==
    /\ pc \in {"ready", "released"}
    /\ commit[c].pc = "idle"
    /\ IF ~prepared.made \/ prepared.clicked \/ ~window
         THEN Returns(c, "replay") /\ UNCHANGED <<prepared, session>>
         ELSE /\ prepared' = [prepared EXCEPT !.clicked = TRUE]
              /\ session' = [session EXCEPT !.clicked = TRUE]
              /\ Goes(c, "prove")
    /\ UNCHANGED <<pageVars, window, plan, pc, reason>>

\* The claim of the action and the first half of click_final_action run
\* without an await between them; a request of the page since preflight
\* began spoils the proof.
CommitClick(c) ==
    /\ pc \in {"ready", "released"}
    /\ commit[c].pc = "idle"
    /\ IF ~prepared.made \/ prepared.clicked \/ ~window
         THEN Returns(c, "replay") /\ UNCHANGED <<prepared, session>>
         ELSE /\ prepared' = [prepared EXCEPT !.clicked = TRUE]
              /\ IF session.clicked \/ session.mutations # 0
                   THEN Returns(c, "unknown") /\ UNCHANGED session
                   ELSE session' = [session EXCEPT !.clicked = TRUE] /\ Goes(c, "prove")
    /\ UNCHANGED <<pageVars, window, plan, pc, reason>>

\* The release script hashes the form data across several awaits ...
ClickProve(c) ==
    /\ commit[c].pc = "prove"
    /\ \/ FormProves(plan.form) /\ Payload(page) = session.proof /\ Goes(c, "submit")
       \/ Returns(c, "unknown")
    /\ UNCHANGED <<pageVars, window, plan, session, pc, reason, prepared>>

\* ... and looks at the structure once more in the turn that submits.
ClickSubmit(c) ==
    /\ commit[c].pc = "submit"
    /\ \/ /\ StructureValid(plan.form)
          /\ Issue(TRUE)
          /\ Goes(c, "wait") \/ Returns(c, "unknown")
       \/ /\ ~StructureValid(plan.form)
          /\ Returns(c, "unknown")
          /\ UNCHANGED requests
    /\ UNCHANGED <<page, changes, posts, sent, window, plan, session, pc, reason, prepared>>

Fault_ClickWait(c) ==
    /\ commit[c].pc = "wait"
    /\ IF session.violation
         THEN Returns(c, "unknown")
         ELSE Goes(c, "evidence")
    /\ UNCHANGED <<pageVars, window, plan, session, pc, reason, prepared>>

\* After 750 ms exactly one request must have been seen, and found valid.
ClickWait(c) ==
    /\ commit[c].pc = "wait"
    /\ IF session.violation \/ session.count # 1 \/ ~session.valid
         THEN Returns(c, "unknown")
         ELSE Goes(c, "evidence")
    /\ UNCHANGED <<pageVars, window, plan, session, pc, reason, prepared>>

Fault_EvidenceSnapshot(c) ==
    /\ commit[c].pc = "evidence"
    /\ \/ /\ page.bound
          /\ commit' = [commit EXCEPT ![c].pc = "reference", ![c].seen = assess(page.marks)]
       \/ ~page.bound /\ Returns(c, "failed")
    /\ UNCHANGED <<pageVars, window, plan, session, pc, reason, prepared>>

EvidenceSnapshot(c) ==
    /\ commit[c].pc = "evidence"
    /\ \/ /\ page.bound
          /\ commit' = [commit EXCEPT ![c].pc = "reference", ![c].seen = assess(page.marks)]
       \/ Returns(c, "unknown")
    /\ UNCHANGED <<pageVars, window, plan, session, pc, reason, prepared>>

\* The application id is read twice and must be the snapshot's.
EvidenceReference(c) ==
    /\ commit[c].pc = "reference"
    /\ \/ /\ commit[c].seen = "confirmation"
          /\ page.bound /\ "confirmation" \in page.marks
          /\ Returns(c, "confirmed")
       \/ Returns(c, "unknown")
    /\ UNCHANGED <<pageVars, window, plan, session, pc, reason, prepared>>

----------------------------------------------------------------------------
(* _guard_request: the address is checked in a thread, the rest is decided *)
(* without an await.                                                       *)

GuardAddress(r) ==
    /\ requests[r].stage = "new"
    /\ \/ session.open /\ Moved(r, "checked") /\ UNCHANGED <<sent, session>>
       \/ /\ ~session.open \/ ~requests[r].native
          /\ Abort(r)
          /\ session' = [session EXCEPT !.violation = @ \/ session.clicked]
    /\ UNCHANGED <<page, changes, posts, window, plan, pc, reason, prepared, commit>>

ValidRequest(r) ==
    /\ session.count = 0
    /\ requests[r].native
    /\ session.proof # NoPayload /\ requests[r].payload = session.proof

Fault_GuardDecide(r) ==
    /\ requests[r].stage = "checked"
    /\ \/ /\ ~session.open \/ ~session.clicked
          /\ Abort(r)
          /\ session' = IF session.open THEN [session EXCEPT !.mutations = @ + 1] ELSE session
       \/ /\ session.open /\ session.clicked
          /\ Release(r)
          /\ session' = [session EXCEPT !.count = @ + 1, !.valid = TRUE]
    /\ UNCHANGED <<page, changes, posts, window, plan, pc, reason, prepared, commit>>

GuardDecide(r) ==
    /\ requests[r].stage = "checked"
    /\ \/ /\ ~session.open \/ ~session.clicked
          /\ Abort(r)
          /\ session' = IF session.open THEN [session EXCEPT !.mutations = @ + 1] ELSE session
       \/ /\ session.open /\ session.clicked /\ ~ValidRequest(r)
          /\ Abort(r)
          /\ session' = [session EXCEPT !.count = @ + 1, !.violation = TRUE]
       \/ /\ session.open /\ session.clicked /\ ValidRequest(r)
          /\ Release(r)
          /\ session' = [session EXCEPT !.count = @ + 1, !.valid = TRUE]
    /\ UNCHANGED <<page, changes, posts, window, plan, pc, reason, prepared, commit>>

----------------------------------------------------------------------------
CleanupPreflight ==
    /\ pc = "pre_failed" /\ session.open
    /\ close
    /\ UNCHANGED <<pageVars, window, plan, pc, reason, prepared, commit>>

CleanupPrepared ==
    /\ pc = "ready"
    /\ \E c \in Callers : commit[c].pc = "returned"
    /\ \A c \in Callers : commit[c].pc \in {"idle", "returned"}
    /\ prepared' = [prepared EXCEPT !.made = FALSE]
    /\ close
    /\ pc' = "released"
    /\ UNCHANGED <<pageVars, window, plan, reason, commit>>

PageStep ==
    /\ session.open
    /\ PageChange \/ PagePosts
    /\ UNCHANGED <<window, plan, session, pc, reason, prepared, commit>>

Expire ==
    /\ window
    /\ window' = FALSE
    /\ UNCHANGED <<pageVars, plan, session, pc, reason, prepared, commit>>

Init ==
    /\ PageInit(Callers)
    /\ window = TRUE /\ plan = NoPlan /\ session = NoSession /\ pc = "new" /\ reason = "none"
    /\ prepared = [made |-> FALSE, clicked |-> FALSE]
    /\ commit = [c \in Callers |-> NoCommit]

Inspection == InspectBegin \/ InspectAbandon \/ InspectLoad \/ InspectAttach \/ InspectPlan

Preflight == PreflightBegin \/ PreflightRefuse \/ PreflightAlready \/ PreflightLoad
             \/ PreflightAttach \/ PreflightFill \/ PreflightFillRefuses \/ PreflightFilled
             \/ PreflightVerify \/ prepare_final_action \/ PreflightSeal

CommitStep(c) == CommitClick(c) \/ ClickProve(c) \/ ClickSubmit(c) \/ ClickWait(c)
                 \/ EvidenceSnapshot(c) \/ EvidenceReference(c)

Guard == \E r \in DOMAIN requests : GuardAddress(r) \/ GuardDecide(r)

\* What the adapter itself does next.
AdapterStep ==
    \/ Inspection \/ Preflight \/ Guard
    \/ \E c \in Callers : CommitStep(c)
    \/ CleanupPreflight \/ CleanupPrepared

Next == AdapterStep \/ PageStep \/ Expire

Spec == Init /\ [][Next]_vars

----------------------------------------------------------------------------
LeverTypeOK ==
    /\ PageTypeOK
    /\ window \in BOOLEAN
    /\ plan \in [made : BOOLEAN, form : (FieldSets \X Actions) \cup {NoForm},
                 abstained : BOOLEAN, blocked : BOOLEAN]
    /\ session.mutations \in Nat /\ session.count \in Nat
    /\ session.open \in BOOLEAN /\ session.clicked \in BOOLEAN /\ session.uploaded \in BOOLEAN
    /\ prepared \in [made : BOOLEAN, clicked : BOOLEAN]
    /\ \A c \in Callers :
          commit[c].outcome \in {"none", "replay", "unknown", "confirmed"}

\* Whatever the page does between review, proof and submit, only the reviewed
\* form with the planned answers and the routed CV leaves, and only once.
SendsProvedOnce ==
    /\ Len(sent) <= 1
    /\ \A i \in DOMAIN sent : sent[i] = Reviewed(plan.form)

\* A page that tried to post before the commit spoils the prepared action:
\* nothing of that session is ever sent.
SpoiledNeverSends == session.mutations # 0 => sent = <<>>

\* A plan with blockers is never acted on.
BlockedNeverSends == sent # <<>> => ~plan.blocked

\* The outcome the worker gets for the prepared action (see OneShotSend).
Report ==
    LET done == {c \in Callers : commit[c].outcome \in {"unknown", "confirmed"}}
    IN  CASE pc = "pre_failed" -> IF reason = "ALREADY_APPLIED" THEN "unclear" ELSE "not_sent"
          [] pc # "pre_failed" /\ done = {} -> "none"
          [] OTHER -> IF \E c \in done : commit[c].outcome = "confirmed"
                        THEN "confirmed" ELSE "unclear"

=============================================================================
