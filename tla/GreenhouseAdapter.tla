-------------------------- MODULE GreenhouseAdapter --------------------------
(***************************************************************************)
(* GreenhouseBrowserV1 over one Playwright candidate session: inspection   *)
(* writes a reviewed plan, preflight replays it and keeps the open session *)
(* as a prepared action, commit re-observes everything, arms the outbound  *)
(* gate and invokes the native submit once.                                *)
(*                                                                         *)
(* Every await is a point where the employer's page may change (PageStep), *)
(* the permit may run out (Expire) and a request of the page's own scripts *)
(* may reach the network guard (PagePost).  A request is checked by the    *)
(* guard in three steps because its handler awaits between reading the     *)
(* gate and releasing the request.                                         *)
(*                                                                         *)
(* A page is what the selectors tell apart: the markers it shows, whether  *)
(* its address still names the reviewed job, its fields with the values in *)
(* them, its form target and the completed upload it displays.  Digests    *)
(* and bindings are the values they are computed from.                     *)
(***************************************************************************)
EXTENDS Naturals, FiniteSets, Sequences

CONSTANTS
    Fields,        \* field ids a Greenhouse form of this job may show
    Resume,        \* the one resume file field
    Abstained,     \* optional fields the answer policy leaves blank
    Looks,         \* marker sets the employer's page may show
    Shapes,        \* field sets the employer's form may show
    Targets,       \* form targets the page may carry
    Callers,       \* coroutines that may call commit with the same action
    Nobody,
    MaxRounds,     \* _MAX_STABILIZATION_ROUNDS
    MaxChanges,    \* bound: page changes the employer's site makes by itself
    MaxPosts       \* bound: requests the page's own scripts issue

VARIABLES
    page,      \* the candidate page of the open session
    changes,   \* page changes so far
    posts,     \* requests of the page's scripts so far
    window,    \* permit, plan and prepared action are still unexpired
    plan,      \* FormPlanV1 returned by inspect, or NoPlan
    session,   \* PlaywrightGreenhouseCandidateSession
    pc,        \* where inspect and preflight stand
    local,     \* their local variables between two awaits
    prepared,  \* _prepared[nonce]: the atomic expectation and its flags
    commit,    \* commit calls, one per caller
    gate,      \* _OutboundPostGate each caller armed
    requests,  \* requests inside the route handler
    sent       \* payloads that left, in order

vars == <<page, changes, posts, window, plan, session, pc, local, prepared,
          commit, gate, requests, sent>>

----------------------------------------------------------------------------
(* The page and what the selector contract reads from it.                  *)

Marks == {"captcha", "mfa", "sign_in", "job_closed", "already_applied",
          "confirmation", "upload_problem", "validation_error",
          "form", "submit", "apply"}

Values == {"blank", "planned", "other"}

Page == [marks : Looks, ident : BOOLEAN, fields : Shapes,
         target : Targets, values : [Fields -> Values], upload : Nat]

\* Interstitials in the order the classifier looks for them.
Interstitials == <<
    [mark |-> "captcha",         state |-> "challenge",       reason |-> "CHALLENGE_DETECTED"],
    [mark |-> "mfa",             state |-> "mfa",             reason |-> "MFA_REQUIRED"],
    [mark |-> "sign_in",         state |-> "login",           reason |-> "SESSION_EXPIRED"],
    [mark |-> "job_closed",      state |-> "closed",          reason |-> "JOB_CLOSED"],
    [mark |-> "already_applied", state |-> "already_applied", reason |-> "ALREADY_APPLIED"],
    [mark |-> "confirmation",    state |-> "confirmation",    reason |-> "none"] >>

FormAssessment(p) ==
    CASE "upload_problem" \in p.marks ->
            [state |-> "form", reason |-> "ATTACHMENT_UNVERIFIED"]
      [] "validation_error" \in p.marks /\ "upload_problem" \notin p.marks ->
            [state |-> "form", reason |-> "REQUIRED_FIELD_UNKNOWN"]
      [] OTHER ->
            [state |-> IF "submit" \in p.marks THEN "review" ELSE "form", reason |-> "none"]

assess(p) ==
    LET hits == {i \in DOMAIN Interstitials : Interstitials[i].mark \in p.marks}
        first == CHOOSE i \in hits : \A j \in hits : i <= j
    IN  CASE hits # {} ->
                [state |-> Interstitials[first].state, reason |-> Interstitials[first].reason]
          [] hits = {} /\ "form" \in p.marks -> FormAssessment(p)
          [] hits = {} /\ "form" \notin p.marks /\ "apply" \in p.marks ->
                [state |-> "job", reason |-> "none"]
          [] OTHER -> [state |-> "selector_drift", reason |-> "SELECTOR_DRIFT"]

OnForm(p) == assess(p).state \in {"form", "review"}

\* _validated_form_action: the form, its submit control and its target are usable.
ObservedTarget(p) ==
    IF p.ident /\ {"form", "submit"} \subseteq p.marks THEN p.target ELSE "none"

\* observe_greenhouse_v1_fields and the fingerprint over them and the target.
observe_fields(p) == p.fields
form_fingerprint(p) == <<observe_fields(p), ObservedTarget(p)>>

\* The address is HTTPS, public and names the reviewed board and job.
AllowedUrl(p) == p.ident

FinalActionReady(p) == ObservedTarget(p) # "none" /\ assess(p).state = "review"

\* greenhouse_v1_reviewed_answer_bindings: what review bound each field to.
ReviewedValue(f) == IF f \in Abstained THEN "blank" ELSE "planned"

Payload(p) == [fields |-> p.fields, target |-> p.target,
               values |-> [f \in p.fields |-> p.values[f]]]

ReviewedPayload(pl) == [fields |-> pl.fields, target |-> pl.target,
                        values |-> [f \in pl.fields |-> ReviewedValue(f)]]

----------------------------------------------------------------------------
(* The session.                                                            *)

NoPlan == [made |-> FALSE, fields |-> {}, target |-> "none", blockers |-> {}]
NoSession == [open |-> FALSE, att |-> 0, clicked |-> FALSE, gateOf |-> Nobody]
BlankPage == [marks |-> {}, ident |-> FALSE, fields |-> {}, target |-> "none",
              values |-> [f \in Fields |-> "blank"], upload |-> 0]
NoLocal == [snap |-> BlankPage, round |-> 0, opened |-> FALSE,
            prev |-> {}, target |-> "none", complete |-> FALSE, outcome |-> "none"]
Unprepared == [made |-> FALSE, receipt |-> 0, claimed |-> FALSE, clicked |-> FALSE]
NoCommit == [pc |-> "idle", invoked |-> FALSE, reason |-> "none",
             after |-> {}, outcome |-> "none"]
NoGate == [armed |-> FALSE, closed |-> FALSE, left |-> FALSE, reason |-> "none", event |-> FALSE]

RequestIds == 1 .. Cardinality(Callers) + MaxPosts
NoRequest == [stage |-> "none", by |-> Nobody, native |-> FALSE, payload |-> [fields |-> {}]]

\* navigate: a fresh browser, whatever the site serves today.
navigate ==
    /\ session' = [NoSession EXCEPT !.open = TRUE]
    /\ \E m \in Looks, F \in Shapes, t \in Targets :
          page' = [marks |-> m, ident |-> TRUE, fields |-> F, target |-> t,
                   values |-> [f \in Fields |-> "blank"], upload |-> 0]

\* close: the browser goes and every handle of the session with it.
close == session' = NoSession

\* ensure_resume_attachment, when it succeeds: the receipt this session
\* already holds still shows, or a fresh upload leaves a marker of its own.
Attached ==
    IF session.att # 0
      THEN page.upload = session.att /\ UNCHANGED <<page, session>>
      ELSE /\ page' = [page EXCEPT !.upload = @ + 1, !.values[Resume] = "planned"]
           /\ session' = [session EXCEPT !.att = page.upload + 1]

verify_resume_attachment == session.att # 0 /\ page.upload = session.att

\* fill: every resolved decision of the given fields, on the page of now.
fill(fields) ==
    page' = [page EXCEPT !.values =
                [f \in Fields |-> IF f \in fields \ (Abstained \cup {Resume})
                                    THEN "planned" ELSE @[f]]]

----------------------------------------------------------------------------
(* inspect: observe, attach, plan and fill until the form holds still.     *)

Inspecting == pc \in {"inspect_load", "inspect_round", "inspect_fill", "inspect_look",
                      "inspect_seal"}

InspectBegin ==
    /\ pc = "new"
    /\ navigate
    /\ pc' = "inspect_load"
    /\ UNCHANGED <<changes, posts, window, plan, local, prepared, commit, gate, requests, sent>>

Fault_InspectAbandon ==
    /\ Inspecting
    /\ pc' = "abandoned"
    /\ local' = NoLocal
    /\ UNCHANGED <<page, changes, posts, window, plan, session, prepared, commit, gate,
                   requests, sent>>

\* A blocked or failed inspection: the finally clause closes the session.
InspectAbandon ==
    /\ Inspecting
    /\ close
    /\ pc' = "abandoned"
    /\ local' = NoLocal
    /\ UNCHANGED <<page, changes, posts, window, plan, prepared, commit, gate, requests, sent>>

InspectLoad ==
    /\ pc = "inspect_load"
    /\ AllowedUrl(page)
    /\ IF assess(page).state = "job" /\ ~local.opened
         THEN /\ \E m \in Looks : page' = [page EXCEPT !.marks = m]
              /\ local' = [local EXCEPT !.opened = TRUE]
              /\ UNCHANGED pc
         ELSE /\ local' = [local EXCEPT !.snap = page]
              /\ pc' = "inspect_round"
              /\ UNCHANGED page
    /\ UNCHANGED <<changes, posts, window, plan, session, prepared, commit, gate, requests, sent>>

InspectRound ==
    /\ pc = "inspect_round"
    /\ OnForm(local.snap) /\ assess(local.snap).reason = "none"
    /\ Resume \in local.snap.fields
    /\ ObservedTarget(page) # "none"
    /\ Attached
    /\ local' = [local EXCEPT !.target = ObservedTarget(page)]
    /\ pc' = "inspect_fill"
    /\ UNCHANGED <<changes, posts, window, plan, prepared, commit, gate, requests, sent>>

\* The answer policy may block; otherwise its resolved decisions are filled.
InspectFill ==
    /\ pc = "inspect_fill"
    /\ \/ pc' = "inspect_seal" /\ UNCHANGED page
       \/ /\ local.snap.fields \ Abstained \subseteq page.fields
          /\ fill(local.snap.fields)
          /\ pc' = "inspect_look"
    /\ UNCHANGED <<changes, posts, window, plan, session, local, prepared, commit, gate,
                   requests, sent>>

InspectStable ==
    /\ OnForm(page)
    /\ form_fingerprint(page) = <<local.snap.fields, local.target>>
    /\ FinalActionReady(page)

InspectLook ==
    /\ pc = "inspect_look"
    /\ AllowedUrl(page)
    /\ \/ /\ InspectStable
          /\ local' = [local EXCEPT !.complete = TRUE]
          /\ pc' = "inspect_seal"
       \/ /\ ~InspectStable
          /\ local.round + 1 < MaxRounds
          /\ local' = [local EXCEPT !.snap = page, !.round = @ + 1]
          /\ pc' = "inspect_round"
    /\ UNCHANGED <<page, changes, posts, window, plan, session, prepared, commit, gate,
                   requests, sent>>

InspectSeal ==
    /\ pc = "inspect_seal"
    /\ plan' = [made |-> TRUE, fields |-> local.snap.fields, target |-> local.target,
                blockers |->
                    (IF verify_resume_attachment THEN {} ELSE {"ATTACHMENT_UNVERIFIED"})
                    \cup (IF local.complete THEN {} ELSE {"FORM_PLAN_INCOMPLETE"})]
    /\ close
    /\ local' = NoLocal
    /\ pc' = "reviewed"
    /\ UNCHANGED <<page, changes, posts, window, prepared, commit, gate, requests, sent>>

----------------------------------------------------------------------------
(* preflight: replay the reviewed plan in a new session and stop before    *)
(* the final action.                                                       *)

Preflighting == pc \in {"pre_load", "pre_round", "pre_fill", "pre_look", "pre_verify", "pre_bind"}

PreflightReturns(outcome) ==
    /\ pc' = "pre_failed"
    /\ local' = [NoLocal EXCEPT !.outcome = outcome]

Fault_PreflightBegin ==
    /\ pc = "reviewed"
    /\ IF window
         THEN navigate /\ pc' = "pre_load" /\ UNCHANGED local
         ELSE PreflightReturns("failed") /\ UNCHANGED <<page, session>>
    /\ UNCHANGED <<changes, posts, window, plan, prepared, commit, gate, requests, sent>>

\* _preflight_binding_valid: a plan with a blocker or out of its window is refused.
PreflightBegin ==
    /\ pc = "reviewed"
    /\ IF plan.blockers = {} /\ window
         THEN navigate /\ pc' = "pre_load" /\ UNCHANGED local
         ELSE PreflightReturns("failed") /\ UNCHANGED <<page, session>>
    /\ UNCHANGED <<changes, posts, window, plan, prepared, commit, gate, requests, sent>>

\* Any refusal (needs review) and any exception (failed before commit).
PreflightRefuse ==
    /\ Preflighting
    /\ \E outcome \in {"review", "failed"} : PreflightReturns(outcome)
    /\ UNCHANGED <<page, changes, posts, window, plan, session, prepared, commit, gate,
                   requests, sent>>

PreflightAlready ==
    /\ \/ pc = "pre_load" /\ assess(page).state = "already_applied"
       \/ pc = "pre_round" /\ assess(local.snap).state = "already_applied"
    /\ PreflightReturns("already")
    /\ UNCHANGED <<page, changes, posts, window, plan, session, prepared, commit, gate,
                   requests, sent>>

PreflightLoad ==
    /\ pc = "pre_load"
    /\ AllowedUrl(page)
    /\ IF assess(page).state = "job" /\ ~local.opened
         THEN /\ \E m \in Looks : page' = [page EXCEPT !.marks = m]
              /\ local' = [local EXCEPT !.opened = TRUE]
              /\ UNCHANGED pc
         ELSE /\ assess(page).reason = "none"
              /\ local' = [local EXCEPT !.snap = page]
              /\ pc' = "pre_round"
              /\ UNCHANGED page
    /\ UNCHANGED <<changes, posts, window, plan, session, prepared, commit, gate, requests, sent>>

PreflightRound ==
    /\ pc = "pre_round"
    /\ OnForm(local.snap) /\ assess(local.snap).reason = "none"
    /\ ObservedTarget(page) # "none"
    /\ local.snap.fields = plan.fields => ObservedTarget(page) = plan.target
    /\ local.snap.fields \subseteq plan.fields
    /\ Resume \in local.snap.fields
    /\ Attached
    /\ local' = [local EXCEPT !.target = ObservedTarget(page)]
    /\ pc' = "pre_fill"
    /\ UNCHANGED <<changes, posts, window, plan, prepared, commit, gate, requests, sent>>

PreflightFill ==
    /\ pc = "pre_fill"
    /\ local.snap.fields \ Abstained \subseteq page.fields
    /\ fill(local.snap.fields)
    /\ pc' = "pre_look"
    /\ UNCHANGED <<changes, posts, window, plan, session, local, prepared, commit, gate,
                   requests, sent>>

\* Two rounds in a row must show exactly the reviewed form.
PreflightStable ==
    /\ OnForm(page)
    /\ local.prev = plan.fields /\ local.snap.fields = plan.fields /\ page.fields = plan.fields
    /\ ObservedTarget(page) = local.target /\ local.target = plan.target
    /\ FinalActionReady(page)

Fault_PreflightLook ==
    /\ pc = "pre_look"
    /\ AllowedUrl(page)
    /\ \/ /\ PreflightStable
          /\ pc' = "pre_verify"
          /\ UNCHANGED local
       \/ /\ ~PreflightStable
          /\ local.round + 1 <= MaxRounds
          /\ local' = [local EXCEPT !.prev = local.snap.fields, !.snap = page, !.round = @ + 1]
          /\ pc' = "pre_round"
    /\ UNCHANGED <<page, changes, posts, window, plan, session, prepared, commit, gate,
                   requests, sent>>

PreflightLook ==
    /\ pc = "pre_look"
    /\ AllowedUrl(page)
    /\ \/ /\ PreflightStable
          /\ pc' = "pre_verify"
          /\ UNCHANGED local
       \/ /\ ~PreflightStable
          /\ local.round + 1 < MaxRounds
          /\ local' = [local EXCEPT !.prev = local.snap.fields, !.snap = page, !.round = @ + 1]
          /\ pc' = "pre_round"
    /\ UNCHANGED <<page, changes, posts, window, plan, session, prepared, commit, gate,
                   requests, sent>>

PreflightVerify ==
    /\ pc = "pre_verify"
    /\ verify_resume_attachment
    /\ FinalActionReady(page)
    /\ pc' = "pre_bind"
    /\ UNCHANGED <<page, changes, posts, window, plan, session, local, prepared, commit,
                   gate, requests, sent>>

\* commit_payload_binding: the live form would send the reviewed answers.
PayloadBound(p) == FinalActionReady(p) /\ Payload(p) = ReviewedPayload(plan)

PreflightBind ==
    /\ pc = "pre_bind"
    /\ PayloadBound(page)
    /\ prepared' = [made |-> TRUE, receipt |-> session.att, claimed |-> FALSE, clicked |-> FALSE]
    /\ pc' = "ready"
    /\ local' = NoLocal
    /\ UNCHANGED <<page, changes, posts, window, plan, session, commit, gate, requests, sent>>

----------------------------------------------------------------------------
(* commit: re-observe, cross the ambiguity boundary once, read evidence.   *)

Returns(c, outcome) == commit' = [commit EXCEPT ![c].pc = "returned", ![c].outcome = outcome]
Goes(c, to) == commit' = [commit EXCEPT ![c].pc = to]

Fault_CommitClaim(c) ==
    /\ pc \in {"ready", "released"}
    /\ commit[c].pc = "idle"
    /\ IF prepared.made /\ ~prepared.clicked /\ window
         THEN Goes(c, "observe") /\ prepared' = [prepared EXCEPT !.claimed = TRUE]
         ELSE Returns(c, "replay") /\ UNCHANGED prepared
    /\ UNCHANGED <<page, changes, posts, window, plan, session, pc, local, gate, requests, sent>>

\* The claim has no await between its checks and the flag.
CommitClaim(c) ==
    /\ pc \in {"ready", "released"}
    /\ commit[c].pc = "idle"
    /\ IF prepared.made /\ ~prepared.claimed /\ ~prepared.clicked /\ window
         THEN Goes(c, "observe") /\ prepared' = [prepared EXCEPT !.claimed = TRUE]
         ELSE Returns(c, "replay") /\ UNCHANGED prepared
    /\ UNCHANGED <<page, changes, posts, window, plan, session, pc, local, gate, requests, sent>>

CommitObserve(c) ==
    /\ commit[c].pc = "observe"
    /\ IF /\ AllowedUrl(page) /\ "confirmation" \notin page.marks
          /\ assess(page).reason = "none" /\ OnForm(page)
          /\ form_fingerprint(page) = <<plan.fields, plan.target>>
         THEN Goes(c, "verify")
         ELSE Returns(c, "review")
    /\ UNCHANGED <<page, changes, posts, window, plan, session, pc, local, prepared, gate,
                   requests, sent>>

CommitVerify(c) ==
    /\ commit[c].pc = "verify"
    /\ IF /\ verify_resume_attachment /\ session.att = prepared.receipt
          /\ FinalActionReady(page)
          /\ form_fingerprint(page) = <<plan.fields, plan.target>>
         THEN Goes(c, "cross")
         ELSE Returns(c, "review")
    /\ UNCHANGED <<page, changes, posts, window, plan, session, pc, local, prepared, gate,
                   requests, sent>>

\* Before the click an exception is a definite failure.
CommitRaises(c) ==
    /\ commit[c].pc \in {"observe", "verify"}
    /\ Returns(c, "failed")
    /\ UNCHANGED <<page, changes, posts, window, plan, session, pc, local, prepared, gate,
                   requests, sent>>

CommitCross(c) ==
    /\ commit[c].pc = "cross"
    /\ IF window
         THEN Goes(c, "atomic") /\ prepared' = [prepared EXCEPT !.clicked = TRUE]
         ELSE Returns(c, "failed") /\ UNCHANGED prepared
    /\ UNCHANGED <<page, changes, posts, window, plan, session, pc, local, gate, requests, sent>>

\* atomic_commit up to the gate: a refusal here is a blocked observation.
AtomicValidate(c) ==
    /\ commit[c].pc = "atomic"
    /\ IF session.clicked \/ session.gateOf # Nobody
         THEN Returns(c, "failed")
       ELSE IF /\ session.open /\ PayloadBound(page)
               /\ verify_resume_attachment /\ session.att = prepared.receipt
         THEN Goes(c, "arm")
         ELSE Returns(c, "review")
    /\ UNCHANGED <<page, changes, posts, window, plan, session, pc, local, prepared, gate,
                   requests, sent>>

AtomicArm(c) ==
    /\ commit[c].pc = "arm"
    /\ gate' = [gate EXCEPT ![c].armed = TRUE]
    /\ session' = [session EXCEPT !.clicked = TRUE, !.gateOf = c]
    /\ Goes(c, "script")
    /\ UNCHANGED <<page, changes, posts, window, plan, pc, local, prepared, requests, sent>>

Issue(native, r) ==
    /\ requests[r].stage = "none" /\ \A q \in RequestIds : q < r => requests[q].stage # "none"
    /\ requests' = [requests EXCEPT ![r] =
                       [stage |-> "new", by |-> Nobody, native |-> native, payload |-> Payload(page)]]

\* The page script re-checks the form, its payload, the submit control and
\* the attachment in the turn in which it submits.
ScriptReady == PayloadBound(page) /\ verify_resume_attachment

AtomicScript(c) ==
    /\ commit[c].pc = "script"
    /\ \/ /\ ScriptReady
          /\ \E r \in RequestIds : Issue(TRUE, r)
          /\ \E raised \in BOOLEAN :
                commit' = [commit EXCEPT ![c].pc = "wait", ![c].invoked = TRUE,
                              ![c].reason = IF raised THEN "FINAL_ACTION_UNCONFIRMED" ELSE "none"]
       \/ /\ ~ScriptReady
          /\ commit' = [commit EXCEPT ![c].pc = "wait", ![c].reason = "FORM_CHANGED"]
          /\ UNCHANGED requests
       \/ \* the evaluation context is lost before anything was submitted
          /\ commit' = [commit EXCEPT ![c].pc = "wait", ![c].invoked = TRUE,
                           ![c].reason = "FINAL_ACTION_UNCONFIRMED"]
          /\ UNCHANGED requests
    /\ UNCHANGED <<page, changes, posts, window, plan, session, pc, local, prepared, gate, sent>>

Fault_AtomicReturn(c) ==
    /\ commit[c].pc = "wait"
    /\ gate' = [gate EXCEPT ![c].closed = TRUE]
    /\ IF gate[c].left /\ gate[c].reason = "none" /\ commit[c].reason = "none"
         THEN Goes(c, "evidence")
         ELSE Returns(c, IF gate[c].left THEN "unknown" ELSE "review")
    /\ UNCHANGED <<page, changes, posts, window, plan, session, pc, local, prepared,
                   requests, sent>>

\* _atomic_observation_outcome: only an observed release without any doubt
\* goes on to the evidence; an invoked action is never called unsent.
AtomicReturn(c) ==
    LET g == gate[c]
        invoked == commit[c].invoked \/ g.left
        certain == g.left /\ g.reason = "none" /\ commit[c].reason = "none"
    IN  /\ commit[c].pc = "wait"
        /\ gate' = [gate EXCEPT ![c].closed = TRUE]
        /\ IF certain THEN Goes(c, "evidence")
           ELSE IF invoked THEN Returns(c, "unknown")
           ELSE Returns(c, "review")
        /\ UNCHANGED <<page, changes, posts, window, plan, session, pc, local, prepared,
                       requests, sent>>

EvidenceSnapshot(c) ==
    /\ commit[c].pc = "evidence"
    /\ \/ /\ page.ident
          /\ commit' = [commit EXCEPT ![c].pc = "reference", ![c].after = page.marks]
       \/ Returns(c, "unknown")
    /\ UNCHANGED <<page, changes, posts, window, plan, session, pc, local, prepared, gate,
                   requests, sent>>

\* confirmation_reference reads the page twice more; the visible
\* confirmation must be the one of the snapshot.
EvidenceReference(c) ==
    LET seen == assess([page EXCEPT !.marks = commit[c].after]).state
    IN  /\ commit[c].pc = "reference"
        /\ CASE seen = "already_applied" -> Returns(c, "already")
             [] seen = "confirmation" /\ page.ident /\ "confirmation" \in page.marks ->
                    \/ Returns(c, "confirmed")
                    \/ Returns(c, "unknown")
             [] OTHER -> Returns(c, "unknown")
        /\ UNCHANGED <<page, changes, posts, window, plan, session, pc, local, prepared, gate,
                       requests, sent>>

----------------------------------------------------------------------------
(* The network guard: one handler per request.                             *)

Abort(r) == requests' = [requests EXCEPT ![r].stage = "aborted"]
CloseGate(c, reason) ==
    gate' = [gate EXCEPT ![c].closed = TRUE, ![c].reason = reason, ![c].event = TRUE]

\* Without a gate every mutation is aborted; a gate that is closed or spent
\* only records the doubt; a foreign target, method or frame closes it.
GuardRequest(r) ==
    LET c == session.gateOf
    IN  /\ requests[r].stage = "new"
        /\ IF c = Nobody
             THEN Abort(r) /\ UNCHANGED gate
           ELSE IF gate[c].closed \/ gate[c].left
             THEN /\ Abort(r)
                  /\ gate' = [gate EXCEPT ![c].reason = "FINAL_ACTION_UNCONFIRMED",
                                          ![c].event = TRUE]
           ELSE IF ~requests[r].native \/ requests[r].payload.target # plan.target
             THEN Abort(r) /\ CloseGate(c, "FORM_CHANGED")
           ELSE /\ requests' = [requests EXCEPT ![r].stage = "checked", ![r].by = c]
                /\ UNCHANGED gate
        /\ UNCHANGED <<page, changes, posts, window, plan, session, pc, local, prepared,
                       commit, sent>>

\* _multipart_payload_commitment of the body against the expectation.
PayloadMatches(r) == requests[r].payload = ReviewedPayload(plan)

Fault_GuardPayload(r) ==
    /\ requests[r].stage = "checked"
    /\ gate' = [gate EXCEPT ![requests[r].by].left = TRUE, ![requests[r].by].event = TRUE]
    /\ IF session.open
         THEN /\ requests' = [requests EXCEPT ![r].stage = "released"]
              /\ sent' = Append(sent, requests[r].payload)
         ELSE Abort(r) /\ UNCHANGED sent
    /\ UNCHANGED <<page, changes, posts, window, plan, session, pc, local, prepared, commit>>

\* The body is parsed and compared after further awaits (a refused address
\* or an unreadable body closes the gate); the gate is not read again before
\* the request is released.
GuardPayload(r) ==
    LET c == requests[r].by
    IN  /\ requests[r].stage = "checked"
        /\ \/ /\ PayloadMatches(r)
              /\ gate' = [gate EXCEPT ![c].left = TRUE, ![c].event = TRUE]
              /\ IF session.open
                   THEN /\ requests' = [requests EXCEPT ![r].stage = "released"]
                        /\ sent' = Append(sent, requests[r].payload)
                   ELSE Abort(r) /\ UNCHANGED sent
           \/ Abort(r) /\ CloseGate(c, "FORM_CHANGED") /\ UNCHANGED sent
        /\ UNCHANGED <<page, changes, posts, window, plan, session, pc, local, prepared, commit>>

----------------------------------------------------------------------------
(* The worker's finally clause, the employer's site and time.              *)

CleanupPreflight ==
    /\ pc = "pre_failed"
    /\ session.open
    /\ close
    /\ UNCHANGED <<page, changes, posts, window, plan, pc, local, prepared, commit, gate,
                   requests, sent>>

\* cleanup_prepared_action pops the action and closes its session; the
\* worker reaches it once the call it awaits has returned.
CleanupPrepared ==
    /\ pc = "ready"
    /\ \E c \in Callers : commit[c].pc = "returned"
    /\ \A c \in Callers : commit[c].pc \in {"idle", "returned"}
    /\ prepared' = [prepared EXCEPT !.made = FALSE]
    /\ close
    /\ pc' = "released"
    /\ UNCHANGED <<page, changes, posts, window, plan, local, commit, gate, requests, sent>>

PageStep ==
    /\ session.open
    /\ changes < MaxChanges
    /\ changes' = changes + 1
    /\ \/ \E m \in Looks : page' = [page EXCEPT !.marks = m]
       \/ \E F \in Shapes : page' = [page EXCEPT !.fields = F]
       \/ \E t \in Targets : page' = [page EXCEPT !.target = t]
       \/ \E f \in Fields, v \in Values : page' = [page EXCEPT !.values[f] = v]
       \/ page' = [page EXCEPT !.upload = 0]
       \/ page' = [page EXCEPT !.ident = FALSE]
    /\ UNCHANGED <<posts, window, plan, session, pc, local, prepared, commit, gate, requests, sent>>

\* A script of the page submits the form or posts on its own.
PagePost ==
    /\ session.open
    /\ posts < MaxPosts
    /\ posts' = posts + 1
    /\ \E native \in BOOLEAN, r \in RequestIds : Issue(native, r)
    /\ UNCHANGED <<page, changes, window, plan, session, pc, local, prepared, commit, gate, sent>>

Expire ==
    /\ window
    /\ window' = FALSE
    /\ UNCHANGED <<page, changes, posts, plan, session, pc, local, prepared, commit, gate,
                   requests, sent>>

----------------------------------------------------------------------------
Init ==
    /\ page = BlankPage /\ changes = 0 /\ posts = 0 /\ window = TRUE
    /\ plan = NoPlan /\ session = NoSession /\ pc = "new" /\ local = NoLocal
    /\ prepared = Unprepared
    /\ commit = [c \in Callers |-> NoCommit]
    /\ gate = [c \in Callers |-> NoGate]
    /\ requests = [r \in RequestIds |-> NoRequest]
    /\ sent = <<>>

Inspection == InspectBegin \/ InspectAbandon \/ InspectLoad \/ InspectRound \/ InspectFill
              \/ InspectLook \/ InspectSeal

Preflight == PreflightBegin \/ PreflightRefuse \/ PreflightAlready \/ PreflightLoad
             \/ PreflightRound \/ PreflightFill \/ PreflightLook \/ PreflightVerify
             \/ PreflightBind

CommitStep(c) == CommitClaim(c) \/ CommitObserve(c) \/ CommitVerify(c) \/ CommitRaises(c)
                 \/ CommitCross(c) \/ AtomicValidate(c) \/ AtomicArm(c) \/ AtomicScript(c)
                 \/ AtomicReturn(c) \/ EvidenceSnapshot(c) \/ EvidenceReference(c)

Guard == \E r \in RequestIds : GuardRequest(r) \/ GuardPayload(r)

\* What the adapter itself does next.
AdapterStep ==
    \/ Inspection \/ Preflight \/ Guard
    \/ \E c \in Callers : CommitStep(c)
    \/ CleanupPreflight \/ CleanupPrepared

Next == AdapterStep \/ PageStep \/ PagePost \/ Expire

Spec == Init /\ [][Next]_vars

----------------------------------------------------------------------------
TypeOK ==
    /\ page \in Page \cup {BlankPage}
    /\ changes \in 0 .. MaxChanges /\ posts \in 0 .. MaxPosts /\ window \in BOOLEAN
    /\ plan.fields \in Shapes \cup {{}} /\ plan.target \in Targets \cup {"none"}
    /\ session \in [open : BOOLEAN, att : Nat, clicked : BOOLEAN, gateOf : Callers \cup {Nobody}]
    /\ local.round \in 0 .. MaxRounds - 1 /\ local.snap \in Page \cup {BlankPage}
    /\ prepared \in [made : BOOLEAN, receipt : Nat, claimed : BOOLEAN, clicked : BOOLEAN]
    /\ commit \in [Callers -> [pc : {"idle", "observe", "verify", "cross", "atomic", "arm",
                                     "script", "wait", "evidence", "reference", "returned"},
                               invoked : BOOLEAN, reason : STRING, after : SUBSET Marks,
                               outcome : STRING]]
    /\ gate \in [Callers -> [armed : BOOLEAN, closed : BOOLEAN, left : BOOLEAN,
                             reason : STRING, event : BOOLEAN]]
    /\ \A r \in RequestIds :
          requests[r].stage \in {"none", "new", "checked", "released", "aborted"}

\* What reaches the employer is the plan the operator reviewed: its fields,
\* its target, its answers and the routed CV, whatever the page did between
\* review and the native submit.
SendsReviewedOnly == \A i \in DOMAIN sent : plan.made /\ sent[i] = ReviewedPayload(plan)

\* Nothing leaves unless commit crossed its boundary in an unexpired window
\* with a plan that had no blocker.
LeavesOnlyCommitted == sent # <<>> => prepared.clicked /\ plan.blockers = {}

\* The adapter's promise to the worker (see OneShotSend): the report of the
\* call that claimed the action.
Report ==
    IF pc = "pre_failed" THEN (IF local.outcome = "already" THEN "unclear" ELSE "not_sent")
    ELSE LET done == {c \in Callers : commit[c].pc = "returned" /\ commit[c].outcome # "replay"}
             o == IF done = {} THEN "none" ELSE commit[CHOOSE c \in done : TRUE].outcome
         IN  CASE o = "none" -> "none"
               [] o \in {"review", "failed"} -> "not_sent"
               [] o \in {"unknown", "already"} -> "unclear"
               [] o = "confirmed" -> "confirmed"

=============================================================================
