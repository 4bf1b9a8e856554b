---- MODULE AdapterProofs ----
EXTENDS Adapters, SequenceTheorems, FiniteSetTheorems, TLAPS

----------------------------------------------------------------------------
(* What the adapters have in common.                                       *)

\* A call whose commit was not turned away as a replay.
Engaged(c) == commit[c].pc # "idle" /\ commit[c].outcome # "replay"
OneEngaged == \A c, d \in DOMAIN commit : Engaged(c) /\ Engaged(d) => c = d

CommitRows == DOMAIN commit = Callers
              /\ \A c \in Callers : {"pc", "outcome"} \subseteq DOMAIN commit[c]
RequestRows == \A r \in DOMAIN requests :
                  {"stage", "native", "payload"} \subseteq DOMAIN requests[r]

LEMMA AppendGrows ==
    ASSUME NEW S, NEW s \in Seq(S), NEW x
    PROVE  Append(s, x) # <<>> /\ Len(Append(s, x)) = Len(s) + 1
<1>1. s \in Seq(S \cup {x})  OBVIOUS
<1> QED  BY <1>1, AppendProperties

(* The requests in the route handler that may still leave.                 *)
Waiting(req) == {r \in DOMAIN req : req[r].stage \in {"new", "checked"}}

\* A request enters, moves on or is settled: the others stay as they are.
Others(req, next, r) ==
    DOMAIN next = DOMAIN req /\ \A q \in DOMAIN req : q # r => next[q] = req[q]

LEMMA RequestEnters ==
    ASSUME NEW req, NEW next, NEW r \in DOMAIN req, Others(req, next, r),
           IsFiniteSet(Waiting(req)), req[r].stage = "none", next[r].stage = "new"
    PROVE  IsFiniteSet(Waiting(next)) /\ Cardinality(Waiting(next)) = Cardinality(Waiting(req)) + 1
<1>1. r \notin Waiting(req) /\ Waiting(next) = Waiting(req) \cup {r}  BY DEF Waiting, Others
<1> QED  BY <1>1, FS_AddElement

LEMMA RequestMoves ==
    ASSUME NEW req, NEW next, NEW r \in DOMAIN req, Others(req, next, r),
           req[r].stage = "new", next[r].stage = "checked"
    PROVE  Waiting(next) = Waiting(req)
  BY DEF Waiting, Others

LEMMA RequestSettles ==
    ASSUME NEW req, NEW next, NEW r \in DOMAIN req, Others(req, next, r),
           IsFiniteSet(Waiting(req)), req[r].stage \in {"new", "checked"},
           next[r].stage \in {"released", "aborted"}
    PROVE  IsFiniteSet(Waiting(next)) /\ Cardinality(Waiting(next)) = Cardinality(Waiting(req)) - 1
<1>1. r \in Waiting(req) /\ Waiting(next) = Waiting(req) \ {r}  BY DEF Waiting, Others
<1> QED  BY <1>1, FS_RemoveElement

(* Whatever left or may still leave was posted by the page, but for one    *)
(* request once the adapter has submitted.                                 *)
Within(req, left, posted, submitted) ==
    /\ IsFiniteSet(Waiting(req))
    /\ left \in Nat /\ posted \in Nat
    /\ left + Cardinality(Waiting(req)) <= posted + 1
    /\ ~submitted => left + Cardinality(Waiting(req)) <= posted

LEMMA WithinCounts ==
    ASSUME NEW req, NEW left, NEW posted, NEW submitted, Within(req, left, posted, submitted)
    PROVE  left <= posted + 1 /\ (~submitted => left <= posted)
<1>1. Cardinality(Waiting(req)) \in Nat  BY FS_CardinalityType DEF Within
<1> QED  BY <1>1 DEF Within

\* What a step may do to the requests, to what left and to what was posted.
Turn(req, left, posted, submitted, next, m, j, now) ==
    /\ submitted => now
    /\ \/ next = req /\ m = left /\ j = posted
       \/ \E r \in DOMAIN req :
             /\ Others(req, next, r)
             /\ \/ /\ req[r].stage = "none" /\ next[r].stage = "new" /\ m = left
                   /\ j = posted + 1 \/ (j = posted /\ ~submitted /\ now)
                \/ req[r].stage = "new" /\ next[r].stage = "checked" /\ m = left /\ j = posted
                \/ /\ req[r].stage \in {"new", "checked"} /\ j = posted
                   /\ next[r].stage \in {"released", "aborted"}
                   /\ m = left \/ m = left + 1

LEMMA WithinKeeps ==
    ASSUME NEW req, NEW left, NEW posted, NEW submitted, Within(req, left, posted, submitted),
           NEW next, NEW m, NEW j, NEW now,
           Turn(req, left, posted, submitted, next, m, j, now)
    PROVE  Within(next, m, j, now)
<1>0. IsFiniteSet(Waiting(req)) /\ Cardinality(Waiting(req)) \in Nat /\ left \in Nat /\ posted \in Nat
  BY FS_CardinalityType DEF Within
<1>5. submitted => now  BY DEF Turn
<1>1. CASE next = req /\ m = left /\ j = posted  BY <1>1, <1>5 DEF Within
<1>2. ASSUME NEW r \in DOMAIN req, Others(req, next, r),
             req[r].stage = "none", next[r].stage = "new", m = left,
             j = posted + 1 \/ (j = posted /\ ~submitted /\ now)
      PROVE  Within(next, m, j, now)
  <2>1. IsFiniteSet(Waiting(next)) /\ Cardinality(Waiting(next)) = Cardinality(Waiting(req)) + 1
    BY <1>0, <1>2, RequestEnters
  <2> QED  BY <1>0, <1>2, <1>5, <2>1 DEF Within
<1>3. ASSUME NEW r \in DOMAIN req, Others(req, next, r),
             req[r].stage = "new", next[r].stage = "checked", m = left, j = posted
      PROVE  Within(next, m, j, now)
  <2>1. Waiting(next) = Waiting(req)  BY <1>3, RequestMoves
  <2> QED  BY <1>0, <1>3, <1>5, <2>1 DEF Within
<1>4. ASSUME NEW r \in DOMAIN req, Others(req, next, r), req[r].stage \in {"new", "checked"},
             next[r].stage \in {"released", "aborted"}, m = left \/ m = left + 1, j = posted
      PROVE  Within(next, m, j, now)
  <2>1. IsFiniteSet(Waiting(next)) /\ Cardinality(Waiting(next)) = Cardinality(Waiting(req)) - 1
    BY <1>0, <1>4, RequestSettles
  <2> QED  BY <1>0, <1>4, <1>5, <2>1 DEF Within
<1> QED  BY <1>1, <1>2, <1>3, <1>4 DEF Turn

(* The promise, of what left (n), what the page posted by itself (k),      *)
(* whether a page was lost (l) and the report (r).                         *)
Honest(n, k, l, r) ==
    /\ n \in Nat /\ k \in Nat /\ n <= k + 1
    /\ r \in {"none", "not_sent", "unclear", "confirmed"}
    /\ r = "not_sent" /\ ~l => n <= k
    /\ r = "confirmed" => n >= 1
    /\ l \in BOOLEAN
    /\ l => n = 1 /\ r = "not_sent"
Answered(n, k, l, r, m, j, x, s) ==
    /\ r # "none" => s = r /\ x = l
    /\ m # n => m = n + 1 /\ j = k /\ x = l /\ s = r
    /\ j # k => j = k + 1 /\ m = n /\ x = l /\ s = r

----------------------------------------------------------------------------
(* Lever.  What left is the form of the plan, once; the session's proof is *)
(* that form or none, and a click is the doing of the one engaged call.    *)

LeverSessions(proofs) ==
    [open : BOOLEAN, uploaded : BOOLEAN, proof : proofs, clicked : BOOLEAN, mutations : Nat,
     count : Nat, valid : BOOLEAN, violation : BOOLEAN]
LeverShape ==
    /\ CommitRows /\ RequestRows
    /\ plan \in [made : BOOLEAN, form : {plan.form}, abstained : BOOLEAN, blocked : BOOLEAN]
    /\ prepared \in [made : BOOLEAN, clicked : BOOLEAN]
    /\ session \in LeverSessions({Lever!NoPayload, Lever!Reviewed(plan.form)})
LeverSent == sent \in {<<>>, <<Lever!Reviewed(plan.form)>>}

LeverBefore ==
    pc \notin {"ready", "released"} =>
        /\ sent = <<>> /\ ~prepared.made /\ ~prepared.clicked /\ ~session.clicked
        /\ \A c \in Callers : commit[c].pc = "idle" /\ commit[c].outcome = "none"
LeverPlanned ==
    /\ Lever!Inspecting \/ pc = "new" => session.proof = Lever!NoPayload
    /\ Lever!Preflighting \/ pc = "ready" => ~plan.blocked /\ session.open
    /\ session.open => pc # "released"
    /\ prepared.made <=> pc = "ready"
    /\ sent # <<>> => ~plan.blocked
LeverGate ==
    /\ session.clicked => pc = "ready" /\ prepared.clicked /\ session.mutations = 0
    /\ session.count = 0 /\ pc = "ready" => sent = <<>>
    /\ session.count = 0 => ~session.valid
    /\ session.valid => sent # <<>>
    /\ ~session.clicked => session.count = 0
    /\ session.clicked => session.open
    /\ session.mutations # 0 => sent = <<>>
LeverCommits ==
    /\ OneEngaged
    /\ \A c \in Callers :
          /\ Engaged(c) => prepared.clicked
          /\ commit[c].pc \notin {"idle", "returned"} => pc = "ready"
          /\ commit[c].pc # "returned" => commit[c].outcome = "none"
          /\ commit[c].pc \in {"evidence", "reference"} => sent # <<>>
          /\ commit[c].outcome = "confirmed" => sent # <<>>
    /\ sent # <<>> => pc \in {"ready", "released"}
LeverInv == LeverShape /\ LeverSent /\ LeverBefore /\ LeverPlanned /\ LeverGate /\ LeverCommits

LEMMA LeverCounts ==
    ASSUME NEW proofs, NEW s \in LeverSessions(proofs)
    PROVE  /\ s.count + 1 \in Nat /\ s.count + 1 # 0 /\ s.mutations + 1 \in Nat
           /\ [s EXCEPT !.mutations = @ + 1] \in LeverSessions(proofs)
           /\ [s EXCEPT !.clicked = TRUE] \in LeverSessions(proofs)
           /\ [s EXCEPT !.count = @ + 1, !.violation = TRUE] \in LeverSessions(proofs)
           /\ [s EXCEPT !.count = @ + 1, !.valid = TRUE] \in LeverSessions(proofs)
<1>1. s.count + 1 \in Nat /\ s.count + 1 # 0 /\ s.mutations + 1 \in Nat  BY DEF LeverSessions
<1>2. [s EXCEPT !.mutations = @ + 1] \in LeverSessions(proofs)  BY <1>1 DEF LeverSessions
<1>3. [s EXCEPT !.clicked = TRUE] \in LeverSessions(proofs)  BY DEF LeverSessions
<1>4. [s EXCEPT !.count = @ + 1, !.violation = TRUE] \in LeverSessions(proofs)
  BY <1>1 DEF LeverSessions
<1>5. [s EXCEPT !.count = @ + 1, !.valid = TRUE] \in LeverSessions(proofs)
  BY <1>1 DEF LeverSessions
<1> QED  BY <1>1, <1>2, <1>3, <1>4, <1>5

LEMMA LeverStart == Lever!Init => LeverInv
  BY DEF Lever!Init, Lever!PageInit, Lever!NoRequest, LeverInv, LeverShape, LeverSessions, CommitRows, RequestRows,
         LeverSent, LeverBefore, LeverPlanned, LeverGate, LeverCommits, OneEngaged, Engaged,
         Lever!NoPlan, Lever!NoSession, Lever!NoCommit, Lever!Inspecting, Lever!Preflighting

LEMMA LeverInspection == LeverInv /\ Lever!Inspection => LeverInv'
<1> SUFFICES ASSUME LeverInv, Lever!Inspection PROVE LeverInv'
  OBVIOUS
<1> USE DEF LeverInv, LeverShape, LeverSessions, CommitRows, RequestRows,
         LeverSent, LeverBefore, LeverPlanned, LeverGate, LeverCommits, OneEngaged, Engaged,
         Lever!NoSession, Lever!Inspecting, Lever!Preflighting, Lever!navigate, Lever!close, Lever!pageVars
<1>1. CASE Lever!InspectBegin  BY <1>1 DEF Lever!InspectBegin
<1>2. CASE Lever!InspectAbandon  BY <1>2 DEF Lever!InspectAbandon
<1>3. CASE Lever!InspectLoad  BY <1>3 DEF Lever!InspectLoad
<1>4. CASE Lever!InspectAttach  BY <1>4 DEF Lever!InspectAttach, Lever!ensure_resume_attachment
<1>5. CASE Lever!InspectPlan  BY <1>5 DEF Lever!InspectPlan
<1> QED  BY <1>1, <1>2, <1>3, <1>4, <1>5 DEF Lever!Inspection

LEMMA LeverPreflight == LeverInv /\ Lever!Preflight => LeverInv'
<1> SUFFICES ASSUME LeverInv, Lever!Preflight PROVE LeverInv'
  OBVIOUS
<1> USE DEF LeverInv, LeverShape, LeverSessions, CommitRows, RequestRows,
         LeverSent, LeverBefore, LeverPlanned, LeverGate, LeverCommits, OneEngaged, Engaged,
         Lever!NoSession, Lever!Inspecting, Lever!Preflighting, Lever!navigate, Lever!close, Lever!pageVars,
         Lever!PreflightStep, Lever!PreflightReturns
<1>1. CASE Lever!PreflightBegin
  <2>1. CASE ~plan.blocked /\ window
    <3>1. LeverShape'  BY <1>1, <2>1 DEF Lever!PreflightBegin
    <3>2. LeverSent'  BY <1>1, <2>1 DEF Lever!PreflightBegin
    <3>3. LeverBefore'  BY <1>1, <2>1 DEF Lever!PreflightBegin
    <3>4. LeverPlanned'  BY <1>1, <2>1 DEF Lever!PreflightBegin
    <3>5. LeverGate'  BY <1>1, <2>1 DEF Lever!PreflightBegin
    <3>6. LeverCommits'  BY <1>1, <2>1 DEF Lever!PreflightBegin
    <3> QED  BY <3>1, <3>2, <3>3, <3>4, <3>5, <3>6
  <2>2. CASE ~(~plan.blocked /\ window)
    <3>1. LeverShape'  BY <1>1, <2>2 DEF Lever!PreflightBegin
    <3>2. LeverSent'  BY <1>1, <2>2 DEF Lever!PreflightBegin
    <3>3. LeverBefore'  BY <1>1, <2>2 DEF Lever!PreflightBegin
    <3>4. LeverPlanned'  BY <1>1, <2>2 DEF Lever!PreflightBegin
    <3>5. LeverGate'  BY <1>1, <2>2 DEF Lever!PreflightBegin
    <3>6. LeverCommits'  BY <1>1, <2>2 DEF Lever!PreflightBegin
    <3> QED  BY <3>1, <3>2, <3>3, <3>4, <3>5, <3>6
  <2> QED  BY <2>1, <2>2
<1>2. CASE Lever!PreflightRefuse  BY <1>2 DEF Lever!PreflightRefuse
<1>3. CASE Lever!PreflightAlready  BY <1>3 DEF Lever!PreflightAlready
<1>4. CASE Lever!PreflightLoad  BY <1>4 DEF Lever!PreflightLoad
<1>5. CASE Lever!PreflightAttach  BY <1>5 DEF Lever!PreflightAttach, Lever!ensure_resume_attachment
<1>6. CASE Lever!PreflightFill  BY <1>6 DEF Lever!PreflightFill
<1>7. CASE Lever!PreflightFillRefuses  BY <1>7 DEF Lever!PreflightFillRefuses
<1>8. CASE Lever!PreflightFilled  BY <1>8 DEF Lever!PreflightFilled
<1>9. CASE Lever!PreflightVerify  BY <1>9 DEF Lever!PreflightVerify
<1>10. CASE Lever!prepare_final_action  BY <1>10 DEF Lever!prepare_final_action, Lever!FormProves
<1>11. CASE Lever!PreflightSeal  BY <1>11 DEF Lever!PreflightSeal
<1> QED  BY <1>1, <1>2, <1>3, <1>4, <1>5, <1>6, <1>7, <1>8, <1>9, <1>10, <1>11 DEF Lever!Preflight

LEMMA LeverClicks ==
    ASSUME LeverShape, UNCHANGED plan, session' = [session EXCEPT !.clicked = TRUE]
    PROVE  session' \in LeverSessions({Lever!NoPayload, Lever!Reviewed(plan'.form)})
  BY LeverCounts DEF LeverShape

LEMMA LeverCommitStep == LeverInv /\ (\E c \in Callers : Lever!CommitStep(c)) => LeverInv'
<1> SUFFICES ASSUME LeverInv, NEW c \in Callers, Lever!CommitStep(c) PROVE LeverInv'
  OBVIOUS
<1> USE DEF LeverInv, LeverShape, LeverSessions, CommitRows, RequestRows,
         LeverSent, LeverBefore, LeverPlanned, LeverGate, LeverCommits, OneEngaged, Engaged,
         Lever!Inspecting, Lever!Preflighting, Lever!pageVars, Lever!Returns, Lever!Goes
<1>1. CASE Lever!CommitClick(c)
  <2>1. CASE ~prepared.made \/ prepared.clicked \/ ~window
    <3>1. LeverShape'  BY <1>1, <2>1 DEF Lever!CommitClick
    <3>2. LeverSent'  BY <1>1, <2>1 DEF Lever!CommitClick
    <3>3. LeverBefore'  BY <1>1, <2>1 DEF Lever!CommitClick
    <3>4. LeverPlanned'  BY <1>1, <2>1 DEF Lever!CommitClick
    <3>5. LeverGate'  BY <1>1, <2>1 DEF Lever!CommitClick
    <3>6. LeverCommits'  BY <1>1, <2>1 DEF Lever!CommitClick
    <3> QED  BY <3>1, <3>2, <3>3, <3>4, <3>5, <3>6
  <2>2. CASE prepared.made /\ ~prepared.clicked /\ window
    <3>1. /\ pc = "ready" /\ session.open /\ ~session.clicked /\ sent = <<>>
          /\ commit[c].outcome = "none" /\ \A d \in Callers : ~Engaged(d)
      BY <1>1, <2>2 DEF Lever!CommitClick
    <3>2. prepared' \in [made : BOOLEAN, clicked : BOOLEAN] /\ prepared'.made /\ prepared'.clicked
          /\ UNCHANGED <<plan, pc, sent, requests>>
      BY <1>1, <2>2 DEF Lever!CommitClick
    <3>3. CASE session.mutations # 0
      BY <1>1, <2>2, <3>1, <3>2, <3>3 DEF Lever!CommitClick
    <3>4. CASE session.mutations = 0
      <4>1. /\ session' = [session EXCEPT !.clicked = TRUE]
            /\ commit' = [commit EXCEPT ![c].pc = "prove"]
        BY <1>1, <2>2, <3>1, <3>4 DEF Lever!CommitClick
      <4>2. LeverShape'  BY <3>2, <4>1, LeverClicks
      <4>3. \A x \in {"open", "proof", "mutations", "valid", "count"} : session'[x] = session[x]
        BY <4>1
      <4>4. session'.clicked  BY <4>1
      <4> QED  BY <3>1, <3>2, <3>4, <4>1, <4>2, <4>3, <4>4
    <3> QED  BY <3>3, <3>4 
  <2> QED  BY <2>1, <2>2
<1>2. CASE Lever!ClickProve(c)  BY <1>2 DEF Lever!ClickProve
<1>3. CASE Lever!ClickSubmit(c)  BY <1>3 DEF Lever!ClickSubmit, Lever!Issue
<1>4. CASE Lever!ClickWait(c)  BY <1>4 DEF Lever!ClickWait
<1>5. CASE Lever!EvidenceSnapshot(c)  BY <1>5 DEF Lever!EvidenceSnapshot
<1>6. CASE Lever!EvidenceReference(c)  BY <1>6 DEF Lever!EvidenceReference
<1> QED  BY <1>1, <1>2, <1>3, <1>4, <1>5, <1>6 DEF Lever!CommitStep

LEMMA LeverGuard == LeverInv /\ Lever!Guard => LeverInv'
<1> SUFFICES ASSUME LeverInv, NEW r \in DOMAIN requests, Lever!GuardAddress(r) \/ Lever!GuardDecide(r)
             PROVE LeverInv'
  BY DEF Lever!Guard
<1> DEFINE proofs == {Lever!NoPayload, Lever!Reviewed(plan.form)}
<1> USE DEF LeverInv, LeverShape, CommitRows, RequestRows, LeverSent, LeverBefore, LeverPlanned,
         LeverGate, LeverCommits, OneEngaged, Engaged, Lever!Inspecting, Lever!Preflighting,
         Lever!Moved, Lever!Abort, Lever!Release
<1>1. CASE Lever!GuardAddress(r)  BY <1>1 DEF Lever!GuardAddress, LeverSessions
<1>2. CASE Lever!GuardDecide(r)
  <2>0. session \in LeverSessions(proofs) /\ UNCHANGED <<plan, pc, prepared, commit>> /\ RequestRows'
    BY <1>2 DEF Lever!GuardDecide
  <2>1. CASE ~session.open
    BY <1>2, <2>0, <2>1 DEF Lever!GuardDecide
  <2>2. CASE session.open /\ ~session.clicked
    <3>1. session' = [session EXCEPT !.mutations = @ + 1] /\ UNCHANGED sent
      BY <1>2, <2>2 DEF Lever!GuardDecide
    <3>2. session' \in LeverSessions(proofs)  BY <2>0, <3>1, LeverCounts
    <3>3. \A x \in {"open", "proof", "clicked", "count", "valid"} : session'[x] = session[x]
      BY <2>0, <3>1 DEF LeverSessions
    <3> QED  BY <2>0, <2>2, <3>1, <3>2, <3>3
  <2>3. CASE session.open /\ session.clicked /\ ~Lever!ValidRequest(r)
    <3>1. session' = [session EXCEPT !.count = @ + 1, !.violation = TRUE] /\ UNCHANGED sent
      BY <1>2, <2>3 DEF Lever!GuardDecide
    <3>2. session' \in LeverSessions(proofs)  BY <2>0, <3>1, LeverCounts
    <3>3. \A x \in {"open", "proof", "clicked", "mutations", "valid"} : session'[x] = session[x]
      BY <2>0, <3>1 DEF LeverSessions
    <3>4. session'.count # 0
      <4>1. session'.count = session.count + 1  BY <2>0, <3>1 DEF LeverSessions
      <4> QED  BY <2>0, <4>1, LeverCounts
    <3> QED  BY <2>0, <2>3, <3>1, <3>2, <3>3, <3>4
  <2>4. CASE session.open /\ session.clicked /\ Lever!ValidRequest(r)
    <3>1. session' = [session EXCEPT !.count = @ + 1, !.valid = TRUE] /\ sent = <<>>
          /\ sent' = <<Lever!Reviewed(plan.form)>>
      BY <1>2, <2>0, <2>4 DEF Lever!GuardDecide, Lever!ValidRequest, LeverSessions
    <3>2. session' \in LeverSessions(proofs)  BY <2>0, <3>1, LeverCounts
    <3>3. \A x \in {"open", "proof", "clicked", "mutations"} : session'[x] = session[x]
      BY <2>0, <3>1 DEF LeverSessions
    <3>4. session'.count # 0
      <4>1. session'.count = session.count + 1  BY <2>0, <3>1 DEF LeverSessions
      <4> QED  BY <2>0, <4>1, LeverCounts
    <3> QED  BY <2>0, <2>4, <3>1, <3>2, <3>3, <3>4
  <2> QED  BY <2>1, <2>2, <2>3, <2>4
<1> QED  BY <1>1, <1>2

LEMMA LeverStep == LeverInv /\ [Lever!Next]_(Lever!vars) => LeverInv'
<1> SUFFICES ASSUME LeverInv, [Lever!Next]_(Lever!vars) PROVE LeverInv'
  OBVIOUS
<1> USE DEF LeverInv, LeverShape, LeverSessions, CommitRows, RequestRows,
         LeverSent, LeverBefore, LeverPlanned, LeverGate, LeverCommits, OneEngaged, Engaged,
         Lever!Inspecting, Lever!Preflighting, Lever!close, Lever!NoSession, Lever!pageVars
<1>1. CASE Lever!CleanupPreflight  BY <1>1 DEF Lever!CleanupPreflight
<1>2. CASE Lever!CleanupPrepared  BY <1>2 DEF Lever!CleanupPrepared
<1>3. CASE Lever!PageStep  BY <1>3 DEF Lever!PageStep, Lever!PageChange, Lever!PagePosts, Lever!Issue
<1>4. CASE Lever!Expire  BY <1>4 DEF Lever!Expire
<1>5. CASE UNCHANGED Lever!vars  BY <1>5 DEF Lever!vars
<1> QED
  BY <1>1, <1>2, <1>3, <1>4, <1>5, LeverInspection, LeverPreflight, LeverCommitStep, LeverGuard
  DEF Lever!Next, Lever!AdapterStep

\* What the adapter has returned stays, and a request leaves between two steps of the coroutines.
LeverFinal ==
    /\ \A d \in Callers : commit[d].pc = "returned" => commit'[d] = commit[d]
    /\ pc = "pre_failed" => UNCHANGED <<pc, reason>>
    /\ sent' # sent => sent' # <<>> /\ UNCHANGED <<pc, reason, commit>>

LEMMA LeverReturns == LeverShape /\ LeverSent /\ [Lever!Next]_(Lever!vars) => LeverFinal
<1> SUFFICES ASSUME LeverShape, LeverSent, [Lever!Next]_(Lever!vars) PROVE LeverFinal
  OBVIOUS
<1> USE DEF LeverFinal, Lever!pageVars
<1>1. CASE Lever!Inspection
  BY <1>1 DEF Lever!Inspection, Lever!InspectBegin, Lever!InspectAbandon, Lever!InspectLoad,
     Lever!InspectAttach, Lever!InspectPlan, Lever!Inspecting
<1>2. CASE Lever!Preflight
  BY <1>2 DEF Lever!Preflight, Lever!PreflightBegin, Lever!PreflightRefuse, Lever!PreflightAlready,
     Lever!PreflightLoad, Lever!PreflightAttach, Lever!PreflightFill, Lever!PreflightFillRefuses,
     Lever!PreflightFilled, Lever!PreflightVerify, Lever!prepare_final_action, Lever!PreflightSeal,
     Lever!PreflightStep, Lever!Preflighting
<1>3. ASSUME NEW c \in Callers, Lever!CommitStep(c) PROVE LeverFinal
  BY <1>3 DEF Lever!CommitStep, Lever!CommitClick, Lever!ClickProve, Lever!ClickSubmit,
     Lever!ClickWait, Lever!EvidenceSnapshot, Lever!EvidenceReference, Lever!Returns, Lever!Goes,
     LeverShape, CommitRows
<1>4. CASE Lever!Guard  BY <1>4 DEF Lever!Guard, Lever!GuardAddress, Lever!GuardDecide, Lever!Abort, Lever!Release, LeverSent
<1>5. CASE Lever!CleanupPreflight \/ Lever!CleanupPrepared \/ Lever!PageStep \/ Lever!Expire
           \/ UNCHANGED Lever!vars
  BY <1>5 DEF Lever!CleanupPreflight, Lever!CleanupPrepared, Lever!PageStep, Lever!PageChange,
     Lever!PagePosts, Lever!Expire, Lever!vars
<1> QED  BY <1>1, <1>2, <1>3, <1>4, <1>5 DEF Lever!Next, Lever!AdapterStep

LEMMA LeverSends ==
    LeverInv => Lever!SendsProvedOnce /\ Lever!BlockedNeverSends /\ Lever!SpoiledNeverSends
<1> SUFFICES ASSUME LeverInv
             PROVE Lever!SendsProvedOnce /\ Lever!BlockedNeverSends /\ Lever!SpoiledNeverSends
  OBVIOUS
<1>1. Lever!SendsProvedOnce
  <2>1. CASE sent = <<>>  BY <2>1 DEF Lever!SendsProvedOnce
  <2>2. CASE sent = <<Lever!Reviewed(plan.form)>>  BY <2>2 DEF Lever!SendsProvedOnce
  <2> QED  BY <2>1, <2>2 DEF LeverInv, LeverSent
<1>2. Lever!BlockedNeverSends /\ Lever!SpoiledNeverSends
  BY DEF LeverInv, LeverPlanned, LeverGate, Lever!BlockedNeverSends, Lever!SpoiledNeverSends
<1> QED  BY <1>1, <1>2

LEMMA LeverHonest == LeverInv => Honest(Len(sent), 0, FALSE, Lever!Report)
<1> SUFFICES ASSUME LeverInv PROVE Honest(Len(sent), 0, FALSE, Lever!Report)
  OBVIOUS
<1> DEFINE n == Len(sent)
<1>1. n \in {0, 1}  BY DEF LeverInv, LeverSent
<1>2. Lever!Report \in {"none", "not_sent", "unclear", "confirmed"}  BY DEF Lever!Report
<1>3. Lever!Report = "not_sent" => n = 0
  BY DEF Lever!Report, LeverInv, LeverBefore
<1>4. Lever!Report = "confirmed" => n = 1
  BY DEF Lever!Report, LeverInv, LeverSent, LeverCommits
<1> HIDE DEF n
<1>5. Honest(n, 0, FALSE, Lever!Report)  BY <1>1, <1>2, <1>3, <1>4 DEF Honest
<1> QED  BY <1>5 DEF n

LEMMA LeverAnswers ==
    ASSUME LeverInv, LeverInv', LeverFinal
    PROVE  Answered(Len(sent), 0, FALSE, Lever!Report, Len(sent)', 0, FALSE, Lever!Report')
<1>1. Lever!Report # "none" => Lever!Report' = Lever!Report
  <2>1. CASE pc = "pre_failed"  BY <2>1 DEF LeverFinal, Lever!Report
  <2>2. ASSUME NEW d \in Callers, commit[d].outcome \in {"unknown", "confirmed"}, pc # "pre_failed"
        PROVE  Lever!Report' = Lever!Report
    <3>1. commit'[d] = commit[d] /\ Engaged(d) /\ Engaged(d)' /\ pc' # "pre_failed"
      BY <2>2 DEF LeverFinal, LeverInv, LeverCommits, LeverBefore, Engaged, LeverShape, CommitRows
    <3>2. \A c \in Callers : commit[c].outcome \in {"unknown", "confirmed"} => c = d
      BY <2>2, <3>1 DEF LeverInv, LeverCommits, OneEngaged, Engaged, LeverShape, CommitRows
    <3>3. \A c \in Callers : commit'[c].outcome \in {"unknown", "confirmed"} => c = d
      BY <2>2, <3>1 DEF LeverInv, LeverCommits, OneEngaged, Engaged, LeverShape, CommitRows
    <3> QED  BY <2>2, <3>1, <3>2, <3>3 DEF Lever!Report
  <2> QED  BY <2>1, <2>2 DEF Lever!Report
<1>2. sent' # sent => Lever!Report' = Lever!Report  BY DEF LeverFinal, Lever!Report
<1>3. Len(sent) \in {0, 1} /\ Len(sent)' \in {0, 1}  BY DEF LeverInv, LeverSent
<1>4. Len(sent) <= Len(sent)'  BY DEF LeverInv, LeverSent, LeverFinal
<1>5. Len(sent)' # Len(sent) => sent' # sent /\ Len(sent)' = Len(sent) + 1
  <2> DEFINE n == Len(sent)  m == Len(sent)'
  <2>1. sent' = sent => m = n  OBVIOUS
  <2>2. n \in {0, 1} /\ m \in {0, 1} /\ n <= m  BY <1>3, <1>4
  <2> HIDE DEF n, m
  <2>3. m # n => m = n + 1  BY <2>2
  <2>4. m # n => sent' # sent /\ m = n + 1  BY <2>1, <2>3
  <2> QED  BY <2>4 DEF n, m
<1> QED  BY <1>1, <1>2, <1>5 DEF Answered

----------------------------------------------------------------------------
(* SmartRecruiters.  The gate's verdict is what left: completed it is      *)
(* final, and a request it did not see armed is turned away.               *)

Gates == [armed : BOOLEAN, completed : BOOLEAN, rejected : BOOLEAN, possibly_sent : BOOLEAN]
SRShape ==
    /\ CommitRows /\ RequestRows
    /\ plan \in [made : BOOLEAN, form : {plan.form}, blocked : BOOLEAN]
    /\ prepared \in [made : BOOLEAN, clicked : BOOLEAN]
    /\ session \in [open : BOOLEAN, uploaded : BOOLEAN,
                    proof : {SmartRecruiters!NoPayload, SmartRecruiters!Reviewed(plan.form)},
                    clicked : BOOLEAN, touched : BOOLEAN]
    /\ gate \in Gates
    /\ DOMAIN seenGate = DOMAIN requests
SRSent == sent \in {<<>>, <<SmartRecruiters!Reviewed(plan.form)>>}

SRBefore ==
    pc \notin {"ready", "released"} =>
        /\ sent = <<>> /\ ~prepared.made /\ ~prepared.clicked /\ ~session.clicked /\ ~gate.armed
        /\ \A c \in Callers : commit[c].pc = "idle" /\ commit[c].outcome = "none"
SRPlanned ==
    /\ SmartRecruiters!Inspecting \/ pc = "new" => session.proof = SmartRecruiters!NoPayload
    /\ pc \in {"pre_seal", "ready"} => session.proof = SmartRecruiters!Reviewed(plan.form)
    /\ SmartRecruiters!Preflighting \/ pc = "ready" => ~plan.blocked /\ session.open
    /\ session.open => pc # "released"
    /\ prepared.made <=> pc = "ready"
    /\ sent # <<>> => ~plan.blocked
SRGate ==
    /\ session.clicked => prepared.clicked
    /\ gate.armed => prepared.clicked
    /\ gate.completed => gate.armed
    /\ gate.completed <=> gate.rejected \/ gate.possibly_sent
    /\ ~(gate.rejected /\ gate.possibly_sent)
    /\ gate.possibly_sent <=> sent # <<>>
    /\ \A r \in DOMAIN requests : seenGate[r] => gate.armed
SRCommits ==
    /\ OneEngaged
    /\ \A c \in Callers :
          /\ Engaged(c) => prepared.clicked
          /\ commit[c].pc \notin {"idle", "returned"} => pc = "ready"
          /\ commit[c].pc # "returned" => commit[c].outcome = "none"
          /\ commit[c].pc \in {"click", "withheld"} => gate.armed
          /\ commit[c].pc \in {"evidence", "reference"} => sent # <<>>
          /\ commit[c].outcome = "confirmed" => sent # <<>>
          /\ commit[c].outcome = "lost_page" => sent # <<>>
          /\ commit[c].outcome = "refused" => gate.rejected
          /\ commit[c].outcome \in
                {"none", "replay", "refused", "lost_page", "unknown", "confirmed"}
SRInv == SRShape /\ SRSent /\ SRBefore /\ SRPlanned /\ SRGate /\ SRCommits

LEMMA SRStart == SmartRecruiters!Init => SRInv
  BY DEF SmartRecruiters!Init, SmartRecruiters!PageInit, SmartRecruiters!NoRequest, SRInv, SRShape, Gates, CommitRows, RequestRows,
     SRSent, SRBefore, SRPlanned, SRGate, SRCommits, OneEngaged, Engaged, SmartRecruiters!NoPlan,
     SmartRecruiters!NoSession, SmartRecruiters!NoGate, SmartRecruiters!NoCommit, SmartRecruiters!Inspecting, SmartRecruiters!Preflighting

LEMMA SRInspection == SRInv /\ SmartRecruiters!Inspection => SRInv'
<1> SUFFICES ASSUME SRInv, SmartRecruiters!Inspection PROVE SRInv'
  OBVIOUS
<1> USE DEF SRInv, SRShape, Gates, CommitRows, RequestRows, SRSent, SRBefore, SRPlanned, SRGate,
         SRCommits, OneEngaged, Engaged, SmartRecruiters!NoSession, SmartRecruiters!Inspecting, SmartRecruiters!Preflighting,
         SmartRecruiters!navigate, SmartRecruiters!close, SmartRecruiters!pageVars
<1>1. CASE SmartRecruiters!InspectBegin  BY <1>1, ZenonT(60) DEF SmartRecruiters!InspectBegin
<1>2. CASE SmartRecruiters!InspectAbandon  BY <1>2 DEF SmartRecruiters!InspectAbandon
<1>3. CASE SmartRecruiters!InspectLoad
  <2>1. CASE UNCHANGED plan  BY <1>3, <2>1 DEF SmartRecruiters!InspectLoad
  <2>2. CASE plan' = [plan EXCEPT !.form = SmartRecruiters!form_fingerprint(page)]
    BY <1>3, <2>2 DEF SmartRecruiters!InspectLoad
  <2> QED  BY <1>3, <2>1, <2>2 DEF SmartRecruiters!InspectLoad
<1>4. CASE SmartRecruiters!InspectAttach  BY <1>4, ZenonT(60) DEF SmartRecruiters!InspectAttach, SmartRecruiters!ensure_resume_attachment
<1>5. CASE SmartRecruiters!InspectPlan  BY <1>5, ZenonT(60) DEF SmartRecruiters!InspectPlan
<1> QED  BY <1>1, <1>2, <1>3, <1>4, <1>5 DEF SmartRecruiters!Inspection

LEMMA SRPreflight == SRInv /\ SmartRecruiters!Preflight => SRInv'
<1> SUFFICES ASSUME SRInv, SmartRecruiters!Preflight PROVE SRInv'
  OBVIOUS
<1> USE DEF SRInv, SRShape, Gates, CommitRows, RequestRows, SRSent, SRBefore, SRPlanned, SRGate,
         SRCommits, OneEngaged, Engaged, SmartRecruiters!NoSession, SmartRecruiters!Inspecting, SmartRecruiters!Preflighting,
         SmartRecruiters!navigate, SmartRecruiters!close, SmartRecruiters!pageVars, SmartRecruiters!PreflightStep,
         SmartRecruiters!PreflightReturns, SmartRecruiters!PreflightFrame
<1>1. CASE SmartRecruiters!PreflightBegin
  <2>1. CASE ~plan.blocked /\ window
    <3>1. /\ pc = "reviewed" /\ pc' = "pre_load" /\ session' = [SmartRecruiters!NoSession EXCEPT !.open = TRUE]
          /\ UNCHANGED <<requests, sent, prepared, plan, gate, seenGate, commit>>
      BY <1>1, <2>1 DEF SmartRecruiters!PreflightBegin
    <3> QED  BY ZenonT(60), <2>1, <3>1
  <2>2. CASE ~(~plan.blocked /\ window)
    <3>1. /\ pc = "reviewed" /\ pc' = "pre_failed"
          /\ UNCHANGED <<page, session, requests, sent, prepared, plan, gate, seenGate, commit>>
      BY <1>1, <2>2 DEF SmartRecruiters!PreflightBegin
    <3> QED  BY <3>1
  <2> QED  BY <2>1, <2>2
<1>2. CASE SmartRecruiters!PreflightRefuse  BY <1>2 DEF SmartRecruiters!PreflightRefuse
<1>3. CASE SmartRecruiters!PreflightAlready  BY <1>3 DEF SmartRecruiters!PreflightAlready
<1>4. CASE SmartRecruiters!PreflightOpen  BY <1>4 DEF SmartRecruiters!PreflightOpen
<1>5. CASE SmartRecruiters!PreflightLoad  BY <1>5 DEF SmartRecruiters!PreflightLoad
<1>6. CASE SmartRecruiters!PreflightAttach  BY <1>6, ZenonT(60) DEF SmartRecruiters!PreflightAttach, SmartRecruiters!ensure_resume_attachment
<1>7. CASE SmartRecruiters!PreflightFill  BY <1>7 DEF SmartRecruiters!PreflightFill
<1>8. CASE SmartRecruiters!PreflightFilled  BY <1>8 DEF SmartRecruiters!PreflightFilled
<1>9. CASE SmartRecruiters!PreflightVerify  BY <1>9 DEF SmartRecruiters!PreflightVerify
<1>10. CASE SmartRecruiters!prepare_final_action  BY <1>10, ZenonT(60) DEF SmartRecruiters!prepare_final_action, SmartRecruiters!FormProves, SmartRecruiters!answersMatch
<1>11. CASE SmartRecruiters!PreflightSeal  BY <1>11 DEF SmartRecruiters!PreflightSeal
<1> QED  BY <1>1, <1>2, <1>3, <1>4, <1>5, <1>6, <1>7, <1>8, <1>9, <1>10, <1>11 DEF SmartRecruiters!Preflight

LEMMA SRCommitStep == SRInv /\ (\E c \in Callers : SmartRecruiters!CommitStep(c)) => SRInv'
<1> SUFFICES ASSUME SRInv, NEW c \in Callers, SmartRecruiters!CommitStep(c) PROVE SRInv'
  OBVIOUS
<1> USE DEF SRInv, SRShape, Gates, CommitRows, RequestRows, SRSent, SRBefore, SRPlanned, SRGate,
         SRCommits, OneEngaged, Engaged, SmartRecruiters!Inspecting, SmartRecruiters!Preflighting, SmartRecruiters!pageVars,
         SmartRecruiters!Returns, SmartRecruiters!Goes
<1>1. CASE SmartRecruiters!CommitClick(c)
  <2>1. CASE ~prepared.made \/ prepared.clicked \/ ~window
    BY <1>1, <2>1 DEF SmartRecruiters!CommitClick
  <2>2. CASE prepared.made /\ ~prepared.clicked /\ window
    <3>1. /\ pc = "ready" /\ session.open /\ ~session.clicked /\ sent = <<>> /\ ~gate.armed
          /\ commit[c].outcome = "none" /\ \A d \in Callers : ~Engaged(d)
      BY <1>1, <2>2 DEF SmartRecruiters!CommitClick
    <3>2. /\ prepared' = [prepared EXCEPT !.clicked = TRUE]
          /\ session' = [session EXCEPT !.clicked = TRUE]
          /\ gate' = [SmartRecruiters!NoGate EXCEPT !.armed = TRUE]
          /\ commit' = [commit EXCEPT ![c].pc = "click"]
          /\ UNCHANGED <<plan, pc, sent, requests, seenGate>>
      BY <1>1, <2>2, <3>1 DEF SmartRecruiters!CommitClick
    <3>3. SRShape' /\ SRSent' /\ SRBefore' /\ SRPlanned'  BY <2>2, <3>1, <3>2 DEF SmartRecruiters!NoGate
    <3>4. SRGate'  BY <2>2, <3>1, <3>2 DEF SmartRecruiters!NoGate
    <3>5. SRCommits'  BY <2>2, <3>1, <3>2
    <3> QED  BY <3>3, <3>4, <3>5
  <2> QED  BY <2>1, <2>2
<1>2. CASE SmartRecruiters!ClickScript(c)
  <2>1. RequestRows' /\ DOMAIN requests' = DOMAIN requests  BY <1>2 DEF SmartRecruiters!ClickScript, SmartRecruiters!Issue
  <2>2. \/ commit' = [commit EXCEPT ![c].pc = "wait"]
        \/ commit' = [commit EXCEPT ![c].pc = "withheld"]
        \/ commit' = [commit EXCEPT ![c].pc = "returned", ![c].outcome = "unknown"]
    BY <1>2 DEF SmartRecruiters!ClickScript
  <2>3. CommitRows'  BY <2>2
  <2>4. pc = "ready" /\ UNCHANGED <<sent, plan, session, gate, seenGate, pc, prepared>>
    BY <1>2 DEF SmartRecruiters!ClickScript
  <2>5. SRShape' /\ SRSent' /\ SRBefore' /\ SRPlanned' /\ SRGate'  BY <2>1, <2>3, <2>4
  <2>6. \A d \in Callers : /\ Engaged(d)' <=> Engaged(d)
                           /\ d # c => commit'[d] = commit[d]
    BY <1>2, <2>2 DEF SmartRecruiters!ClickScript
  <2>7. SRCommits'
    <3>1. gate.armed  BY <1>2 DEF SmartRecruiters!ClickScript
    <3>2. /\ commit'[c].pc \in {"wait", "withheld", "returned"}
          /\ commit'[c].outcome \in {"none", "unknown"}
          /\ commit'[c].pc # "returned" => commit'[c].outcome = "none"
      BY <1>2, <2>2 DEF SmartRecruiters!ClickScript
    <3> QED  BY <1>2, <2>3, <2>4, <2>6, <3>1, <3>2 DEF SmartRecruiters!ClickScript
  <2> QED  BY <2>5, <2>7
<1>3. CASE SmartRecruiters!ClickWithheld(c)  BY <1>3 DEF SmartRecruiters!ClickWithheld, SmartRecruiters!reject
<1>4. CASE SmartRecruiters!ClickWait(c)  BY <1>4 DEF SmartRecruiters!ClickWait
<1>5. CASE SmartRecruiters!EvidenceSnapshot(c)  BY <1>5 DEF SmartRecruiters!EvidenceSnapshot
<1>6. CASE SmartRecruiters!EvidenceReference(c)  BY <1>6 DEF SmartRecruiters!EvidenceReference
<1> QED  BY <1>1, <1>2, <1>3, <1>4, <1>5, <1>6 DEF SmartRecruiters!CommitStep

LEMMA SRGuard == SRInv /\ SmartRecruiters!Guard => SRInv'
<1> SUFFICES ASSUME SRInv, NEW r \in DOMAIN requests, SmartRecruiters!GuardAddress(r) \/ SmartRecruiters!GuardDecide(r)
             PROVE SRInv'
  BY DEF SmartRecruiters!Guard
<1> USE DEF SRInv, SRShape, Gates, CommitRows, RequestRows, SRSent, SRBefore, SRPlanned, SRGate,
         SRCommits, OneEngaged, Engaged, SmartRecruiters!Inspecting, SmartRecruiters!Preflighting, SmartRecruiters!Moved, SmartRecruiters!Abort,
         SmartRecruiters!Release, SmartRecruiters!reject
<1>1. CASE SmartRecruiters!GuardAddress(r)
  <2>0. /\ RequestRows' /\ DOMAIN requests' = DOMAIN requests /\ DOMAIN seenGate' = DOMAIN seenGate
        /\ UNCHANGED <<plan, session, pc, prepared, commit, sent>>
    BY <1>1 DEF SmartRecruiters!GuardAddress
  <2>1. CASE seenGate' = [seenGate EXCEPT ![r] = gate.armed] /\ UNCHANGED gate
    BY <2>0, <2>1
  <2>2. CASE UNCHANGED seenGate /\ gate' = IF gate.armed THEN SmartRecruiters!reject(gate) ELSE gate
    <3>1. CASE ~gate.armed \/ gate.completed
      <4>1. UNCHANGED gate  BY <2>2, <3>1
      <4> QED  BY <2>0, <2>2, <4>1
    <3>2. CASE gate.armed /\ ~gate.completed
      <4>1. gate' = [gate EXCEPT !.rejected = TRUE, !.completed = TRUE]  BY <2>2, <3>2
      <4> QED  BY ZenonT(60), <2>0, <2>2, <3>2, <4>1
    <3> QED  BY <3>1, <3>2
  <2> QED  BY <1>1, <2>1, <2>2 DEF SmartRecruiters!GuardAddress
<1>2. CASE SmartRecruiters!GuardDecide(r)
  <2>1. CASE ~(seenGate[r] /\ session.open)  BY <1>2, <2>1 DEF SmartRecruiters!GuardDecide
  <2>2. CASE seenGate[r] /\ session.open /\ (gate.completed \/ ~SmartRecruiters!Matches(r))
    <3>1. /\ RequestRows' /\ DOMAIN requests' = DOMAIN requests /\ gate' = SmartRecruiters!reject(gate)
          /\ UNCHANGED <<plan, session, seenGate, pc, prepared, commit, sent>>
      BY <1>2, <2>2 DEF SmartRecruiters!GuardDecide, SmartRecruiters!evaluate
    <3> QED  BY ZenonT(60), <2>2, <3>1
  <2>3. CASE seenGate[r] /\ session.open /\ ~gate.completed /\ SmartRecruiters!Matches(r)
    <3>1. /\ pc = "ready" /\ sent = <<>> /\ ~plan.blocked
          /\ sent' = <<SmartRecruiters!Reviewed(plan.form)>>
          /\ gate' = [gate EXCEPT !.possibly_sent = TRUE, !.completed = TRUE]
          /\ UNCHANGED <<plan, session, seenGate, pc, prepared, commit>> /\ RequestRows'
          /\ DOMAIN requests' = DOMAIN requests
      BY <1>2, <2>3 DEF SmartRecruiters!GuardDecide, SmartRecruiters!evaluate, SmartRecruiters!Matches
    <3> QED  BY <2>3, <3>1
  <2> QED  BY <2>1, <2>2, <2>3
<1> QED  BY <1>1, <1>2

LEMMA SRStep == SRInv /\ [SmartRecruiters!Next]_(SmartRecruiters!vars) => SRInv'
<1> SUFFICES ASSUME SRInv, [SmartRecruiters!Next]_(SmartRecruiters!vars) PROVE SRInv'
  OBVIOUS
<1> USE DEF SRInv, SRShape, Gates, CommitRows, RequestRows, SRSent, SRBefore, SRPlanned, SRGate,
         SRCommits, OneEngaged, Engaged, SmartRecruiters!Inspecting, SmartRecruiters!Preflighting, SmartRecruiters!close, SmartRecruiters!NoSession,
         SmartRecruiters!pageVars
<1>1. CASE SmartRecruiters!CleanupPreflight  BY <1>1 DEF SmartRecruiters!CleanupPreflight
<1>2. CASE SmartRecruiters!CleanupPrepared  BY <1>2, ZenonT(60) DEF SmartRecruiters!CleanupPrepared
<1>3. CASE SmartRecruiters!PageStep
  <2>0. /\ RequestRows' /\ DOMAIN requests' = DOMAIN requests
        /\ UNCHANGED <<plan, gate, seenGate, pc, prepared, commit, sent>>
    BY <1>3 DEF SmartRecruiters!PageStep, SmartRecruiters!PageChange, SmartRecruiters!PagePosts, SmartRecruiters!Issue
  <2>1. session' \in {session, [session EXCEPT !.touched = TRUE]}
    BY <1>3 DEF SmartRecruiters!PageStep
  <2>2. CASE UNCHANGED session  BY <2>0, <2>2
  <2>3. CASE session' = [session EXCEPT !.touched = TRUE]  BY ZenonT(60), <2>0, <2>3
  <2> QED  BY <2>1, <2>2, <2>3
<1>4. CASE SmartRecruiters!Expire  BY <1>4 DEF SmartRecruiters!Expire
<1>5. CASE UNCHANGED SmartRecruiters!vars  BY <1>5 DEF SmartRecruiters!vars
<1> QED
  BY <1>1, <1>2, <1>3, <1>4, <1>5, SRInspection, SRPreflight, SRCommitStep, SRGuard
  DEF SmartRecruiters!Next, SmartRecruiters!AdapterStep

SRFinal ==
    /\ \A d \in Callers : commit[d].pc = "returned" => commit'[d] = commit[d]
    /\ pc = "pre_failed" => UNCHANGED <<pc, reason>>
    /\ sent' # sent => sent' # <<>> /\ UNCHANGED <<pc, reason, commit>>

LEMMA SRReturns == SRShape /\ SRSent /\ [SmartRecruiters!Next]_(SmartRecruiters!vars) => SRFinal
<1> SUFFICES ASSUME SRShape, SRSent, [SmartRecruiters!Next]_(SmartRecruiters!vars) PROVE SRFinal
  OBVIOUS
<1> USE DEF SRFinal, SmartRecruiters!pageVars
<1>1. CASE SmartRecruiters!Inspection
  BY <1>1 DEF SmartRecruiters!Inspection, SmartRecruiters!InspectBegin, SmartRecruiters!InspectAbandon, SmartRecruiters!InspectLoad,
     SmartRecruiters!InspectAttach, SmartRecruiters!InspectPlan, SmartRecruiters!Inspecting
<1>2. CASE SmartRecruiters!Preflight
  BY <1>2 DEF SmartRecruiters!Preflight, SmartRecruiters!PreflightBegin, SmartRecruiters!PreflightRefuse, SmartRecruiters!PreflightAlready,
     SmartRecruiters!PreflightOpen, SmartRecruiters!PreflightLoad, SmartRecruiters!PreflightAttach, SmartRecruiters!PreflightFill,
     SmartRecruiters!PreflightFilled, SmartRecruiters!PreflightVerify, SmartRecruiters!prepare_final_action, SmartRecruiters!PreflightSeal,
     SmartRecruiters!PreflightStep, SmartRecruiters!PreflightFrame, SmartRecruiters!Preflighting
<1>3. ASSUME NEW c \in Callers, SmartRecruiters!CommitStep(c) PROVE SRFinal
  BY <1>3 DEF SmartRecruiters!CommitStep, SmartRecruiters!CommitClick, SmartRecruiters!ClickScript, SmartRecruiters!ClickWithheld,
     SmartRecruiters!ClickWait, SmartRecruiters!EvidenceSnapshot, SmartRecruiters!EvidenceReference, SmartRecruiters!Returns, SmartRecruiters!Goes,
     SRShape, CommitRows
<1>4. CASE SmartRecruiters!Guard
  BY <1>4 DEF SmartRecruiters!Guard, SmartRecruiters!GuardAddress, SmartRecruiters!GuardDecide, SmartRecruiters!evaluate, SmartRecruiters!Abort, SmartRecruiters!Release, SRSent
<1>5. CASE SmartRecruiters!CleanupPreflight \/ SmartRecruiters!CleanupPrepared \/ SmartRecruiters!PageStep \/ SmartRecruiters!Expire
           \/ UNCHANGED SmartRecruiters!vars
  BY <1>5 DEF SmartRecruiters!CleanupPreflight, SmartRecruiters!CleanupPrepared, SmartRecruiters!PageStep, SmartRecruiters!PageChange,
     SmartRecruiters!PagePosts, SmartRecruiters!Expire, SmartRecruiters!vars
<1> QED  BY <1>1, <1>2, <1>3, <1>4, <1>5 DEF SmartRecruiters!Next, SmartRecruiters!AdapterStep

LEMMA SRSends == SRInv => SmartRecruiters!SendsReviewedOnce /\ SmartRecruiters!GateTellsSent
<1> SUFFICES ASSUME SRInv PROVE SmartRecruiters!SendsReviewedOnce /\ SmartRecruiters!GateTellsSent
  OBVIOUS
<1>1. SmartRecruiters!SendsReviewedOnce
  <2>1. CASE sent = <<>>  BY <2>1 DEF SmartRecruiters!SendsReviewedOnce
  <2>2. CASE sent = <<SmartRecruiters!Reviewed(plan.form)>>
    BY <2>2 DEF SmartRecruiters!SendsReviewedOnce, SRInv, SRPlanned
  <2> QED  BY <2>1, <2>2 DEF SRInv, SRSent
<1>2. SmartRecruiters!GateTellsSent  BY DEF SRInv, SRGate, SmartRecruiters!GateTellsSent
<1> QED  BY <1>1, <1>2

LEMMA SRHonest ==
    SRInv => Honest(Len(sent), 0, SmartRecruiters!LostPage, SmartRecruiters!Report)
<1> SUFFICES ASSUME SRInv
             PROVE  Honest(Len(sent), 0, SmartRecruiters!LostPage, SmartRecruiters!Report)
  OBVIOUS
<1>1. ASSUME SmartRecruiters!LostPage
      PROVE  Len(sent) = 1 /\ SmartRecruiters!Report = "not_sent"
  <2>1. PICK d \in Callers : commit[d].outcome = "lost_page"  BY <1>1 DEF SmartRecruiters!LostPage
  <2>2. pc # "pre_failed" /\ sent # <<>> /\ Engaged(d)
    BY <2>1 DEF SRInv, SRBefore, SRCommits, Engaged
  <2>3. \A c \in Callers : commit[c].outcome # "confirmed"
    BY <2>1, <2>2 DEF SRInv, SRCommits, OneEngaged, Engaged, SRShape, CommitRows
  <2>4. SmartRecruiters!Report = "not_sent"
    BY <1>1, <2>1, <2>2, <2>3 DEF SmartRecruiters!Report
  <2> QED  BY <2>2, <2>4 DEF SRInv, SRSent
<1>2. SmartRecruiters!Report = "not_sent" /\ ~SmartRecruiters!LostPage => Len(sent) = 0
  BY DEF SmartRecruiters!Report, SRInv, SRShape, SRSent, SRBefore, SRGate, SRCommits, CommitRows
<1>3. SmartRecruiters!Report = "confirmed" => Len(sent) = 1
  BY DEF SmartRecruiters!Report, SRInv, SRSent, SRBefore, SRCommits
<1>4. SmartRecruiters!Report \in {"none", "not_sent", "unclear", "confirmed"}
  BY DEF SmartRecruiters!Report
<1>5. Len(sent) \in {0, 1} /\ SmartRecruiters!LostPage \in BOOLEAN
  BY DEF SRInv, SRSent, SmartRecruiters!LostPage
<1> DEFINE l == SmartRecruiters!LostPage  r == SmartRecruiters!Report
<1> HIDE DEF l, r
<1>6. /\ l => Len(sent) = 1 /\ r = "not_sent"
      /\ r = "not_sent" /\ ~l => Len(sent) <= 0
      /\ r = "confirmed" => Len(sent) >= 1
      /\ r \in {"none", "not_sent", "unclear", "confirmed"} /\ l \in BOOLEAN
  BY <1>1, <1>2, <1>3, <1>4, <1>5 DEF l, r
<1>7. Len(sent) \in Nat /\ 0 \in Nat /\ Len(sent) <= 0 + 1
  <2> DEFINE n == Len(sent)
  <2>1. n \in {0, 1}  BY <1>5
  <2> HIDE DEF n
  <2>2. n \in Nat /\ 0 \in Nat /\ n <= 0 + 1  BY <2>1
  <2> QED  BY <2>2 DEF n
<1>8. Honest(Len(sent), 0, l, r)  BY <1>6, <1>7, Zenon DEF Honest
<1> QED  BY <1>8 DEF l, r

LEMMA SRAnswers ==
    ASSUME SRInv, SRInv', SRFinal
    PROVE  Answered(Len(sent), 0, SmartRecruiters!LostPage, SmartRecruiters!Report,
                    Len(sent)', 0, SmartRecruiters!LostPage', SmartRecruiters!Report')
<1> DEFINE Same == /\ SmartRecruiters!Report' = SmartRecruiters!Report
                   /\ SmartRecruiters!LostPage' = SmartRecruiters!LostPage
<1>1. SmartRecruiters!Report # "none" => Same
  <2>1. CASE pc = "pre_failed"
    <3>1. pc' = "pre_failed" /\ reason' = reason  BY <2>1 DEF SRFinal
    <3>2. ~SmartRecruiters!LostPage /\ ~SmartRecruiters!LostPage'
      BY <2>1, <3>1 DEF SRInv, SRBefore, SmartRecruiters!LostPage
    <3>3. SmartRecruiters!Report' = SmartRecruiters!Report
      BY <2>1, <3>1 DEF SmartRecruiters!Report, SmartRecruiters!LostPage
    <3> QED  BY <3>2, <3>3 DEF SmartRecruiters!LostPage
  <2>2. ASSUME NEW d \in Callers, commit[d].outcome \notin {"none", "replay"}, pc # "pre_failed"
        PROVE  Same
    <3>1. commit'[d] = commit[d] /\ Engaged(d) /\ Engaged(d)' /\ pc' # "pre_failed"
      BY <2>2 DEF SRFinal, SRInv, SRCommits, SRBefore, Engaged, SRShape, CommitRows
    <3>2. \A c \in Callers : commit[c].outcome \notin {"none", "replay"} => c = d
      BY <2>2, <3>1 DEF SRInv, SRCommits, OneEngaged, Engaged, SRShape, CommitRows
    <3>3. \A c \in Callers : commit'[c].outcome \notin {"none", "replay"} => c = d
      BY <2>2, <3>1 DEF SRInv, SRCommits, OneEngaged, Engaged, SRShape, CommitRows
    <3>4. SmartRecruiters!LostPage' = SmartRecruiters!LostPage
      BY <3>1, <3>2, <3>3 DEF SmartRecruiters!LostPage
    <3>5. SmartRecruiters!Report' = SmartRecruiters!Report
      BY <2>2, <3>1, <3>2, <3>3, <3>4 DEF SmartRecruiters!Report
    <3> QED  BY <3>4, <3>5
  <2>3. SmartRecruiters!Report # "none"
        => pc = "pre_failed" \/ \E d \in Callers : commit[d].outcome \notin {"none", "replay"}
    BY DEF SmartRecruiters!Report, SmartRecruiters!LostPage
  <2> HIDE DEF Same
  <2> QED  BY <2>1, <2>2, <2>3
<1>2. sent' # sent => Same
  BY DEF SRFinal, SmartRecruiters!Report, SmartRecruiters!LostPage
<1>3. Len(sent) \in {0, 1} /\ Len(sent)' \in {0, 1}  BY DEF SRInv, SRSent
<1>4. Len(sent) <= Len(sent)'  BY DEF SRInv, SRSent, SRFinal
<1>5. SmartRecruiters!LostPage \in BOOLEAN /\ SmartRecruiters!LostPage' \in BOOLEAN
  BY DEF SmartRecruiters!LostPage
<1>6. Len(sent)' # Len(sent) => sent' # sent /\ Len(sent)' = Len(sent) + 1
  <2> DEFINE n == Len(sent)  m == Len(sent)'
  <2>1. sent' = sent => m = n  OBVIOUS
  <2>2. n \in {0, 1} /\ m \in {0, 1} /\ n <= m  BY <1>3, <1>4
  <2> HIDE DEF n, m
  <2>3. m # n => m = n + 1  BY <2>2
  <2>4. m # n => sent' # sent /\ m = n + 1  BY <2>1, <2>3
  <2> QED  BY <2>4 DEF n, m
<1> QED  BY <1>1, <1>2, <1>5, <1>6 DEF Answered

----------------------------------------------------------------------------
(* Ashby.  The gate lets out what it was told to expect, and that is the   *)
(* submission of the plan; the release script submits it once, and any     *)
(* further one is the page's own.                                          *)

AshbyShape ==
    /\ CommitRows /\ RequestRows /\ posts \in Nat
    /\ \A c \in Callers : "captured" \in DOMAIN commit[c]
    /\ {"form", "blocked"} \subseteq DOMAIN plan
    /\ {"made", "claimed"} \subseteq DOMAIN prepared
    /\ "open" \in DOMAIN session
    /\ {"armed", "expected", "may_have_left"} \subseteq DOMAIN gate
AshbySent == sent \in Seq({Ashby!Reviewed(plan.form)})

AshbyBefore ==
    pc \notin {"ready", "released"} =>
        /\ sent = <<>> /\ ~prepared.made /\ ~prepared.claimed
        /\ \A c \in Callers : commit[c].pc = "idle" /\ commit[c].outcome = "none"
AshbyPlanned ==
    /\ Ashby!Preflighting \/ pc = "ready" => ~plan.blocked
    /\ session.open => pc # "released"
    /\ prepared.made <=> pc = "ready"
    /\ sent # <<>> => ~plan.blocked
AshbyGate ==
    /\ gate.expected \in {Ashby!NoPayload, Ashby!Reviewed(plan.form)}
    /\ gate.armed => prepared.claimed
    /\ gate.expected # Ashby!NoPayload => gate.armed
    /\ gate.may_have_left => sent # <<>>
    /\ \A r \in DOMAIN requests : requests[r].stage = "checked" => gate.expected # Ashby!NoPayload
AshbyCommits ==
    /\ OneEngaged
    /\ \A c \in Callers :
          /\ Engaged(c) => prepared.claimed
          /\ commit[c].pc \notin {"idle", "returned"} => pc = "ready"
          /\ commit[c].pc # "returned" => commit[c].outcome = "none"
          /\ commit[c].pc \in {"verify", "compare", "arm_compare", "arm_verify"} => ~gate.armed
          /\ commit[c].pc \in {"script", "capture", "submit", "status", "wait"} => gate.armed
          /\ commit[c].pc = "capture" => commit[c].captured = Ashby!Reviewed(plan.form)
          /\ commit[c].pc \in {"evidence", "reference"} => sent # <<>>
          /\ commit[c].outcome = "confirmed" => sent # <<>>
          /\ commit[c].outcome \in
                {"none", "replay", "withheld", "unknown", "already_applied", "confirmed"}
AshbyInv == AshbyShape /\ AshbySent /\ AshbyBefore /\ AshbyPlanned /\ AshbyGate /\ AshbyCommits

\* A call that may have run the submit of its release script.
AshbySubmits(c) == \/ commit[c].pc \in {"wait", "evidence", "reference"}
                   \/ commit[c].outcome \in {"unknown", "already_applied", "confirmed"}
AshbySubmitted == \E c \in Callers : AshbySubmits(c)
AshbyWithin == Within(requests, Len(sent), posts, AshbySubmitted)

LEMMA AshbyStart == Ashby!Init => AshbyInv
  BY DEF Ashby!Init, Ashby!PageInit, Ashby!NoRequest, AshbyInv, AshbyShape, CommitRows, RequestRows, AshbySent, AshbyBefore,
         AshbyPlanned, AshbyGate, AshbyCommits, OneEngaged, Engaged,
         Ashby!NoPlan, Ashby!NoSession, Ashby!NoGate, Ashby!NoPrepared, Ashby!NoCommit,
         Ashby!Preflighting

LEMMA AshbyInspection == AshbyInv /\ Ashby!Inspection => AshbyInv'
<1> SUFFICES ASSUME AshbyInv, Ashby!Inspection PROVE AshbyInv'
  OBVIOUS
<1> USE DEF AshbyInv, AshbyShape, CommitRows, RequestRows, AshbySent, AshbyBefore,
         AshbyPlanned, AshbyGate, AshbyCommits, OneEngaged, Engaged,
         Ashby!NoSession, Ashby!Inspecting, Ashby!Preflighting, Ashby!navigate, Ashby!close,
         Ashby!pageVars
<1>1. CASE Ashby!InspectBegin  BY <1>1 DEF Ashby!InspectBegin
<1>2. CASE Ashby!InspectAbandon  BY <1>2 DEF Ashby!InspectAbandon
<1>3. CASE Ashby!InspectOpen  BY <1>3 DEF Ashby!InspectOpen
<1>4. CASE Ashby!InspectPass  BY <1>4 DEF Ashby!InspectPass
<1>5. CASE Ashby!InspectAttach  BY <1>5 DEF Ashby!InspectAttach, Ashby!ensure_resume_attachment
<1>6. CASE Ashby!InspectAnswer
  <2>1. CASE pc' = "inspect_fill" /\ UNCHANGED <<plan, session>>
    BY <1>6, <2>1 DEF Ashby!InspectAnswer
  <2>2. CASE Ashby!PlanMade(<<plan.known, "none">>, TRUE)
    BY <1>6, <2>2 DEF Ashby!InspectAnswer, Ashby!PlanMade
  <2> QED  BY <1>6, <2>1, <2>2 DEF Ashby!InspectAnswer
<1>7. CASE Ashby!InspectFill  BY <1>7 DEF Ashby!InspectFill
<1>8. CASE Ashby!InspectSettled  BY <1>8 DEF Ashby!InspectSettled, Ashby!PlanMade
<1> QED  BY <1>1, <1>2, <1>3, <1>4, <1>5, <1>6, <1>7, <1>8 DEF Ashby!Inspection

LEMMA AshbyPreflight == AshbyInv /\ Ashby!Preflight => AshbyInv'
<1> SUFFICES ASSUME AshbyInv, Ashby!Preflight PROVE AshbyInv'
  OBVIOUS
<1> USE DEF AshbyInv, AshbyShape, CommitRows, RequestRows, AshbySent, AshbyBefore,
         AshbyPlanned, AshbyGate, AshbyCommits, OneEngaged, Engaged,
         Ashby!NoSession, Ashby!Inspecting, Ashby!Preflighting, Ashby!navigate, Ashby!close,
         Ashby!pageVars, Ashby!PreflightReturns, Ashby!PreflightFrame, Ashby!PreflightStep
<1>1. CASE Ashby!PreflightBegin  BY <1>1 DEF Ashby!PreflightBegin
<1>2. CASE Ashby!PreflightRefuse  BY <1>2 DEF Ashby!PreflightRefuse
<1>3. CASE Ashby!PreflightAlready  BY <1>3 DEF Ashby!PreflightAlready
<1>4. CASE Ashby!PreflightOpen  BY <1>4 DEF Ashby!PreflightOpen
<1>5. CASE Ashby!PreflightLoad  BY <1>5 DEF Ashby!PreflightLoad
<1>6. CASE Ashby!PreflightAttach  BY <1>6 DEF Ashby!PreflightAttach, Ashby!ensure_resume_attachment
<1>7. CASE Ashby!PreflightFill  BY <1>7 DEF Ashby!PreflightFill
<1>8. CASE Ashby!PreflightFilled  BY <1>8 DEF Ashby!PreflightFilled
<1>9. CASE Ashby!PreflightVerify  BY <1>9 DEF Ashby!PreflightVerify
<1> QED  BY <1>1, <1>2, <1>3, <1>4, <1>5, <1>6, <1>7, <1>8, <1>9 DEF Ashby!Preflight

LEMMA AshbyCommitStep == AshbyInv /\ (\E c \in Callers : Ashby!CommitStep(c)) => AshbyInv'
<1> SUFFICES ASSUME AshbyInv, NEW c \in Callers, Ashby!CommitStep(c) PROVE AshbyInv'
  OBVIOUS
<1> USE DEF AshbyInv, AshbyShape, CommitRows, RequestRows, AshbySent, AshbyBefore,
         AshbyPlanned, AshbyGate, AshbyCommits, OneEngaged, Engaged,
         Ashby!Preflighting, Ashby!pageVars, Ashby!Returns, Ashby!Goes, Ashby!CommitFrame
<1>1. CASE Ashby!CommitClaim(c)  BY <1>1 DEF Ashby!CommitClaim
<1>2. CASE Ashby!CommitVerify(c)  BY <1>2, SMTT(60) DEF Ashby!CommitVerify
<1>3. CASE Ashby!CommitCompare(c)  BY <1>3 DEF Ashby!CommitCompare
<1>4. CASE Ashby!ArmCompare(c)
  <2>1. /\ commit[c].pc = "arm_compare"
        /\ \/ commit' = [commit EXCEPT ![c].pc = "arm_verify"]
           \/ \E o \in {"withheld", "unknown"} :
                 commit' = [commit EXCEPT ![c].pc = "returned", ![c].outcome = o]
        /\ UNCHANGED <<requests, sent, posts, gate, prepared, plan, pc>>
    BY <1>4 DEF Ashby!ArmCompare
  <2>2. "open" \in DOMAIN session' /\ session'.open = session.open
    BY <1>4 DEF Ashby!ArmCompare
  <2>3. CASE commit' = [commit EXCEPT ![c].pc = "arm_verify"]
    BY <2>1, <2>2, <2>3
  <2>4. ASSUME NEW o \in {"withheld", "unknown"},
               commit' = [commit EXCEPT ![c].pc = "returned", ![c].outcome = o]
        PROVE  AshbyInv'
    <3>1. AshbyShape' /\ AshbySent' /\ AshbyBefore' /\ AshbyPlanned' /\ AshbyGate'
      BY <2>1, <2>2, <2>4
    <3>2. AshbyCommits'  BY <2>1, <2>2, <2>4
    <3> QED  BY <3>1, <3>2
  <2> QED  BY <2>1, <2>3, <2>4
<1>5. CASE Ashby!ArmGate(c)  BY <1>5 DEF Ashby!ArmGate, Ashby!NoGate
<1>6. CASE Ashby!ScriptHash(c)  BY <1>6 DEF Ashby!ScriptHash, Ashby!answers_bound
<1>7. CASE Ashby!ScriptCapture(c)  BY <1>7 DEF Ashby!ScriptCapture
<1>8. CASE Ashby!ScriptSubmit(c)  BY <1>8 DEF Ashby!ScriptSubmit, Ashby!Issue
<1>9. CASE Ashby!ScriptLost(c)  BY <1>9 DEF Ashby!ScriptLost
<1>10. CASE Ashby!CommitStatus(c)  BY <1>10 DEF Ashby!CommitStatus
<1>11. CASE Ashby!CommitWait(c)  BY <1>11 DEF Ashby!CommitWait
<1>12. CASE Ashby!EvidenceSnapshot(c)  BY <1>12 DEF Ashby!EvidenceSnapshot
<1>13. CASE Ashby!EvidenceReference(c)  BY <1>13 DEF Ashby!EvidenceReference
<1> QED  BY <1>1, <1>2, <1>3, <1>4, <1>5, <1>6, <1>7, <1>8, <1>9, <1>10, <1>11, <1>12, <1>13 DEF Ashby!CommitStep

LEMMA AshbyGuard == AshbyInv /\ Ashby!Guard => AshbyInv'
<1> SUFFICES ASSUME AshbyInv, NEW r \in DOMAIN requests, Ashby!GuardEnter(r) \/ Ashby!GuardPayload(r)
             PROVE AshbyInv'
  BY DEF Ashby!Guard
<1> USE DEF AshbyInv, AshbyShape, CommitRows, RequestRows, AshbySent, AshbyBefore,
         AshbyPlanned, AshbyGate, AshbyCommits, OneEngaged, Engaged,
         Ashby!Preflighting, Ashby!Moved, Ashby!Abort, Ashby!Release, Ashby!Refuse
<1>1. CASE Ashby!GuardEnter(r)
  <2>0. /\ requests[r].stage = "new"
        /\ UNCHANGED <<posts, plan, session, pc, prepared, commit, sent>>
    BY <1>1 DEF Ashby!GuardEnter
  <2>1. \E s \in {"aborted", "checked"} :
           /\ requests' = [requests EXCEPT ![r].stage = s]
           /\ s = "checked" => gate.expected # Ashby!NoPayload /\ UNCHANGED gate
    BY <1>1 DEF Ashby!GuardEnter
  <2>2. /\ {"armed", "expected", "may_have_left"} \subseteq DOMAIN gate'
        /\ gate'.armed = gate.armed /\ gate'.expected = gate.expected
        /\ gate'.may_have_left = gate.may_have_left
    BY <1>1 DEF Ashby!GuardEnter
  <2> QED  BY <2>0, <2>1, <2>2
<1>2. CASE Ashby!GuardPayload(r)
  <2>0. requests[r].stage = "checked" /\ UNCHANGED <<posts, plan, session, pc, prepared, commit>>
    BY <1>2 DEF Ashby!GuardPayload
  <2>1. CASE session.open /\ requests[r].payload = gate.expected
    <3>1. /\ requests' = [requests EXCEPT ![r].stage = "released"]
          /\ sent' = Append(sent, Ashby!Reviewed(plan.form))
          /\ gate' = [gate EXCEPT !.may_have_left = TRUE, !.event = TRUE]
      BY <1>2, <2>0, <2>1 DEF Ashby!GuardPayload, Ashby!payload_commitment
    <3>2. sent' \in Seq({Ashby!Reviewed(plan.form)}) /\ sent' # <<>>
      BY <3>1, AppendProperties
    <3>3. pc = "ready"  BY <2>0, <2>1
    <3>4. AshbyShape' /\ AshbySent' /\ AshbyBefore' /\ AshbyPlanned' /\ AshbyGate'
      BY <2>0, <3>1, <3>2, <3>3
    <3>5. AshbyCommits'  BY <2>0, <3>1, <3>2
    <3> QED  BY <3>4, <3>5
  <2>2. CASE ~(session.open /\ requests[r].payload = gate.expected)
    <3>1. /\ requests' = [requests EXCEPT ![r].stage = "aborted"]
          /\ UNCHANGED sent
          /\ {"armed", "expected", "may_have_left"} \subseteq DOMAIN gate'
          /\ gate'.armed = gate.armed /\ gate'.expected = gate.expected
          /\ gate'.may_have_left = gate.may_have_left
      BY <1>2, <2>2 DEF Ashby!GuardPayload, Ashby!payload_commitment
    <3> QED  BY <2>0, <3>1
  <2> QED  BY <2>1, <2>2
<1> QED  BY <1>1, <1>2

LEMMA AshbyStep == AshbyInv /\ [Ashby!Next]_(Ashby!vars) => AshbyInv'
<1> SUFFICES ASSUME AshbyInv, [Ashby!Next]_(Ashby!vars) PROVE AshbyInv'
  OBVIOUS
<1> USE DEF AshbyInv, AshbyShape, CommitRows, RequestRows, AshbySent, AshbyBefore,
         AshbyPlanned, AshbyGate, AshbyCommits, OneEngaged, Engaged,
         Ashby!Preflighting, Ashby!close, Ashby!NoSession, Ashby!pageVars
<1>1. CASE Ashby!CleanupPreflight  BY <1>1 DEF Ashby!CleanupPreflight
<1>2. CASE Ashby!CleanupPrepared  BY <1>2 DEF Ashby!CleanupPrepared
<1>3. CASE Ashby!PageStep  BY <1>3 DEF Ashby!PageStep, Ashby!PageChange, Ashby!PagePosts, Ashby!Issue
<1>4. CASE Ashby!Expire  BY <1>4 DEF Ashby!Expire
<1>5. CASE UNCHANGED Ashby!vars  BY <1>5 DEF Ashby!vars
<1> QED
  BY <1>1, <1>2, <1>3, <1>4, <1>5, AshbyInspection, AshbyPreflight, AshbyCommitStep, AshbyGuard
  DEF Ashby!Next, Ashby!AdapterStep

LEMMA AshbyWithinStart == Ashby!Init => AshbyWithin
<1> SUFFICES ASSUME Ashby!Init PROVE AshbyWithin
  OBVIOUS
<1>1. Waiting(requests) = {}
  BY DEF Ashby!Init, Ashby!PageInit, Ashby!NoRequest, Waiting
<1>2. IsFiniteSet({}) /\ Cardinality({}) = 0  BY FS_EmptySet
<1>3. sent = <<>> /\ posts = 0  BY DEF Ashby!Init, Ashby!PageInit
<1> QED  BY <1>1, <1>2, <1>3 DEF AshbyWithin, Within

LEMMA AshbyTurn ==
    ASSUME AshbyInv, [Ashby!Next]_(Ashby!vars)
    PROVE  Turn(requests, Len(sent), posts, AshbySubmitted,
                requests', Len(sent)', posts', AshbySubmitted')
<1> DEFINE Still == UNCHANGED <<requests, sent, posts>>
<1>1. CASE Ashby!Inspection
  <2>1. Still /\ UNCHANGED commit
    BY <1>1 DEF Ashby!Inspection, Ashby!InspectBegin, Ashby!InspectAbandon, Ashby!InspectOpen,
       Ashby!InspectPass, Ashby!InspectAttach, Ashby!InspectAnswer, Ashby!InspectFill,
       Ashby!InspectSettled, Ashby!pageVars
  <2> QED  BY <2>1 DEF Turn, AshbySubmitted, AshbySubmits
<1>2. CASE Ashby!Preflight
  <2>1. Still /\ UNCHANGED commit
    BY <1>2 DEF Ashby!Preflight, Ashby!PreflightBegin, Ashby!PreflightRefuse, Ashby!PreflightAlready,
       Ashby!PreflightOpen, Ashby!PreflightLoad, Ashby!PreflightAttach, Ashby!PreflightFill,
       Ashby!PreflightFilled, Ashby!PreflightVerify, Ashby!PreflightStep, Ashby!PreflightFrame,
       Ashby!pageVars
  <2> QED  BY <2>1 DEF Turn, AshbySubmitted, AshbySubmits
<1>3. ASSUME NEW c \in Callers, Ashby!CommitStep(c)
      PROVE  Turn(requests, Len(sent), posts, AshbySubmitted,
                  requests', Len(sent)', posts', AshbySubmitted')
  <2> USE DEF Ashby!CommitStep, Ashby!CommitClaim, Ashby!CommitVerify, Ashby!CommitCompare,
       Ashby!ArmCompare, Ashby!ArmGate, Ashby!ScriptHash, Ashby!ScriptCapture,
       Ashby!ScriptLost, Ashby!CommitStatus, Ashby!CommitWait, Ashby!EvidenceSnapshot,
       Ashby!EvidenceReference, Ashby!CommitFrame, Ashby!pageVars
  <2>1. \A d \in Callers : d # c => commit'[d] = commit[d]
    BY <1>3 DEF Ashby!Returns, Ashby!Goes, AshbyInv, AshbyShape, CommitRows, Ashby!ScriptSubmit
  <2>2. AshbySubmits(c) => AshbySubmits(c)'
    BY <1>3 DEF AshbySubmits, Ashby!Returns, Ashby!Goes, AshbyInv, AshbyShape, AshbyCommits,
       CommitRows, Ashby!ScriptSubmit
  <2>3. AshbySubmitted => AshbySubmitted'  BY <2>1, <2>2 DEF AshbySubmitted, AshbySubmits
  <2>4. CASE Ashby!ScriptSubmit(c) /\ Ashby!Issue(TRUE) /\ Ashby!Goes(c, "wait")
    <3>1. commit[c].pc = "submit" /\ UNCHANGED <<sent, posts>>
      BY <2>4 DEF Ashby!ScriptSubmit
    <3>2. ~AshbySubmitted
      BY <3>1 DEF AshbySubmitted, AshbySubmits, AshbyInv, AshbyShape, AshbyCommits, CommitRows,
         OneEngaged, Engaged
    <3>3. AshbySubmitted'
      BY <2>4 DEF AshbySubmitted, AshbySubmits, Ashby!Goes, AshbyInv, AshbyShape, CommitRows
    <3>4. PICK r \in DOMAIN requests :
             requests[r].stage = "none" /\ Others(requests, requests', r) /\ requests'[r].stage = "new"
      BY <2>4 DEF Ashby!Issue, Others, AshbyInv, AshbyShape, RequestRows
    <3> QED  BY <2>3, <3>1, <3>2, <3>3, <3>4 DEF Turn
  <2>5. CASE Still  BY <2>3, <2>5 DEF Turn
  <2>6. Ashby!ScriptSubmit(c) => Still \/ (Ashby!Issue(TRUE) /\ Ashby!Goes(c, "wait"))
    BY DEF Ashby!ScriptSubmit
  <2>7. Ashby!ScriptSubmit(c) \/ Still  BY <1>3
  <2> QED  BY <2>4, <2>5, <2>6, <2>7
<1>4. CASE Ashby!Guard
  <2>1. PICK r \in DOMAIN requests : Ashby!GuardEnter(r) \/ Ashby!GuardPayload(r)
    BY <1>4 DEF Ashby!Guard
  <2>2. UNCHANGED <<posts, commit>>  BY <2>1 DEF Ashby!GuardEnter, Ashby!GuardPayload
  <2>3. AshbySubmitted => AshbySubmitted'  BY <2>2 DEF AshbySubmitted, AshbySubmits
  <2>4. \/ /\ requests[r].stage = "new" /\ requests' = [requests EXCEPT ![r].stage = "checked"]
           /\ UNCHANGED sent
        \/ /\ requests[r].stage \in {"new", "checked"} /\ UNCHANGED sent
           /\ requests' = [requests EXCEPT ![r].stage = "aborted"]
        \/ /\ requests[r].stage = "checked" /\ sent' = Append(sent, requests[r].payload)
           /\ requests' = [requests EXCEPT ![r].stage = "released"]
    BY <2>1 DEF Ashby!GuardEnter, Ashby!GuardPayload, Ashby!Refuse, Ashby!Abort, Ashby!Moved,
       Ashby!Release
  <2>5. Others(requests, requests', r)  BY <2>4 DEF Others
  <2>6. sent' = Append(sent, requests[r].payload) => Len(sent)' = Len(sent) + 1
    BY AppendGrows DEF AshbyInv, AshbySent
  <2>7. \A s : requests' = [requests EXCEPT ![r].stage = s] => requests'[r].stage = s
    BY DEF AshbyInv, AshbyShape, RequestRows
  <2> QED  BY <2>2, <2>3, <2>4, <2>5, <2>6, <2>7 DEF Turn
<1>5. CASE Ashby!PageStep
  <2>1. UNCHANGED <<commit, sent>>
    BY <1>5 DEF Ashby!PageStep, Ashby!PageChange, Ashby!PagePosts
  <2>2. AshbySubmitted => AshbySubmitted'  BY <2>1 DEF AshbySubmitted, AshbySubmits
  <2>3. CASE Still  BY <2>2, <2>3 DEF Turn
  <2>4. ASSUME NEW native \in BOOLEAN, Ashby!Issue(native), posts' = posts + 1
        PROVE  Turn(requests, Len(sent), posts, AshbySubmitted,
                    requests', Len(sent)', posts', AshbySubmitted')
    <3>1. PICK r \in DOMAIN requests :
             requests[r].stage = "none" /\ Others(requests, requests', r) /\ requests'[r].stage = "new"
      BY <2>4 DEF Ashby!Issue, Others, AshbyInv, AshbyShape, RequestRows
    <3> QED  BY <2>1, <2>2, <2>4, <3>1 DEF Turn
  <2> QED  BY <1>5, <2>3, <2>4 DEF Ashby!PageStep, Ashby!PageChange, Ashby!PagePosts
<1>6. CASE Ashby!CleanupPreflight \/ Ashby!CleanupPrepared \/ Ashby!Expire \/ UNCHANGED Ashby!vars
  <2>1. Still /\ UNCHANGED commit
    BY <1>6 DEF Ashby!CleanupPreflight, Ashby!CleanupPrepared, Ashby!Expire, Ashby!vars,
       Ashby!pageVars
  <2> QED  BY <2>1 DEF Turn, AshbySubmitted, AshbySubmits
<1> QED  BY <1>1, <1>2, <1>3, <1>4, <1>5, <1>6 DEF Ashby!Next, Ashby!AdapterStep

LEMMA AshbyWithinKeeps == AshbyInv /\ AshbyWithin /\ [Ashby!Next]_(Ashby!vars) => AshbyWithin'
  BY AshbyTurn, WithinKeeps DEF AshbyWithin

AshbyFinal ==
    /\ \A d \in Callers : commit[d].pc = "returned" => commit'[d] = commit[d]
    /\ pc = "pre_failed" => UNCHANGED <<pc, reason>>
    /\ sent' # sent => Len(sent)' = Len(sent) + 1 /\ UNCHANGED <<posts, pc, reason, commit>>
    /\ posts' # posts => posts' = posts + 1 /\ UNCHANGED <<sent, pc, reason, commit>>

LEMMA AshbyReturns == AshbyShape /\ AshbySent /\ [Ashby!Next]_(Ashby!vars) => AshbyFinal
<1> SUFFICES ASSUME AshbyShape, AshbySent, [Ashby!Next]_(Ashby!vars) PROVE AshbyFinal
  OBVIOUS
<1> USE DEF AshbyFinal, Ashby!pageVars
<1>1. CASE Ashby!Inspection
  BY <1>1 DEF Ashby!Inspection, Ashby!InspectBegin, Ashby!InspectAbandon, Ashby!InspectOpen,
     Ashby!InspectPass, Ashby!InspectAttach, Ashby!InspectAnswer, Ashby!InspectFill,
     Ashby!InspectSettled, Ashby!Inspecting
<1>2. CASE Ashby!Preflight
  BY <1>2 DEF Ashby!Preflight, Ashby!PreflightBegin, Ashby!PreflightRefuse, Ashby!PreflightAlready,
     Ashby!PreflightOpen, Ashby!PreflightLoad, Ashby!PreflightAttach, Ashby!PreflightFill,
     Ashby!PreflightFilled, Ashby!PreflightVerify, Ashby!PreflightStep, Ashby!PreflightFrame,
     Ashby!Preflighting
<1>3. ASSUME NEW c \in Callers, Ashby!CommitStep(c) PROVE AshbyFinal
  <2>1. UNCHANGED <<sent, posts, pc, reason>>
    BY <1>3 DEF Ashby!CommitStep, Ashby!CommitClaim, Ashby!CommitVerify, Ashby!CommitCompare,
       Ashby!ArmCompare, Ashby!ArmGate, Ashby!ScriptHash, Ashby!ScriptCapture, Ashby!ScriptSubmit,
       Ashby!ScriptLost, Ashby!CommitStatus, Ashby!CommitWait, Ashby!EvidenceSnapshot,
       Ashby!EvidenceReference, Ashby!CommitFrame
  <2>2. commit[c].pc # "returned"
    BY <1>3 DEF Ashby!CommitStep, Ashby!CommitClaim, Ashby!CommitVerify, Ashby!CommitCompare,
       Ashby!ArmCompare, Ashby!ArmGate, Ashby!ScriptHash, Ashby!ScriptCapture, Ashby!ScriptSubmit,
       Ashby!ScriptLost, Ashby!CommitStatus, Ashby!CommitWait, Ashby!EvidenceSnapshot,
       Ashby!EvidenceReference
  <2>3. \A d \in Callers : d # c => commit'[d] = commit[d]
    BY <1>3 DEF Ashby!CommitStep, Ashby!CommitClaim, Ashby!CommitVerify, Ashby!CommitCompare,
       Ashby!ArmCompare, Ashby!ArmGate, Ashby!ScriptHash, Ashby!ScriptCapture, Ashby!ScriptSubmit,
       Ashby!ScriptLost, Ashby!CommitStatus, Ashby!CommitWait, Ashby!EvidenceSnapshot,
       Ashby!EvidenceReference, Ashby!Returns, Ashby!Goes, AshbyShape, CommitRows
  <2> QED  BY <2>1, <2>2, <2>3
<1>4. CASE Ashby!Guard
  <2>1. UNCHANGED <<posts, pc, reason, commit>>
    BY <1>4 DEF Ashby!Guard, Ashby!GuardEnter, Ashby!GuardPayload
  <2>2. sent' # sent => \E x : sent' = Append(sent, x)
    BY <1>4 DEF Ashby!Guard, Ashby!GuardEnter, Ashby!GuardPayload, Ashby!Refuse, Ashby!Abort,
       Ashby!Release
  <2> QED  BY <2>1, <2>2, AppendGrows DEF AshbySent
<1>5. CASE Ashby!CleanupPreflight \/ Ashby!CleanupPrepared \/ Ashby!PageStep \/ Ashby!Expire
           \/ UNCHANGED Ashby!vars
  BY <1>5 DEF Ashby!CleanupPreflight, Ashby!CleanupPrepared, Ashby!PageStep, Ashby!PageChange,
     Ashby!PagePosts, Ashby!Expire, Ashby!vars
<1> QED  BY <1>1, <1>2, <1>3, <1>4, <1>5 DEF Ashby!Next, Ashby!AdapterStep

LEMMA AshbySends == AshbyInv => Ashby!SendsReviewed
  BY DEF AshbyInv, AshbySent, AshbyPlanned, Ashby!SendsReviewed

LEMMA AshbyHonest == AshbyInv /\ AshbyWithin => Honest(Len(sent), posts, FALSE, Ashby!Report)
<1> SUFFICES ASSUME AshbyInv, AshbyWithin PROVE Honest(Len(sent), posts, FALSE, Ashby!Report)
  OBVIOUS
<1>1. /\ Len(sent) \in Nat /\ posts \in Nat /\ Len(sent) <= posts + 1
      /\ ~AshbySubmitted => Len(sent) <= posts
  BY WithinCounts DEF AshbyWithin, Within
<1>2. Ashby!Report \in {"none", "not_sent", "unclear", "confirmed"}  BY DEF Ashby!Report
<1>3. Ashby!Report = "not_sent" => ~AshbySubmitted
  <2>1. CASE pc = "pre_failed"
    BY <2>1 DEF AshbyInv, AshbyBefore, AshbySubmitted, AshbySubmits
  <2>2. ASSUME NEW d \in Callers, commit[d].outcome = "withheld" PROVE ~AshbySubmitted
    BY <2>2 DEF AshbySubmitted, AshbySubmits, AshbyInv, AshbyShape, AshbyCommits, CommitRows,
       OneEngaged, Engaged
  <2> QED  BY <2>1, <2>2 DEF Ashby!Report
<1>4. Ashby!Report = "confirmed" => sent # <<>>
  BY DEF Ashby!Report, AshbyInv, AshbyCommits
<1>5. sent # <<>> => Len(sent) >= 1  BY <1>1, EmptySeq DEF AshbyInv, AshbySent
<1> QED  BY <1>1, <1>2, <1>3, <1>4, <1>5 DEF Honest

LEMMA AshbyAnswers ==
    ASSUME AshbyInv, AshbyInv', AshbyFinal
    PROVE  Answered(Len(sent), posts, FALSE, Ashby!Report,
                    Len(sent)', posts', FALSE, Ashby!Report')
<1>1. Ashby!Report # "none" => Ashby!Report' = Ashby!Report
  <2>1. CASE pc = "pre_failed"  BY <2>1 DEF AshbyFinal, Ashby!Report
  <2>2. ASSUME NEW d \in Callers, commit[d].outcome \notin {"none", "replay"}, pc # "pre_failed"
        PROVE  Ashby!Report' = Ashby!Report
    <3>1. commit'[d] = commit[d] /\ Engaged(d) /\ Engaged(d)' /\ pc' # "pre_failed"
      BY <2>2 DEF AshbyFinal, AshbyInv, AshbyCommits, AshbyBefore, Engaged, AshbyShape, CommitRows
    <3>2. \A c \in Callers : commit[c].outcome \notin {"none", "replay"} => c = d
      BY <2>2, <3>1 DEF AshbyInv, AshbyCommits, OneEngaged, Engaged, AshbyShape, CommitRows
    <3>3. \A c \in Callers : commit'[c].outcome \notin {"none", "replay"} => c = d
      BY <2>2, <3>1 DEF AshbyInv, AshbyCommits, OneEngaged, Engaged, AshbyShape, CommitRows
    <3> QED  BY <2>2, <3>1, <3>2, <3>3 DEF Ashby!Report
  <2> QED  BY <2>1, <2>2 DEF Ashby!Report
<1>2. sent' # sent \/ posts' # posts => Ashby!Report' = Ashby!Report
  BY DEF AshbyFinal, Ashby!Report
<1> QED  BY <1>1, <1>2 DEF Answered, AshbyFinal

----------------------------------------------------------------------------
(* Workday.  Its one call arms its gate once, with what the capture script *)
(* found to be the plan's submission; the gate lets it out once.           *)

WorkdayShape ==
    /\ RequestRows /\ posts \in Nat
    /\ DOMAIN commit = {TheWorker} /\ {"pc", "captured", "outcome"} \subseteq DOMAIN commit[TheWorker]
    /\ DOMAIN gates = {TheWorker}
    /\ {"expected", "completed", "rejected", "sent"} \subseteq DOMAIN gates[TheWorker]
    /\ DOMAIN seenGate = DOMAIN requests
    /\ {"steps", "last", "action", "blocked"} \subseteq DOMAIN plan
    /\ {"made", "clicked"} \subseteq DOMAIN prepared
    /\ {"steps", "attached"} \subseteq DOMAIN walk
    /\ "open" \in DOMAIN session
WorkdaySent == sent \in {<<>>, <<Workday!PlannedPayload>>}

WorkdayBefore ==
    pc \notin {"ready", "released"} =>
        /\ ~prepared.made /\ ~prepared.clicked
        /\ commit[TheWorker].pc = "idle"
WorkdayPlanned ==
    /\ Workday!Preflighting \/ pc = "ready" => ~plan.blocked
    /\ session.open => pc # "released"
    /\ prepared.made <=> pc = "ready"
    /\ pc \in {"pre_verify", "ready", "released"} => walk.steps = plan.steps
    /\ sent # <<>> => ~plan.blocked
WorkdayGate ==
    /\ current \subseteq {TheWorker}
    /\ \A r \in DOMAIN requests : seenGate[r] \subseteq current
    /\ current # {} => gates[TheWorker].expected = Workday!PlannedPayload
    /\ gates[TheWorker].completed => current # {}
    /\ gates[TheWorker].completed <=> gates[TheWorker].rejected \/ gates[TheWorker].sent
    /\ ~(gates[TheWorker].rejected /\ gates[TheWorker].sent)
    /\ gates[TheWorker].sent <=> sent # <<>>
WorkdayCommit ==
    /\ commit[TheWorker].pc \notin {"idle", "returned"} => pc = "ready"
    /\ commit[TheWorker].pc # "returned" => commit[TheWorker].outcome = "none"
    /\ commit[TheWorker].pc \in {"idle", "verify", "compare", "arm_compare", "arm_verify", "capture",
                                 "arm"} => current = {}
    /\ commit[TheWorker].pc = "arm" => commit[TheWorker].captured = Workday!PlannedPayload
    /\ commit[TheWorker].pc \in {"evidence", "reference"} => sent # <<>>
    /\ commit[TheWorker].outcome = "confirmed" => sent # <<>>
    /\ commit[TheWorker].outcome \in
          {"none", "replay", "withheld", "unknown", "already_applied", "confirmed"}
WorkdayQuiet ==
    posts = 0 =>
        /\ commit[TheWorker].pc \notin {"wait", "evidence", "reference", "returned"} =>
              \A r \in DOMAIN requests : requests[r].stage = "none"
        /\ sent # <<>> => \E r \in DOMAIN requests : requests[r].stage = "released"
        /\ commit[TheWorker].outcome = "withheld" =>
              sent = <<>> /\ (current = {} \/ gates[TheWorker].rejected)
WorkdayInv == WorkdayShape /\ WorkdaySent /\ WorkdayBefore /\ WorkdayPlanned /\ WorkdayGate
              /\ WorkdayCommit /\ WorkdayQuiet

LEMMA WorkdayStart == Workday!Init => WorkdayInv
  BY DEF Workday!Init, Workday!PageInit, Workday!NoRequest, WorkdayInv, WorkdayShape, RequestRows, WorkdaySent, WorkdayBefore, WorkdayPlanned,
         WorkdayGate, WorkdayCommit, WorkdayQuiet, Workday!PlannedPayload,
         Workday!NoPlan, Workday!NoWalk, Workday!NoSession, Workday!NoGate, Workday!NoPrepared,
         Workday!NoCommit, Workday!Preflighting

LEMMA WorkdayInspection == WorkdayInv /\ Workday!Inspection => WorkdayInv'
<1> SUFFICES ASSUME WorkdayInv, Workday!Inspection PROVE WorkdayInv'
  OBVIOUS
<1> USE DEF WorkdayInv, WorkdayShape, RequestRows, WorkdaySent, WorkdayBefore, WorkdayPlanned,
         WorkdayGate, WorkdayCommit, WorkdayQuiet, Workday!PlannedPayload,
         Workday!NoSession, Workday!Inspecting, Workday!Preflighting, Workday!navigate, Workday!close,
         Workday!NoWalk, Workday!pageVars, Workday!gateVars
<1>1. CASE Workday!InspectBegin  BY <1>1 DEF Workday!InspectBegin
<1>2. CASE Workday!InspectAbandon  BY <1>2 DEF Workday!InspectAbandon
<1>3. CASE Workday!InspectOpen  BY <1>3 DEF Workday!InspectOpen
<1>4. CASE Workday!InspectStep  BY <1>4 DEF Workday!InspectStep
<1>5. CASE Workday!InspectAttach  BY <1>5 DEF Workday!InspectAttach, Workday!ensure_resume_attachment
<1>6. CASE Workday!InspectAnswer  BY <1>6 DEF Workday!InspectAnswer, Workday!PlanMade
<1>7. CASE Workday!InspectFill  BY <1>7 DEF Workday!InspectFill
<1>8. CASE Workday!InspectReview  BY <1>8 DEF Workday!InspectReview
<1>9. CASE Workday!InspectComplete  BY <1>9 DEF Workday!InspectComplete, Workday!PlanMade
<1> QED  BY <1>1, <1>2, <1>3, <1>4, <1>5, <1>6, <1>7, <1>8, <1>9 DEF Workday!Inspection

LEMMA WorkdayPreflight == WorkdayInv /\ Workday!Preflight => WorkdayInv'
<1> SUFFICES ASSUME WorkdayInv, Workday!Preflight PROVE WorkdayInv'
  OBVIOUS
<1> USE DEF WorkdayInv, WorkdayShape, RequestRows, WorkdaySent, WorkdayBefore, WorkdayPlanned,
         WorkdayGate, WorkdayCommit, WorkdayQuiet, Workday!PlannedPayload,
         Workday!NoSession, Workday!Inspecting, Workday!Preflighting, Workday!navigate, Workday!close,
         Workday!NoWalk, Workday!pageVars, Workday!gateVars, Workday!PreflightReturns, Workday!PreflightFrame,
         Workday!PreflightGoes
<1>1. CASE Workday!PreflightBegin  BY <1>1 DEF Workday!PreflightBegin
<1>2. CASE Workday!PreflightRefuse  BY <1>2 DEF Workday!PreflightRefuse
<1>3. CASE Workday!PreflightAlready  BY <1>3 DEF Workday!PreflightAlready
<1>4. CASE Workday!PreflightOpen  BY <1>4 DEF Workday!PreflightOpen
<1>5. CASE Workday!PreflightStep  BY <1>5 DEF Workday!PreflightStep
<1>6. CASE Workday!PreflightAttach  BY <1>6 DEF Workday!PreflightAttach, Workday!ensure_resume_attachment
<1>7. CASE Workday!PreflightFill  BY <1>7 DEF Workday!PreflightFill
<1>8. CASE Workday!PreflightReview  BY <1>8 DEF Workday!PreflightReview, Workday!form_fingerprint
<1>9. CASE Workday!PreflightVerify  BY <1>9 DEF Workday!PreflightVerify
<1> QED  BY <1>1, <1>2, <1>3, <1>4, <1>5, <1>6, <1>7, <1>8, <1>9 DEF Workday!Preflight

LEMMA WorkdayCommitStep == WorkdayInv /\ Workday!CommitStep(TheWorker) => WorkdayInv'
<1> SUFFICES ASSUME WorkdayInv, Workday!CommitStep(TheWorker) PROVE WorkdayInv'
  OBVIOUS
<1> USE DEF WorkdayInv, WorkdayShape, RequestRows, WorkdaySent, WorkdayBefore, WorkdayPlanned,
         WorkdayGate, WorkdayCommit, WorkdayQuiet, Workday!PlannedPayload,
         Workday!Preflighting, Workday!pageVars, Workday!gateVars, Workday!Returns, Workday!Goes,
         Workday!CommitFrame
<1>1. CASE Workday!CommitBegin(TheWorker)  BY <1>1 DEF Workday!CommitBegin
<1>2. CASE Workday!CommitVerify(TheWorker)  BY <1>2 DEF Workday!CommitVerify
<1>3. CASE Workday!CommitCompare(TheWorker)  BY <1>3 DEF Workday!CommitCompare
<1>4. CASE Workday!ArmCompare(TheWorker)  BY <1>4 DEF Workday!ArmCompare
<1>5. CASE Workday!ArmVerify(TheWorker)  BY <1>5 DEF Workday!ArmVerify
<1>6. CASE Workday!ArmCapture(TheWorker)  BY <1>6 DEF Workday!ArmCapture, Workday!formDataCommitment, Workday!answerControlOwners,
     Workday!answerBindingsValid, Workday!markerValid, Workday!Payload, Workday!Reviewed
<1>7. CASE Workday!ArmGate(TheWorker)  BY <1>7 DEF Workday!ArmGate, Workday!NoGate
<1>8. CASE Workday!ClickScript(TheWorker)  BY <1>8 DEF Workday!ClickScript, Workday!Issue
<1>9. CASE Workday!ClickStatus(TheWorker)  BY <1>9 DEF Workday!ClickStatus, Workday!reject
<1>10. CASE Workday!ClickWait(TheWorker)  BY <1>10 DEF Workday!ClickWait
<1>11. CASE Workday!EvidenceSnapshot(TheWorker)  BY <1>11 DEF Workday!EvidenceSnapshot
<1>12. CASE Workday!EvidenceReference(TheWorker)  BY <1>12 DEF Workday!EvidenceReference
<1> QED  BY <1>1, <1>2, <1>3, <1>4, <1>5, <1>6, <1>7, <1>8, <1>9, <1>10, <1>11, <1>12 DEF Workday!CommitStep

LEMMA WorkdayGuard == WorkdayInv /\ Workday!Guard => WorkdayInv'
<1> SUFFICES ASSUME WorkdayInv, NEW r \in DOMAIN requests,
                    Workday!GuardAddress(r) \/ Workday!GuardDecide(r)
             PROVE WorkdayInv'
  BY DEF Workday!Guard
<1> USE DEF WorkdayInv, WorkdayShape, RequestRows, WorkdaySent, WorkdayBefore, WorkdayPlanned,
         WorkdayGate, WorkdayCommit, WorkdayQuiet, Workday!PlannedPayload,
         Workday!Preflighting, Workday!Moved, Workday!Abort, Workday!Release, Workday!reject
<1>1. CASE Workday!GuardAddress(r)
  <2>0. /\ requests[r].stage = "new"
        /\ UNCHANGED <<posts, plan, walk, session, current, pc, prepared, commit, sent>>
    BY <1>1 DEF Workday!GuardAddress
  <2>1. CASE /\ requests' = [requests EXCEPT ![r].stage = "checked"]
             /\ seenGate' = [seenGate EXCEPT ![r] = current] /\ UNCHANGED gates
    BY <2>0, <2>1
  <2>2. CASE /\ requests' = [requests EXCEPT ![r].stage = "aborted"] /\ UNCHANGED seenGate
             /\ gates' = [c \in {TheWorker} |->
                              IF c \in current THEN Workday!reject(gates[c]) ELSE gates[c]]
    <3>1. CASE current = {} \/ gates[TheWorker].completed
      <4>1. gates'[TheWorker] = gates[TheWorker] /\ DOMAIN gates' = {TheWorker}  BY <2>2, <3>1
      <4> QED  BY <2>0, <2>2, <4>1
    <3>2. CASE current # {} /\ ~gates[TheWorker].completed
      <4>1. /\ gates'[TheWorker] =
                  [gates[TheWorker] EXCEPT !.rejected = TRUE, !.completed = TRUE]
            /\ DOMAIN gates' = {TheWorker}
        BY <2>2, <3>2
      <4> QED  BY <2>0, <2>2, <3>2, <4>1
    <3> QED  BY <3>1, <3>2
  <2> QED  BY <1>1, <2>1, <2>2 DEF Workday!GuardAddress
<1>2. CASE Workday!GuardDecide(r)
  <2>0. /\ requests[r].stage = "checked"
        /\ UNCHANGED <<posts, plan, walk, session, current, seenGate, pc, prepared, commit>>
    BY <1>2 DEF Workday!GuardDecide
  <2>1. CASE requests' = [requests EXCEPT ![r].stage = "aborted"] /\ UNCHANGED <<sent, gates>>
    BY <2>0, <2>1
  <2>2. ASSUME NEW c \in seenGate[r], session.open, Workday!evaluate(r, c)
        PROVE  WorkdayInv'
    <3>0. c = TheWorker /\ current = {TheWorker} /\ pc = "ready"
      BY <2>0, <2>2
    <3>1. CASE gates[c].completed \/ ~Workday!request_matches(r, c)
      <4>1. /\ requests' = [requests EXCEPT ![r].stage = "aborted"] /\ UNCHANGED sent
            /\ gates' = [gates EXCEPT ![TheWorker] = Workday!reject(gates[TheWorker])]
        BY <2>2, <3>0, <3>1 DEF Workday!evaluate
      <4>2. CASE gates[TheWorker].completed
        <5>1. gates'[TheWorker] = gates[TheWorker] /\ DOMAIN gates' = {TheWorker}  BY <4>1, <4>2
        <5> QED  BY <2>0, <4>1, <5>1
      <4>3. CASE ~gates[TheWorker].completed
        <5>1. /\ gates'[TheWorker] =
                    [gates[TheWorker] EXCEPT !.rejected = TRUE, !.completed = TRUE]
              /\ DOMAIN gates' = {TheWorker}
          BY <4>1, <4>3
        <5> QED  BY <2>0, <3>0, <4>1, <4>3, <5>1
      <4> QED  BY <4>2, <4>3
    <3>2. CASE ~gates[c].completed /\ Workday!request_matches(r, c)
      <4>1. /\ requests' = [requests EXCEPT ![r].stage = "released"]
            /\ gates' = [gates EXCEPT ![TheWorker].sent = TRUE, ![TheWorker].completed = TRUE]
            /\ sent' = Append(sent, requests[r].payload)
            /\ requests[r].payload = Workday!PlannedPayload
        BY <2>2, <3>0, <3>2 DEF Workday!evaluate, Workday!request_matches, Workday!canonical_payload
      <4>2. sent = <<>> /\ sent' = <<Workday!PlannedPayload>>  BY <3>0, <3>2, <4>1
      <4>3. commit[TheWorker].outcome = "withheld" => posts # 0  BY <2>0, <3>0, <3>2
      <4> QED  BY <2>0, <3>0, <3>2, <4>1, <4>2, <4>3
    <3> QED  BY <3>1, <3>2
  <2> QED  BY <1>2, <2>1, <2>2 DEF Workday!GuardDecide
<1> QED  BY <1>1, <1>2

LEMMA WorkdayStep == WorkdayInv /\ [Workday!Next]_(Workday!vars) => WorkdayInv'
<1> SUFFICES ASSUME WorkdayInv, [Workday!Next]_(Workday!vars) PROVE WorkdayInv'
  OBVIOUS
<1> USE DEF WorkdayInv, WorkdayShape, RequestRows, WorkdaySent, WorkdayBefore, WorkdayPlanned,
         WorkdayGate, WorkdayCommit, WorkdayQuiet, Workday!PlannedPayload,
         Workday!Preflighting, Workday!close, Workday!NoSession, Workday!pageVars, Workday!gateVars
<1>1. CASE Workday!CleanupPreflight  BY <1>1 DEF Workday!CleanupPreflight
<1>2. CASE Workday!CleanupPrepared  BY <1>2 DEF Workday!CleanupPrepared
<1>3. CASE Workday!PageStep  BY <1>3 DEF Workday!PageStep, Workday!PageChange, Workday!PagePosts, Workday!Issue
<1>4. CASE Workday!Expire  BY <1>4 DEF Workday!Expire
<1>5. CASE UNCHANGED Workday!vars  BY <1>5 DEF Workday!vars
<1> QED
  BY <1>1, <1>2, <1>3, <1>4, <1>5, WorkdayInspection, WorkdayPreflight, WorkdayCommitStep, WorkdayGuard
  DEF Workday!Next, Workday!AdapterStep

WorkdayFinal ==
    /\ commit[TheWorker].pc = "returned" => commit'[TheWorker] = commit[TheWorker]
    /\ pc = "pre_failed" => UNCHANGED <<pc, reason>>
    /\ sent' # sent => sent' # <<>> /\ UNCHANGED <<posts, pc, reason, commit>>
    /\ posts' # posts => posts' = posts + 1 /\ UNCHANGED <<sent, pc, reason, commit>>

LEMMA WorkdayReturns == WorkdayShape /\ WorkdaySent /\ [Workday!Next]_(Workday!vars) => WorkdayFinal
<1> SUFFICES ASSUME WorkdayShape, WorkdaySent, [Workday!Next]_(Workday!vars) PROVE WorkdayFinal
  OBVIOUS
<1> USE DEF WorkdayFinal, Workday!pageVars, Workday!gateVars
<1>1. CASE Workday!Inspection
  BY <1>1 DEF Workday!Inspection, Workday!InspectBegin, Workday!InspectAbandon, Workday!InspectOpen,
     Workday!InspectStep, Workday!InspectAttach, Workday!InspectAnswer, Workday!InspectFill,
     Workday!InspectReview, Workday!InspectComplete, Workday!Inspecting
<1>2. CASE Workday!Preflight
  BY <1>2 DEF Workday!Preflight, Workday!PreflightBegin, Workday!PreflightRefuse,
     Workday!PreflightAlready, Workday!PreflightOpen, Workday!PreflightStep,
     Workday!PreflightAttach, Workday!PreflightFill, Workday!PreflightReview,
     Workday!PreflightVerify, Workday!PreflightGoes, Workday!PreflightFrame, Workday!Preflighting
<1>3. CASE Workday!CommitStep(TheWorker)
  <2> USE DEF Workday!CommitStep, Workday!CommitBegin, Workday!CommitVerify, Workday!CommitCompare,
       Workday!ArmCompare, Workday!ArmVerify, Workday!ArmCapture, Workday!ArmGate,
       Workday!ClickScript, Workday!ClickStatus, Workday!ClickWait, Workday!EvidenceSnapshot,
       Workday!EvidenceReference
  <2>1. UNCHANGED <<sent, posts, pc, reason>>  BY <1>3 DEF Workday!CommitFrame
  <2>2. commit[TheWorker].pc # "returned"  BY <1>3
  <2> QED  BY <2>1, <2>2
<1>4. CASE Workday!Guard
  <2>1. UNCHANGED <<posts, pc, reason, commit>>
    BY <1>4 DEF Workday!Guard, Workday!GuardAddress, Workday!GuardDecide
  <2>2. sent' # sent => \E x : sent' = Append(sent, x)
    BY <1>4 DEF Workday!Guard, Workday!GuardAddress, Workday!GuardDecide, Workday!evaluate,
       Workday!Abort, Workday!Release
  <2>3. \A x : Append(sent, x) # <<>>
    <3>1. CASE sent = <<>>  BY <3>1
    <3>2. CASE sent = <<Workday!PlannedPayload>>  BY <3>2
    <3> QED  BY <3>1, <3>2 DEF WorkdaySent
  <2> QED  BY <2>1, <2>2, <2>3
<1>5. CASE Workday!CleanupPreflight \/ Workday!CleanupPrepared \/ Workday!PageStep
           \/ Workday!Expire \/ UNCHANGED Workday!vars
  BY <1>5 DEF Workday!CleanupPreflight, Workday!CleanupPrepared, Workday!PageStep,
     Workday!PageChange, Workday!PagePosts, Workday!Expire, Workday!vars
<1> QED  BY <1>1, <1>2, <1>3, <1>4, <1>5 DEF Workday!Next, Workday!AdapterStep

LEMMA WorkdaySends == WorkdayInv => Workday!SendsReviewed
<1> SUFFICES ASSUME WorkdayInv PROVE Workday!SendsReviewed
  OBVIOUS
<1>1. CASE sent = <<>>  BY <1>1 DEF Workday!SendsReviewed
<1>2. CASE sent = <<Workday!PlannedPayload>>
  <2>1. pc \in {"ready", "released"}
    BY <1>2 DEF WorkdayInv, WorkdayBefore, WorkdayGate, WorkdayCommit
  <2> QED  BY <1>2, <2>1 DEF WorkdayInv, WorkdayPlanned, Workday!SendsReviewed
<1> QED  BY <1>1, <1>2 DEF WorkdayInv, WorkdaySent

LEMMA WorkdayHonest == WorkdayInv => Honest(Len(sent), posts, FALSE, Workday!Report)
<1> SUFFICES ASSUME WorkdayInv PROVE Honest(Len(sent), posts, FALSE, Workday!Report)
  OBVIOUS
<1>1. Len(sent) \in {0, 1} /\ posts \in Nat  BY DEF WorkdayInv, WorkdayShape, WorkdaySent
<1>2. Workday!Report \in {"none", "not_sent", "unclear", "confirmed"}  BY DEF Workday!Report
<1>3. Workday!Report = "not_sent" /\ posts = 0 => Len(sent) = 0
  BY DEF Workday!Report, WorkdayInv, WorkdayShape, WorkdaySent, WorkdayBefore, WorkdayGate,
     WorkdayCommit, WorkdayQuiet
<1>4. Workday!Report = "confirmed" => Len(sent) = 1
  BY DEF Workday!Report, WorkdayInv, WorkdaySent, WorkdayCommit
<1> QED  BY <1>1, <1>2, <1>3, <1>4 DEF Honest

LEMMA WorkdayAnswers ==
    ASSUME WorkdayInv, WorkdayInv', WorkdayFinal
    PROVE  Answered(Len(sent), posts, FALSE, Workday!Report,
                    Len(sent)', posts', FALSE, Workday!Report')
<1>1. Workday!Report # "none" => Workday!Report' = Workday!Report
  <2>1. CASE pc = "pre_failed"  BY <2>1 DEF WorkdayFinal, Workday!Report
  <2>2. CASE commit[TheWorker].outcome \notin {"none", "replay"} /\ pc # "pre_failed"
    <3>1. commit'[TheWorker] = commit[TheWorker] /\ pc' # "pre_failed"
      BY <2>2 DEF WorkdayFinal, WorkdayInv, WorkdayCommit, WorkdayBefore
    <3> QED  BY <2>2, <3>1 DEF Workday!Report
  <2> QED  BY <2>1, <2>2 DEF Workday!Report
<1>2. sent' # sent \/ posts' # posts => Workday!Report' = Workday!Report
  BY DEF WorkdayFinal, Workday!Report
<1>3. Len(sent) \in {0, 1} /\ Len(sent)' \in {0, 1}  BY DEF WorkdayInv, WorkdaySent
<1>4. Len(sent) <= Len(sent)'  BY DEF WorkdayInv, WorkdaySent, WorkdayFinal
<1>5. Len(sent)' # Len(sent) => sent' # sent /\ Len(sent)' = Len(sent) + 1
  <2> DEFINE n == Len(sent)  m == Len(sent)'
  <2>1. sent' = sent => m = n  OBVIOUS
  <2>2. n \in {0, 1} /\ m \in {0, 1} /\ n <= m  BY <1>3, <1>4
  <2> HIDE DEF n, m
  <2>3. m # n => m = n + 1  BY <2>2
  <2>4. m # n => sent' # sent /\ m = n + 1  BY <2>1, <2>3
  <2> QED  BY <2>4 DEF n, m
<1>6. posts' # posts => posts' = posts + 1 /\ Len(sent)' = Len(sent)  BY DEF WorkdayFinal
<1>7. Len(sent)' # Len(sent) => posts' = posts  BY DEF WorkdayFinal
<1> QED  BY <1>1, <1>2, <1>5, <1>6, <1>7 DEF Answered

----------------------------------------------------------------------------
(* Greenhouse.  A request passes the guard only against the payload of the *)
(* plan, and a gate is armed only after the boundary was crossed.          *)

GreenhouseShape ==
    /\ CommitRows /\ RequestRows /\ posts \in Nat
    /\ \A c \in Callers : {"invoked", "reason"} \subseteq DOMAIN commit[c]
    /\ DOMAIN requests = Greenhouse!RequestIds
    /\ \A r \in DOMAIN requests : "by" \in DOMAIN requests[r]
    /\ DOMAIN gate = Callers /\ \A c \in Callers : "left" \in DOMAIN gate[c]
    /\ {"made", "blockers"} \subseteq DOMAIN plan
    /\ {"made", "claimed", "clicked"} \subseteq DOMAIN prepared
    /\ {"open", "gateOf"} \subseteq DOMAIN session
GreenhouseSent == sent \in Seq({Greenhouse!ReviewedPayload(plan)})

GreenhouseBefore ==
    pc \notin {"ready", "released"} =>
        /\ sent = <<>> /\ ~prepared.made /\ ~prepared.claimed /\ ~prepared.clicked
        /\ \A c \in Callers : commit[c].pc = "idle" /\ commit[c].outcome = "none" /\ ~gate[c].left
GreenhousePlanned ==
    /\ pc \in {"reviewed", "ready"} \/ Greenhouse!Preflighting => plan.made
    /\ pc = "ready" \/ Greenhouse!Preflighting => plan.blockers = {} /\ session.open
    /\ session.open => pc # "released"
    /\ prepared.made <=> pc = "ready"
    /\ sent # <<>> => plan.made /\ plan.blockers = {} /\ prepared.clicked
GreenhouseGate ==
    /\ prepared.clicked => prepared.claimed
    /\ session.gateOf # Nobody => session.gateOf \in Callers /\ prepared.clicked
    /\ \A r \in DOMAIN requests :
          requests[r].stage = "checked" => requests[r].by \in Callers /\ prepared.clicked
    /\ pc = "ready" => \A c \in Callers : gate[c].left => sent # <<>>
GreenhouseCommits ==
    /\ OneEngaged
    /\ \A c \in Callers :
          /\ Engaged(c) => prepared.claimed
          /\ commit[c].pc \notin {"idle", "returned"} => pc = "ready"
          /\ commit[c].pc # "returned" => commit[c].outcome = "none"
          /\ commit[c].pc \in {"atomic", "arm", "script", "wait"} => prepared.clicked
          /\ commit[c].pc \in {"evidence", "reference"} => sent # <<>>
          /\ commit[c].outcome = "confirmed" => sent # <<>>
          /\ commit[c].outcome \in
                {"none", "replay", "review", "failed", "unknown", "already", "confirmed"}
          /\ commit[c].pc = "returned" => commit[c].outcome # "none"
GreenhouseInv == GreenhouseShape /\ GreenhouseSent /\ GreenhouseBefore /\ GreenhousePlanned
                 /\ GreenhouseGate /\ GreenhouseCommits

\* A call that may have run the submit of its page script.
GreenhouseSubmits(c) ==
    \/ commit[c].pc = "wait" /\ commit[c].invoked
    \/ commit[c].pc \in {"evidence", "reference"}
    \/ commit[c].outcome \in {"unknown", "already", "confirmed"}
GreenhouseSubmitted == \E c \in Callers : GreenhouseSubmits(c)
GreenhouseWithin == Within(requests, Len(sent), posts, GreenhouseSubmitted)

LEMMA GreenhouseStart == Greenhouse!Init => GreenhouseInv
  BY DEF Greenhouse!Init, Greenhouse!NoRequest, GreenhouseInv, GreenhouseShape, CommitRows, RequestRows, GreenhouseSent,
         GreenhouseBefore, GreenhousePlanned, GreenhouseGate, GreenhouseCommits,
         OneEngaged, Engaged,
         Greenhouse!NoPlan, Greenhouse!NoSession, Greenhouse!NoGate, Greenhouse!Unprepared,
         Greenhouse!NoCommit, Greenhouse!Preflighting

LEMMA GreenhouseInspection == GreenhouseInv /\ Greenhouse!Inspection => GreenhouseInv'
<1> SUFFICES ASSUME GreenhouseInv, Greenhouse!Inspection PROVE GreenhouseInv'
  OBVIOUS
<1> USE DEF GreenhouseInv, GreenhouseShape, CommitRows, RequestRows, GreenhouseSent,
         GreenhouseBefore, GreenhousePlanned, GreenhouseGate, GreenhouseCommits,
         OneEngaged, Engaged,
         Greenhouse!NoSession, Greenhouse!Inspecting, Greenhouse!Preflighting, Greenhouse!navigate,
         Greenhouse!close
<1>1. CASE Greenhouse!InspectBegin  BY <1>1 DEF Greenhouse!InspectBegin
<1>2. CASE Greenhouse!InspectAbandon  BY <1>2 DEF Greenhouse!InspectAbandon
<1>3. CASE Greenhouse!InspectLoad  BY <1>3 DEF Greenhouse!InspectLoad
<1>4. CASE Greenhouse!InspectRound  BY <1>4 DEF Greenhouse!InspectRound, Greenhouse!Attached
<1>5. CASE Greenhouse!InspectFill  BY <1>5 DEF Greenhouse!InspectFill
<1>6. CASE Greenhouse!InspectLook  BY <1>6 DEF Greenhouse!InspectLook
<1>7. CASE Greenhouse!InspectSeal  BY <1>7 DEF Greenhouse!InspectSeal
<1> QED  BY <1>1, <1>2, <1>3, <1>4, <1>5, <1>6, <1>7 DEF Greenhouse!Inspection

LEMMA GreenhousePreflight == GreenhouseInv /\ Greenhouse!Preflight => GreenhouseInv'
<1> SUFFICES ASSUME GreenhouseInv, Greenhouse!Preflight PROVE GreenhouseInv'
  OBVIOUS
<1> USE DEF GreenhouseInv, GreenhouseShape, CommitRows, RequestRows, GreenhouseSent,
         GreenhouseBefore, GreenhousePlanned, GreenhouseGate, GreenhouseCommits,
         OneEngaged, Engaged,
         Greenhouse!NoSession, Greenhouse!Inspecting, Greenhouse!Preflighting, Greenhouse!navigate,
         Greenhouse!close, Greenhouse!PreflightReturns
<1>1. CASE Greenhouse!PreflightBegin  BY <1>1 DEF Greenhouse!PreflightBegin
<1>2. CASE Greenhouse!PreflightRefuse  BY <1>2 DEF Greenhouse!PreflightRefuse
<1>3. CASE Greenhouse!PreflightAlready  BY <1>3 DEF Greenhouse!PreflightAlready
<1>4. CASE Greenhouse!PreflightLoad  BY <1>4 DEF Greenhouse!PreflightLoad
<1>5. CASE Greenhouse!PreflightRound  BY <1>5 DEF Greenhouse!PreflightRound, Greenhouse!Attached
<1>6. CASE Greenhouse!PreflightFill  BY <1>6 DEF Greenhouse!PreflightFill
<1>7. CASE Greenhouse!PreflightLook  BY <1>7 DEF Greenhouse!PreflightLook
<1>8. CASE Greenhouse!PreflightVerify  BY <1>8 DEF Greenhouse!PreflightVerify
<1>9. CASE Greenhouse!PreflightBind  BY <1>9 DEF Greenhouse!PreflightBind
<1> QED  BY <1>1, <1>2, <1>3, <1>4, <1>5, <1>6, <1>7, <1>8, <1>9 DEF Greenhouse!Preflight

LEMMA GreenhouseCommitStep ==
    GreenhouseInv /\ (\E c \in Callers : Greenhouse!CommitStep(c)) => GreenhouseInv'
<1> SUFFICES ASSUME GreenhouseInv, NEW c \in Callers, Greenhouse!CommitStep(c)
             PROVE GreenhouseInv'
  OBVIOUS
<1> USE DEF GreenhouseInv, GreenhouseShape, CommitRows, RequestRows, GreenhouseSent,
         GreenhouseBefore, GreenhousePlanned, GreenhouseGate, GreenhouseCommits,
         OneEngaged, Engaged,
         Greenhouse!Preflighting, Greenhouse!Returns, Greenhouse!Goes
<1>1. CASE Greenhouse!CommitClaim(c)  BY <1>1 DEF Greenhouse!CommitClaim
<1>2. CASE Greenhouse!CommitObserve(c)  BY <1>2 DEF Greenhouse!CommitObserve
<1>3. CASE Greenhouse!CommitVerify(c)  BY <1>3 DEF Greenhouse!CommitVerify
<1>4. CASE Greenhouse!CommitRaises(c)  BY <1>4 DEF Greenhouse!CommitRaises
<1>5. CASE Greenhouse!CommitCross(c)  BY <1>5 DEF Greenhouse!CommitCross
<1>6. CASE Greenhouse!AtomicValidate(c)  BY <1>6 DEF Greenhouse!AtomicValidate
<1>7. CASE Greenhouse!AtomicArm(c)  BY <1>7, AdaptersAssumption DEF Greenhouse!AtomicArm, AdaptersAssumption
<1>8. CASE Greenhouse!AtomicScript(c)  BY <1>8 DEF Greenhouse!AtomicScript, Greenhouse!Issue
<1>9. CASE Greenhouse!AtomicReturn(c)
  <2>0. /\ commit[c].pc = "wait" /\ pc = "ready"
        /\ gate' = [gate EXCEPT ![c].closed = TRUE]
        /\ UNCHANGED <<posts, plan, session, pc, prepared, requests, sent>>
    BY <1>9 DEF Greenhouse!AtomicReturn
  <2>1. \A d \in Callers : "left" \in DOMAIN gate'[d] /\ gate'[d].left = gate[d].left
    BY <2>0
  <2>2. CASE commit' = [commit EXCEPT ![c].pc = "evidence"] /\ gate[c].left
    BY <2>0, <2>1, <2>2
  <2>3. CASE commit' = [commit EXCEPT ![c].pc = "returned", ![c].outcome = "unknown"]
    BY <2>0, <2>1, <2>3
  <2>4. CASE /\ commit' = [commit EXCEPT ![c].pc = "returned", ![c].outcome = "review"]
             /\ ~commit[c].invoked
    BY <2>0, <2>1, <2>4
  <2> QED  BY <1>9, <2>2, <2>3, <2>4 DEF Greenhouse!AtomicReturn
<1>10. CASE Greenhouse!EvidenceSnapshot(c)  BY <1>10 DEF Greenhouse!EvidenceSnapshot
<1>11. CASE Greenhouse!EvidenceReference(c)  BY <1>11 DEF Greenhouse!EvidenceReference
<1> QED  BY <1>1, <1>2, <1>3, <1>4, <1>5, <1>6, <1>7, <1>8, <1>9, <1>10, <1>11 DEF Greenhouse!CommitStep

LEMMA GreenhouseGuard == GreenhouseInv /\ Greenhouse!Guard => GreenhouseInv'
<1> SUFFICES ASSUME GreenhouseInv, NEW r \in DOMAIN requests,
                    Greenhouse!GuardRequest(r) \/ Greenhouse!GuardPayload(r)
             PROVE GreenhouseInv'
  BY DEF Greenhouse!Guard, GreenhouseInv, GreenhouseShape
<1> USE DEF GreenhouseInv, GreenhouseShape, CommitRows, RequestRows, GreenhouseSent,
         GreenhouseBefore, GreenhousePlanned, GreenhouseGate, GreenhouseCommits,
         OneEngaged, Engaged,
         Greenhouse!Preflighting, Greenhouse!Abort, Greenhouse!CloseGate
<1>1. CASE Greenhouse!GuardRequest(r)  BY <1>1, SMTT(60) DEF Greenhouse!GuardRequest
<1>2. CASE Greenhouse!GuardPayload(r)
  <2>0. /\ requests[r].stage = "checked" /\ requests[r].by \in Callers /\ prepared.clicked
        /\ UNCHANGED <<posts, plan, session, pc, prepared, commit>>
    BY <1>2 DEF Greenhouse!GuardPayload
  <2>1. CASE session.open /\ sent' = Append(sent, Greenhouse!ReviewedPayload(plan))
             /\ requests' = [requests EXCEPT ![r].stage = "released"]
             /\ gate' = [gate EXCEPT ![requests[r].by].left = TRUE, ![requests[r].by].event = TRUE]
    <3>1. sent' \in Seq({Greenhouse!ReviewedPayload(plan)}) /\ sent' # <<>>
      BY <2>1, AppendProperties
    <3>2. pc = "ready"  BY <2>0, <2>1
    <3> QED  BY <2>0, <2>1, <3>1, <3>2
  <2>2. CASE /\ requests' = [requests EXCEPT ![r].stage = "aborted"] /\ UNCHANGED sent
             /\ DOMAIN gate' = Callers
             /\ \A c \in Callers : "left" \in DOMAIN gate'[c]
             /\ session.open => \A c \in Callers : gate'[c].left = gate[c].left
    <3>1. pc \in {"ready", "released"}  BY <2>0
    <3> QED  BY <2>0, <2>2, <3>1
  <2>3. CASE /\ session.open /\ sent' = Append(sent, requests[r].payload)
             /\ Greenhouse!PayloadMatches(r)
             /\ requests' = [requests EXCEPT ![r].stage = "released"]
             /\ gate' = [gate EXCEPT ![requests[r].by].left = TRUE, ![requests[r].by].event = TRUE]
    <3> HIDE DEF GreenhouseInv
    <3> QED  BY <2>1, <2>3 DEF Greenhouse!PayloadMatches
  <2>4. CASE /\ ~session.open /\ Greenhouse!Abort(r) /\ UNCHANGED sent
             /\ gate' = [gate EXCEPT ![requests[r].by].left = TRUE, ![requests[r].by].event = TRUE]
    <3>1. DOMAIN gate' = Callers /\ \A c \in Callers : "left" \in DOMAIN gate'[c]
      BY <2>0, <2>4
    <3> HIDE DEF GreenhouseInv
    <3> QED  BY <2>2, <2>4, <3>1
  <2>5. CASE /\ Greenhouse!Abort(r) /\ UNCHANGED sent
             /\ Greenhouse!CloseGate(requests[r].by, "FORM_CHANGED")
    <3>1. /\ DOMAIN gate' = Callers /\ \A c \in Callers : "left" \in DOMAIN gate'[c]
          /\ \A c \in Callers : gate'[c].left = gate[c].left
      BY <2>0, <2>5
    <3> HIDE DEF GreenhouseInv
    <3> QED  BY <2>2, <2>5, <3>1
  <2> HIDE DEF GreenhouseInv, Greenhouse!Abort, Greenhouse!CloseGate
  <2> QED  BY <1>2, <2>3, <2>4, <2>5 DEF Greenhouse!GuardPayload
<1> QED  BY <1>1, <1>2

LEMMA GreenhouseStep == GreenhouseInv /\ [Greenhouse!Next]_(Greenhouse!vars) => GreenhouseInv'
<1> SUFFICES ASSUME GreenhouseInv, [Greenhouse!Next]_(Greenhouse!vars) PROVE GreenhouseInv'
  OBVIOUS
<1> USE DEF GreenhouseInv, GreenhouseShape, CommitRows, RequestRows, GreenhouseSent,
         GreenhouseBefore, GreenhousePlanned, GreenhouseGate, GreenhouseCommits,
         OneEngaged, Engaged,
         Greenhouse!Preflighting, Greenhouse!close, Greenhouse!NoSession
<1>1. CASE Greenhouse!CleanupPreflight  BY <1>1 DEF Greenhouse!CleanupPreflight
<1>2. CASE Greenhouse!CleanupPrepared  BY <1>2 DEF Greenhouse!CleanupPrepared
<1>3. CASE Greenhouse!PageStep  BY <1>3 DEF Greenhouse!PageStep
<1>4. CASE Greenhouse!PagePost  BY <1>4 DEF Greenhouse!PagePost, Greenhouse!Issue
<1>5. CASE Greenhouse!Expire  BY <1>5 DEF Greenhouse!Expire
<1>6. CASE UNCHANGED Greenhouse!vars  BY <1>6 DEF Greenhouse!vars
<1> QED
  BY <1>1, <1>2, <1>3, <1>4, <1>5, <1>6, GreenhouseInspection, GreenhousePreflight,
     GreenhouseCommitStep, GreenhouseGuard
  DEF Greenhouse!Next, Greenhouse!AdapterStep

LEMMA GreenhouseWithinStart == Greenhouse!Init => GreenhouseWithin
<1> SUFFICES ASSUME Greenhouse!Init PROVE GreenhouseWithin
  OBVIOUS
<1>1. Waiting(requests) = {}
  BY DEF Greenhouse!Init, Greenhouse!NoRequest, Waiting
<1>2. IsFiniteSet({}) /\ Cardinality({}) = 0  BY FS_EmptySet
<1>3. sent = <<>> /\ posts = 0  BY DEF Greenhouse!Init
<1> QED  BY <1>1, <1>2, <1>3 DEF GreenhouseWithin, Within

LEMMA GreenhouseTurn ==
    ASSUME GreenhouseInv, [Greenhouse!Next]_(Greenhouse!vars)
    PROVE  Turn(requests, Len(sent), posts, GreenhouseSubmitted,
                requests', Len(sent)', posts', GreenhouseSubmitted')
<1> DEFINE Still == UNCHANGED <<requests, sent, posts>>
<1>1. CASE Greenhouse!Inspection
  <2>1. Still /\ UNCHANGED commit
    BY <1>1 DEF Greenhouse!Inspection, Greenhouse!InspectBegin, Greenhouse!InspectAbandon,
       Greenhouse!InspectLoad, Greenhouse!InspectRound, Greenhouse!InspectFill,
       Greenhouse!InspectLook, Greenhouse!InspectSeal
  <2> QED  BY <2>1 DEF Turn, GreenhouseSubmitted, GreenhouseSubmits
<1>2. CASE Greenhouse!Preflight
  <2>1. Still /\ UNCHANGED commit
    BY <1>2 DEF Greenhouse!Preflight, Greenhouse!PreflightBegin, Greenhouse!PreflightRefuse,
       Greenhouse!PreflightAlready, Greenhouse!PreflightLoad, Greenhouse!PreflightRound,
       Greenhouse!PreflightFill, Greenhouse!PreflightLook, Greenhouse!PreflightVerify,
       Greenhouse!PreflightBind
  <2> QED  BY <2>1 DEF Turn, GreenhouseSubmitted, GreenhouseSubmits
<1>3. ASSUME NEW c \in Callers, Greenhouse!CommitStep(c)
      PROVE  Turn(requests, Len(sent), posts, GreenhouseSubmitted,
                  requests', Len(sent)', posts', GreenhouseSubmitted')
  <2> USE DEF Greenhouse!CommitStep, Greenhouse!CommitClaim, Greenhouse!CommitObserve,
         Greenhouse!CommitVerify, Greenhouse!CommitRaises, Greenhouse!CommitCross,
         Greenhouse!AtomicValidate, Greenhouse!AtomicArm,
         Greenhouse!AtomicReturn, Greenhouse!EvidenceSnapshot, Greenhouse!EvidenceReference
  <2>1. \A d \in Callers : d # c => commit'[d] = commit[d]
    BY <1>3 DEF Greenhouse!Returns, Greenhouse!Goes, GreenhouseInv, GreenhouseShape, CommitRows,
       Greenhouse!AtomicScript
  <2>2. GreenhouseSubmits(c) => GreenhouseSubmits(c)'
    <3> SUFFICES ASSUME GreenhouseSubmits(c) PROVE GreenhouseSubmits(c)'
      OBVIOUS
    <3>1. c \in DOMAIN commit /\ {"pc", "outcome"} \subseteq DOMAIN commit[c]
      BY DEF GreenhouseInv, GreenhouseShape, CommitRows
    <3>2. commit[c].pc # "returned" => commit[c].outcome = "none"
      BY DEF GreenhouseInv, GreenhouseCommits
    <3>3. \/ Greenhouse!AtomicReturn(c) /\ commit[c].pc = "wait" /\ commit[c].invoked
          \/ Greenhouse!EvidenceSnapshot(c) \/ Greenhouse!EvidenceReference(c)
      BY <1>3, <3>2 DEF GreenhouseSubmits, Greenhouse!AtomicScript
    <3>4. \/ Greenhouse!Goes(c, "evidence")
          \/ \E o \in {"unknown", "already", "confirmed"} : Greenhouse!Returns(c, o)
          \/ \E seen : commit' = [commit EXCEPT ![c].pc = "reference", ![c].after = seen]
      BY <3>3
    <3> QED  BY <3>1, <3>4 DEF GreenhouseSubmits, Greenhouse!Returns, Greenhouse!Goes
  <2>3. GreenhouseSubmitted => GreenhouseSubmitted'
    BY <2>1, <2>2 DEF GreenhouseSubmitted, GreenhouseSubmits
  <2>4. ASSUME Greenhouse!AtomicScript(c), NEW r \in Greenhouse!RequestIds, Greenhouse!Issue(TRUE, r)
        PROVE  Turn(requests, Len(sent), posts, GreenhouseSubmitted,
                    requests', Len(sent)', posts', GreenhouseSubmitted')
    <3>1. /\ commit[c].pc = "script" /\ UNCHANGED <<sent, posts>>
      BY <2>4 DEF Greenhouse!AtomicScript
    <3>2. ~GreenhouseSubmitted
      BY <3>1 DEF GreenhouseSubmitted, GreenhouseSubmits, GreenhouseInv, GreenhouseShape,
         GreenhouseCommits, CommitRows, OneEngaged, Engaged
    <3>3. /\ r \in DOMAIN requests /\ requests[r].stage = "none"
          /\ Others(requests, requests', r) /\ requests'[r].stage = "new"
      BY <2>4 DEF Greenhouse!Issue, Others, GreenhouseInv, GreenhouseShape, RequestRows
    <3>4. requests' # requests  BY <3>3
    <3>5. commit'[c].pc = "wait" /\ commit'[c].invoked
      <4>1. PICK why : commit' = [commit EXCEPT ![c].pc = "wait", ![c].invoked = TRUE, ![c].reason = why]
        BY <2>4, <3>4 DEF Greenhouse!AtomicScript
      <4>2. c \in DOMAIN commit /\ {"pc", "invoked"} \subseteq DOMAIN commit[c]
        BY DEF GreenhouseInv, GreenhouseShape, CommitRows
      <4> QED  BY <4>1, <4>2
    <3>6. GreenhouseSubmitted'  BY <3>5 DEF GreenhouseSubmitted, GreenhouseSubmits
    <3> QED  BY <2>3, <3>1, <3>2, <3>3, <3>6 DEF Turn
  <2>5. CASE Still  BY <2>3, <2>5 DEF Turn
  <2>6. Greenhouse!AtomicScript(c)
        => Still \/ \E r \in Greenhouse!RequestIds : Greenhouse!Issue(TRUE, r)
    BY DEF Greenhouse!AtomicScript
  <2>7. Greenhouse!AtomicScript(c) \/ Still  BY <1>3
  <2> QED  BY <2>4, <2>5, <2>6, <2>7
<1>4. CASE Greenhouse!Guard
  <2>1. PICK r \in DOMAIN requests : Greenhouse!GuardRequest(r) \/ Greenhouse!GuardPayload(r)
    BY <1>4 DEF Greenhouse!Guard, GreenhouseInv, GreenhouseShape
  <2>2. UNCHANGED <<posts, commit>>  BY <2>1 DEF Greenhouse!GuardRequest, Greenhouse!GuardPayload
  <2>3. GreenhouseSubmitted => GreenhouseSubmitted'
    BY <2>2 DEF GreenhouseSubmitted, GreenhouseSubmits
  <2>4. \/ /\ requests[r].stage = "new" /\ UNCHANGED sent
           /\ requests' = [requests EXCEPT ![r].stage = "checked", ![r].by = session.gateOf]
        \/ /\ requests[r].stage \in {"new", "checked"} /\ UNCHANGED sent
           /\ requests' = [requests EXCEPT ![r].stage = "aborted"]
        \/ /\ requests[r].stage = "checked" /\ sent' = Append(sent, requests[r].payload)
           /\ requests' = [requests EXCEPT ![r].stage = "released"]
    BY <2>1 DEF Greenhouse!GuardRequest, Greenhouse!GuardPayload, Greenhouse!Abort
  <2>5. Others(requests, requests', r)  BY <2>4 DEF Others
  <2>6. sent' = Append(sent, requests[r].payload) => Len(sent)' = Len(sent) + 1
    BY AppendGrows DEF GreenhouseInv, GreenhouseSent
  <2>7. /\ \A s : requests' = [requests EXCEPT ![r].stage = s] => requests'[r].stage = s
        /\ \A s, b : requests' = [requests EXCEPT ![r].stage = s, ![r].by = b]
                     => requests'[r].stage = s
    BY DEF GreenhouseInv, GreenhouseShape, RequestRows
  <2> QED  BY <2>2, <2>3, <2>4, <2>5, <2>6, <2>7 DEF Turn
<1>5. CASE Greenhouse!PagePost
  <2>1. UNCHANGED <<commit, sent>> /\ posts' = posts + 1  BY <1>5 DEF Greenhouse!PagePost
  <2>2. GreenhouseSubmitted => GreenhouseSubmitted'
    BY <2>1 DEF GreenhouseSubmitted, GreenhouseSubmits
  <2>3. PICK r \in DOMAIN requests :
           requests[r].stage = "none" /\ Others(requests, requests', r) /\ requests'[r].stage = "new"
    BY <1>5 DEF Greenhouse!PagePost, Greenhouse!Issue, Others, GreenhouseInv, GreenhouseShape,
       RequestRows
  <2> QED  BY <2>1, <2>2, <2>3 DEF Turn
<1>6. CASE Greenhouse!CleanupPreflight \/ Greenhouse!CleanupPrepared \/ Greenhouse!PageStep
           \/ Greenhouse!Expire \/ UNCHANGED Greenhouse!vars
  <2>1. Still /\ UNCHANGED commit
    BY <1>6 DEF Greenhouse!CleanupPreflight, Greenhouse!CleanupPrepared, Greenhouse!PageStep,
       Greenhouse!Expire, Greenhouse!vars
  <2> QED  BY <2>1 DEF Turn, GreenhouseSubmitted, GreenhouseSubmits
<1> QED  BY <1>1, <1>2, <1>3, <1>4, <1>5, <1>6 DEF Greenhouse!Next, Greenhouse!AdapterStep

LEMMA GreenhouseWithinKeeps ==
    GreenhouseInv /\ GreenhouseWithin /\ [Greenhouse!Next]_(Greenhouse!vars) => GreenhouseWithin'
  BY GreenhouseTurn, WithinKeeps DEF GreenhouseWithin

GreenhouseFinal ==
    /\ \A d \in Callers : commit[d].pc = "returned" => commit'[d] = commit[d]
    /\ pc = "pre_failed" => UNCHANGED <<pc, local>>
    /\ sent' # sent => Len(sent)' = Len(sent) + 1 /\ UNCHANGED <<posts, pc, local, commit>>
    /\ posts' # posts => posts' = posts + 1 /\ UNCHANGED <<sent, pc, local, commit>>

LEMMA GreenhouseReturns ==
    GreenhouseShape /\ GreenhouseSent /\ [Greenhouse!Next]_(Greenhouse!vars) => GreenhouseFinal
<1> SUFFICES ASSUME GreenhouseShape, GreenhouseSent, [Greenhouse!Next]_(Greenhouse!vars)
             PROVE GreenhouseFinal
  OBVIOUS
<1> USE DEF GreenhouseFinal
<1>1. CASE Greenhouse!Inspection
  BY <1>1 DEF Greenhouse!Inspection, Greenhouse!InspectBegin, Greenhouse!InspectAbandon,
     Greenhouse!InspectLoad, Greenhouse!InspectRound, Greenhouse!InspectFill,
     Greenhouse!InspectLook, Greenhouse!InspectSeal, Greenhouse!Inspecting
<1>2. CASE Greenhouse!Preflight
  BY <1>2 DEF Greenhouse!Preflight, Greenhouse!PreflightBegin, Greenhouse!PreflightRefuse,
     Greenhouse!PreflightAlready, Greenhouse!PreflightLoad, Greenhouse!PreflightRound,
     Greenhouse!PreflightFill, Greenhouse!PreflightLook, Greenhouse!PreflightVerify,
     Greenhouse!PreflightBind, Greenhouse!Preflighting
<1>3. ASSUME NEW c \in Callers, Greenhouse!CommitStep(c) PROVE GreenhouseFinal
  <2> USE DEF Greenhouse!CommitStep, Greenhouse!CommitClaim, Greenhouse!CommitObserve,
         Greenhouse!CommitVerify, Greenhouse!CommitRaises, Greenhouse!CommitCross,
         Greenhouse!AtomicValidate, Greenhouse!AtomicArm, Greenhouse!AtomicScript,
         Greenhouse!AtomicReturn, Greenhouse!EvidenceSnapshot, Greenhouse!EvidenceReference
  <2>1. UNCHANGED <<sent, posts, pc, local>>  BY <1>3
  <2>2. commit[c].pc # "returned"  BY <1>3
  <2>3. \A d \in Callers : d # c => commit'[d] = commit[d]
    BY <1>3 DEF Greenhouse!Returns, Greenhouse!Goes, GreenhouseShape, CommitRows
  <2> QED  BY <2>1, <2>2, <2>3
<1>4. CASE Greenhouse!Guard
  <2>1. UNCHANGED <<posts, pc, local, commit>>
    BY <1>4 DEF Greenhouse!Guard, Greenhouse!GuardRequest, Greenhouse!GuardPayload
  <2>2. sent' # sent => \E x : sent' = Append(sent, x)
    BY <1>4 DEF Greenhouse!Guard, Greenhouse!GuardRequest, Greenhouse!GuardPayload
  <2> QED  BY <2>1, <2>2, AppendGrows DEF GreenhouseSent
<1>5. CASE Greenhouse!CleanupPreflight \/ Greenhouse!CleanupPrepared \/ Greenhouse!PageStep
           \/ Greenhouse!PagePost \/ Greenhouse!Expire \/ UNCHANGED Greenhouse!vars
  BY <1>5 DEF Greenhouse!CleanupPreflight, Greenhouse!CleanupPrepared, Greenhouse!PageStep,
     Greenhouse!PagePost, Greenhouse!Expire, Greenhouse!vars
<1> QED  BY <1>1, <1>2, <1>3, <1>4, <1>5 DEF Greenhouse!Next, Greenhouse!AdapterStep

LEMMA GreenhouseSends ==
    GreenhouseInv => Greenhouse!SendsReviewedOnly /\ Greenhouse!LeavesOnlyCommitted
  BY DEF GreenhouseInv, GreenhouseSent, GreenhousePlanned, Greenhouse!SendsReviewedOnly,
     Greenhouse!LeavesOnlyCommitted

\* What the report is, of a call that is done and of none.
Done(c) == commit[c].pc = "returned" /\ commit[c].outcome # "replay"
Verdict(outcome) ==
    CASE outcome = "none" -> "none"
      [] outcome \in {"review", "failed"} -> "not_sent"
      [] outcome \in {"unknown", "already"} -> "unclear"
      [] outcome = "confirmed" -> "confirmed"
GreenhouseReports ==
    /\ (\A c \in Callers : ~Done(c)) => Greenhouse!Report = "none"
    /\ \A d \in Callers : Done(d) => Greenhouse!Report = Verdict(commit[d].outcome)

LEMMA GreenhouseDone == GreenhouseInv /\ pc # "pre_failed" => GreenhouseReports
<1> SUFFICES ASSUME GreenhouseInv, pc # "pre_failed" PROVE GreenhouseReports
  OBVIOUS
<1> DEFINE done == {c \in Callers : commit[c].pc = "returned" /\ commit[c].outcome # "replay"}
           o == IF done = {} THEN "none" ELSE commit[CHOOSE c \in done : TRUE].outcome
<1>1. Greenhouse!Report = Verdict(o)
  BY DEF Greenhouse!Report, Verdict
<1>2. ASSUME NEW d \in Callers, Done(d)
      PROVE  o = commit[d].outcome
  <2>1. d \in done /\ \A c \in done : c = d
    BY <1>2 DEF Done, GreenhouseInv, GreenhouseCommits, OneEngaged, Engaged, GreenhouseShape,
       CommitRows
  <2>2. (CHOOSE c \in done : TRUE) \in done  BY <2>1
  <2>3. (CHOOSE c \in done : TRUE) = d  BY <2>1, <2>2
  <2> QED  BY <2>1, <2>3
<1>3. ASSUME \A c \in Callers : ~Done(c) PROVE Greenhouse!Report = "none"
  <2>1. o = "none"  BY <1>3 DEF Done
  <2> QED  BY <1>1, <2>1 DEF Verdict
<1> QED  BY <1>1, <1>2, <1>3 DEF GreenhouseReports

LEMMA GreenhouseHonest ==
    GreenhouseInv /\ GreenhouseWithin => Honest(Len(sent), posts, FALSE, Greenhouse!Report)
<1> SUFFICES ASSUME GreenhouseInv, GreenhouseWithin
             PROVE  Honest(Len(sent), posts, FALSE, Greenhouse!Report)
  OBVIOUS
<1>0. /\ Len(sent) \in Nat /\ posts \in Nat /\ Len(sent) <= posts + 1
      /\ ~GreenhouseSubmitted => Len(sent) <= posts
      /\ sent # <<>> => Len(sent) >= 1
  <2>1. /\ Len(sent) \in Nat /\ posts \in Nat /\ Len(sent) <= posts + 1
        /\ ~GreenhouseSubmitted => Len(sent) <= posts
    BY WithinCounts DEF GreenhouseWithin, Within
  <2>2. sent # <<>> => Len(sent) >= 1
    BY <2>1, EmptySeq DEF GreenhouseInv, GreenhouseSent
  <2> QED  BY <2>1, <2>2
<1>1. CASE pc = "pre_failed"
  <2>1. sent = <<>> /\ Greenhouse!Report \in {"unclear", "not_sent"}
    BY <1>1 DEF Greenhouse!Report, GreenhouseInv, GreenhouseBefore
  <2> QED  BY <1>0, <2>1 DEF Honest
<1>2. CASE pc # "pre_failed" /\ \A c \in Callers : ~Done(c)
  BY <1>0, <1>2, GreenhouseDone DEF Honest, GreenhouseReports
<1>3. ASSUME NEW d \in Callers, pc # "pre_failed", Done(d)
      PROVE  Honest(Len(sent), posts, FALSE, Greenhouse!Report)
  <2>1. Greenhouse!Report = Verdict(commit[d].outcome)
    BY <1>3, GreenhouseDone DEF GreenhouseReports
  <2>2. commit[d].outcome \in {"review", "failed", "unknown", "already", "confirmed"}
    BY <1>3 DEF Done, GreenhouseInv, GreenhouseCommits
  <2>3. commit[d].outcome \in {"review", "failed"} => ~GreenhouseSubmitted
    BY <1>3 DEF Done, GreenhouseSubmitted, GreenhouseSubmits, GreenhouseInv, GreenhouseShape,
       GreenhouseCommits, CommitRows, OneEngaged, Engaged
  <2>4. commit[d].outcome = "confirmed" => sent # <<>>
    BY DEF GreenhouseInv, GreenhouseCommits
  <2> QED  BY <1>0, <2>1, <2>2, <2>3, <2>4 DEF Honest, Verdict
<1> QED  BY <1>1, <1>2, <1>3

LEMMA GreenhouseAnswers ==
    ASSUME GreenhouseInv, GreenhouseInv', GreenhouseFinal
    PROVE  Answered(Len(sent), posts, FALSE, Greenhouse!Report,
                    Len(sent)', posts', FALSE, Greenhouse!Report')
<1>0. (GreenhouseInv /\ pc # "pre_failed" => GreenhouseReports)'  BY GreenhouseDone, PTL
<1>1. CASE pc = "pre_failed"
  <2>1. Greenhouse!Report' = Greenhouse!Report  BY <1>1 DEF GreenhouseFinal, Greenhouse!Report
  <2> QED  BY <2>1 DEF Answered, GreenhouseFinal
<1>2. CASE pc # "pre_failed" /\ \E d \in Callers : Done(d)
  <2>1. PICK d \in Callers : Done(d)  BY <1>2
  <2>2. commit'[d] = commit[d] /\ pc' # "pre_failed" /\ Done(d)'
    BY <1>2, <2>1 DEF GreenhouseFinal, GreenhouseInv, GreenhouseBefore, Done
  <2>3. Greenhouse!Report' = Greenhouse!Report
    <3>1. Greenhouse!Report = Verdict(commit[d].outcome)
      BY <1>2, <2>1, GreenhouseDone DEF GreenhouseReports
    <3>2. Greenhouse!Report' = Verdict(commit'[d].outcome)
      BY <1>0, <2>2 DEF GreenhouseReports
    <3> QED  BY <3>1, <3>2, <2>2
  <2> QED  BY <2>3 DEF Answered, GreenhouseFinal
<1>3. CASE pc # "pre_failed" /\ \A c \in Callers : ~Done(c)
  <2>1. Greenhouse!Report = "none"  BY <1>3, GreenhouseDone DEF GreenhouseReports
  <2>2. sent' # sent \/ posts' # posts => Greenhouse!Report' = "none"
    <3>1. SUFFICES ASSUME sent' # sent \/ posts' # posts PROVE Greenhouse!Report' = "none"
      OBVIOUS
    <3>2. pc' = pc /\ \A c \in Callers : ~Done(c)'  BY <1>3, <3>1 DEF GreenhouseFinal, Done
    <3> QED  BY <1>0, <1>3, <3>2 DEF GreenhouseReports
  <2> QED  BY <2>1, <2>2 DEF Answered, GreenhouseFinal
<1> QED  BY <1>1, <1>2, <1>3

----------------------------------------------------------------------------
(* The five together.  The selected adapter never changes and the others   *)
(* are Unused.                                                             *)

AdaptersHold ==
    /\ adapter \in {"greenhouse", "lever", "smartrecruiters", "ashby", "workday"}
    /\ adapter = "greenhouse" => GreenhouseInv /\ GreenhouseWithin
    /\ adapter = "lever" => LeverInv
    /\ adapter = "smartrecruiters" => SRInv
    /\ adapter = "ashby" => AshbyInv /\ AshbyWithin
    /\ adapter = "workday" => WorkdayInv

LEMMA AdaptersStart == Init => AdaptersHold
<1> SUFFICES ASSUME Init PROVE AdaptersHold
  OBVIOUS
<1> USE DEF AdaptersHold
<1>1. CASE adapter = "greenhouse" /\ Greenhouse!Init
  BY <1>1, GreenhouseStart, GreenhouseWithinStart
<1>2. CASE adapter = "lever" /\ Lever!Init  BY <1>2, LeverStart
<1>3. CASE adapter = "smartrecruiters" /\ SmartRecruiters!Init  BY <1>3, SRStart
<1>4. CASE adapter = "ashby" /\ Ashby!Init  BY <1>4, AshbyStart, AshbyWithinStart
<1>5. CASE adapter = "workday" /\ Workday!Init  BY <1>5, WorkdayStart
<1> QED  BY <1>1, <1>2, <1>3, <1>4, <1>5 DEF Init

(* Every step is a step of the selected adapter, or leaves its state alone. *)
LEMMA SelectedSteps ==
    ASSUME AdaptersHold, [Next]_vars
    PROVE  /\ UNCHANGED adapter
           /\ adapter = "greenhouse" => [Greenhouse!Next]_(Greenhouse!vars)
           /\ adapter = "lever" => [Lever!Next]_(Lever!vars)
           /\ adapter = "smartrecruiters" => [SmartRecruiters!Next]_(SmartRecruiters!vars)
           /\ adapter = "ashby" => [Ashby!Next]_(Ashby!vars)
           /\ adapter = "workday" => [Workday!Next]_(Workday!vars)
<1>1. CASE Next  BY <1>1 DEF Next, Selected
<1>2. CASE UNCHANGED vars
  BY <1>2 DEF vars, common, Greenhouse!vars, Lever!vars, SmartRecruiters!vars, Ashby!vars,
     Workday!vars
<1> QED  BY <1>1, <1>2

LEMMA AdaptersKeep == AdaptersHold /\ [Next]_vars => AdaptersHold'
<1> SUFFICES ASSUME AdaptersHold, [Next]_vars PROVE AdaptersHold'
  OBVIOUS
<1>0. UNCHANGED adapter  BY SelectedSteps
<1>1. (adapter = "greenhouse" => GreenhouseInv /\ GreenhouseWithin)'
  BY <1>0, SelectedSteps, GreenhouseStep, GreenhouseWithinKeeps DEF AdaptersHold
<1>2. (adapter = "lever" => LeverInv)'  BY <1>0, SelectedSteps, LeverStep DEF AdaptersHold
<1>3. (adapter = "smartrecruiters" => SRInv)'  BY <1>0, SelectedSteps, SRStep DEF AdaptersHold
<1>4. (adapter = "ashby" => AshbyInv /\ AshbyWithin)'
  BY <1>0, SelectedSteps, AshbyStep, AshbyWithinKeeps DEF AdaptersHold
<1>5. (adapter = "workday" => WorkdayInv)'  BY <1>0, SelectedSteps, WorkdayStep DEF AdaptersHold
<1> QED  BY <1>0, <1>1, <1>2, <1>3, <1>4, <1>5 DEF AdaptersHold

(* The inductive invariant of every adapter holds whichever is selected.   *)
THEOREM AdaptersInvariant == Spec => []AdaptersHold
<1> QED  BY AdaptersStart, AdaptersKeep, PTL DEF Spec

(* Whatever the page changes or posts between review and submit, only the  *)
(* form, the answers and the CV the operator reviewed leave the browser,   *)
(* of a plan without blockers (the route handlers and gates of the five    *)
(* adapters), for any number of callers, fields, changes and posts.        *)
THEOREM AdaptersSendReviewed == Spec => []SendsReviewed
<1>1. AdaptersHold => SendsReviewed
  BY GreenhouseSends, LeverSends, SRSends, AshbySends, WorkdaySends
  DEF AdaptersHold, SendsReviewed
<1> QED  BY <1>1, AdaptersInvariant, PTL

----------------------------------------------------------------------------
(* The promise to the worker: what left, what the page posted and what is  *)
(* reported are, in every state, Honest, and a step that changes any of    *)
(* them is a step of OneShotSend.                                          *)

Strays == IF adapter \in {"lever", "smartrecruiters"} THEN 0 ELSE posts
Lost == adapter = "smartrecruiters" /\ SmartRecruiters!LostPage

LEMMA ReportIsHonest == AdaptersHold => Honest(Len(sent), Strays, Lost, Report)
<1> SUFFICES ASSUME AdaptersHold PROVE Honest(Len(sent), Strays, Lost, Report)
  OBVIOUS
<1> USE DEF Strays, Lost, Report, AdaptersHold
<1>1. CASE adapter = "greenhouse"  BY <1>1, GreenhouseHonest
<1>2. CASE adapter = "lever"  BY <1>2, LeverHonest
<1>3. CASE adapter = "smartrecruiters"
  <2>1. Lost = SmartRecruiters!LostPage  BY <1>3 DEF SmartRecruiters!LostPage
  <2> QED  BY <1>3, <2>1, SRHonest
<1>4. CASE adapter = "ashby"  BY <1>4, AshbyHonest
<1>5. CASE adapter = "workday"  BY <1>5, WorkdayHonest
<1> QED  BY <1>1, <1>2, <1>3, <1>4, <1>5

LEMMA ReportAnswers ==
    ASSUME AdaptersHold, AdaptersHold', [Next]_vars
    PROVE  Answered(Len(sent), Strays, Lost, Report, Len(sent)', Strays', Lost', Report')
<1>0. UNCHANGED adapter  BY SelectedSteps
<1>1. CASE adapter = "greenhouse"
  <2>1. GreenhouseInv /\ GreenhouseInv'  BY <1>0, <1>1 DEF AdaptersHold
  <2>2. GreenhouseFinal  BY <1>1, <2>1, SelectedSteps, GreenhouseReturns DEF GreenhouseInv
  <2>3. Answered(Len(sent), posts, FALSE, Greenhouse!Report,
                 Len(sent)', posts', FALSE, Greenhouse!Report')
    BY <2>1, <2>2, GreenhouseAnswers
  <2> QED  BY <1>0, <1>1, <2>3 DEF Report, Strays, Lost
<1>2. CASE adapter = "lever"
  <2>1. LeverInv /\ LeverInv'  BY <1>0, <1>2 DEF AdaptersHold
  <2>2. LeverFinal  BY <1>2, <2>1, SelectedSteps, LeverReturns DEF LeverInv
  <2>3. Answered(Len(sent), 0, FALSE, Lever!Report, Len(sent)', 0, FALSE, Lever!Report')
    BY <2>1, <2>2, LeverAnswers
  <2> QED  BY <1>0, <1>2, <2>3 DEF Report, Strays, Lost
<1>3. CASE adapter = "smartrecruiters"
  <2>1. SRInv /\ SRInv'  BY <1>0, <1>3 DEF AdaptersHold
  <2>2. SRFinal  BY <1>3, <2>1, SelectedSteps, SRReturns DEF SRInv
  <2>3. Answered(Len(sent), 0, SmartRecruiters!LostPage, SmartRecruiters!Report,
                 Len(sent)', 0, SmartRecruiters!LostPage', SmartRecruiters!Report')
    BY <2>1, <2>2, SRAnswers
  <2>4. Lost = SmartRecruiters!LostPage /\ Lost' = SmartRecruiters!LostPage'
    BY <1>0, <1>3 DEF Lost, SmartRecruiters!LostPage
  <2> QED  BY <1>0, <1>3, <2>3, <2>4 DEF Report, Strays
<1>4. CASE adapter = "ashby"
  <2>1. AshbyInv /\ AshbyInv'  BY <1>0, <1>4 DEF AdaptersHold
  <2>2. AshbyFinal  BY <1>4, <2>1, SelectedSteps, AshbyReturns DEF AshbyInv
  <2>3. Answered(Len(sent), posts, FALSE, Ashby!Report, Len(sent)', posts', FALSE, Ashby!Report')
    BY <2>1, <2>2, AshbyAnswers
  <2> QED  BY <1>0, <1>4, <2>3 DEF Report, Strays, Lost
<1>5. CASE adapter = "workday"
  <2>1. WorkdayInv /\ WorkdayInv'  BY <1>0, <1>5 DEF AdaptersHold
  <2>2. WorkdayFinal  BY <1>5, <2>1, SelectedSteps, WorkdayReturns DEF WorkdayInv
  <2>3. Answered(Len(sent), posts, FALSE, Workday!Report,
                 Len(sent)', posts', FALSE, Workday!Report')
    BY <2>1, <2>2, WorkdayAnswers
  <2> QED  BY <1>0, <1>5, <2>3 DEF Report, Strays, Lost
<1> QED  BY <1>1, <1>2, <1>3, <1>4, <1>5 DEF AdaptersHold

(* An honest report answered once is a step of OneShotSend or none.        *)
LEMMA AnswerIsPromised ==
    ASSUME NEW n, NEW k, NEW l, NEW r, NEW m, NEW j, NEW x, NEW s,
           Honest(n, k, l, r), Honest(m, j, x, s), Answered(n, k, l, r, m, j, x, s)
    PROVE  \/ m = n /\ j = k /\ x = l /\ s = r
           \/ j = k + 1 /\ m = n /\ x = l /\ s = r
           \/ /\ n < k + (IF r = "not_sent" THEN 0 ELSE 1)
              /\ m = n + 1 /\ j = k /\ x = l /\ s = r
           \/ /\ r = "none" /\ m = n /\ j = k /\ x = l
              /\ (n <= k /\ s = "not_sent") \/ s = "unclear" \/ (n >= 1 /\ s = "confirmed")
           \/ r = "none" /\ n = 1 /\ s = "not_sent" /\ x = TRUE /\ m = n /\ j = k
<1>1. CASE j # k  BY <1>1 DEF Honest, Answered
<1>2. CASE j = k /\ m # n
  <2>1. m = n + 1 /\ x = l /\ s = r /\ ~l  BY <1>2 DEF Honest, Answered
  <2>2. n < k + (IF r = "not_sent" THEN 0 ELSE 1)  BY <1>2, <2>1 DEF Honest
  <2> QED  BY <1>2, <2>1, <2>2
<1>3. CASE j = k /\ m = n /\ r # "none"  BY <1>3 DEF Answered
<1>4. CASE j = k /\ m = n /\ r = "none"
  <2>1. l = FALSE  BY <1>4 DEF Honest
  <2>2. CASE x = TRUE  BY <1>4, <2>2 DEF Honest
  <2>3. CASE x = FALSE  BY <1>4, <2>1, <2>3 DEF Honest
  <2> QED  BY <2>2, <2>3 DEF Honest
<1> QED  BY <1>1, <1>2, <1>3, <1>4

LEMMA StartIsPromised == Init => sent = <<>> /\ Strays = 0 /\ Lost = FALSE /\ Report = "none"
<1> SUFFICES ASSUME Init PROVE sent = <<>> /\ Strays = 0 /\ Lost = FALSE /\ Report = "none"
  OBVIOUS
<1> USE DEF Report, Strays, Lost
<1>1. CASE adapter = "greenhouse" /\ Greenhouse!Init
  BY <1>1 DEF Greenhouse!Init, Greenhouse!Report, Greenhouse!NoCommit
<1>2. CASE adapter = "lever" /\ Lever!Init
  BY <1>2 DEF Lever!Init, Lever!PageInit, Lever!Report, Lever!NoCommit
<1>3. CASE adapter = "smartrecruiters" /\ SmartRecruiters!Init
  BY <1>3
  DEF SmartRecruiters!Init, SmartRecruiters!PageInit, SmartRecruiters!Report,
      SmartRecruiters!NoCommit, SmartRecruiters!LostPage
<1>4. CASE adapter = "ashby" /\ Ashby!Init
  BY <1>4 DEF Ashby!Init, Ashby!PageInit, Ashby!Report, Ashby!NoCommit
<1>5. CASE adapter = "workday" /\ Workday!Init
  BY <1>5 DEF Workday!Init, Workday!PageInit, Workday!Report, Workday!NoCommit
<1> QED  BY <1>1, <1>2, <1>3, <1>4, <1>5 DEF Init

LEMMA StepIsPromised ==
    ASSUME AdaptersHold, AdaptersHold', [Next]_vars
    PROVE  [Promise!Next]_<<Len(sent), Strays, Lost, Report>>
<1> DEFINE n == Len(sent)  k == Strays  l == Lost  r == Report
           m == Len(sent)'  j == Strays'  x == Lost'  s == Report'
<1>1. \/ m = n /\ j = k /\ x = l /\ s = r
      \/ j = k + 1 /\ m = n /\ x = l /\ s = r
      \/ /\ n < k + (IF r = "not_sent" THEN 0 ELSE 1)
         /\ m = n + 1 /\ j = k /\ x = l /\ s = r
      \/ /\ r = "none" /\ m = n /\ j = k /\ x = l
         /\ (n <= k /\ s = "not_sent") \/ s = "unclear" \/ (n >= 1 /\ s = "confirmed")
      \/ r = "none" /\ n = 1 /\ s = "not_sent" /\ x = TRUE /\ m = n /\ j = k
  <2>1. (AdaptersHold => Honest(Len(sent), Strays, Lost, Report))'  BY ReportIsHonest, PTL
  <2>2. Honest(n, k, l, r) /\ Honest(m, j, x, s)  BY <2>1, ReportIsHonest DEF Honest
  <2>3. Answered(n, k, l, r, m, j, x, s)  BY ReportAnswers
  <2> HIDE DEF n, k, l, r, m, j, x, s
  <2> QED  BY <2>2, <2>3, AnswerIsPromised
<1>2. Promise!Next <=> Promise!Stray \/ Promise!Leave \/ Promise!Report \/ Promise!LostPage
  BY DEF Promise!Next
<1>3. j = k + 1 /\ m = n /\ x = l /\ s = r => Promise!Stray
  BY DEF Promise!Stray, Strays, Lost
<1>4. /\ n < k + (IF r = "not_sent" THEN 0 ELSE 1)
      /\ m = n + 1 /\ j = k /\ x = l /\ s = r
      => Promise!Leave
  BY DEF Promise!Leave, Promise!Own, Strays, Lost
<1>5. /\ r = "none" /\ m = n /\ j = k /\ x = l
      /\ (n <= k /\ s = "not_sent") \/ s = "unclear" \/ (n >= 1 /\ s = "confirmed")
      => Promise!Report
  BY DEF Promise!Report, Strays, Lost
<1>6. r = "none" /\ n = 1 /\ s = "not_sent" /\ x = TRUE /\ m = n /\ j = k => Promise!LostPage
  BY DEF Promise!LostPage, Strays, Lost
<1> QED  BY <1>1, <1>2, <1>3, <1>4, <1>5, <1>6

(* commit, whoever calls it and however often: beside the submissions that *)
(* the employer's page posts by itself, and Lever and SmartRecruiters let  *)
(* out none of those, at most one request reaches the employer; the        *)
(* outcome never hides it, but for the page that SmartRecruiters lost (the *)
(* commit of each adapter in submitters and its route handler).            *)
THEOREM AdaptersKeepPromise == Spec => KeepsPromise
<1>1. Init => Promise!Init
  BY StartIsPromised, EmptySeq DEF Promise!Init, Strays, Lost
<1>2. AdaptersHold /\ AdaptersHold' /\ [Next]_vars
      => [Promise!Next]_<<Len(sent),
                          IF adapter \in {"lever", "smartrecruiters"} THEN 0 ELSE posts,
                          adapter = "smartrecruiters" /\ SmartRecruiters!LostPage,
                          Report>>
  BY StepIsPromised DEF Strays, Lost
<1> QED  BY <1>1, <1>2, AdaptersInvariant, PTL DEF Spec, KeepsPromise, Promise!Spec

----------------------------------------------------------------------------
(* A browser is given back: it is open only while a step of the adapter is *)
(* still to come.                                                          *)
AtRest == pc \in {"new", "abandoned", "reviewed", "released"}
GivenBack == session.open => ~AtRest

LEMMA GreenhouseGivesBack ==
    ASSUME GreenhouseShape, GivenBack, [Greenhouse!Next]_(Greenhouse!vars)
    PROVE  GivenBack'
<1>0. "open" \in DOMAIN session  BY DEF GreenhouseShape
<1> USE DEF GivenBack, AtRest
<1>1. CASE Greenhouse!Inspection
  BY <1>0, <1>1 DEF Greenhouse!Inspection, Greenhouse!InspectBegin,
       Greenhouse!InspectAbandon, Greenhouse!InspectLoad, Greenhouse!InspectRound,
       Greenhouse!InspectFill, Greenhouse!InspectLook, Greenhouse!InspectSeal,
       Greenhouse!navigate, Greenhouse!close, Greenhouse!Inspecting,
       Greenhouse!verify_resume_attachment, Greenhouse!NoSession
<1>2. CASE Greenhouse!Preflight
  BY <1>0, <1>2 DEF Greenhouse!Preflight, Greenhouse!PreflightBegin,
       Greenhouse!PreflightRefuse, Greenhouse!PreflightAlready, Greenhouse!PreflightLoad,
       Greenhouse!PreflightRound, Greenhouse!PreflightFill, Greenhouse!PreflightLook,
       Greenhouse!PreflightVerify, Greenhouse!PreflightBind, Greenhouse!navigate,
       Greenhouse!PreflightReturns, Greenhouse!Preflighting,
       Greenhouse!verify_resume_attachment, Greenhouse!NoSession
<1>3. ASSUME NEW c \in Callers, Greenhouse!CommitStep(c) PROVE GivenBack'
  BY <1>0, <1>3 DEF Greenhouse!CommitStep, Greenhouse!CommitClaim, Greenhouse!CommitObserve,
       Greenhouse!CommitVerify, Greenhouse!CommitRaises, Greenhouse!CommitCross,
       Greenhouse!AtomicValidate, Greenhouse!AtomicArm, Greenhouse!AtomicScript,
       Greenhouse!AtomicReturn, Greenhouse!EvidenceSnapshot, Greenhouse!EvidenceReference,
       Greenhouse!Returns, Greenhouse!Goes, Greenhouse!verify_resume_attachment
<1>4. CASE Greenhouse!Guard
  BY <1>0, <1>4 DEF Greenhouse!Guard, Greenhouse!GuardRequest, Greenhouse!GuardPayload
<1>5. CASE    \/ Greenhouse!CleanupPreflight \/ Greenhouse!CleanupPrepared
              \/ Greenhouse!PageStep \/ Greenhouse!PagePost
              \/ Greenhouse!Expire \/ UNCHANGED Greenhouse!vars
  BY <1>0, <1>5 DEF Greenhouse!vars, Greenhouse!CleanupPreflight, Greenhouse!CleanupPrepared,
       Greenhouse!PageStep, Greenhouse!PagePost, Greenhouse!Expire, Greenhouse!close,
       Greenhouse!NoSession
<1> QED  BY <1>1, <1>2, <1>3, <1>4, <1>5 DEF Greenhouse!Next, Greenhouse!AdapterStep

LEMMA LeverGivesBack ==
    ASSUME LeverShape, GivenBack, [Lever!Next]_(Lever!vars)
    PROVE  GivenBack'
<1>0. "open" \in DOMAIN session  BY DEF LeverShape, LeverSessions
<1> USE DEF GivenBack, AtRest
<1>1. CASE Lever!Inspection
  <2>1. CASE Lever!InspectBegin  BY <2>1 DEF Lever!InspectBegin
  <2>2. CASE Lever!InspectAbandon
    BY <2>2 DEF Lever!InspectAbandon, Lever!close, Lever!NoSession
  <2>3. CASE Lever!InspectLoad
    <3>1. session' = session /\ ~AtRest'  BY <2>3 DEF Lever!InspectLoad
    <3> QED  BY <3>1
  <2>4. CASE Lever!InspectAttach  BY <2>4 DEF Lever!InspectAttach
  <2>5. CASE Lever!InspectPlan
    BY <2>5 DEF Lever!InspectPlan, Lever!close, Lever!NoSession
  <2> QED  BY <1>1, <2>1, <2>2, <2>3, <2>4, <2>5 DEF Lever!Inspection
<1>2. CASE Lever!Preflight
  BY <1>0, <1>2 DEF Lever!Preflight, Lever!PreflightBegin, Lever!PreflightRefuse,
       Lever!PreflightAlready, Lever!PreflightLoad, Lever!PreflightAttach,
       Lever!PreflightFill, Lever!PreflightFillRefuses, Lever!PreflightFilled,
       Lever!PreflightVerify, Lever!prepare_final_action, Lever!PreflightSeal,
       Lever!navigate, Lever!PreflightReturns, Lever!Preflighting, Lever!pageVars,
       Lever!PreflightStep, Lever!ensure_resume_attachment, Lever!verify_resume_attachment,
       Lever!NoSession
<1>3. ASSUME NEW c \in Callers, Lever!CommitStep(c) PROVE GivenBack'
  BY <1>0, <1>3 DEF Lever!CommitStep, Lever!CommitClick, Lever!ClickProve, Lever!ClickSubmit,
       Lever!ClickWait, Lever!EvidenceSnapshot, Lever!EvidenceReference, Lever!pageVars,
       Lever!Returns, Lever!Goes
<1>4. CASE Lever!Guard
  BY <1>0, <1>4 DEF Lever!Guard, Lever!GuardAddress, Lever!GuardDecide
<1>5. CASE    \/ Lever!CleanupPreflight \/ Lever!CleanupPrepared
              \/ Lever!PageStep \/ Lever!Expire
              \/ UNCHANGED Lever!vars
  BY <1>0, <1>5 DEF Lever!vars, Lever!CleanupPreflight, Lever!CleanupPrepared,
       Lever!PageStep, Lever!Expire, Lever!close, Lever!pageVars, Lever!NoSession
<1> QED  BY <1>1, <1>2, <1>3, <1>4, <1>5 DEF Lever!Next, Lever!AdapterStep

LEMMA SRGivesBack ==
    ASSUME SRShape, GivenBack, [SmartRecruiters!Next]_(SmartRecruiters!vars)
    PROVE  GivenBack'
<1>0. "open" \in DOMAIN session  BY DEF SRShape
<1> USE DEF GivenBack, AtRest
<1>1. CASE SmartRecruiters!Inspection
  <2>1. CASE SmartRecruiters!InspectBegin  BY <2>1 DEF SmartRecruiters!InspectBegin
  <2>2. CASE SmartRecruiters!InspectAbandon
    BY <2>2 DEF SmartRecruiters!InspectAbandon, SmartRecruiters!close, SmartRecruiters!NoSession
  <2>3. CASE SmartRecruiters!InspectLoad
    <3>1. session' = session /\ ~AtRest'  BY <2>3 DEF SmartRecruiters!InspectLoad
    <3> QED  BY <3>1
  <2>4. CASE SmartRecruiters!InspectAttach  BY <2>4 DEF SmartRecruiters!InspectAttach
  <2>5. CASE SmartRecruiters!InspectPlan
    BY <2>5 DEF SmartRecruiters!InspectPlan, SmartRecruiters!close, SmartRecruiters!NoSession
  <2> QED  BY <1>1, <2>1, <2>2, <2>3, <2>4, <2>5 DEF SmartRecruiters!Inspection
<1>2. CASE SmartRecruiters!Preflight
  BY <1>0, <1>2 DEF SmartRecruiters!Preflight, SmartRecruiters!PreflightBegin,
       SmartRecruiters!PreflightRefuse, SmartRecruiters!PreflightAlready,
       SmartRecruiters!PreflightOpen, SmartRecruiters!PreflightLoad,
       SmartRecruiters!PreflightAttach, SmartRecruiters!PreflightFill,
       SmartRecruiters!PreflightFilled, SmartRecruiters!PreflightVerify,
       SmartRecruiters!prepare_final_action, SmartRecruiters!PreflightSeal,
       SmartRecruiters!navigate, SmartRecruiters!PreflightReturns,
       SmartRecruiters!PreflightFrame, SmartRecruiters!Preflighting,
       SmartRecruiters!pageVars, SmartRecruiters!PreflightStep, SmartRecruiters!FormOpened,
       SmartRecruiters!ensure_resume_attachment, SmartRecruiters!verify_resume_attachment,
       SmartRecruiters!NoSession
<1>3. ASSUME NEW c \in Callers, SmartRecruiters!CommitStep(c) PROVE GivenBack'
  BY <1>0, <1>3 DEF SmartRecruiters!CommitStep, SmartRecruiters!CommitClick,
       SmartRecruiters!ClickScript, SmartRecruiters!ClickWithheld, SmartRecruiters!ClickWait,
       SmartRecruiters!EvidenceSnapshot, SmartRecruiters!EvidenceReference,
       SmartRecruiters!pageVars, SmartRecruiters!Returns, SmartRecruiters!Goes
<1>4. CASE SmartRecruiters!Guard
  BY <1>0, <1>4 DEF SmartRecruiters!Guard, SmartRecruiters!GuardAddress,
       SmartRecruiters!GuardDecide
<1>5. CASE    \/ SmartRecruiters!CleanupPreflight \/ SmartRecruiters!CleanupPrepared
              \/ SmartRecruiters!PageStep \/ SmartRecruiters!Expire
              \/ UNCHANGED SmartRecruiters!vars
  BY <1>0, <1>5 DEF SmartRecruiters!vars, SmartRecruiters!CleanupPreflight,
       SmartRecruiters!CleanupPrepared, SmartRecruiters!PageStep, SmartRecruiters!Expire,
       SmartRecruiters!close, SmartRecruiters!pageVars, SmartRecruiters!NoSession
<1> QED  BY <1>1, <1>2, <1>3, <1>4, <1>5 DEF SmartRecruiters!Next, SmartRecruiters!AdapterStep

LEMMA AshbyGivesBack ==
    ASSUME AshbyShape, GivenBack, [Ashby!Next]_(Ashby!vars)
    PROVE  GivenBack'
<1>0. "open" \in DOMAIN session  BY DEF AshbyShape
<1> USE DEF GivenBack, AtRest
<1>1. CASE Ashby!Inspection
  BY <1>0, <1>1 DEF Ashby!Inspection, Ashby!InspectBegin, Ashby!InspectAbandon,
       Ashby!InspectOpen, Ashby!InspectPass, Ashby!InspectAttach, Ashby!InspectAnswer,
       Ashby!InspectFill, Ashby!InspectSettled, Ashby!navigate, Ashby!close,
       Ashby!Inspecting, Ashby!pageVars, Ashby!FormOpened, Ashby!ensure_resume_attachment,
       Ashby!PlanMade, Ashby!NoSession
<1>2. CASE Ashby!Preflight
  BY <1>0, <1>2 DEF Ashby!Preflight, Ashby!PreflightBegin, Ashby!PreflightRefuse,
       Ashby!PreflightAlready, Ashby!PreflightOpen, Ashby!PreflightLoad,
       Ashby!PreflightAttach, Ashby!PreflightFill, Ashby!PreflightFilled,
       Ashby!PreflightVerify, Ashby!navigate, Ashby!PreflightReturns, Ashby!PreflightFrame,
       Ashby!Preflighting, Ashby!pageVars, Ashby!PreflightStep, Ashby!FormOpened,
       Ashby!ensure_resume_attachment, Ashby!verify_resume_attachment, Ashby!NoSession
<1>3. ASSUME NEW c \in Callers, Ashby!CommitStep(c) PROVE GivenBack'
  BY <1>0, <1>3 DEF Ashby!CommitStep, Ashby!CommitClaim, Ashby!CommitVerify,
       Ashby!CommitCompare, Ashby!ArmCompare, Ashby!ArmGate, Ashby!ScriptHash,
       Ashby!ScriptCapture, Ashby!ScriptSubmit, Ashby!ScriptLost, Ashby!CommitStatus,
       Ashby!CommitWait, Ashby!EvidenceSnapshot, Ashby!EvidenceReference, Ashby!pageVars,
       Ashby!CommitFrame, Ashby!Returns, Ashby!Goes, Ashby!verify_resume_attachment
<1>4. CASE Ashby!Guard
  BY <1>0, <1>4 DEF Ashby!Guard, Ashby!GuardEnter, Ashby!GuardPayload
<1>5. CASE    \/ Ashby!CleanupPreflight \/ Ashby!CleanupPrepared
              \/ Ashby!PageStep \/ Ashby!Expire
              \/ UNCHANGED Ashby!vars
  BY <1>0, <1>5 DEF Ashby!vars, Ashby!CleanupPreflight, Ashby!CleanupPrepared,
       Ashby!PageStep, Ashby!Expire, Ashby!close, Ashby!pageVars, Ashby!NoSession
<1> QED  BY <1>1, <1>2, <1>3, <1>4, <1>5 DEF Ashby!Next, Ashby!AdapterStep

LEMMA WorkdayGivesBack ==
    ASSUME WorkdayShape, GivenBack, [Workday!Next]_(Workday!vars)
    PROVE  GivenBack'
<1>0. "open" \in DOMAIN session  BY DEF WorkdayShape
<1> USE DEF GivenBack, AtRest
<1>1. CASE Workday!Inspection
  BY <1>0, <1>1 DEF Workday!Inspection, Workday!InspectBegin, Workday!InspectAbandon,
       Workday!InspectOpen, Workday!InspectStep, Workday!InspectAttach,
       Workday!InspectAnswer, Workday!InspectFill, Workday!InspectReview,
       Workday!InspectComplete, Workday!navigate, Workday!gateVars, Workday!close,
       Workday!Inspecting, Workday!pageVars, Workday!FormOpened,
       Workday!ensure_resume_attachment, Workday!PlanMade, Workday!verify_resume_attachment,
       Workday!NoSession
<1>2. CASE Workday!Preflight
  BY <1>0, <1>2 DEF Workday!Preflight, Workday!PreflightBegin, Workday!PreflightRefuse,
       Workday!PreflightAlready, Workday!PreflightOpen, Workday!PreflightStep,
       Workday!PreflightAttach, Workday!PreflightFill, Workday!PreflightReview,
       Workday!PreflightVerify, Workday!navigate, Workday!PreflightReturns,
       Workday!PreflightFrame, Workday!Preflighting, Workday!pageVars, Workday!PreflightGoes,
       Workday!FormOpened, Workday!ensure_resume_attachment,
       Workday!verify_resume_attachment, Workday!NoSession, Workday!gateVars
<1>3. ASSUME NEW c \in {TheWorker}, Workday!CommitStep(c) PROVE GivenBack'
  BY <1>0, <1>3 DEF Workday!CommitStep, Workday!CommitBegin, Workday!CommitVerify,
       Workday!CommitCompare, Workday!ArmCompare, Workday!ArmVerify, Workday!ArmCapture,
       Workday!ArmGate, Workday!ClickScript, Workday!ClickStatus, Workday!ClickWait,
       Workday!EvidenceSnapshot, Workday!EvidenceReference, Workday!pageVars,
       Workday!gateVars, Workday!CommitFrame, Workday!Returns, Workday!Goes,
       Workday!verify_resume_attachment
<1>4. CASE Workday!Guard
  BY <1>0, <1>4 DEF Workday!Guard, Workday!GuardAddress, Workday!GuardDecide
<1>5. CASE    \/ Workday!CleanupPreflight \/ Workday!CleanupPrepared
              \/ Workday!PageStep \/ Workday!Expire
              \/ UNCHANGED Workday!vars
  BY <1>0, <1>5 DEF Workday!vars, Workday!CleanupPreflight, Workday!CleanupPrepared,
       Workday!PageStep, Workday!Expire, Workday!close, Workday!pageVars, Workday!gateVars,
       Workday!NoSession
<1> QED  BY <1>1, <1>2, <1>3, <1>4, <1>5 DEF Workday!Next, Workday!AdapterStep

LEMMA StartsGivenBack == Init => GivenBack
<1> SUFFICES ASSUME Init PROVE ~session.open
  BY DEF GivenBack
<1>1. CASE adapter = "greenhouse" /\ Greenhouse!Init
  BY <1>1 DEF Greenhouse!Init, Greenhouse!NoSession
<1>2. CASE adapter = "lever" /\ Lever!Init
  BY <1>2 DEF Lever!Init, Lever!PageInit, Lever!NoSession
<1>3. CASE adapter = "smartrecruiters" /\ SmartRecruiters!Init
  BY <1>3 DEF SmartRecruiters!Init, SmartRecruiters!PageInit, SmartRecruiters!NoSession
<1>4. CASE adapter = "ashby" /\ Ashby!Init
  BY <1>4 DEF Ashby!Init, Ashby!PageInit, Ashby!NoSession
<1>5. CASE adapter = "workday" /\ Workday!Init
  BY <1>5 DEF Workday!Init, Workday!PageInit, Workday!NoSession
<1> QED  BY <1>1, <1>2, <1>3, <1>4, <1>5 DEF Init

(* A browser and its profile lease are given back: no session is open      *)
(* before the inspection, nor after it ended in a plan or was given up, nor*)
(* after the cleanup (submitters/*, the finally clauses and the cleanups   *)
(* that call close), for any number of callers, fields and page changes.   *)
THEOREM BrowsersAreGivenBack == Spec => []GivenBack
<1>1. AdaptersHold /\ GivenBack /\ [Next]_vars => GivenBack'
  <2> SUFFICES ASSUME AdaptersHold, GivenBack, [Next]_vars PROVE GivenBack'
    OBVIOUS
  <2>1. CASE adapter = "greenhouse"
    BY <2>1, SelectedSteps, GreenhouseGivesBack DEF AdaptersHold, GreenhouseInv
  <2>2. CASE adapter = "lever"
    BY <2>2, SelectedSteps, LeverGivesBack DEF AdaptersHold, LeverInv
  <2>3. CASE adapter = "smartrecruiters"
    BY <2>3, SelectedSteps, SRGivesBack DEF AdaptersHold, SRInv
  <2>4. CASE adapter = "ashby"
    BY <2>4, SelectedSteps, AshbyGivesBack DEF AdaptersHold, AshbyInv
  <2>5. CASE adapter = "workday"
    BY <2>5, SelectedSteps, WorkdayGivesBack DEF AdaptersHold, WorkdayInv
  <2>6. adapter \in {"greenhouse", "lever", "smartrecruiters", "ashby", "workday"}
    BY DEF AdaptersHold
  <2> QED  BY <2>1, <2>2, <2>3, <2>4, <2>5, <2>6
<1> QED  BY <1>1, StartsGivenBack, AdaptersInvariant, PTL DEF Spec

----------------------------------------------------------------------------
(* An Ashby plan is made once, by the inspection's last pass.              *)
PlanHolds ==
    /\ {"made", "known", "form", "attached", "blocked"} \subseteq DOMAIN plan
    /\ Ashby!Inspecting \/ pc = "new" => ~plan.made
    /\ Ashby!ReadyPlanSettled

LEMMA AshbyPlanMade ==
    ASSUME PlanHolds, NEW form, NEW blocked, Ashby!PlanMade(form, blocked),
           ~blocked => form[1] = plan.known /\ plan.attached
    PROVE  PlanHolds'
<1>1. plan' = [plan EXCEPT !.made = TRUE, !.form = form, !.blocked = blocked] /\ pc' = "reviewed"
  BY DEF Ashby!PlanMade
<1> QED  BY <1>1 DEF PlanHolds, Ashby!ReadyPlanSettled, Ashby!Inspecting

LEMMA AshbyPlanInspected == PlanHolds /\ Ashby!Inspection => PlanHolds'
<1> SUFFICES ASSUME PlanHolds, Ashby!Inspection PROVE PlanHolds'
  OBVIOUS
<1> USE DEF PlanHolds, Ashby!ReadyPlanSettled, Ashby!Inspecting
<1>1. CASE Ashby!InspectBegin \/ Ashby!InspectAbandon \/ Ashby!InspectOpen \/ Ashby!InspectFill
  <2>1. UNCHANGED plan /\ (Ashby!Inspecting \/ pc = "new")
    BY <1>1 DEF Ashby!InspectBegin, Ashby!InspectAbandon, Ashby!InspectOpen, Ashby!InspectFill
  <2> QED  BY <2>1
<1>2. CASE Ashby!InspectPass
  <2>1. Ashby!Inspecting /\ plan' = [plan EXCEPT !.known = page.fields, !.passes = @ + 1]
    BY <1>2 DEF Ashby!InspectPass, Ashby!observe_fields
  <2> QED  BY <2>1
<1>3. CASE Ashby!InspectAttach  BY <1>3 DEF Ashby!InspectAttach
<1>4. CASE Ashby!InspectAnswer
  <2>1. CASE pc' = "inspect_fill" /\ UNCHANGED plan  BY <1>4, <2>1 DEF Ashby!InspectAnswer
  <2>2. CASE Ashby!PlanMade(<<plan.known, "none">>, TRUE)  BY <2>2, AshbyPlanMade
  <2> QED  BY <1>4, <2>1, <2>2 DEF Ashby!InspectAnswer
<1>5. CASE Ashby!InspectSettled
  <2>1. Ashby!form_fingerprint(page)[1] = page.fields
    BY DEF Ashby!form_fingerprint, Ashby!observe_fields
  <2>2. /\ page.fields = plan.known
        /\ Ashby!PlanMade(Ashby!form_fingerprint(page), ~plan.attached)
    BY <1>5 DEF Ashby!InspectSettled
  <2> QED  BY <2>1, <2>2, AshbyPlanMade
<1> QED  BY <1>1, <1>2, <1>3, <1>4, <1>5 DEF Ashby!Inspection

LEMMA AshbyPlanKept ==
    ASSUME PlanHolds, [Ashby!Next]_(Ashby!vars)
    PROVE  PlanHolds'
<1>1. CASE Ashby!Inspection  BY <1>1, AshbyPlanInspected
<1>2. CASE ~Ashby!Inspection
  <2>1. UNCHANGED plan /\ (pc' = pc \/ pc' \in {"pre_failed", "pre_load", "pre_open", "pre_attach",
                                                "pre_fill", "pre_filled", "pre_verify", "ready",
                                                "released"})
    <3>1. CASE Ashby!Preflight
      BY <3>1 DEF Ashby!Preflight, Ashby!PreflightBegin, Ashby!PreflightRefuse,
         Ashby!PreflightAlready, Ashby!PreflightOpen, Ashby!PreflightLoad,
         Ashby!PreflightAttach, Ashby!PreflightFill, Ashby!PreflightFilled,
         Ashby!PreflightVerify, Ashby!PreflightReturns, Ashby!PreflightFrame,
         Ashby!PreflightStep
    <3>2. ASSUME NEW c \in Callers, Ashby!CommitStep(c) PROVE UNCHANGED <<plan, pc>>
      BY <3>2 DEF Ashby!CommitStep, Ashby!CommitClaim, Ashby!CommitVerify,
         Ashby!CommitCompare, Ashby!ArmCompare, Ashby!ArmGate, Ashby!ScriptHash,
         Ashby!ScriptCapture, Ashby!ScriptSubmit, Ashby!ScriptLost, Ashby!CommitStatus,
         Ashby!CommitWait, Ashby!EvidenceSnapshot, Ashby!EvidenceReference, Ashby!CommitFrame
    <3>3. CASE Ashby!Guard  BY <3>3 DEF Ashby!Guard, Ashby!GuardEnter, Ashby!GuardPayload
    <3>4. CASE \/ Ashby!CleanupPreflight \/ Ashby!CleanupPrepared
               \/ Ashby!PageStep \/ Ashby!Expire \/ UNCHANGED Ashby!vars
      BY <3>4 DEF Ashby!vars, Ashby!CleanupPreflight, Ashby!CleanupPrepared, Ashby!PageStep,
         Ashby!Expire
    <3> QED  BY <1>2, <3>1, <3>2, <3>3, <3>4 DEF Ashby!Next, Ashby!AdapterStep
  <2> QED  BY <2>1 DEF PlanHolds, Ashby!ReadyPlanSettled, Ashby!Inspecting
<1> QED  BY <1>1, <1>2

(* An Ashby plan ready for a permit was settled: it binds the fields of    *)
(* the pass before it, all of them answered, and the CV was attached, for  *)
(* any number of passes and field sets (ashby_playwright.py, the loop of   *)
(* the inspection and the plan bound after it).                            *)
THEOREM AshbyPlansAreSettled == Spec => [](adapter = "ashby" => Ashby!ReadyPlanSettled)
<1> DEFINE Inv == adapter = "ashby" => PlanHolds
<1>1. Init => Inv
  BY DEF Init, PlanHolds, Ashby!Init, Ashby!PageInit, Ashby!NoPlan, Ashby!ReadyPlanSettled
<1>2. AdaptersHold /\ Inv /\ [Next]_vars => Inv'
  BY SelectedSteps, AshbyPlanKept
<1>3. Inv => (adapter = "ashby" => Ashby!ReadyPlanSettled)  BY DEF PlanHolds
<1> HIDE DEF Inv
<1> QED  BY <1>1, <1>2, <1>3, AdaptersInvariant, PTL DEF Spec

=============================================================================
