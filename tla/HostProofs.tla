------------------------------ MODULE HostProofs ------------------------------
(***************************************************************************)
(* What is proved of the parts of the operator's machine that Host puts    *)
(* beside one another.  The lemmas of a part speak of its variables by the *)
(* names of its module; its theorem holds for every value of the constants *)
(* that its settings allow, and what follows from it for a behaviour of    *)
(* Host is proved at the end.                                              *)
(***************************************************************************)
EXTENDS Host, FiniteSetTheorems, TLAPS

----------------------------------------------------------------------------
(* The governor (core/governor.py): the budget, the gap and the stops hold *)
(* for every number of workers, every cap and every gap.  What makes the   *)
(* optimistic loop right is PastStops and PastBudget: each is established  *)
(* by a read and can only be undone by a write to a watched key, which     *)
(* sets dirty.                                                             *)
USE DEF Days, PCs, Caller, Queued

LEMMA InvInit == Init => GovernorInv
<1> SUFFICES ASSUME Init PROVE GovernorInv
  OBVIOUS
<1>1. Outside \in Caller /\ Outside.pc = "idle" /\ ~Outside.killedThroughout
  BY GovernorAssumption DEF Outside
<1>2. \A w \in Workers : caller[w] = Outside
  BY DEF Init
<1>3. GovernorTypeOK
  <2>1. /\ 1 \in Days /\ 0 \in 0 .. MaxGap /\ 0 \in 0 .. MaxCooldown /\ 0 \in 0 .. MaxTrips
        /\ MinGap \in 0 .. MinGap /\ 0 \in 0 .. MinGap /\ 0 \in 0 .. MaxCalls
        /\ NotQueued \in Queued
    BY GovernorAssumption DEF NotQueued
  <2> QED
    BY <1>1, <2>1 DEF Init, GovernorTypeOK
<1>4. CapHolds /\ FutureUnspent /\ GapRuns
  BY GovernorAssumption DEF Init, CapHolds, FutureUnspent, GapRuns
<1>5. \A w \in Workers : InLoop(w) /\ PastStops(w) /\ PastBudget(w) /\ GapQueued(w) /\ Unstopped(w)
  BY <1>1, <1>2 DEF InLoop, PastStops, PastBudget, GapQueued, Unstopped
<1> QED
  BY <1>1, <1>2, <1>3, <1>4, <1>5 DEF GovernorInv

\* Of a call that has its answer, the attempt and its history are left.
LEMMA OutType ==
    ASSUME NEW w, caller[w] \in Caller, NEW pc \in PCs
    PROVE  /\ Out(w, pc) \in Caller /\ Out(w, pc).pc = pc
           /\ Out(w, pc).attempt = caller[w].attempt
           /\ Out(w, pc).killedThroughout = caller[w].killedThroughout
<1>1. /\ caller[w].attempt \in Attempts \cup {NoAttempt} /\ caller[w].killedThroughout \in BOOLEAN
      /\ 0 \in 0 .. MaxTries /\ 1 \in Days
  BY GovernorAssumption
<1>2. Outside \in Caller
  BY <1>1 DEF Outside
<1>3. Out(w, pc) = [Outside EXCEPT !.pc = pc, !.attempt = caller[w].attempt,
                                  !.killedThroughout = caller[w].killedThroughout]
  BY DEF Out
<1> QED
  BY <1>1, <1>2, <1>3

\* A step that only moves w's program counter.
LEMMA AnswerInv ==
    ASSUME GovernorInv, NEW w \in Workers, NEW pc \in PCs, pc # "idle", Answer(w, pc),
           caller[w].attempt \in Attempts, caller[w].tries < MaxTries,
           pc \in {"budget", "queue", "exec"} /\ ~caller[w].dirty => ~killed /\ cooldownLeft = 0,
           pc \in {"budget", "queue", "exec", "granted"} => ~caller[w].killedThroughout,
           pc = "exec" => caller[w].attempt \notin LinkedIn,
           pc \in {"budget", "queue"} => caller[w].attempt \in LinkedIn,
           pc = "queue" => used[today] < DailyCap /\ gapLeft = 0
    PROVE  GovernorInv'
<1> DEFINE c == IF pc \in {"granted", "denied"} THEN Out(w, pc)
                ELSE [caller[w] EXCEPT !.pc = pc, !.readDay = today]
<1>a. /\ c \in Caller /\ c.pc = pc /\ c.attempt = caller[w].attempt
      /\ c.killedThroughout = caller[w].killedThroughout
      /\ pc \notin {"granted", "denied"} =>
            /\ c.tries = caller[w].tries /\ c.readDay = today /\ c.dirty = caller[w].dirty
  <2>1. caller[w] \in Caller /\ today \in Days
    BY DEF GovernorInv, GovernorTypeOK
  <2>2. CASE pc \in {"granted", "denied"}
    <3>1. c = Out(w, pc)
      BY <2>2
    <3> HIDE DEF c
    <3> QED
      BY <2>1, <2>2, <3>1, OutType
  <2>3. CASE pc \notin {"granted", "denied"}
    <3>1. c = [caller[w] EXCEPT !.pc = pc, !.readDay = today]
      BY <2>3
    <3> HIDE DEF c
    <3> QED
      BY <2>1, <2>3, <3>1
  <2> QED
    BY <2>2, <2>3
<1>b. caller' = [caller EXCEPT ![w] = c] /\ caller \in [Workers -> Caller]
  BY DEF Answer, GovernorInv, GovernorTypeOK
<1> HIDE DEF c
<1>1. /\ caller' \in [Workers -> Caller] /\ caller'[w] = c
      /\ caller'[w].pc = pc /\ caller'[w].attempt = caller[w].attempt
      /\ caller'[w].killedThroughout = caller[w].killedThroughout
      /\ pc \notin {"granted", "denied"} =>
            /\ caller'[w].tries = caller[w].tries /\ caller'[w].readDay = today
            /\ caller'[w].dirty = caller[w].dirty
      /\ \A v \in Workers \ {w} : caller'[v] = caller[v]
  BY <1>a, <1>b
<1>2. GovernorTypeOK' /\ CapHolds' /\ FutureUnspent' /\ GapRuns'
  BY <1>1 DEF Answer, GovernorInv, GovernorTypeOK, CapHolds, FutureUnspent, GapRuns
<1>3. \A v \in Workers : InLoop(v)' /\ PastStops(v)' /\ GapQueued(v)' /\ Unstopped(v)'
  BY <1>1 DEF Answer, GovernorInv, InLoop, PastStops, GapQueued, Unstopped
<1>4. ASSUME NEW v \in Workers PROVE PastBudget(v)'
  <2>1. PastBudget(v) /\ today \in Days /\ UNCHANGED <<today, used, gapLeft>>
    BY DEF Answer, GovernorInv, GovernorTypeOK
  <2>2. CASE v # w
    BY <1>1, <2>1, <2>2 DEF PastBudget
  <2>3. CASE v = w
    <3>1. \A d \in Days : today <= d /\ d <= today => d = today
      BY <2>1
    <3> QED
      BY <1>1, <2>1, <2>3, <3>1 DEF PastBudget
  <2> QED
    BY <2>2, <2>3
<1> QED
  BY <1>2, <1>3, <1>4 DEF GovernorInv

LEMMA DisturbedType ==
    ASSUME GovernorTypeOK, NEW a, NEW days, NEW keys
    PROVE  /\ Disturbed(a, days, keys) \in [Workers -> Caller]
           /\ \A w \in Workers :
                 /\ Disturbed(a, days, keys)[w].pc = caller[w].pc
                 /\ Disturbed(a, days, keys)[w].attempt = caller[w].attempt
                 /\ Disturbed(a, days, keys)[w].tries = caller[w].tries
                 /\ Disturbed(a, days, keys)[w].killedThroughout = caller[w].killedThroughout
                 /\ Disturbed(a, days, keys)[w].readDay = caller[w].readDay
                 /\ caller[w].dirty => Disturbed(a, days, keys)[w].dirty
                 /\ /\ caller[w].pc \in {"read", "budget", "queue", "exec"}
                    /\ \/ keys \cap {"kill", "cooldown"} # {}
                       \/ caller[w].attempt \in LinkedIn /\ "gap" \in keys
                    => Disturbed(a, days, keys)[w].dirty
<1> DEFINE D == Disturbed(a, days, keys)
           W(w) == \/ keys \cap {"kill", "cooldown"} # {}
                   \/ a # NoAttempt /\ caller[w].attempt = a
                   \/ caller[w].attempt \in LinkedIn
                        /\ ("gap" \in keys \/ caller[w].watchedDay \in days)
           dirtied(w) == caller[w].dirty \/ (Watching(w) /\ W(w))
<1>1. D = [w \in Workers |-> [caller[w] EXCEPT !.dirty = dirtied(w)]]
  BY DEF Disturbed
<1>2. ASSUME NEW w \in Workers
      PROVE  /\ D[w] \in Caller
             /\ D[w].pc = caller[w].pc /\ D[w].attempt = caller[w].attempt
             /\ D[w].tries = caller[w].tries /\ D[w].dirty = dirtied(w)
             /\ D[w].killedThroughout = caller[w].killedThroughout
             /\ D[w].readDay = caller[w].readDay
  <2>1. caller[w] \in Caller /\ D[w] = [caller[w] EXCEPT !.dirty = dirtied(w)]
    BY <1>1 DEF GovernorTypeOK
  <2>2. dirtied(w) \in BOOLEAN
    BY <2>1
  <2> HIDE DEF dirtied, D
  <2> QED
    BY <2>1, <2>2
<1>3. D \in [Workers -> Caller]
  <2> HIDE DEF dirtied
  <2> QED
    BY <1>1, <1>2
<1>4. ASSUME NEW w \in Workers, caller[w].pc \in {"read", "budget", "queue", "exec"},
             \/ keys \cap {"kill", "cooldown"} # {}
             \/ caller[w].attempt \in LinkedIn /\ "gap" \in keys
      PROVE  dirtied(w)
  BY <1>4 DEF Watching
<1> HIDE DEF D
<1>5. \A w \in Workers : caller[w].dirty => dirtied(w)
  OBVIOUS
<1> HIDE DEF dirtied
<1> QED
  BY <1>2, <1>3, <1>4, <1>5 DEF D

LEMMA GrantedType ==
    ASSUME GovernorTypeOK, NEW w \in Workers, NEW days, NEW keys,
           caller' = Granted(w, days, keys)
    PROVE  /\ caller' \in [Workers -> Caller]
           /\ caller'[w].pc = "granted" /\ caller'[w].attempt = caller[w].attempt
           /\ caller'[w].killedThroughout = caller[w].killedThroughout
           /\ \A v \in Workers \ {w} :
                 /\ caller'[v].pc = caller[v].pc /\ caller'[v].attempt = caller[v].attempt
                 /\ caller'[v].tries = caller[v].tries /\ caller'[v].readDay = caller[v].readDay
                 /\ caller'[v].killedThroughout = caller[v].killedThroughout
                 /\ caller[v].dirty => caller'[v].dirty
                 /\ /\ caller[v].pc \in {"queue", "exec"}
                    /\ caller[v].attempt \in LinkedIn /\ "gap" \in keys
                    => caller'[v].dirty
<1> DEFINE D == Disturbed(caller[w].attempt, days, keys)
           c == Out(w, "granted")
<1>1. D \in [Workers -> Caller]
  BY DisturbedType
<1>2. /\ c \in Caller /\ c.pc = "granted" /\ c.attempt = caller[w].attempt
      /\ c.killedThroughout = caller[w].killedThroughout
  BY OutType DEF GovernorTypeOK
<1>3. caller' = [D EXCEPT ![w] = c]
  BY DEF Granted
<1> HIDE DEF c
<1>4. /\ caller' \in [Workers -> Caller] /\ caller'[w] = c
      /\ \A v \in Workers \ {w} : caller'[v] = D[v]
  BY <1>1, <1>2, <1>3
<1> QED
  BY <1>2, <1>4, DisturbedType

\* A stop makes every transaction past its first read fail.
LEMMA StopType ==
    ASSUME GovernorTypeOK, NEW keys, keys \cap {"kill", "cooldown"} # {},
           NEW D, D = Disturbed(NoAttempt, {}, keys)
    PROVE  /\ D \in [Workers -> Caller]
           /\ \A v \in Workers :
                 /\ D[v].pc = caller[v].pc /\ D[v].attempt = caller[v].attempt
                 /\ D[v].tries = caller[v].tries /\ D[v].readDay = caller[v].readDay
                 /\ D[v].killedThroughout = caller[v].killedThroughout
                 /\ caller[v].dirty \/ caller[v].pc \in {"budget", "queue", "exec"} => D[v].dirty
  BY DisturbedType

LEMMA ResumeType ==
    ASSUME GovernorTypeOK, Resume
    PROVE  /\ caller' \in [Workers -> Caller]
           /\ \A v \in Workers :
                 /\ caller'[v].pc = caller[v].pc /\ caller'[v].attempt = caller[v].attempt
                 /\ caller'[v].tries = caller[v].tries /\ caller'[v].readDay = caller[v].readDay
                 /\ ~caller'[v].killedThroughout
                 /\ caller[v].dirty \/ caller[v].pc \in {"budget", "queue", "exec"} => caller'[v].dirty
<1> DEFINE D == Disturbed(NoAttempt, {}, {"kill"})
<1>1. /\ D \in [Workers -> Caller]
      /\ \A v \in Workers :
            /\ D[v].pc = caller[v].pc /\ D[v].attempt = caller[v].attempt
            /\ D[v].tries = caller[v].tries /\ D[v].readDay = caller[v].readDay
            /\ caller[v].dirty \/ caller[v].pc \in {"budget", "queue", "exec"} => D[v].dirty
  <2>1. {"kill"} \cap {"kill", "cooldown"} # {}
    OBVIOUS
  <2> HIDE DEF Caller
  <2> QED
    BY <2>1, StopType
<1>2. caller' = [v \in Workers |-> [D[v] EXCEPT !.killedThroughout = FALSE]]
  BY DEF Resume
<1> HIDE DEF D
<1>3. ASSUME NEW v \in Workers
      PROVE  /\ caller'[v] \in Caller
             /\ caller'[v].pc = D[v].pc /\ caller'[v].attempt = D[v].attempt
             /\ caller'[v].tries = D[v].tries /\ caller'[v].dirty = D[v].dirty
             /\ caller'[v].readDay = D[v].readDay /\ ~caller'[v].killedThroughout
  <2>1. D[v] \in Caller /\ caller'[v] = [D[v] EXCEPT !.killedThroughout = FALSE]
    BY <1>1, <1>2
  <2> QED
    BY <2>1
<1>4. caller' \in [Workers -> Caller]
  BY <1>2, <1>3
<1> QED
  BY <1>1, <1>3, <1>4

-----------------------------------------------------------------------------
(***************************************************************************)
(* The steps of one call.                                                  *)
(***************************************************************************)
LEMMA CallInv == ASSUME GovernorInv, NEW w \in Workers, NEW a \in Attempts, Call(w, a)
                 PROVE  GovernorInv'
<1>1. /\ caller' \in [Workers -> Caller]
      /\ caller'[w].pc = "watch" /\ caller'[w].attempt = a /\ caller'[w].tries = 0
      /\ caller'[w].killedThroughout = killed
      /\ \A v \in Workers \ {w} : caller'[v] = caller[v]
  BY GovernorAssumption DEF Call, GovernorInv, GovernorTypeOK
<1>2. GovernorTypeOK' /\ CapHolds' /\ FutureUnspent' /\ GapRuns'
  <2>1. GovernorTypeOK'
    <3>1. calls' \in 0 .. MaxCalls
      BY GovernorAssumption DEF Call, GovernorInv, GovernorTypeOK
    <3> HIDE DEF Caller, Queued, Days
    <3> QED
      BY <1>1, <3>1 DEF Call, GovernorInv, GovernorTypeOK
  <2>2. CapHolds' /\ FutureUnspent' /\ GapRuns'
    BY DEF Call, GovernorInv, CapHolds, FutureUnspent, GapRuns
  <2> QED
    BY <2>1, <2>2
<1>3. \A v \in Workers : InLoop(v)' /\ PastStops(v)' /\ PastBudget(v)' /\ GapQueued(v)' /\ Unstopped(v)'
  BY <1>1, GovernorAssumption DEF Call, GovernorInv, InLoop, PastStops, PastBudget, GapQueued, Unstopped
<1> QED
  BY <1>1, <1>2, <1>3 DEF GovernorInv

LEMMA WatchInv == ASSUME GovernorInv, NEW w \in Workers, Watch(w)
                  PROVE  GovernorInv'
<1>1. /\ caller' \in [Workers -> Caller]
      /\ caller[w].pc = "watch" /\ caller'[w].pc = "read"
      /\ caller'[w].attempt = caller[w].attempt /\ caller'[w].tries = caller[w].tries
      /\ caller'[w].killedThroughout = caller[w].killedThroughout
      /\ \A v \in Workers \ {w} : caller'[v] = caller[v]
  <2> DEFINE c == [caller[w] EXCEPT !.pc = "read", !.dirty = FALSE]
  <2>1. caller \in [Workers -> Caller] /\ caller[w] \in Caller
    BY DEF GovernorInv, GovernorTypeOK
  <2>2. /\ c \in Caller /\ c.pc = "read" /\ c.attempt = caller[w].attempt
        /\ c.tries = caller[w].tries /\ c.killedThroughout = caller[w].killedThroughout
    BY <2>1
  <2>3. caller' = [caller EXCEPT ![w] = c] /\ caller[w].pc = "watch"
    BY <2>1 DEF Watch
  <2> HIDE DEF c, Caller
  <2> QED
    BY <2>1, <2>2, <2>3
<1>2. GovernorTypeOK' /\ CapHolds' /\ FutureUnspent' /\ GapRuns'
  BY <1>1 DEF Watch, GovernorInv, GovernorTypeOK, CapHolds, FutureUnspent, GapRuns
<1>3. \A v \in Workers : InLoop(v)' /\ PastStops(v)' /\ PastBudget(v)' /\ GapQueued(v)' /\ Unstopped(v)'
  BY <1>1 DEF Watch, GovernorInv, InLoop, PastStops, PastBudget, GapQueued, Unstopped
<1> QED
  BY <1>2, <1>3 DEF GovernorInv

\* The reads: each answer carries what was just seen to be true.
LEMMA ReadInv ==
    ASSUME GovernorInv, NEW w \in Workers, OutsideHours(w) \/ ReadStops(w) \/ ReadBudget(w)
    PROVE  GovernorInv'
<1>1. CASE OutsideHours(w)
  BY <1>1, AnswerInv DEF OutsideHours, GovernorInv, InLoop
<1>2. CASE ReadStops(w)
  <2> DEFINE pc == IF killed \/ cooldownLeft > 0 THEN "denied"
                   ELSE IF caller[w].attempt \in reserved THEN "granted"
                   ELSE IF caller[w].attempt \in LinkedIn THEN "budget" ELSE "exec"
  <2>1. Answer(w, pc) /\ caller[w].attempt \in Attempts /\ caller[w].tries < MaxTries
    BY <1>2 DEF ReadStops, GovernorInv, InLoop
  <2>2. cooldownLeft \in Nat /\ (caller[w].killedThroughout => killed)
    BY GovernorAssumption DEF GovernorInv, GovernorTypeOK, Unstopped
  <2>3. /\ pc \in PCs /\ pc # "idle"
        /\ pc # "denied" => ~killed /\ cooldownLeft = 0
        /\ pc = "exec" => caller[w].attempt \notin LinkedIn
        /\ pc = "budget" => caller[w].attempt \in LinkedIn
        /\ pc # "queue"
    BY <2>2
  <2> HIDE DEF pc
  <2> QED
    BY <2>1, <2>2, <2>3, AnswerInv
<1>3. CASE ReadBudget(w)
  <2> DEFINE pc == IF used[today] >= DailyCap \/ gapLeft > 0 THEN "denied" ELSE "queue"
  <2>1. /\ Answer(w, pc) /\ caller[w].pc = "budget"
        /\ caller[w].attempt \in Attempts /\ caller[w].tries < MaxTries
        /\ caller[w].attempt \in LinkedIn
    BY <1>3 DEF ReadBudget, GovernorInv, InLoop
  <2>2. used[today] \in Nat /\ gapLeft \in Nat /\ ~caller[w].killedThroughout
    BY <2>1, GovernorAssumption DEF GovernorInv, GovernorTypeOK, Unstopped
  <2>3. /\ pc \in {"denied", "queue"}
        /\ pc = "queue" => used[today] < DailyCap /\ gapLeft = 0
    BY <2>2, GovernorAssumption
  <2> HIDE DEF pc
  <2>4. ~caller[w].dirty => ~killed /\ cooldownLeft = 0
    BY <2>1 DEF GovernorInv, PastStops
  <2> QED
    BY <2>1, <2>2, <2>3, <2>4, AnswerInv
<1> QED
  BY <1>1, <1>2, <1>3

\* The day is chosen among those whose budget was seen, and the gap starts to run.
LEMMA QueueInv == ASSUME GovernorInv, NEW w \in Workers, Queue(w)
                  PROVE  GovernorInv'
<1> DEFINE c(d) == [caller[w] EXCEPT !.pc = "exec", !.readDay = d]
           q(g) == [gap |-> g, stall |-> 0]
<1>1. /\ GovernorTypeOK /\ caller[w] \in Caller /\ today \in Days /\ caller[w].readDay \in Days
      /\ caller[w].pc = "queue" /\ MaxDays \in Nat
  BY GovernorAssumption DEF Queue, GovernorInv, GovernorTypeOK
<1>2. PICK d \in caller[w].readDay .. today : caller' = [caller EXCEPT ![w] = c(d)]
  <2>1. PICK d \in caller[w].readDay .. today :
            caller' = [caller EXCEPT ![w].pc = "exec", ![w].readDay = d]
    BY DEF Queue
  <2>2. caller' = [caller EXCEPT ![w] = c(d)]
    BY <1>1, <2>1 DEF GovernorTypeOK
  <2> QED
    BY <2>2
<1>3. PICK g \in MinGap .. MaxGap : queued' = [queued EXCEPT ![w] = q(g)]
  BY DEF Queue
<1>4. d \in Days /\ caller[w].readDay <= d /\ d <= today
  BY <1>1
<1>5. /\ c(d) \in Caller /\ c(d).pc = "exec" /\ c(d).attempt = caller[w].attempt
      /\ c(d).tries = caller[w].tries /\ c(d).dirty = caller[w].dirty /\ c(d).readDay = d
      /\ c(d).killedThroughout = caller[w].killedThroughout
  BY <1>1, <1>4
<1>6. /\ q(g) \in Queued /\ q(g).gap + q(g).stall >= MinGap
  <2>1. /\ g \in 0 .. MaxGap /\ g >= MinGap /\ 0 \in 0 .. MinGap /\ g + 0 = g
    BY GovernorAssumption
  <2> QED
    BY <2>1
<1> HIDE DEF c, q, Caller, Queued, Days
<1>7. /\ caller' \in [Workers -> Caller] /\ caller'[w] = c(d)
      /\ \A v \in Workers \ {w} : caller'[v] = caller[v]
      /\ queued' \in [Workers -> Queued] /\ queued'[w] = q(g)
      /\ \A v \in Workers \ {w} : queued'[v] = queued[v]
  BY <1>1, <1>2, <1>3, <1>5, <1>6 DEF GovernorTypeOK
<1>8. UNCHANGED <<today, used, gapLeft, killed, cooldownLeft, trips, reserved, session,
                  sinceLast, lastStall, calls>>
  BY DEF Queue
<1>9. GovernorTypeOK' /\ CapHolds' /\ FutureUnspent' /\ GapRuns'
  BY <1>7, <1>8 DEF GovernorInv, GovernorTypeOK, CapHolds, FutureUnspent, GapRuns
<1>10. ASSUME NEW v \in Workers
       PROVE  InLoop(v)' /\ PastStops(v)' /\ PastBudget(v)' /\ GapQueued(v)' /\ Unstopped(v)'
  <2>1. InLoop(v) /\ PastStops(v) /\ PastBudget(v) /\ GapQueued(v) /\ Unstopped(v)
    BY DEF GovernorInv
  <2>2. CASE v = w
    <3>1. PastBudget(w)'
      BY <1>1, <1>4, <1>5, <1>7, <1>8, <2>1, <2>2 DEF PastBudget
    <3>2. InLoop(w)' /\ PastStops(w)' /\ Unstopped(w)'
      BY <1>1, <1>5, <1>7, <1>8, <2>1, <2>2 DEF InLoop, PastStops, Unstopped
    <3>3. GapQueued(w)'
      BY <1>6, <1>7 DEF GapQueued
    <3> QED
      BY <2>2, <3>1, <3>2, <3>3
  <2>3. CASE v # w
    BY <1>7, <1>8, <2>1, <2>3 DEF InLoop, PastStops, PastBudget, GapQueued, Unstopped
  <2> QED
    BY <2>2, <2>3
<1> QED
  BY <1>9, <1>10 DEF GovernorInv

LEMMA ExecLinkedInInv == ASSUME GovernorInv, NEW w \in Workers, ExecLinkedIn(w)
                         PROVE  GovernorInv'
<1> DEFINE d == caller[w].readDay
<1>1. used' = [used EXCEPT ![d] = @ + 1] /\ caller' = Granted(w, {d}, {"gap"})
  BY DEF ExecLinkedIn
<1>2. /\ GovernorTypeOK /\ caller[w].attempt \in Attempts /\ ~caller[w].killedThroughout
      /\ d \in Days /\ d <= today /\ today \in Days /\ used[d] \in Nat /\ used[d] < DailyCap
  <2>1. d \in Days /\ today \in Days /\ used \in [Days -> Nat]
    BY DEF GovernorInv, GovernorTypeOK
  <2>2. PastBudget(w) /\ InLoop(w) /\ Unstopped(w) /\ GovernorTypeOK
    BY DEF GovernorInv
  <2> QED
    BY <2>1, <2>2 DEF ExecLinkedIn, Clean, InLoop, PastBudget, Unstopped
<1> HIDE DEF d
<1>3. /\ caller' \in [Workers -> Caller]
      /\ caller'[w].pc = "granted" /\ caller'[w].attempt = caller[w].attempt
      /\ caller'[w].killedThroughout = caller[w].killedThroughout
      /\ \A v \in Workers \ {w} :
            /\ caller'[v].pc = caller[v].pc /\ caller'[v].attempt = caller[v].attempt
            /\ caller'[v].tries = caller[v].tries /\ caller'[v].readDay = caller[v].readDay
            /\ caller'[v].killedThroughout = caller[v].killedThroughout
            /\ caller[v].dirty => caller'[v].dirty
            /\ caller[v].pc \in {"queue", "exec"} /\ caller[v].attempt \in LinkedIn => caller'[v].dirty
  <2> HIDE DEF Caller
  <2>1. "gap" \in {"gap"} /\ GovernorTypeOK /\ caller' = Granted(w, {d}, {"gap"})
    BY <1>1, <1>2
  <2> QED
    BY <2>1, GrantedType, ZenonT(60)
<1>4. GovernorTypeOK'
  <2>1. used' \in [Days -> Nat]
    <3>1. used \in [Days -> Nat] /\ used[d] + 1 \in Nat
      BY <1>2 DEF GovernorTypeOK
    <3> HIDE DEF Days
    <3> QED
      BY <1>1, <1>2, <3>1
  <2>3. reserved' \subseteq Attempts
    BY <1>2 DEF ExecLinkedIn, GovernorTypeOK
  <2>2. gapLeft' \in 0 .. MaxGap /\ sinceLast' \in 0 .. MinGap /\ lastStall' \in 0 .. MinGap
    <3>1. 0 \in 0 .. MinGap /\ queued[w].gap \in 0 .. MaxGap /\ queued[w].stall \in 0 .. MinGap
      BY <1>2, GovernorAssumption DEF GovernorTypeOK
    <3> QED
      BY <3>1 DEF ExecLinkedIn
  <2>4. queued' \in [Workers -> Queued]
    <3>1. NotQueued \in Queued
      BY GovernorAssumption DEF NotQueued
    <3> HIDE DEF Queued
    <3> QED
      BY <1>2, <3>1 DEF ExecLinkedIn, GovernorTypeOK
  <2> HIDE DEF Caller, Queued, Days
  <2> QED
    BY <1>2, <1>3, <2>1, <2>2, <2>3, <2>4 DEF ExecLinkedIn, GovernorTypeOK
<1>5. CapHolds' /\ FutureUnspent' /\ GapRuns'
  <2>1. used' = [used EXCEPT ![d] = @ + 1] /\ today' = today /\ used \in [Days -> Nat]
    BY <1>1, <1>2 DEF ExecLinkedIn, GovernorTypeOK
  <2>2. CapHolds'
    BY <1>2, <2>1, GovernorAssumption DEF GovernorInv, CapHolds
  <2>3. FutureUnspent'
    BY <1>2, <2>1 DEF GovernorInv, FutureUnspent
  <2>4. GapRuns'
    <3>1. /\ queued[w].gap \in 0 .. MaxGap /\ queued[w].stall \in 0 .. MinGap
          /\ MinGap \in Nat /\ MaxGap \in Nat
      BY <1>2, GovernorAssumption DEF GovernorTypeOK
    <3>2. queued[w].gap + queued[w].stall >= MinGap
      BY DEF ExecLinkedIn, GovernorInv, GapQueued
    <3>3. gapLeft' = queued[w].gap /\ sinceLast' = 0 /\ lastStall' = queued[w].stall
      BY DEF ExecLinkedIn
    <3> QED
      BY <3>1, <3>2, <3>3 DEF GapRuns
  <2> QED
    BY <2>2, <2>3, <2>4
<1>6. ASSUME NEW v \in Workers
      PROVE  InLoop(v)' /\ PastStops(v)' /\ PastBudget(v)' /\ GapQueued(v)' /\ Unstopped(v)'
  <2>1. CASE v = w
    BY <1>2, <1>3, <2>1 DEF InLoop, PastStops, PastBudget, GapQueued, Unstopped
  <2>2. CASE v # w
    <3>1. killed' = killed /\ cooldownLeft' = cooldownLeft /\ queued'[v] = queued[v]
      BY <1>2, <2>2 DEF ExecLinkedIn, GovernorTypeOK
    <3>2. InLoop(v) /\ PastStops(v) /\ PastBudget(v) /\ GapQueued(v) /\ Unstopped(v)
      BY DEF GovernorInv
    <3> QED
      BY <1>3, <2>2, <3>1, <3>2 DEF InLoop, PastStops, PastBudget, GapQueued, Unstopped
  <2> QED
    BY <2>1, <2>2
<1> QED
  BY <1>4, <1>5, <1>6 DEF GovernorInv

LEMMA ExecOtherInv == ASSUME GovernorInv, NEW w \in Workers, ExecOther(w)
                      PROVE  GovernorInv'
<1>1. caller[w].attempt \in Attempts /\ ~caller[w].killedThroughout /\ GovernorTypeOK
  BY DEF ExecOther, GovernorInv, InLoop, Unstopped
<1>2. caller' = Granted(w, {}, {})
  BY DEF ExecOther
<1>3. /\ caller' \in [Workers -> Caller]
      /\ caller'[w].pc = "granted" /\ caller'[w].attempt = caller[w].attempt
      /\ caller'[w].killedThroughout = caller[w].killedThroughout
      /\ \A v \in Workers \ {w} :
            /\ caller'[v].pc = caller[v].pc /\ caller'[v].attempt = caller[v].attempt
            /\ caller'[v].tries = caller[v].tries /\ caller'[v].readDay = caller[v].readDay
            /\ caller'[v].killedThroughout = caller[v].killedThroughout
            /\ caller[v].dirty => caller'[v].dirty
  BY <1>1, <1>2, GrantedType
<1>4. GovernorTypeOK' /\ CapHolds' /\ FutureUnspent' /\ GapRuns'
  BY <1>1, <1>3 DEF ExecOther, GovernorInv, GovernorTypeOK, CapHolds, FutureUnspent, GapRuns
<1>5. ASSUME NEW v \in Workers
      PROVE  InLoop(v)' /\ PastStops(v)' /\ PastBudget(v)' /\ GapQueued(v)' /\ Unstopped(v)'
  BY <1>1, <1>2, <1>3
  DEF ExecOther, GovernorInv, InLoop, PastStops, PastBudget, GapQueued, Unstopped
<1> QED
  BY <1>4, <1>5 DEF GovernorInv

\* Losing the race, and leaving.
LEMMA LeaveInv == ASSUME GovernorInv, NEW w \in Workers, ExecFails(w) \/ Return(w)
                  PROVE  GovernorInv'
<1>1. /\ caller' \in [Workers -> Caller]
      /\ caller'[w].pc \in {"idle", "watch", "denied"}
      /\ caller'[w].pc # "idle" => caller'[w].attempt \in Attempts
      /\ caller'[w].pc = "watch" => caller'[w].tries < MaxTries
      /\ caller'[w].killedThroughout => caller[w].killedThroughout
      /\ \A v \in Workers \ {w} : caller'[v] = caller[v]
  <2>1. CASE ExecFails(w)
    <3>1. /\ caller[w].tries \in Nat /\ caller[w].tries < MaxTries /\ MaxTries \in Nat
          /\ caller[w].attempt \in Attempts
      <4>1. caller[w] \in Caller /\ MaxTries \in Nat
        BY GovernorAssumption DEF GovernorInv, GovernorTypeOK
      <4>2. caller[w].pc = "exec" /\ InLoop(w)
        BY <2>1 DEF ExecFails, GovernorInv
      <4>3. caller[w].tries \in 0 .. MaxTries
        BY <4>1
      <4> QED
        BY <4>1, <4>2, <4>3 DEF InLoop
    <3> DEFINE n == caller[w].tries + 1
               pc == IF n < MaxTries THEN "watch" ELSE "denied"
               c == [caller[w] EXCEPT !.tries = n, !.pc = pc]
    <3>2. n \in 0 .. MaxTries /\ pc \in {"watch", "denied"} /\ (pc = "watch" => n < MaxTries)
      BY <3>1
    <3>3. caller \in [Workers -> Caller] /\ caller[w] \in Caller
      BY DEF GovernorInv, GovernorTypeOK
    <3>4. caller' = [caller EXCEPT ![w] = c]
      BY <2>1, <3>3 DEF ExecFails
    <3> HIDE DEF n, pc
    <3>5. /\ c \in Caller /\ c.pc = pc /\ c.tries = n /\ c.attempt = caller[w].attempt
          /\ c.killedThroughout = caller[w].killedThroughout
      BY <3>2, <3>3
    <3> HIDE DEF c, Caller
    <3> QED
      BY <3>1, <3>2, <3>3, <3>4, <3>5
  <2>2. CASE Return(w)
    <3>1. Outside \in Caller /\ Outside.pc = "idle" /\ ~Outside.killedThroughout
      BY GovernorAssumption DEF Outside
    <3> QED
      BY <2>2, <3>1 DEF Return, GovernorInv, GovernorTypeOK
  <2> QED
    BY <2>1, <2>2
<1>2. /\ UNCHANGED <<today, used, gapLeft, killed, cooldownLeft, trips, reserved, session,
                    sinceLast, lastStall, calls>>
      /\ queued' \in [Workers -> Queued]
      /\ \A v \in Workers \ {w} : queued'[v] = queued[v]
  <2>1. NotQueued \in Queued
    BY GovernorAssumption DEF NotQueued
  <2> HIDE DEF Queued, Caller
  <2> QED
    BY <2>1 DEF ExecFails, Return, GovernorInv, GovernorTypeOK
<1>3. GovernorTypeOK' /\ CapHolds' /\ FutureUnspent' /\ GapRuns'
  BY <1>1, <1>2 DEF GovernorInv, GovernorTypeOK, CapHolds, FutureUnspent, GapRuns
<1>4. \A v \in Workers : InLoop(v)' /\ PastStops(v)' /\ PastBudget(v)' /\ GapQueued(v)' /\ Unstopped(v)'
  BY <1>1, <1>2 DEF GovernorInv, InLoop, PastStops, PastBudget, GapQueued, Unstopped
<1> QED
  BY <1>3, <1>4 DEF GovernorInv

-----------------------------------------------------------------------------
(***************************************************************************)
(* The stops, and time.                                                    *)
(***************************************************************************)
LEMMA StopInv ==
    ASSUME GovernorInv, Kill \/ Resume \/ \E s \in Sessions : TripWrite(s)
    PROVE  GovernorInv'
<1>1. GovernorTypeOK
  BY DEF GovernorInv
<1> DEFINE Kept(c) ==
        /\ c \in [Workers -> Caller]
        /\ \A w \in Workers :
              /\ c[w].pc = caller[w].pc /\ c[w].attempt = caller[w].attempt
              /\ c[w].tries = caller[w].tries /\ c[w].readDay = caller[w].readDay
              /\ c[w].killedThroughout => caller[w].killedThroughout
              /\ caller[w].dirty \/ caller[w].pc \in {"budget", "queue", "exec"} => c[w].dirty
<1>2. Kept(Disturbed(NoAttempt, {}, {"kill"})) /\ Kept(Disturbed(NoAttempt, {}, {"cooldown"}))
  <2>1. ASSUME NEW keys, keys \cap {"kill", "cooldown"} # {}
        PROVE  Kept(Disturbed(NoAttempt, {}, keys))
    BY <1>1, <2>1, StopType
  <2> QED
    BY <2>1
<1>3. /\ Kept(caller')
      /\ \A w \in Workers : caller'[w].killedThroughout => killed'
  <2>1. CASE Kill
    BY <2>1, <1>2 DEF Kill
  <2>2. CASE Resume
    BY <1>1, <2>2, ResumeType
  <2>3. CASE \E s \in Sessions : TripWrite(s)
    <3>1. caller' = Disturbed(NoAttempt, {}, {"cooldown"}) /\ killed' = killed
      BY <2>3 DEF TripWrite
    <3>2. \A w \in Workers : caller[w].killedThroughout => killed
      BY DEF GovernorInv, Unstopped
    <3> QED
      BY <1>2, <3>1, <3>2
  <2> QED
    BY <2>1, <2>2, <2>3
<1>4. /\ cooldownLeft' \in 0 .. MaxCooldown /\ trips' \in 0 .. MaxTrips
      /\ session' \in [Sessions -> 0 .. MaxTrips] /\ killed' \in BOOLEAN
  <2>1. CASE Kill \/ Resume
    BY <1>1, <2>1 DEF Kill, Resume, GovernorTypeOK
  <2>2. CASE \E s \in Sessions : TripWrite(s)
    <3>1. PICK s \in Sessions : TripWrite(s)
      BY <2>2
    <3> DEFINE n == session[s] - 1
               c == FirstCooldown * 2^n
    <3>2. session[s] \in 0 .. MaxTrips /\ MaxTrips \in Nat /\ session[s] > 0
      BY <1>1, <3>1, GovernorAssumption DEF TripWrite, GovernorTypeOK
    <3>3. n \in 0 .. MaxTrips
      BY <3>2
    <3>4. c \in Nat /\ MaxCooldown \in Nat
      BY <3>3, PowersAssumption, GovernorAssumption
    <3>5. cooldownLeft' \in 0 .. (IF c < MaxCooldown THEN c ELSE MaxCooldown)
      BY <3>1 DEF TripWrite, Cooldown
    <3> HIDE DEF c
    <3>6. cooldownLeft' \in 0 .. MaxCooldown
      BY <3>4, <3>5
    <3>7. 0 \in 0 .. MaxTrips
      BY <3>2
    <3> QED
      BY <1>1, <3>1, <3>2, <3>6, <3>7 DEF TripWrite, GovernorTypeOK
  <2> QED
    BY <2>1, <2>2
<1>5. UNCHANGED <<today, used, gapLeft, reserved, queued, sinceLast, lastStall, calls>>
  BY DEF Kill, Resume, TripWrite
<1> HIDE DEF Kept
<1>6. GovernorTypeOK' /\ CapHolds' /\ FutureUnspent' /\ GapRuns'
  BY <1>1, <1>3, <1>4, <1>5
  DEF Kept, GovernorInv, GovernorTypeOK, CapHolds, FutureUnspent, GapRuns
<1>7. \A w \in Workers : InLoop(w)' /\ PastStops(w)' /\ PastBudget(w)' /\ GapQueued(w)' /\ Unstopped(w)'
  BY <1>3, <1>5 DEF Kept, GovernorInv, InLoop, PastStops, PastBudget, GapQueued, Unstopped
<1> QED
  BY <1>6, <1>7 DEF GovernorInv

LEMMA TimeInv ==
    ASSUME GovernorInv, TripsExpire \/ Tick \/ NewDay \/ \E s \in Sessions : TripRead(s)
    PROVE  GovernorInv'
<1>1. /\ gapLeft \in Nat /\ gapLeft <= MaxGap /\ cooldownLeft \in Nat
      /\ cooldownLeft <= MaxCooldown /\ sinceLast \in Nat /\ sinceLast <= MinGap
      /\ MinGap \in Nat /\ MaxGap \in Nat /\ MaxCooldown \in Nat /\ MaxTrips \in Nat
      /\ trips \in 0 .. MaxTrips /\ today \in Days /\ MaxDays \in Nat
      /\ lastStall \in Nat /\ lastStall <= MinGap
      /\ gapLeft + sinceLast + lastStall >= MinGap
  BY GovernorAssumption DEF GovernorInv, GovernorTypeOK, GapRuns
<1>2. /\ gapLeft' \in Nat /\ gapLeft' <= gapLeft
      /\ cooldownLeft' \in Nat /\ cooldownLeft' <= cooldownLeft
      /\ sinceLast' \in 0 .. MinGap /\ GapRuns' /\ lastStall' \in 0 .. MinGap
      /\ today' \in Days /\ today' >= today
  <2>1. CASE Tick
    BY <1>1, <2>1 DEF Tick, Less, Later, GapRuns
  <2>2. CASE NewDay
    BY <1>1, <2>2 DEF NewDay, GapRuns
  <2>3. CASE TripsExpire \/ \E s \in Sessions : TripRead(s)
    BY <1>1, <2>3 DEF TripsExpire, TripRead, GapRuns
  <2> QED
    BY <2>1, <2>2, <2>3
<1>3. /\ trips' \in 0 .. MaxTrips /\ session' \in [Sessions -> 0 .. MaxTrips]
      /\ UNCHANGED <<used, killed, reserved, caller, calls>>
  <2>1. CASE Tick \/ NewDay \/ TripsExpire
    BY <1>1, <2>1 DEF Tick, NewDay, TripsExpire, GovernorInv, GovernorTypeOK
  <2>2. CASE \E s \in Sessions : TripRead(s)
    BY <1>1, <2>2 DEF TripRead, GovernorInv, GovernorTypeOK
  <2> QED
    BY <2>1, <2>2
<1>7. ASSUME NEW w \in Workers
      PROVE  queued'[w] \in Queued /\ GapQueued(w)'
  <2> DEFINE q == queued[w]
  <2>1. q \in Queued /\ q.gap \in 0 .. MaxGap /\ q.stall \in 0 .. MinGap /\ GapQueued(w)
    BY DEF GovernorInv, GovernorTypeOK
  <2>2. CASE queued'[w] = queued[w]
    BY <1>3, <2>1, <2>2 DEF GapQueued
  <2>3. CASE queued'[w] # queued[w]
    <3> DEFINE r == [gap |-> Less(q.gap), stall |-> Later(q.stall)]
    <3>1. queued'[w] = r /\ caller[w].pc = "exec" /\ caller[w].attempt \in LinkedIn
      BY <2>3 DEF Tick, TripsExpire, NewDay, TripRead
    <3>2. q.gap + q.stall >= MinGap
      BY <2>1, <3>1 DEF GapQueued
    <3>3. /\ Less(q.gap) \in 0 .. MaxGap /\ Later(q.stall) \in 0 .. MinGap
          /\ Less(q.gap) + Later(q.stall) >= MinGap
      BY <1>1, <2>1, <3>2 DEF Less, Later
    <3> QED
      BY <3>1, <3>3 DEF GapQueued
  <2> QED
    BY <2>2, <2>3
<1>4. GovernorTypeOK'
  <2>1. gapLeft' \in 0 .. MaxGap /\ cooldownLeft' \in 0 .. MaxCooldown
    BY <1>1, <1>2
  <2>2. queued' = [w \in Workers |-> queued'[w]]
    BY DEF Tick, TripsExpire, NewDay, TripRead, GovernorInv, GovernorTypeOK
  <2> HIDE DEF Queued, Caller
  <2>3. queued' \in [Workers -> Queued]
    BY <1>7, <2>2
  <2> QED
    BY <1>2, <1>3, <2>1, <2>3 DEF GovernorInv, GovernorTypeOK
<1>5. CapHolds' /\ FutureUnspent'
  BY <1>1, <1>2, <1>3 DEF GovernorInv, CapHolds, FutureUnspent
<1>6. ASSUME NEW w \in Workers
      PROVE  InLoop(w)' /\ PastStops(w)' /\ PastBudget(w)' /\ GapQueued(w)' /\ Unstopped(w)'
  <2>1. InLoop(w)' /\ Unstopped(w)'
    BY <1>3 DEF GovernorInv, InLoop, Unstopped
  <2>2. PastStops(w)'
    BY <1>1, <1>2, <1>3 DEF GovernorInv, PastStops
  <2>3. ASSUME NEW d \in Days, d > today PROVE used'[d] < DailyCap
    BY <1>3, <2>3, GovernorAssumption DEF GovernorInv, FutureUnspent
  <2>4. PastBudget(w)'
    <3>1. PastBudget(w) /\ caller[w].readDay \in Days
      BY DEF GovernorInv, GovernorTypeOK
    <3> QED
      BY <1>1, <1>2, <1>3, <2>3, <3>1 DEF PastBudget
  <2> QED
    BY <1>7, <2>1, <2>2, <2>4
<1> QED
  BY <1>2, <1>4, <1>5, <1>6 DEF GovernorInv

LEMMA StutterInv == ASSUME GovernorInv, UNCHANGED vars PROVE GovernorInv'
  BY DEF vars, GovernorInv, GovernorTypeOK, CapHolds, FutureUnspent, InLoop, PastStops,
         PastBudget, GapRuns, GapQueued, Unstopped

-----------------------------------------------------------------------------
\* What the reads of the optimistic loop established still holds at its EXEC, for
\* any number of workers, in every interleaving (core/governor.py, _reserve_shared).
THEOREM GovernorInvariant == Spec => []GovernorInv
<1>1. ASSUME GovernorInv, [Next]_vars PROVE GovernorInv'
  <2>1. ASSUME NEW w \in Workers, Reserve(w) PROVE GovernorInv'
    BY <1>1, <2>1, CallInv, WatchInv, ReadInv, QueueInv, ExecLinkedInInv, ExecOtherInv, LeaveInv
    DEF Reserve
  <2>2. ASSUME NEW s \in Sessions, TripRead(s) \/ TripWrite(s) PROVE GovernorInv'
    BY <1>1, <2>2, StopInv, TimeInv
  <2>3. CASE Kill \/ Resume \/ TripsExpire \/ Tick \/ NewDay
    BY <1>1, <2>3, StopInv, TimeInv
  <2>4. CASE UNCHANGED vars
    BY <1>1, <2>4, StutterInv
  <2> QED
    BY <1>1, <2>1, <2>2, <2>3, <2>4 DEF Next
<1> QED
  BY <1>1, InvInit, PTL DEF Spec

\* No day gets more LinkedIn actions than linkedin_daily_cap, however many workers
\* race and whether or not midnight falls between the WATCH and the EXEC.
THEOREM CapIsKept == Spec => []CapHolds
<1>1. GovernorInv => CapHolds
  BY DEF GovernorInv
<1> QED
  BY <1>1, GovernorInvariant, PTL

\* A call made under the kill switch is not answered from an old reservation.
THEOREM KillIsObeyed == Spec => []KillOutranksReservation
<1>1. GovernorInv => KillOutranksReservation
  BY DEF GovernorInv, Unstopped, KillOutranksReservation
<1> QED
  BY <1>1, GovernorInvariant, PTL

\* Only EXEC makes a reservation.
LEMMA Reserving ==
    ASSUME GovernorInv, [Next]_vars, reserved' # reserved
    PROVE  \E w \in Workers : /\ caller[w].pc = "exec" /\ ~caller[w].dirty
                              /\ reserved' = reserved \cup {caller[w].attempt}
  BY DEF Next, vars, Reserve, Call, OutsideHours, Answer, Watch, ReadStops, ReadBudget,
         Queue, ExecLinkedIn, ExecOther, Clean, ExecFails, Return, TripRead, TripWrite, Kill, Resume,
         TripsExpire, Tick, NewDay

\* No reservation is made under the kill switch or in a cooldown, wherever in the
\* loop the stop arrived.
THEOREM StopsAreObeyed == Spec => StopsBind
<1>1. GovernorInv /\ [Next]_vars => [reserved' # reserved => ~killed /\ cooldownLeft = 0]_vars
  BY Reserving DEF GovernorInv, PastStops
<1> QED
  BY <1>1, GovernorInvariant, PTL DEF Spec, StopsBind

\* Two LinkedIn reservations are linkedin_min_gap_s apart, less only what the earlier
\* one's transaction waited between computing the end of its gap and its EXEC.
THEOREM GapIsKept == Spec => GapHolds
<1>1. GovernorInv /\ [Next]_vars
        => [(reserved' \ reserved) \cap LinkedIn # {} => sinceLast + lastStall >= MinGap]_vars
  <2> SUFFICES ASSUME GovernorInv, [Next]_vars, (reserved' \ reserved) \cap LinkedIn # {}
               PROVE  sinceLast + lastStall >= MinGap
    OBVIOUS
  <2>1. PICK w \in Workers : /\ caller[w].pc = "exec" /\ ~caller[w].dirty
                             /\ reserved' = reserved \cup {caller[w].attempt}
    BY Reserving
  <2>2. caller[w].attempt \in LinkedIn
    BY <2>1
  <2>3. /\ gapLeft = 0 /\ gapLeft + sinceLast + lastStall >= MinGap
        /\ sinceLast \in 0 .. MinGap /\ lastStall \in 0 .. MinGap
    BY <2>1, <2>2 DEF GovernorInv, GovernorTypeOK, GapRuns, PastBudget
  <2> QED
    BY <2>3, GovernorAssumption
<1> QED
  BY <1>1, GovernorInvariant, PTL DEF Spec, GapHolds

(* The governor runs, or waits, beside whichever part a behaviour follows. *)
LEMMA GovernorRuns == HostSpec => Spec
<1>1. HostInit => Init  BY DEF HostInit
<1>2. [HostNext]_hostVars => [Next]_vars  BY DEF HostNext, hostVars
<1> QED  BY <1>1, <1>2, PTL DEF HostSpec, Spec

\* On the operator's machine, too: no day's budget is overdrawn, and no reservation is
\* made under a stop or within the gap as its caller computed it, with whatever else Host runs.
THEOREM HostIsGoverned == HostSpec => [](GovernorInv /\ CapHolds) /\ StopsBind /\ GapHolds
<1> QED  BY GovernorRuns, GovernorInvariant, CapIsKept, StopsAreObeyed, GapIsKept, PTL

HIDE DEF Days, PCs, Caller, Queued

----------------------------------------------------------------------------
(* The local model (InferenceRuntime).                                     *)
call == x1
lock == x2
lease == x3
circuit == x4
ttl == x5
starts == x6
crashes == x7
USE DEF call, lock, lease, circuit, ttl, starts, crashes

\* Nobody is at the model, or has the lease, at first.
LEMMA InferenceInit ==
    ASSUME InferenceSettings, Inference!Init  PROVE Inference!InferenceInv
<1> USE DEF InferenceSettings, Inference!Init
<1>1. Inference!Idle \in Inference!CallRecord
  BY DEF Inference!CallRecord, Inference!Idle, Inference!Positions
<1>2. \A c \in Calls : call[c].at = "idle"  BY DEF Inference!Idle
<1>3. Inference!InferenceTypeOK  BY <1>1, <1>2 DEF Inference!InferenceTypeOK
<1>4. Inference!LeaseOutlivesCall /\ Inference!OneInference /\ Inference!OpenCircuitIsQuiet
  BY <1>2 DEF Inference!LeaseOutlivesCall, Inference!OneInference,
     Inference!OpenCircuitIsQuiet, Inference!Under
<1>5. Inference!NoLeakedLock  BY DEF Inference!NoLeakedLock
<1> QED  BY <1>3, <1>4, <1>5 DEF Inference!InferenceInv

\* Of two calls at the model, both would own the lease.
LEMMA OneOwner == Inference!LeaseOutlivesCall => Inference!OneInference
  BY DEF Inference!LeaseOutlivesCall, Inference!OneInference

\* A call goes on to another place, or ends; nothing else of it changes.
LEMMA CallGoes ==
    ASSUME Inference!InferenceTypeOK, NEW c \in Calls, NEW at \in Inference!Positions,
           Inference!Go(c, at)
    PROVE  /\ call' \in [Calls -> Inference!CallRecord]
           /\ call'[c] = [call[c] EXCEPT !.at = at]
           /\ \A d \in Calls \ {c} : call'[d] = call[d]
<1>1. call[c] \in Inference!CallRecord  BY DEF Inference!InferenceTypeOK
<1>2. [call[c] EXCEPT !.at = at] \in Inference!CallRecord  BY <1>1 DEF Inference!CallRecord
<1> QED  BY <1>2 DEF Inference!Go, Inference!InferenceTypeOK

LEMMA CallStops ==
    ASSUME InferenceSettings, Inference!InferenceTypeOK, NEW c \in Calls, Inference!Stop(c)
    PROVE  /\ call' \in [Calls -> Inference!CallRecord]
           /\ call'[c] = Inference!Idle
           /\ \A d \in Calls \ {c} : call'[d] = call[d]
<1>1. Inference!Idle \in Inference!CallRecord
  BY DEF Inference!CallRecord, Inference!Idle, Inference!Positions, InferenceSettings
<1> QED  BY <1>1 DEF Inference!Stop, Inference!InferenceTypeOK

\* The scripts of the circuit leave numbers, and an open circuit alone.
LEMMA CircuitScripts ==
    ASSUME InferenceSettings, circuit \in [failures : Nat, ttl : Nat, open : Nat]
    PROVE  /\ Inference!AfterFailure \in [failures : Nat, ttl : Nat, open : Nat]
           /\ Inference!AfterSuccess \in [failures : Nat, ttl : Nat, open : Nat]
           /\ Inference!AfterSuccess.open = circuit.open
<1>1. Inference!CounterTTL \in Nat
  <2>1. Threshold * Horizon \in Nat  BY DEF InferenceSettings
  <2> QED  BY <2>1 DEF InferenceSettings, Inference!CounterTTL
<1>2. circuit.failures + 1 \in Nat  OBVIOUS
<1> QED  BY <1>1, <1>2 DEF InferenceSettings, Inference!AfterFailure, Inference!AfterSuccess

\* A step of one call keeps the invariant.
LEMMA CallStepKeeps ==
    ASSUME InferenceSettings, Inference!InferenceInv, UNCHANGED ttl,
           NEW c \in Calls, Inference!Step(c)
    PROVE  Inference!InferenceInv'
<1> USE DEF Inference!In, Inference!Under
<1>1. SUFFICES /\ Inference!InferenceTypeOK' /\ Inference!LeaseOutlivesCall'
               /\ Inference!OpenCircuitIsQuiet' /\ Inference!NoLeakedLock'
  BY OneOwner DEF Inference!InferenceInv, Inference!LeaseOutlivesCall, Inference!OneInference
<1>2. /\ Inference!InferenceTypeOK /\ Inference!LeaseOutlivesCall /\ Inference!OneInference
      /\ Inference!OpenCircuitIsQuiet /\ Inference!NoLeakedLock
  BY DEF Inference!InferenceInv
<1>3. /\ call \in [Calls -> Inference!CallRecord]
      /\ lock \in [Processes -> Calls \cup {Nobody}]
      /\ lease \in [owner : Calls \cup {Nobody}, left : Nat]
      /\ circuit \in [failures : Nat, ttl : Nat, open : Nat]
      /\ ttl' = ttl /\ ttl \in Nat
      /\ ProcessOf[c] \in Processes /\ c # Nobody
      /\ call[c] \in Inference!CallRecord
      /\ call[c].left \in 0 .. Horizon /\ Horizon \in Nat
  BY <1>2 DEF Inference!InferenceTypeOK, InferenceSettings, Inference!CallRecord
<1>4. CASE Inference!Enter(c)
  <2>1. /\ call' \in [Calls -> Inference!CallRecord]
        /\ \A d \in Calls \ {c} : call'[d] = call[d]
        /\ call'[c].at \in {"local", "idle"}
        /\ call'[c].at = "local" => Inference!ConfigurationValid
        /\ UNCHANGED <<lock, lease, circuit>> /\ call[c].at = "chat"
    <3>1. CASE Inference!Go(c, "local") /\ Inference!ConfigurationValid
      <4>1. "local" \in Inference!Positions  BY DEF Inference!Positions
      <4>2. /\ call' \in [Calls -> Inference!CallRecord]
            /\ call'[c] = [call[c] EXCEPT !.at = "local"]
            /\ \A d \in Calls \ {c} : call'[d] = call[d]
        BY <1>2, <3>1, <4>1, CallGoes
      <4> QED  BY <1>3, <1>4, <3>1, <4>2 DEF Inference!Enter, Inference!CallRecord
    <3>2. CASE Inference!Stop(c)
      BY <1>2, <1>4, <3>2, CallStops DEF Inference!Enter, Inference!Idle
    <3> QED  BY <1>4, <3>1, <3>2 DEF Inference!Enter
  <2>2. Inference!InferenceTypeOK'
    BY <1>2, <1>3, <2>1 DEF Inference!InferenceTypeOK, Inference!ConfigurationValid
  <2>3. Inference!LeaseOutlivesCall'
    BY <1>2, <2>1 DEF Inference!LeaseOutlivesCall
  <2>4. Inference!OpenCircuitIsQuiet'
    BY <1>2, <2>1 DEF Inference!OpenCircuitIsQuiet
  <2>5. Inference!NoLeakedLock'
    BY <1>2, <1>3, <2>1 DEF Inference!NoLeakedLock
  <2> QED  BY <2>2, <2>3, <2>4, <2>5
<1>5. CASE Inference!TakeLocal(c)
  <2>1. /\ call' \in [Calls -> Inference!CallRecord]
        /\ \A d \in Calls \ {c} : call'[d] = call[d]
        /\ \/ call'[c].at = "redis" /\ lock' = [lock EXCEPT ![ProcessOf[c]] = c]
           \/ call'[c].at = "idle" /\ lock' = lock
        /\ UNCHANGED <<lease, circuit>> /\ call[c].at = "local"
    <3>1. CASE Inference!Go(c, "redis") /\ lock' = [lock EXCEPT ![ProcessOf[c]] = c]
      <4>1. "redis" \in Inference!Positions  BY DEF Inference!Positions
      <4>2. /\ call' \in [Calls -> Inference!CallRecord]
            /\ call'[c] = [call[c] EXCEPT !.at = "redis"]
            /\ \A d \in Calls \ {c} : call'[d] = call[d]
        BY <1>2, <3>1, <4>1, CallGoes
      <4> QED  BY <1>3, <1>5, <3>1, <4>2 DEF Inference!TakeLocal, Inference!CallRecord
    <3>2. CASE Inference!Stop(c) /\ lock' = lock
      BY <1>2, <1>5, <3>2, CallStops DEF Inference!TakeLocal, Inference!Idle
    <3> QED  BY <1>5, <3>1, <3>2 DEF Inference!TakeLocal
  <2>2. Inference!InferenceTypeOK'
    BY <1>2, <1>3, <2>1 DEF Inference!InferenceTypeOK, Inference!ConfigurationValid
  <2>3. Inference!LeaseOutlivesCall'
    BY <1>2, <2>1 DEF Inference!LeaseOutlivesCall
  <2>4. Inference!OpenCircuitIsQuiet'
    BY <1>2, <2>1 DEF Inference!OpenCircuitIsQuiet
  <2>5. Inference!NoLeakedLock'
    BY <1>2, <1>3, <2>1 DEF Inference!NoLeakedLock
  <2> QED  BY <2>2, <2>3, <2>4, <2>5
<1>6. CASE Inference!TakeLease(c)
  <2>1. /\ call' \in [Calls -> Inference!CallRecord]
        /\ \A d \in Calls \ {c} : call'[d] = call[d]
        /\ UNCHANGED circuit /\ call[c].at = "redis"
        /\ \/ /\ call'[c].at = "held" /\ call'[c].acquired /\ call'[c].left = call[c].left
              /\ lock' = lock /\ lease.owner = Nobody /\ lease' = [owner |-> c, left |-> ttl]
           \/ /\ call'[c].at = "idle" /\ lock' = [lock EXCEPT ![ProcessOf[c]] = Nobody]
              /\ \/ lease' = lease
                 \/ lease.owner = Nobody /\ lease' = [owner |-> c, left |-> ttl]
    <3>1. CASE /\ lease.owner = Nobody /\ Inference!SetLease(c) /\ lock' = lock
               /\ call' = [call EXCEPT ![c].at = "held", ![c].acquired = TRUE]
      <4>1. [call[c] EXCEPT !.at = "held", !.acquired = TRUE] \in Inference!CallRecord
        BY <1>3 DEF Inference!CallRecord, Inference!Positions
      <4>2. call' = [call EXCEPT ![c] = [call[c] EXCEPT !.at = "held", !.acquired = TRUE]]
        BY <3>1
      <4> QED  BY <1>3, <1>6, <3>1, <4>1, <4>2 DEF Inference!TakeLease, Inference!SetLease,
                  Inference!CallRecord
    <3>2. CASE /\ Inference!Stop(c) /\ lock' = Inference!GivesBack(c)
               /\ lease' = lease \/ (lease.owner = Nobody /\ Inference!SetLease(c))
      BY <1>2, <1>6, <3>2, CallStops DEF Inference!TakeLease, Inference!Idle,
         Inference!GivesBack, Inference!Unlocked, Inference!SetLease
    <3> QED  BY <1>6, <3>1, <3>2 DEF Inference!TakeLease
  <2>2. Inference!InferenceTypeOK'
    BY <1>2, <1>3, <2>1 DEF Inference!InferenceTypeOK, Inference!ConfigurationValid
  <2>3. \A d \in Calls \ {c} : lease.owner = Nobody => call[d].at \notin Inference!Under
    BY <1>2 DEF Inference!LeaseOutlivesCall, InferenceSettings
  <2>4. Inference!LeaseOutlivesCall'
    <3>1. ttl > call[c].left
      BY <1>2, <1>3, <2>1 DEF Inference!InferenceTypeOK, Inference!ConfigurationValid
    <3> QED  BY <1>2, <1>3, <2>1, <2>3, <3>1 DEF Inference!LeaseOutlivesCall
  <2>5. Inference!OpenCircuitIsQuiet'
    BY <1>2, <2>1 DEF Inference!OpenCircuitIsQuiet
  <2>6. Inference!NoLeakedLock'
    BY <1>2, <1>3, <2>1 DEF Inference!NoLeakedLock
  <2> QED  BY <2>2, <2>4, <2>5, <2>6
<1>7. CASE Inference!Ready(c) \/ Inference!Post(c) \/ Inference!Final(c)
  <2>1. /\ call' \in [Calls -> Inference!CallRecord]
        /\ \A d \in Calls \ {c} : call'[d] = call[d]
        /\ call'[c].at \in {"post", "final", "release", "content"}
        /\ call'[c] = [call[c] EXCEPT !.at = call'[c].at]
        /\ call'[c].at = "post" => circuit.open = 0
        /\ UNCHANGED <<lock, lease>> /\ call[c].at \in Inference!Under
    <3>1. \E at \in {"post", "final", "release", "content"} :
             Inference!Go(c, at) /\ (at = "post" => circuit.open = 0)
      BY <1>7 DEF Inference!Ready, Inference!Post, Inference!Final, Inference!StillClosed,
         Inference!CircuitClosed
    <3>2. PICK at \in {"post", "final", "release", "content"} :
             Inference!Go(c, at) /\ (at = "post" => circuit.open = 0)
      BY <3>1
    <3>3. at \in Inference!Positions  BY DEF Inference!Positions
    <3>4. /\ call' \in [Calls -> Inference!CallRecord]
          /\ call'[c] = [call[c] EXCEPT !.at = at]
          /\ \A d \in Calls \ {c} : call'[d] = call[d]
      BY <1>2, <3>2, <3>3, CallGoes
    <3> QED  BY <1>3, <1>7, <3>2, <3>4 DEF Inference!Ready, Inference!Post, Inference!Final,
                Inference!CallRecord
  <2>2. /\ circuit' \in [failures : Nat, ttl : Nat, open : Nat]
        /\ call'[c].at = "post" => circuit' = circuit
    <3>1. \/ UNCHANGED circuit
          \/ /\ call'[c].at # "post"
             /\ circuit' \in {circuit, Inference!AfterFailure, Inference!AfterSuccess}
      <4>1. ASSUME NEW at \in Inference!Positions, Inference!Go(c, at)
            PROVE  call'[c].at = at
        BY <1>3, <4>1 DEF Inference!Go, Inference!CallRecord
      <4> QED  BY <1>7, <4>1 DEF Inference!Ready, Inference!Post, Inference!Final,
                  Inference!RecordFailure, Inference!Positions
    <3> QED  BY <1>3, <3>1, CircuitScripts
  <2>3. Inference!InferenceTypeOK'
    BY <1>2, <1>3, <2>1, <2>2 DEF Inference!InferenceTypeOK, Inference!ConfigurationValid
  <2>4. Inference!LeaseOutlivesCall'
    BY <1>2, <1>3, <2>1 DEF Inference!LeaseOutlivesCall, Inference!CallRecord
  <2>5. Inference!OpenCircuitIsQuiet'
    BY <1>2, <2>1, <2>2 DEF Inference!OpenCircuitIsQuiet, Inference!OneInference
  <2>6. Inference!NoLeakedLock'
    BY <1>2, <1>3, <2>1 DEF Inference!NoLeakedLock
  <2> QED  BY <2>3, <2>4, <2>5, <2>6
<1>8. CASE Inference!Release(c)
  <2>1. /\ call' \in [Calls -> Inference!CallRecord]
        /\ \A d \in Calls \ {c} : call'[d] = call[d]
        /\ call'[c].at \in {"parse", "idle"} /\ call[c].at \in {"release", "content"}
        /\ lock' = [lock EXCEPT ![ProcessOf[c]] = Nobody]
        /\ \/ lease' = lease
           \/ lease.owner = c /\ lease' = [owner |-> Nobody, left |-> 0]
        /\ UNCHANGED circuit
    <3>1. CASE /\ call[c].at = "content"
               /\ call' = [call EXCEPT ![c].at = "parse", ![c].acquired = FALSE]
      <4>1. [call[c] EXCEPT !.at = "parse", !.acquired = FALSE] \in Inference!CallRecord
        BY <1>3 DEF Inference!CallRecord, Inference!Positions
      <4>2. call' = [call EXCEPT ![c] = [call[c] EXCEPT !.at = "parse", !.acquired = FALSE]]
        BY <3>1
      <4> QED  BY <1>3, <1>8, <3>1, <4>1, <4>2 DEF Inference!Release, Inference!Unlocked,
                  Inference!LeaseAfterRelease, Inference!CallRecord
    <3>2. CASE Inference!Stop(c)
      BY <1>2, <1>8, <3>2, CallStops DEF Inference!Release, Inference!Unlocked,
         Inference!LeaseAfterRelease, Inference!Idle
    <3> QED  BY <1>8, <3>1, <3>2 DEF Inference!Release
  <2>2. Inference!InferenceTypeOK'
    BY <1>2, <1>3, <2>1 DEF Inference!InferenceTypeOK, Inference!ConfigurationValid
  <2>3. Inference!LeaseOutlivesCall'
    BY <1>2, <2>1 DEF Inference!LeaseOutlivesCall
  <2>4. Inference!OpenCircuitIsQuiet'
    BY <1>2, <2>1 DEF Inference!OpenCircuitIsQuiet
  <2>5. Inference!NoLeakedLock'
    BY <1>2, <1>3, <2>1 DEF Inference!NoLeakedLock
  <2> QED  BY <2>2, <2>3, <2>4, <2>5
<1>9. CASE Inference!Parse(c)
  <2>1. /\ call' \in [Calls -> Inference!CallRecord]
        /\ \A d \in Calls \ {c} : call'[d] = call[d]
        /\ call'[c].at \in {"chat", "idle"} /\ call[c].at = "parse"
        /\ UNCHANGED <<lock, lease, circuit>>
    <3>1. CASE call' = [call EXCEPT ![c].at = "chat", ![c].attempt = 2]
      <4>1. [call[c] EXCEPT !.at = "chat", !.attempt = 2] \in Inference!CallRecord
        <5>1. 2 \in 0 .. 2 /\ "chat" \in Inference!Positions  BY DEF Inference!Positions
        <5> QED  BY <1>3, <5>1 DEF Inference!CallRecord
      <4>2. call' = [call EXCEPT ![c] = [call[c] EXCEPT !.at = "chat", !.attempt = 2]]
        BY <3>1
      <4> QED  BY <1>3, <1>9, <3>1, <4>1, <4>2 DEF Inference!Parse, Inference!CallRecord
    <3>2. CASE Inference!Stop(c)
      BY <1>2, <1>9, <3>2, CallStops DEF Inference!Parse, Inference!Idle
    <3> QED  BY <1>9, <3>1, <3>2 DEF Inference!Parse
  <2>2. Inference!InferenceTypeOK'
    BY <1>2, <1>3, <2>1 DEF Inference!InferenceTypeOK, Inference!ConfigurationValid
  <2>3. Inference!LeaseOutlivesCall'
    BY <1>2, <2>1 DEF Inference!LeaseOutlivesCall
  <2>4. Inference!OpenCircuitIsQuiet'
    BY <1>2, <2>1 DEF Inference!OpenCircuitIsQuiet
  <2>5. Inference!NoLeakedLock'
    BY <1>2, <1>3, <2>1 DEF Inference!NoLeakedLock
  <2> QED  BY <2>2, <2>3, <2>4, <2>5
<1> QED  BY <1>4, <1>5, <1>6, <1>7, <1>8, <1>9 DEF Inference!Step

\* So does the start of a call.
LEMMA BeginKeeps ==
    ASSUME InferenceSettings, Inference!InferenceInv, UNCHANGED ttl,
           NEW c \in Calls, NEW left \in 1 .. Horizon, Inference!Begin(c, left)
    PROVE  Inference!InferenceInv'
<1>1. /\ call' \in [Calls -> Inference!CallRecord]
      /\ \A d \in Calls \ {c} : call'[d] = call[d]
      /\ call'[c].at = "chat" /\ call[c].at = "idle"
      /\ UNCHANGED <<lock, lease, circuit>>
  <2>1. [Inference!Idle EXCEPT !.at = "chat", !.left = left, !.attempt = 1]
            \in Inference!CallRecord
    <3>1. left \in 0 .. Horizon /\ 1 \in 0 .. 2  BY DEF InferenceSettings
    <3> QED  BY <3>1 DEF Inference!Idle, Inference!CallRecord, Inference!Positions
  <2> QED  BY <2>1 DEF Inference!Begin, Inference!In, Inference!InferenceInv,
              Inference!InferenceTypeOK, Inference!Idle
<1>2. Inference!InferenceTypeOK'
  BY <1>1 DEF Inference!InferenceInv, Inference!InferenceTypeOK, Inference!ConfigurationValid
<1>3. Inference!LeaseOutlivesCall'
  BY <1>1 DEF Inference!InferenceInv, Inference!LeaseOutlivesCall, Inference!Under
<1>4. Inference!OneInference'
  BY <1>1 DEF Inference!InferenceInv, Inference!OneInference, Inference!Under
<1>5. Inference!OpenCircuitIsQuiet'
  BY <1>1 DEF Inference!InferenceInv, Inference!OpenCircuitIsQuiet
<1>6. Inference!NoLeakedLock'
  BY <1>1 DEF Inference!InferenceInv, Inference!InferenceTypeOK, Inference!NoLeakedLock,
     Inference!Under
<1> QED  BY <1>2, <1>3, <1>4, <1>5, <1>6 DEF Inference!InferenceInv

\* The death of a process: its lock goes with its calls, the lease stays.
LEMMA CrashKeeps ==
    ASSUME InferenceSettings, Inference!InferenceInv, UNCHANGED ttl,
           NEW p \in Processes, Inference!Crash(p)
    PROVE  Inference!InferenceInv'
<1>1. /\ call' \in [Calls -> Inference!CallRecord]
      /\ \A d \in Calls : call'[d] = call[d] \/ call'[d].at = "idle"
      /\ \A d \in Calls : ProcessOf[d] # p => call'[d] = call[d]
      /\ lock' = [lock EXCEPT ![p] = Nobody]
      /\ UNCHANGED <<lease, circuit>>
  <2>1. Inference!Idle \in Inference!CallRecord
    BY DEF Inference!Idle, Inference!CallRecord, Inference!Positions, InferenceSettings
  <2> QED  BY <2>1 DEF Inference!Crash, Inference!InferenceInv, Inference!InferenceTypeOK,
              Inference!Idle
<1>2. Inference!InferenceTypeOK'
  BY <1>1 DEF Inference!InferenceInv, Inference!InferenceTypeOK, Inference!ConfigurationValid
<1>3. Inference!LeaseOutlivesCall'
  BY <1>1 DEF Inference!InferenceInv, Inference!LeaseOutlivesCall, Inference!Under
<1>4. Inference!OneInference'
  BY <1>1 DEF Inference!InferenceInv, Inference!OneInference, Inference!Under
<1>5. Inference!OpenCircuitIsQuiet'
  BY <1>1 DEF Inference!InferenceInv, Inference!OpenCircuitIsQuiet
<1>6. Inference!NoLeakedLock'
  BY <1>1 DEF Inference!InferenceInv, Inference!InferenceTypeOK, Inference!NoLeakedLock
<1> QED  BY <1>2, <1>3, <1>4, <1>5, <1>6 DEF Inference!InferenceInv

\* Time takes as much from the lease as from the deadline it outlives, and no
\* time passes a call at the model whose deadline has come.
LEMMA TickKeeps ==
    ASSUME InferenceSettings, Inference!InferenceInv, UNCHANGED ttl, Inference!Tick
    PROVE  Inference!InferenceInv'
<1>1. /\ call \in [Calls -> Inference!CallRecord]
      /\ lease \in [owner : Calls \cup {Nobody}, left : Nat]
      /\ circuit \in [failures : Nat, ttl : Nat, open : Nat]
      /\ Horizon \in Nat
  BY DEF Inference!InferenceInv, Inference!InferenceTypeOK, InferenceSettings
<1>2. ASSUME NEW d \in Calls
      PROVE  /\ call[d] \in Inference!CallRecord
             /\ call'[d] = [call[d] EXCEPT !.left = Inference!Less(@)]
             /\ call'[d] \in Inference!CallRecord
             /\ call'[d].at = call[d].at /\ call'[d].acquired = call[d].acquired
             /\ call[d].at \in Inference!Under =>
                    call[d].left > 0 /\ call'[d].left = call[d].left - 1
  <2>1. call[d] \in Inference!CallRecord
        /\ call'[d] = [call[d] EXCEPT !.left = Inference!Less(@)]
    BY <1>1 DEF Inference!Tick
  <2>2. call[d].left \in 0 .. Horizon  BY <2>1 DEF Inference!CallRecord
  <2>3. Inference!Less(call[d].left) \in 0 .. Horizon
    BY <1>1, <2>2 DEF Inference!Less
  <2>4. call'[d] \in Inference!CallRecord  BY <2>1, <2>3 DEF Inference!CallRecord
  <2>5. call'[d].at = call[d].at /\ call'[d].acquired = call[d].acquired
        /\ call'[d].left = Inference!Less(call[d].left)
    BY <2>1 DEF Inference!CallRecord
  <2>6. call[d].at \in Inference!Under => call[d].left # 0
    BY DEF Inference!Tick, Inference!Bounded, Inference!Under, Inference!Expired
  <2> QED  BY <2>1, <2>2, <2>4, <2>5, <2>6 DEF Inference!Less
<1>3. /\ call' \in [Calls -> Inference!CallRecord]
      /\ lease' \in [owner : Calls \cup {Nobody}, left : Nat]
      /\ lock' = lock
  <2>1. call' = [d \in Calls |-> [call[d] EXCEPT !.left = Inference!Less(@)]]
    BY DEF Inference!Tick
  <2>2. lease' \in [owner : Calls \cup {Nobody}, left : Nat]
    <3>1. Inference!Less(lease.left) \in Nat  BY <1>1 DEF Inference!Less
    <3>2. [lease EXCEPT !.left = Inference!Less(@)] \in [owner : Calls \cup {Nobody}, left : Nat]
      BY <1>1, <3>1
    <3> QED  BY <3>2 DEF Inference!Tick
  <2> QED  BY <1>2, <2>1, <2>2 DEF Inference!Tick
<1>4. /\ circuit' \in [failures : Nat, ttl : Nat, open : Nat]
      /\ circuit'.open > 0 => circuit.open > 0
  <2>1. /\ Inference!Less(circuit.ttl) \in Nat /\ Inference!Less(circuit.open) \in Nat
        /\ Inference!Less(circuit.open) > 0 => circuit.open > 0
    BY <1>1 DEF Inference!Less
  <2>2. circuit' = [failures |-> IF circuit.ttl > 1 THEN circuit.failures ELSE 0,
                    ttl |-> Inference!Less(circuit.ttl),
                    open |-> Inference!Less(circuit.open)]
    BY DEF Inference!Tick
  <2> QED  BY <1>1, <2>1, <2>2
<1>5. \A d \in Calls : call'[d].at = call[d].at  BY <1>2
<1>10. Inference!InferenceTypeOK'
  BY <1>3, <1>4, <1>5 DEF Inference!InferenceInv, Inference!InferenceTypeOK,
     Inference!ConfigurationValid
<1>6. Inference!LeaseOutlivesCall'
  <2> SUFFICES ASSUME NEW d \in Calls, call'[d].at \in Inference!Under
               PROVE  call'[d].acquired /\ lease'.owner = d /\ lease'.left > call'[d].left
    BY DEF Inference!LeaseOutlivesCall, Inference!Under
  <2>1. /\ call[d].at \in Inference!Under /\ call[d].acquired /\ lease.owner = d
        /\ lease.left > call[d].left /\ call[d].left > 0
        /\ call'[d].left = call[d].left - 1 /\ call'[d].acquired = call[d].acquired
    BY <1>2 DEF Inference!InferenceInv, Inference!LeaseOutlivesCall
  <2>2. call[d].left \in Nat /\ lease.left \in Nat
    BY <1>1, <1>2 DEF Inference!CallRecord
  <2>3. lease' = [lease EXCEPT !.left = Inference!Less(@)]
    BY <2>1, <2>2 DEF Inference!Tick
  <2>4. lease'.owner = d /\ lease'.left = lease.left - 1
    BY <1>1, <2>1, <2>2, <2>3 DEF Inference!Less
  <2> QED  BY <2>1, <2>2, <2>4
<1>7. Inference!OneInference'
  BY <1>6 DEF Inference!LeaseOutlivesCall, Inference!OneInference
<1>8. Inference!OpenCircuitIsQuiet'
  BY <1>4, <1>5 DEF Inference!InferenceInv, Inference!OpenCircuitIsQuiet
<1>9. Inference!NoLeakedLock'
  BY <1>3, <1>5 DEF Inference!InferenceInv, Inference!InferenceTypeOK, Inference!NoLeakedLock
<1> QED  BY <1>10, <1>6, <1>7, <1>8, <1>9 DEF Inference!InferenceInv

\* Two generations never run at once on the host, no request is at the model while
\* the circuit is open and no process lock is left behind, with any number of
\* processes and calls and any settings: whoever dies, whatever release or answer
\* of Redis is lost (_InferenceLease, validate_local_configuration).
THEOREM ModelIsShared ==
    ASSUME InferenceSettings  PROVE Inference!Spec => []Inference!InferenceInv
<1>1. Inference!Init => Inference!InferenceInv  BY InferenceInit
<1>2. Inference!InferenceInv /\ [Inference!Next]_Inference!vars => Inference!InferenceInv'
  <2> SUFFICES ASSUME Inference!InferenceInv, [Inference!Next]_Inference!vars
               PROVE  Inference!InferenceInv'
    OBVIOUS
  <2>1. CASE UNCHANGED Inference!vars
    BY <2>1 DEF Inference!vars, Inference!InferenceInv, Inference!InferenceTypeOK,
       Inference!ConfigurationValid, Inference!LeaseOutlivesCall, Inference!OneInference,
       Inference!OpenCircuitIsQuiet, Inference!NoLeakedLock
  <2>2. CASE Inference!Next
    BY <2>2, TickKeeps, CallStepKeeps, BeginKeeps, CrashKeeps DEF Inference!Next
  <2> QED  BY <2>1, <2>2
<1> QED  BY <1>1, <1>2, PTL DEF Inference!Spec

----------------------------------------------------------------------------
(* The remote stop (KillRelay).                                            *)
device == x1
kill == x2
past == x3
switch == x4
runner == x5
late == x6
local == x7
USE DEF device, kill, past, switch, runner, late, local

LEMMA RelayInit == ASSUME RemoteKill!Init  PROVE RemoteKill!RelayInv
<1> USE DEF RemoteKill!Init
<1>1. RemoteKill!KillTypeOK
  BY DEF RemoteKill!KillTypeOK, RemoteKill!NoCommand, RemoteKill!Verdicts
<1>2. RemoteKill!AnswersAreTrue /\ RemoteKill!RecordedIsInForce
  BY DEF RemoteKill!AnswersAreTrue, RemoteKill!RecordedIsInForce, RemoteKill!NoCommand
<1> QED  BY <1>1, <1>2 DEF RemoteKill!RelayInv

\* The shape of a command, of the runner and of a request, by themselves.
KillRow == [status : {"none", "queued", "claimed", "expired", "acknowledged", "rejected"},
            boot : Nat, leased : BOOLEAN]
RunnerRecord == [boot : Nat, pc : {"beat", "poll", "verify", "act", "ack", "rest"},
                 cmd : Kills \cup {NoKill}, verdict : RemoteKill!Verdicts]
LateRequest == [kind : {"beat", "poll", "ack"}, boot : Nat, cmd : Kills \cup {NoKill},
                verdict : RemoteKill!Verdicts \cup {"ready", "degraded"}]
DeviceRecord == [boot : Nat, seen : BOOLEAN, ready : BOOLEAN]
SwitchRecord == [active : BOOLEAN, digests : SUBSET Kills, cleared : SUBSET Kills]

LEMMA KillShapes ==
    RemoteKill!KillTypeOK <=> /\ device \in DeviceRecord /\ kill \in [Kills -> KillRow]
                              /\ switch \in SwitchRecord /\ runner \in RunnerRecord
                              /\ late \subseteq LateRequest /\ local \in Nat
  BY DEF RemoteKill!KillTypeOK, KillRow, RunnerRecord, LateRequest, DeviceRecord, SwitchRecord

\* The control plane's writes keep a command a command, and only the handler of an
\* acknowledgement that says "received" makes a row say "acknowledged".
LEMMA ClaimedRow ==
    ASSUME kill \in [Kills -> KillRow], NEW k \in Kills
    PROVE  /\ RemoteKill!Claimed(k) \in [Kills -> KillRow]
           /\ \A j \in Kills : RemoteKill!Claimed(k)[j].status = "acknowledged"
                                => kill[j].status = "acknowledged"
<1>1. [kill[k] EXCEPT !.status = "claimed", !.leased = TRUE] \in KillRow  BY DEF KillRow
<1> QED  BY <1>1 DEF RemoteKill!Claimed, KillRow

LEMMA AcknowledgedRow ==
    ASSUME kill \in [Kills -> KillRow], NEW k \in Kills, NEW verdict
    PROVE  /\ RemoteKill!Acknowledged(k, verdict) \in [Kills -> KillRow]
           /\ \A j \in Kills :
                 RemoteKill!Acknowledged(k, verdict)[j].status = "acknowledged"
                    => kill[j].status = "acknowledged" \/ (j = k /\ verdict = "received")
<1> DEFINE status == IF verdict = "received" THEN "acknowledged" ELSE "rejected"
<1>1. [kill[k] EXCEPT !.status = status, !.leased = FALSE] \in KillRow  BY DEF KillRow
<1>2. CASE RemoteKill!Acknowledged(k, verdict) = kill  BY <1>2
<1>3. CASE RemoteKill!Acknowledged(k, verdict)
             = [kill EXCEPT ![k] = [kill[k] EXCEPT !.status = status, !.leased = FALSE]]
  BY <1>1, <1>3 DEF KillRow
<1> QED  BY <1>2, <1>3 DEF RemoteKill!Acknowledged

\* A new record of the runner that claims nothing, and a request given up.
LEMMA RestingRunner ==
    ASSUME runner \in RunnerRecord
    PROVE  RemoteKill!Rest \in RunnerRecord /\ RemoteKill!Rest.pc = "rest"
  BY DEF RunnerRecord, RemoteKill!Rest, RemoteKill!Verdicts

LEMMA GivenUpKeeps ==
    ASSUME RemoteKill!RelayInv, NEW r \in LateRequest, RemoteKill!GivenUp(r),
           UNCHANGED switch,
           r.kind = "ack" => r.cmd \in Kills
                             /\ (r.verdict = "received" => r.cmd \in switch.digests)
    PROVE  /\ runner' \in RunnerRecord /\ runner'.pc = "rest" /\ late' \subseteq LateRequest
           /\ \A q \in late' : q.kind = "ack" =>
                 q.cmd \in Kills /\ (q.verdict = "received" => q.cmd \in switch'.digests)
<1>1. late' = late \/ late' = late \cup {r}  BY DEF RemoteKill!GivenUp
<1>2. runner' \in RunnerRecord /\ runner'.pc = "rest"
  BY KillShapes, RestingRunner DEF RemoteKill!RelayInv, RemoteKill!GivenUp
<1> QED  BY <1>1, <1>2, KillShapes DEF RemoteKill!RelayInv, RemoteKill!AnswersAreTrue

\* The parts of the invariant, about the commands, the runner and the requests.
RowsTrue == \A k \in Kills : kill[k].status = "acknowledged" => k \in switch.digests
RunnerTrue ==
    /\ runner.pc \in {"verify", "act", "ack"} => runner.cmd \in Kills
    /\ runner.pc = "ack" /\ runner.verdict = "received" => runner.cmd \in switch.digests
LateTrue ==
    \A r \in late : r.kind = "ack" =>
        r.cmd \in Kills /\ (r.verdict = "received" => r.cmd \in switch.digests)

LEMMA RelayParts ==
    RemoteKill!RelayInv <=>
        /\ device \in DeviceRecord /\ kill \in [Kills -> KillRow] /\ switch \in SwitchRecord
        /\ runner \in RunnerRecord /\ late \subseteq LateRequest /\ local \in Nat
        /\ RowsTrue /\ RunnerTrue /\ LateTrue /\ RemoteKill!RecordedIsInForce
  BY KillShapes DEF RemoteKill!RelayInv, RemoteKill!AnswersAreTrue, RowsTrue, RunnerTrue, LateTrue

LEMMA RelayStep ==
    ASSUME RemoteKill!RelayInv, RemoteKill!Next  PROVE RemoteKill!RelayInv'
<1> SUFFICES /\ device' \in DeviceRecord /\ kill' \in [Kills -> KillRow]
             /\ switch' \in SwitchRecord
             /\ runner' \in RunnerRecord /\ late' \subseteq LateRequest
             /\ RowsTrue' /\ RunnerTrue' /\ LateTrue' /\ RemoteKill!RecordedIsInForce'
  <2>1. local' \in {local, local + 1}
    BY DEF RemoteKill!Next, RemoteKill!CreateKill, RemoteKill!ReplayKill,
       RemoteKill!Heartbeat, RemoteKill!PollKill, RemoteKill!VerifyKill,
       RemoteKill!ActivateKill, RemoteKill!AckKill, RemoteKill!NextCycle, RemoteKill!Restart,
       RemoteKill!HandleLate, RemoteKill!OperatorSwitches, RemoteKill!TimePasses
  <2>2. local' \in Nat  BY <2>1, RelayParts
  <2> QED  BY <2>2 DEF RemoteKill!RelayInv, RemoteKill!AnswersAreTrue, RowsTrue,
     RunnerTrue, LateTrue, RemoteKill!KillTypeOK, KillRow, RunnerRecord, LateRequest,
     DeviceRecord, SwitchRecord
<1>0. /\ device \in DeviceRecord /\ kill \in [Kills -> KillRow] /\ switch \in SwitchRecord
      /\ runner \in RunnerRecord /\ late \subseteq LateRequest
      /\ RowsTrue /\ RunnerTrue /\ LateTrue /\ RemoteKill!RecordedIsInForce
  BY RelayParts
<1>1. ASSUME NEW k \in Kills, RemoteKill!CreateKill(k)
      PROVE  kill' \in [Kills -> KillRow] /\ RowsTrue'
  <2>1. [status |-> "queued", boot |-> device.boot, leased |-> FALSE] \in KillRow
    BY <1>0 DEF KillRow, DeviceRecord
  <2> QED  BY <1>0, <1>1, <2>1 DEF RemoteKill!CreateKill, RowsTrue
<1>2. ASSUME NEW k \in Kills, RemoteKill!ReplayKill(k)
      PROVE  kill' \in [Kills -> KillRow] /\ RowsTrue'
  <2>1. [kill[k] EXCEPT !.status = "expired", !.leased = FALSE] \in KillRow
    BY <1>0 DEF KillRow
  <2>2. kill' = [kill EXCEPT ![k] = [kill[k] EXCEPT !.status = "expired", !.leased = FALSE]]
    BY <1>2 DEF RemoteKill!ReplayKill
  <2> QED  BY <1>0, <1>2, <2>1, <2>2 DEF RemoteKill!ReplayKill, RowsTrue, KillRow
<1>3. CASE \E k \in Kills : RemoteKill!CreateKill(k) \/ RemoteKill!ReplayKill(k)
  BY <1>0, <1>1, <1>2, <1>3 DEF RemoteKill!CreateKill, RemoteKill!ReplayKill, RunnerTrue,
     LateTrue, RemoteKill!RecordedIsInForce
<1>4. CASE RemoteKill!Heartbeat
  <2>1. PICK fine \in BOOLEAN :
           \/ /\ device' = RemoteKill!Heard(runner.boot, fine)
              /\ runner' \in {[runner EXCEPT !.pc = "poll"], RemoteKill!Rest}
              /\ UNCHANGED late
           \/ /\ RemoteKill!GivenUp([kind |-> "beat", boot |-> runner.boot, cmd |-> NoKill,
                          verdict |-> IF fine THEN "ready" ELSE "degraded"])
              /\ UNCHANGED device
    BY <1>4 DEF RemoteKill!Heartbeat
  <2>2. CASE device' = RemoteKill!Heard(runner.boot, fine) /\ UNCHANGED late
             /\ runner' \in {[runner EXCEPT !.pc = "poll"], RemoteKill!Rest}
    <3>1. device' \in DeviceRecord
      BY <1>0, <2>2 DEF DeviceRecord, RemoteKill!Heard, RunnerRecord
    <3>2. runner' \in RunnerRecord /\ runner'.pc \in {"poll", "rest"}
      BY <1>0, <2>2, RestingRunner DEF RunnerRecord
    <3> QED  BY <1>0, <1>4, <2>2, <3>1, <3>2 DEF RemoteKill!Heartbeat, RunnerTrue, RowsTrue,
                LateTrue, RemoteKill!RecordedIsInForce
  <2>3. CASE /\ RemoteKill!GivenUp([kind |-> "beat", boot |-> runner.boot, cmd |-> NoKill,
                          verdict |-> IF fine THEN "ready" ELSE "degraded"])
             /\ UNCHANGED device
    <3>1. [kind |-> "beat", boot |-> runner.boot, cmd |-> NoKill,
           verdict |-> IF fine THEN "ready" ELSE "degraded"] \in LateRequest
      BY <1>0 DEF LateRequest, RunnerRecord
    <3>2. /\ runner' \in RunnerRecord /\ runner'.pc = "rest" /\ late' \subseteq LateRequest
          /\ LateTrue'
      BY <1>4, <2>3, <3>1, GivenUpKeeps DEF RemoteKill!Heartbeat, LateTrue
    <3> QED  BY <1>0, <1>4, <2>3, <3>2 DEF RemoteKill!Heartbeat, RunnerTrue, RowsTrue,
                RemoteKill!RecordedIsInForce
  <2> QED  BY <2>1, <2>2, <2>3
<1>5. CASE RemoteKill!PollKill
  <2>1. CASE \E k \in RemoteKill!Deliverable(runner.boot) :
               /\ kill' = RemoteKill!Claimed(k) /\ UNCHANGED late
               /\ runner' \in {[runner EXCEPT !.pc = "verify", !.cmd = k], RemoteKill!Rest}
    <3>1. PICK k \in RemoteKill!Deliverable(runner.boot) :
               /\ kill' = RemoteKill!Claimed(k) /\ UNCHANGED late
               /\ runner' \in {[runner EXCEPT !.pc = "verify", !.cmd = k], RemoteKill!Rest}
      BY <2>1
    <3>2. k \in Kills  BY DEF RemoteKill!Deliverable
    <3>3. kill' \in [Kills -> KillRow] /\ RowsTrue'
      BY <1>0, <1>5, <3>1, <3>2, ClaimedRow DEF RowsTrue, RemoteKill!PollKill
    <3>4. runner' \in RunnerRecord /\ RunnerTrue'
      BY <1>0, <1>5, <3>1, <3>2, RestingRunner DEF RunnerRecord, RunnerTrue
    <3> QED  BY <1>0, <1>5, <3>1, <3>3, <3>4 DEF RemoteKill!PollKill, LateTrue,
                RemoteKill!RecordedIsInForce
  <2>2. CASE runner' = RemoteKill!Rest /\ UNCHANGED <<kill, late>>
    <3>1. runner' \in RunnerRecord /\ RunnerTrue'
      BY <1>0, <2>2, RestingRunner DEF RunnerTrue
    <3> QED  BY <1>0, <1>5, <2>2, <3>1 DEF RemoteKill!PollKill, LateTrue, RowsTrue,
                RemoteKill!RecordedIsInForce
  <2>3. CASE /\ RemoteKill!GivenUp([kind |-> "poll", boot |-> runner.boot, cmd |-> NoKill,
                          verdict |-> "none"])
             /\ UNCHANGED kill
    <3>1. [kind |-> "poll", boot |-> runner.boot, cmd |-> NoKill, verdict |-> "none"]
             \in LateRequest
      BY <1>0 DEF LateRequest, RunnerRecord, RemoteKill!Verdicts
    <3>2. /\ runner' \in RunnerRecord /\ runner'.pc = "rest" /\ late' \subseteq LateRequest
          /\ LateTrue'
      BY <1>5, <2>3, <3>1, GivenUpKeeps DEF RemoteKill!PollKill, LateTrue
    <3> QED  BY <1>0, <1>5, <2>3, <3>2 DEF RemoteKill!PollKill, RunnerTrue, RowsTrue,
                RemoteKill!RecordedIsInForce
  <2> QED  BY <1>5, <2>1, <2>2, <2>3 DEF RemoteKill!PollKill
<1>6. CASE RemoteKill!VerifyKill
  <2>1. runner' \in RunnerRecord /\ RunnerTrue'
    BY <1>0, <1>6, RestingRunner DEF RemoteKill!VerifyKill, RunnerRecord, RunnerTrue
  <2> QED  BY <1>0, <1>6, <2>1 DEF RemoteKill!VerifyKill, LateTrue, RowsTrue,
              RemoteKill!RecordedIsInForce
<1>7. CASE RemoteKill!ActivateKill
  <2>1. runner.cmd \in Kills  BY <1>0, <1>7 DEF RemoteKill!ActivateKill, RunnerTrue
  <2>2. /\ RemoteKill!Recorded(runner.cmd) \in SwitchRecord
        /\ runner.cmd \in RemoteKill!Recorded(runner.cmd).digests
        /\ switch.digests \subseteq RemoteKill!Recorded(runner.cmd).digests
        /\ RemoteKill!Recorded(runner.cmd) = switch
           \/ RemoteKill!Recorded(runner.cmd).active
    BY <1>0, <2>1 DEF RemoteKill!Recorded, SwitchRecord
  <2>3. PICK failed \in BOOLEAN :
          /\ runner.cmd \in past.local => failed
          /\ switch' \in IF runner.cmd \in past.local THEN {switch}
                         ELSE IF failed THEN {switch, RemoteKill!Recorded(runner.cmd)}
                         ELSE {RemoteKill!Recorded(runner.cmd)}
          /\ runner' = [runner EXCEPT !.pc = "ack", !.verdict = RemoteKill!Verdict(failed)]
    BY <1>7 DEF RemoteKill!ActivateKill
  <2>4. /\ switch' \in {switch, RemoteKill!Recorded(runner.cmd)}
        /\ ~failed => switch' = RemoteKill!Recorded(runner.cmd)
    BY <2>3
  <2>5. /\ switch' \in SwitchRecord /\ switch.digests \subseteq switch'.digests
        /\ RemoteKill!RecordedIsInForce'
    BY <1>0, <2>2, <2>4 DEF RemoteKill!RecordedIsInForce
  <2>6. runner' \in RunnerRecord /\ RunnerTrue'
    BY <1>0, <2>1, <2>2, <2>3, <2>4 DEF RunnerRecord, RunnerTrue, RemoteKill!Verdict,
       RemoteKill!Verdicts
  <2> QED  BY <1>0, <1>7, <2>5, <2>6 DEF RemoteKill!ActivateKill, LateTrue, RowsTrue
<1>8. CASE RemoteKill!AckKill
  <2>1. /\ runner.cmd \in Kills
        /\ runner.verdict = "received" => runner.cmd \in switch.digests
        /\ UNCHANGED <<device, switch>>
    BY <1>0, <1>8 DEF RemoteKill!AckKill, RunnerTrue
  <2>2. CASE /\ kill' = RemoteKill!Acknowledged(runner.cmd, runner.verdict)
             /\ runner' = RemoteKill!Rest /\ UNCHANGED late
    <3>1. kill' \in [Kills -> KillRow] /\ RowsTrue'
      BY <1>0, <2>1, <2>2, AcknowledgedRow DEF RowsTrue
    <3>2. runner' \in RunnerRecord /\ RunnerTrue'
      BY <1>0, <2>2, RestingRunner DEF RunnerTrue
    <3> QED  BY <1>0, <2>1, <2>2, <3>1, <3>2 DEF LateTrue, RemoteKill!RecordedIsInForce
  <2>3. CASE /\ RemoteKill!GivenUp([kind |-> "ack", boot |-> runner.boot, cmd |-> runner.cmd,
                          verdict |-> runner.verdict])
             /\ UNCHANGED kill
    <3>1. [kind |-> "ack", boot |-> runner.boot, cmd |-> runner.cmd,
           verdict |-> runner.verdict] \in LateRequest
      BY <1>0 DEF LateRequest, RunnerRecord
    <3>2. /\ runner' \in RunnerRecord /\ runner'.pc = "rest" /\ late' \subseteq LateRequest
          /\ LateTrue'
      BY <2>1, <2>3, <3>1, GivenUpKeeps DEF LateTrue
    <3> QED  BY <1>0, <2>1, <2>3, <3>2 DEF RunnerTrue, RowsTrue, RemoteKill!RecordedIsInForce
  <2> QED  BY <1>8, <2>2, <2>3 DEF RemoteKill!AckKill
<1>9. CASE RemoteKill!NextCycle
  <2>1. runner' \in RunnerRecord /\ RunnerTrue'
    BY <1>0, <1>9 DEF RemoteKill!NextCycle, RunnerRecord, RunnerTrue
  <2> QED  BY <1>0, <1>9, <2>1 DEF RemoteKill!NextCycle, LateTrue, RowsTrue,
              RemoteKill!RecordedIsInForce
<1>10. CASE RemoteKill!Restart
  <2>1. runner' \in RunnerRecord /\ RunnerTrue'
    BY <1>0, <1>10 DEF RemoteKill!Restart, RunnerRecord, RunnerTrue, RemoteKill!Verdicts
  <2> QED  BY <1>0, <1>10, <2>1 DEF RemoteKill!Restart, LateTrue, RowsTrue,
              RemoteKill!RecordedIsInForce
<1>11. CASE RemoteKill!HandleLate
  <2>1. PICK r \in late :
         /\ late' = late \ {r}
         /\ \/ r.kind = "beat" /\ device' = RemoteKill!Heard(r.boot, r.verdict = "ready")
               /\ UNCHANGED kill
            \/ /\ r.kind = "poll" /\ UNCHANGED device
               /\ IF RemoteKill!PollAnswered(r.boot) /\ RemoteKill!Deliverable(r.boot) # {}
                  THEN \E k \in RemoteKill!Deliverable(r.boot) : kill' = RemoteKill!Claimed(k)
                  ELSE UNCHANGED kill
            \/ /\ r.kind = "ack" /\ kill' = RemoteKill!Acknowledged(r.cmd, r.verdict)
               /\ UNCHANGED device
    BY <1>11 DEF RemoteKill!HandleLate
  <2>2. r \in LateRequest /\ UNCHANGED <<switch, runner>>
    BY <1>0, <1>11, <2>1 DEF RemoteKill!HandleLate
  <2>3. device' \in DeviceRecord
    <3>1. RemoteKill!Heard(r.boot, r.verdict = "ready") \in DeviceRecord
      BY <2>2 DEF DeviceRecord, RemoteKill!Heard, LateRequest
    <3>2. device' \in {device, RemoteKill!Heard(r.boot, r.verdict = "ready")}  BY <2>1
    <3> QED  BY <1>0, <3>1, <3>2
  <2>4. kill' \in [Kills -> KillRow] /\ RowsTrue'
    <3>1. CASE UNCHANGED kill  BY <1>0, <2>2, <3>1 DEF RowsTrue
    <3>2. CASE \E k \in RemoteKill!Deliverable(r.boot) : kill' = RemoteKill!Claimed(k)
      BY <1>0, <2>2, <3>2, ClaimedRow DEF RowsTrue, RemoteKill!Deliverable
    <3>3. CASE r.kind = "ack" /\ kill' = RemoteKill!Acknowledged(r.cmd, r.verdict)
      <4>1. r.cmd \in Kills /\ (r.verdict = "received" => r.cmd \in switch.digests)
        BY <1>0, <2>1, <3>3 DEF LateTrue
      <4> QED  BY <1>0, <2>2, <3>3, <4>1, AcknowledgedRow DEF RowsTrue
    <3> QED  BY <2>1, <3>1, <3>2, <3>3
  <2>5. late' \subseteq LateRequest /\ LateTrue'  BY <1>0, <2>1, <2>2 DEF LateTrue
  <2> QED  BY <1>0, <2>2, <2>3, <2>4, <2>5 DEF RunnerTrue, RemoteKill!RecordedIsInForce
<1>12. CASE RemoteKill!OperatorSwitches
  <2>1. /\ switch' = [switch EXCEPT !.active = ~@,
                         !.cleared = IF switch.active THEN switch.digests ELSE @]
        /\ UNCHANGED <<device, kill, past, runner, late>>
    BY <1>12 DEF RemoteKill!OperatorSwitches
  <2>2. switch' \in SwitchRecord /\ switch'.digests = switch.digests
        /\ RemoteKill!RecordedIsInForce'
    BY <1>0, <2>1 DEF SwitchRecord, RemoteKill!RecordedIsInForce
  <2> QED  BY <1>0, <2>1, <2>2 DEF RowsTrue, RunnerTrue, LateTrue
<1>13. CASE RemoteKill!TimePasses
  <2>1. device' \in DeviceRecord  BY <1>0, <1>13 DEF RemoteKill!TimePasses, DeviceRecord
  <2>2. kill' \in [Kills -> KillRow] /\ RowsTrue'
    <3>1. CASE UNCHANGED kill  BY <1>0, <1>13, <3>1 DEF RemoteKill!TimePasses, RowsTrue
    <3>2. CASE \E k \in Kills : kill' = [kill EXCEPT ![k].leased = FALSE]
      <4>1. PICK k \in Kills : kill' = [kill EXCEPT ![k].leased = FALSE]  BY <3>2
      <4>2. [kill[k] EXCEPT !.leased = FALSE] \in KillRow  BY <1>0 DEF KillRow
      <4>3. kill' = [kill EXCEPT ![k] = [kill[k] EXCEPT !.leased = FALSE]]  BY <4>1
      <4>4. UNCHANGED switch  BY <1>13 DEF RemoteKill!TimePasses
      <4> QED  BY <1>0, <4>2, <4>3, <4>4 DEF RowsTrue, KillRow
    <3> QED  BY <1>13, <3>1, <3>2 DEF RemoteKill!TimePasses
  <2> QED  BY <1>0, <1>13, <2>1, <2>2 DEF RemoteKill!TimePasses, RunnerTrue, LateTrue,
              RemoteKill!RecordedIsInForce
<1> QED  BY <1>3, <1>4, <1>5, <1>6, <1>7, <1>8, <1>9, <1>10, <1>11, <1>12, <1>13
            DEF RemoteKill!Next

\* Wherever an answer "received" still is, with the runner, under way or in the
\* control plane's row, the stop it speaks of was recorded, and what was recorded is
\* in force or preceded a clearing; for any number of commands, boots and requests
\* given up (activate_control_plane_kill_switch, acknowledge_kill_switch_command).
THEOREM RelayInvariant == RemoteKill!Spec => []RemoteKill!RelayInv
<1>1. RemoteKill!Init => RemoteKill!RelayInv  BY RelayInit
<1>2. RemoteKill!RelayInv /\ [RemoteKill!Next]_RemoteKill!killVars => RemoteKill!RelayInv'
  <2> SUFFICES ASSUME RemoteKill!RelayInv, UNCHANGED RemoteKill!killVars
               PROVE  RemoteKill!RelayInv'
    BY RelayStep
  <2> QED  BY DEF RemoteKill!killVars, RemoteKill!RelayInv, RemoteKill!KillTypeOK,
              RemoteKill!AnswersAreTrue, RemoteKill!RecordedIsInForce
<1> QED  BY <1>1, <1>2, PTL DEF RemoteKill!Spec

\* A remote stop that the control plane shows as acknowledged is in force unless the
\* operator cleared it, and one that was cleared does not come back with a second
\* delivery of its command (Recorded: a digest that is known changes nothing).
THEOREM StopIsRelayed == RemoteKill!Spec => RemoteKill!RemoteStopHolds
<1>1. RemoteKill!RelayInv' => RemoteKill!AcknowledgedStopIsReal'
  BY DEF RemoteKill!RelayInv, RemoteKill!AnswersAreTrue, RemoteKill!RecordedIsInForce,
     RemoteKill!AcknowledgedStopIsReal
<1>2. ASSUME RemoteKill!RelayInv, RemoteKill!Next  PROVE RemoteKill!ClearedStaysCleared
  <2> SUFFICES ASSUME ~switch.active, switch'.active, local' = local
               PROVE  switch'.digests # switch.digests
    BY DEF RemoteKill!ClearedStaysCleared
  <2>1. switch \in SwitchRecord /\ local' = local  BY <1>2, RelayParts
  <2>2. ~ UNCHANGED switch /\ local \in Nat /\ ~ RemoteKill!OperatorSwitches
    BY <1>2, RelayParts DEF RemoteKill!OperatorSwitches
  <2>3. CASE RemoteKill!ActivateKill
    <3>1. switch' = RemoteKill!Recorded(runner.cmd)
      BY <2>2, <2>3 DEF RemoteKill!ActivateKill
    <3> QED  BY <2>1, <2>2, <3>1 DEF RemoteKill!Recorded, SwitchRecord
  <2>4. UNCHANGED switch \/ RemoteKill!ActivateKill
    BY <1>2, <2>2 DEF RemoteKill!Next, RemoteKill!CreateKill, RemoteKill!ReplayKill,
       RemoteKill!Heartbeat, RemoteKill!PollKill, RemoteKill!VerifyKill,
       RemoteKill!ActivateKill, RemoteKill!AckKill, RemoteKill!NextCycle, RemoteKill!Restart,
       RemoteKill!HandleLate, RemoteKill!TimePasses
  <2> QED  BY <2>2, <2>3, <2>4
<1>3. RemoteKill!RelayInv /\ RemoteKill!RelayInv' /\ [RemoteKill!Next]_RemoteKill!killVars
      => [RemoteKill!AcknowledgedStopIsReal' /\ RemoteKill!ClearedStaysCleared]_RemoteKill!killVars
  BY <1>1, <1>2
<1> QED  BY <1>3, RelayInvariant, PTL DEF RemoteKill!Spec, RemoteKill!RemoteStopHolds

----------------------------------------------------------------------------
(* The operator token on the clipboard (TokenClipboard).                   *)
clip == x1
copier == x2
copies == x3
USE DEF clip, copier, copies

Clip == [text : {"empty", "token", "other"}, owner : Shells \cup {"user", "nobody"}, seq : Nat]
Copier == [at : {"idle", "shown", "clear", "ended"}, lease : Nat, tries : Nat,
           ended : Clipboard!Endings]

\* What the invariant says of one shell, given its record and the clipboard.
CopierFits(s, r, c) ==
    /\ r.at \in {"shown", "clear"} =>
         /\ r.ended = "not" /\ r.lease <= c.seq
         /\ c.seq = r.lease <=> c.owner = s
         /\ c.owner = s => c.text = "token"
    /\ r.at = "idle" => c.owner # s /\ r.ended = "not"
    /\ c.owner = s => r.ended \in {"not", "failed", "killed", "unread"}

LEMMA ClipboardParts ==
    /\ Clipboard!ClipboardInv <=>
         /\ clip \in Clip /\ copier \in [Shells -> Copier]
         /\ \A s \in Shells : CopierFits(s, copier[s], clip)
    /\ Clipboard!ClipboardInv' <=>
         /\ clip' \in Clip /\ copier' \in [Shells -> Copier]
         /\ \A s \in Shells : CopierFits(s, copier'[s], clip')
  BY DEF Clipboard!ClipboardInv, Clipboard!ClipboardTypeOK, Clipboard!LeaseTells,
     Clipboard!NoTokenLeft, Clip, Copier, CopierFits

\* Whatever is copied next has a sequence number no lease has seen.
LEMMA PlacedOver ==
    ASSUME clip \in Clip, NEW s \in Shells, NEW r \in Copier, CopierFits(s, r, clip),
           NEW text \in {"empty", "token", "other"}, NEW owner \in Shells \cup {"user", "nobody"},
           owner # s
    PROVE  /\ Clipboard!Place(text, owner) \in Clip
           /\ CopierFits(s, r, Clipboard!Place(text, owner))
<1>1. /\ Clipboard!Place(text, owner).seq = clip.seq + 1
      /\ Clipboard!Place(text, owner).owner = owner
      /\ Clipboard!Place(text, owner) \in Clip
  BY DEF Clipboard!Place, Clip
<1> QED  BY <1>1 DEF CopierFits, Clip, Copier

\* A shell's own step: it suffices that its own record fits what is there then.
LEMMA CopierSteps ==
    ASSUME ClipboardSettings, Clipboard!ClipboardInv, NEW s \in Shells, NEW r \in Copier,
           copier' = [copier EXCEPT ![s] = r], CopierFits(s, r, clip'),
           \/ clip' = clip
           \/ clip' = Clipboard!Place("token", s)
           \/ clip' = Clipboard!Place("empty", "nobody")
    PROVE  Clipboard!ClipboardInv'
<1>1. /\ clip \in Clip /\ copier \in [Shells -> Copier]
      /\ \A q \in Shells : CopierFits(q, copier[q], clip)
  BY ClipboardParts
<1>2. clip' \in Clip  BY <1>1 DEF Clip, Clipboard!Place
<1>3. ASSUME NEW q \in Shells  PROVE CopierFits(q, copier'[q], clip')
  <2>1. CASE q = s  BY <1>1, <2>1
  <2>2. CASE q # s
    <3>1. copier'[q] = copier[q] /\ copier[q] \in Copier  BY <1>1, <2>2
    <3>2. s \in Shells \cup {"user", "nobody"} /\ "nobody" # q  BY DEF ClipboardSettings
    <3>3. CopierFits(q, copier[q], Clipboard!Place("token", s))
      BY <1>1, <2>2, <3>1, <3>2, PlacedOver
    <3>4. CopierFits(q, copier[q], Clipboard!Place("empty", "nobody"))
      BY <1>1, <3>1, <3>2, PlacedOver
    <3> QED  BY <1>1, <3>1, <3>3, <3>4
  <2> QED  BY <2>1, <2>2
<1> QED  BY <1>1, <1>2, <1>3, ClipboardParts

LEMMA ClipboardStep ==
    ASSUME ClipboardSettings, Clipboard!ClipboardInv, Clipboard!Next
    PROVE  Clipboard!ClipboardInv' /\ Clipboard!ForeignClipboardKept
<1>0. /\ clip \in Clip /\ copier \in [Shells -> Copier]
      /\ \A s \in Shells : copier[s] \in Copier /\ CopierFits(s, copier[s], clip)
  BY ClipboardParts
<1>1. ASSUME NEW s \in Shells, NEW r \in Copier, copier' = [copier EXCEPT ![s] = r],
             CopierFits(s, r, clip'), r.ended = "cleared" => clip.owner = s,
             \/ clip' = clip
             \/ clip' = Clipboard!Place("token", s)
             \/ clip' = Clipboard!Place("empty", "nobody")
      PROVE  Clipboard!ClipboardInv' /\ Clipboard!ForeignClipboardKept
  <2>1. Clipboard!ClipboardInv'  BY <1>1, CopierSteps
  <2>2. Clipboard!ForeignClipboardKept
    BY <1>0, <1>1 DEF Clipboard!ForeignClipboardKept
  <2> QED  BY <2>1, <2>2
<1>2. ASSUME NEW s \in Shells, NEW how \in {"failed", "killed", "left", "unread"},
             Clipboard!End(s, how), copier[s].at # "ended",
             \/ clip' = clip /\ (how = "left" => clip.owner # s)
             \/ clip' = Clipboard!Place("empty", "nobody")
             \/ clip' = Clipboard!Place("token", s) /\ how = "failed"
      PROVE  Clipboard!ClipboardInv' /\ Clipboard!ForeignClipboardKept
  <2>1. PICK r \in Copier : r = [copier[s] EXCEPT !.at = "ended", !.ended = how]
    BY <1>0 DEF Copier, Clipboard!Endings
  <2>2. r.at = "ended" /\ r.ended = how  BY <1>0, <2>1 DEF Copier
  <2>3. copier' = [copier EXCEPT ![s] = r]  BY <1>2, <2>1 DEF Clipboard!End
  <2>4. clip'.owner = s => how # "left"
    BY <1>2 DEF Clipboard!Place, ClipboardSettings
  <2>5. CopierFits(s, r, clip')  BY <1>2, <2>2, <2>4 DEF CopierFits
  <2> QED  BY <1>1, <1>2, <2>2, <2>3, <2>5
<1>3. ASSUME NEW s \in Shells, Clipboard!SetText(s)
      PROVE  Clipboard!ClipboardInv' /\ Clipboard!ForeignClipboardKept
  <2>1. CASE /\ clip' = Clipboard!Place("token", s)
             /\ copier' = [copier EXCEPT ![s].at = "shown", ![s].lease = clip.seq + 1]
    <3>1. clip.seq + 1 \in Nat  BY <1>0 DEF Clip
    <3>2. PICK r \in Copier : r = [copier[s] EXCEPT !.at = "shown", !.lease = clip.seq + 1]
      BY <1>0, <3>1 DEF Copier
    <3>3. r.at = "shown" /\ r.lease = clip.seq + 1 /\ r.ended = "not"
      BY <1>0, <1>3, <3>2 DEF Copier, CopierFits, Clipboard!SetText
    <3>4. CopierFits(s, r, clip')
      BY <2>1, <3>1, <3>3 DEF CopierFits, Clipboard!Place
    <3>5. copier' = [copier EXCEPT ![s] = r]  BY <2>1, <3>2
    <3> QED  BY <1>1, <2>1, <3>3, <3>4, <3>5
  <2>2. CASE /\ clip' \in {clip, Clipboard!Place("empty", "nobody"), Clipboard!Place("token", s)}
             /\ Clipboard!End(s, "failed")
    BY <1>2, <1>3, <2>2 DEF Clipboard!SetText
  <2> QED  BY <1>3, <2>1, <2>2 DEF Clipboard!SetText
<1>4. ASSUME NEW s \in Shells, Clipboard!Wake(s)
      PROVE  Clipboard!ClipboardInv' /\ Clipboard!ForeignClipboardKept
  <2>1. PICK r \in Copier : r = [copier[s] EXCEPT !.at = "clear"]  BY <1>0 DEF Copier
  <2>2. /\ r.at = "clear" /\ r.lease = copier[s].lease /\ r.ended = copier[s].ended
        /\ copier[s].at = "shown" /\ clip' = clip /\ copier' = [copier EXCEPT ![s] = r]
    BY <1>0, <1>4, <2>1 DEF Copier, Clipboard!Wake
  <2>3. CopierFits(s, r, clip') /\ r.ended # "cleared"
    BY <1>0, <2>2 DEF CopierFits
  <2> QED  BY <1>1, <2>2, <2>3
<1>5. ASSUME NEW s \in Shells, Clipboard!Clear(s)
      PROVE  Clipboard!ClipboardInv' /\ Clipboard!ForeignClipboardKept
  <2>1. CASE Clipboard!Unchanged(s)
    <3>1. PICK r \in Copier : r = [copier[s] EXCEPT !.at = "ended", !.ended = "cleared"]
      BY <1>0 DEF Copier, Clipboard!Endings
    <3>2. /\ r.at = "ended" /\ copier' = [copier EXCEPT ![s] = r]
          /\ clip' = Clipboard!Place("empty", "nobody")
      BY <1>0, <1>5, <2>1, <3>1 DEF Copier, Clipboard!Clear, Clipboard!End
    <3>3. clip.owner = s
      BY <1>0, <1>5, <2>1 DEF Clipboard!Clear, Clipboard!Unchanged, CopierFits
    <3>4. CopierFits(s, r, clip')
      BY <3>2 DEF CopierFits, Clipboard!Place, ClipboardSettings
    <3> QED  BY <1>1, <3>2, <3>3, <3>4
  <2>2. CASE ~ Clipboard!Unchanged(s)
    <3>1. clip.owner # s
      BY <1>0, <1>5, <2>2 DEF Clipboard!Clear, Clipboard!Unchanged, CopierFits
    <3> QED  BY <1>2, <1>5, <2>2, <3>1 DEF Clipboard!Clear
  <2> QED  BY <2>1, <2>2
<1>6. ASSUME NEW s \in Shells, Clipboard!Unavailable(s)
      PROVE  Clipboard!ClipboardInv' /\ Clipboard!ForeignClipboardKept
  <2>1. CASE copier' = [copier EXCEPT ![s].tries = @ + 1]
    <3>1. copier[s].tries + 1 \in Nat  BY <1>0 DEF Copier
    <3>2. PICK r \in Copier : r = [copier[s] EXCEPT !.tries = @ + 1]
      BY <1>0, <3>1 DEF Copier
    <3>3. /\ r.at = "clear" /\ r.lease = copier[s].lease /\ r.ended = copier[s].ended
          /\ copier[s].at = "clear" /\ clip' = clip /\ copier' = [copier EXCEPT ![s] = r]
      BY <1>0, <1>6, <2>1, <3>2 DEF Copier, Clipboard!Unavailable
    <3>4. CopierFits(s, r, clip') /\ r.ended # "cleared"
      BY <1>0, <3>3 DEF CopierFits
    <3> QED  BY <1>1, <3>3, <3>4
  <2>2. CASE Clipboard!End(s, "failed")
    BY <1>2, <1>6, <2>2 DEF Clipboard!Unavailable
  <2> QED  BY <1>6, <2>1, <2>2 DEF Clipboard!Unavailable, Clipboard!GiveUp
<1>7. ASSUME NEW s \in Shells, Clipboard!Kill(s)
      PROVE  Clipboard!ClipboardInv' /\ Clipboard!ForeignClipboardKept
  BY <1>2, <1>7 DEF Clipboard!Kill
<1>9. ASSUME NEW s \in Shells, Clipboard!ClearUnread(s)
      PROVE  Clipboard!ClipboardInv' /\ Clipboard!ForeignClipboardKept
  BY <1>2, <1>9 DEF Clipboard!ClearUnread
<1>8. ASSUME NEW text \in {"token", "other"}, Clipboard!UserCopies(text)
      PROVE  Clipboard!ClipboardInv' /\ Clipboard!ForeignClipboardKept
  <2>1. clip' = Clipboard!Place(text, "user") /\ copier' = copier
    BY <1>8 DEF Clipboard!UserCopies
  <2>2. clip' \in Clip  BY <1>0, <2>1 DEF Clip, Clipboard!Place
  <2>3. \A s \in Shells : CopierFits(s, copier[s], Clipboard!Place(text, "user"))
    BY <1>0, PlacedOver DEF ClipboardSettings
  <2>4. Clipboard!ClipboardInv'  BY <1>0, <2>1, <2>2, <2>3, ClipboardParts
  <2> QED  BY <2>1, <2>4 DEF Clipboard!ForeignClipboardKept
<1> QED  BY <1>3, <1>4, <1>5, <1>6, <1>7, <1>8, <1>9 DEF Clipboard!Next

\* However shells and the user take turns on the clipboard, and whatever interrupts,
\* kills or blocks a copy, a command that ended without an error has left no token
\* of its own that it could read, and takes nothing off that is not its own
\* (clear_if_unchanged).
THEOREM CopiesAreCleared ==
    ASSUME ClipboardSettings  PROVE Clipboard!Spec => Clipboard!ClipboardGivenBack
<1>1. Clipboard!Init => Clipboard!ClipboardInv
  <2> SUFFICES ASSUME Clipboard!Init  PROVE Clipboard!ClipboardInv
    OBVIOUS
  <2>1. /\ clip \in Clip /\ copier \in [Shells -> Copier]
        /\ \A s \in Shells : copier[s] = Clipboard!Fresh
    BY DEF Clipboard!Init, Clip, Copier, Clipboard!Fresh, Clipboard!Endings
  <2>2. \A s \in Shells : CopierFits(s, copier[s], clip)
    BY <2>1 DEF Clipboard!Init, CopierFits, Clipboard!Fresh, ClipboardSettings
  <2> QED  BY <2>1, <2>2, ClipboardParts
<1>2. Clipboard!ClipboardInv /\ [Clipboard!Next]_Clipboard!vars => Clipboard!ClipboardInv'
  <2> SUFFICES ASSUME Clipboard!ClipboardInv, UNCHANGED Clipboard!vars
               PROVE  Clipboard!ClipboardInv'
    BY ClipboardStep
  <2> QED  BY ClipboardParts DEF Clipboard!vars
<1>3. /\ Clipboard!ClipboardInv /\ Clipboard!ClipboardInv'
      /\ [Clipboard!Next]_Clipboard!vars
      => [Clipboard!NoTokenLeft' /\ Clipboard!ForeignClipboardKept]_Clipboard!vars
  BY ClipboardStep DEF Clipboard!ClipboardInv
<1> QED  BY <1>1, <1>2, <1>3, PTL DEF Clipboard!Spec, Clipboard!ClipboardGivenBack

----------------------------------------------------------------------------
(* The two file locks (HostGuards).                                        *)
file == x1
portal == x2
alive == x3
files == x4
deaths == x5
misjudged == x6
serving == x7
endpoint == x8
USE DEF file, portal, alive, files, deaths, misjudged, serving, endpoint

LeaseFile == [id : Nat, pid : Procs \cup {Nobody}, old : BOOLEAN]
Acquiring == [pc : {"out", "open", "created", "held", "stat", "owner", "unlink"},
              tries : 0 .. 1, read : Nat]
AcquiringFits(q, r, al, n) ==
    /\ r.read <= n /\ (q \notin al => r = Guards!Out)
    /\ r.pc \in {"created", "held", "owner", "unlink"} => r.read # 0

LEMMA GuardsShapes ==
    /\ Guards!GuardsTypeOK <=>
         /\ file \in LeaseFile /\ (file.id = 0 => file = Guards!NoFile)
         /\ file.id <= files /\ files \in Nat /\ portal \in [Procs -> Acquiring]
         /\ \A q \in Procs : AcquiringFits(q, portal[q], alive, files)
         /\ alive \subseteq Procs /\ misjudged \in BOOLEAN
         /\ serving \in [Procs -> Hosts \cup {Nobody}]
         /\ endpoint \in [Guards!Scopes -> Procs \cup {Nobody}]
    /\ Guards!GuardsTypeOK' <=>
         /\ file' \in LeaseFile /\ (file'.id = 0 => file' = Guards!NoFile)
         /\ file'.id <= files' /\ files' \in Nat /\ portal' \in [Procs -> Acquiring]
         /\ \A q \in Procs : AcquiringFits(q, portal'[q], alive', files')
         /\ alive' \subseteq Procs /\ misjudged' \in BOOLEAN
         /\ serving' \in [Procs -> Hosts \cup {Nobody}]
         /\ endpoint' \in [Guards!Scopes -> Procs \cup {Nobody}]
  BY DEF Guards!GuardsTypeOK, LeaseFile, Acquiring, AcquiringFits

\* A step of acquire or release: p goes on to the record r with the file as it is
\* left.  What the step has to show is only about p and about the file.
LeaseGoes(q, r) ==
    /\ portal' = [portal EXCEPT ![q] = r] /\ q \in alive
    /\ UNCHANGED <<alive, deaths, serving, endpoint>>

JudgedAs(q, r, f, al) ==
    /\ q \in al /\ r.pc \in {"created", "held"} => f.id = r.read
    /\ r.pc = "created" => ~f.old /\ f.pid = Nobody
    /\ r.pc = "held" => f.pid = q
    /\ r.pc \in {"owner", "unlink"} /\ f.id = r.read => f.old
    /\ r.pc = "unlink" /\ f.id = r.read => f.pid \notin al

LEMMA Judging ==
    /\ Guards!LeaseStory <=>
         (~misjudged => \A q \in Procs : JudgedAs(q, portal[q], file, alive))
    /\ Guards!LeaseStory' <=>
         (~misjudged' => \A q \in Procs : JudgedAs(q, portal'[q], file', alive'))
  BY DEF Guards!LeaseStory, Guards!JudgedFairly, JudgedAs, Guards!Holds

HeldBy(r) == r.pc \in {"created", "held"}

\* The file did not change: the others are where they were.
LEMMA SameFile ==
    ASSUME Guards!HostLocksExclude, NEW q \in Procs, NEW r \in Acquiring, LeaseGoes(q, r),
           UNCHANGED <<file, files, misjudged>>, AcquiringFits(q, r, alive, files),
           ~misjudged => JudgedAs(q, r, file, alive),
           ~misjudged /\ HeldBy(r) => HeldBy(portal[q])
    PROVE  Guards!HostLocksExclude'
<1>1. /\ Guards!GuardsTypeOK /\ Guards!LeaseStory /\ Guards!EndpointStory
      /\ Guards!OneDriver /\ Guards!OneDashboard
  BY DEF Guards!HostLocksExclude
<1>2. /\ \A o \in Procs \ {q} : portal'[o] = portal[o]
      /\ portal'[q] = r /\ portal' \in [Procs -> Acquiring]
  BY <1>1, GuardsShapes DEF LeaseGoes
<1>3. Guards!GuardsTypeOK'
  BY <1>1, <1>2, GuardsShapes DEF LeaseGoes, Guards!Scopes
<1>4. Guards!LeaseStory'
  BY <1>1, <1>2, Judging DEF LeaseGoes
<1>5. Guards!OneDriver'
  BY <1>1, <1>2 DEF Guards!OneDriver, Guards!Holds, HeldBy, LeaseGoes
<1>6. Guards!EndpointStory' /\ Guards!OneDashboard'
  BY <1>1 DEF Guards!EndpointStory, Guards!OneDashboard, LeaseGoes, Guards!Scope
<1> QED  BY <1>3, <1>4, <1>5, <1>6 DEF Guards!HostLocksExclude

\* The file is gone afterwards, and nobody but p held it: so nobody does.
LEMMA FileGone ==
    ASSUME Guards!HostLocksExclude, NEW q \in Procs, NEW r \in Acquiring, LeaseGoes(q, r),
           UNCHANGED files, file' = Guards!NoFile, AcquiringFits(q, r, alive, files),
           r.pc \in {"out", "open"}, misjudged' \in BOOLEAN, misjudged => misjudged',
           ~misjudged' => \A o \in Procs \ {q} : o \in alive => ~HeldBy(portal[o])
    PROVE  Guards!HostLocksExclude'
<1>1. /\ Guards!GuardsTypeOK /\ Guards!LeaseStory /\ Guards!EndpointStory
      /\ Guards!OneDriver /\ Guards!OneDashboard
  BY DEF Guards!HostLocksExclude
<1>2. /\ \A o \in Procs \ {q} : portal'[o] = portal[o]
      /\ portal'[q] = r /\ portal' \in [Procs -> Acquiring]
  BY <1>1, GuardsShapes DEF LeaseGoes
<1>3. file' \in LeaseFile /\ file'.id = 0  BY DEF Guards!NoFile, LeaseFile
<1>4. Guards!GuardsTypeOK'
  BY <1>1, <1>2, <1>3, GuardsShapes DEF LeaseGoes, Guards!Scopes
<1>5. ASSUME ~misjudged', NEW o \in Procs  PROVE JudgedAs(o, portal'[o], file', alive')
  <2>1. portal'[o].pc \notin {"created", "held"}
    BY <1>1, <1>2, <1>5, GuardsShapes DEF HeldBy, AcquiringFits, Guards!Out
  <2>2. portal'[o].pc \in {"owner", "unlink"} => portal'[o].read # 0
    BY <1>4, GuardsShapes DEF AcquiringFits
  <2> QED  BY <1>3, <2>1, <2>2 DEF JudgedAs
<1>6. Guards!LeaseStory'  BY <1>5, Judging
<1>7. Guards!OneDriver'
  BY <1>2 DEF Guards!OneDriver, Guards!Holds, HeldBy, LeaseGoes
<1>8. Guards!EndpointStory' /\ Guards!OneDashboard'
  BY <1>1 DEF Guards!EndpointStory, Guards!OneDashboard, LeaseGoes, Guards!Scope
<1> QED  BY <1>4, <1>6, <1>7, <1>8 DEF Guards!HostLocksExclude

\* acquire and release, call by call.
LEMMA LeaseSteps ==
    ASSUME GuardsSettings, Guards!HostLocksExclude, NEW q \in Procs,
           \/ Guards!Acquire(q) \/ Guards!Create(q) \/ Guards!WritePid(q)
           \/ Guards!OpenFails(q) \/ Guards!Stat(q) \/ Guards!ReadOwner(q)
           \/ Guards!Unlink(q) \/ Guards!Release(q)
    PROVE  Guards!HostLocksExclude'
<1>0. /\ file \in LeaseFile /\ (file.id = 0 => file = Guards!NoFile)
      /\ file.id <= files /\ files \in Nat /\ portal \in [Procs -> Acquiring]
      /\ \A o \in Procs : AcquiringFits(o, portal[o], alive, files) /\ portal[o] \in Acquiring
      /\ alive \subseteq Procs /\ misjudged \in BOOLEAN
      /\ ~misjudged => \A o \in Procs : JudgedAs(o, portal[o], file, alive)
      /\ Guards!OneDriver
      /\ q \in alive
  BY GuardsShapes, Judging DEF Guards!HostLocksExclude, Guards!Acquire, Guards!Create,
     Guards!WritePid, Guards!OpenFails, Guards!Stat, Guards!ReadOwner, Guards!Unlink,
     Guards!Release, Guards!At
<1> USE DEF Guards!At, Guards!guardsSame
<1>1. Guards!Out \in Acquiring  BY DEF Guards!Out, Acquiring
<1>2. CASE Guards!Acquire(q)
  <2>1. PICK r \in Acquiring : r = [Guards!Out EXCEPT !.pc = "open"]
    <3>1. [Guards!Out EXCEPT !.pc = "open"] \in Acquiring  BY <1>1 DEF Acquiring
    <3> QED  BY <3>1
  <2>2. r.pc = "open" /\ r.read = 0  BY <2>1 DEF Guards!Out
  <2>3. LeaseGoes(q, r) /\ UNCHANGED <<file, files, misjudged>>
    BY <1>0, <1>2, <2>1 DEF LeaseGoes, Guards!Acquire
  <2>4. AcquiringFits(q, r, alive, files) /\ JudgedAs(q, r, file, alive) /\ ~HeldBy(r)
    BY <1>0, <2>2 DEF AcquiringFits, JudgedAs, HeldBy
  <2> QED  BY <2>3, <2>4, SameFile
<1>3. CASE Guards!OpenFails(q)
  <2>1. PICK r \in Acquiring : r = [portal[q] EXCEPT !.pc = "stat"]
    BY <1>0 DEF Acquiring
  <2>2. r.pc = "stat" /\ r.read = portal[q].read  BY <1>0, <2>1 DEF Acquiring
  <2>3. LeaseGoes(q, r) /\ UNCHANGED <<file, files, misjudged>>
    BY <1>0, <1>3, <2>1 DEF LeaseGoes, Guards!OpenFails
  <2>4. AcquiringFits(q, r, alive, files) /\ JudgedAs(q, r, file, alive) /\ ~HeldBy(r)
    BY <1>0, <2>2 DEF AcquiringFits, JudgedAs, HeldBy
  <2> QED  BY <2>3, <2>4, SameFile
<1>4. CASE Guards!Stat(q)
  <2>1. PICK r \in Acquiring :
           /\ r = IF file.old THEN [portal[q] EXCEPT !.pc = "owner", !.read = file.id]
                  ELSE Guards!Out
    BY <1>0, <1>1 DEF Acquiring, LeaseFile
  <2>2. LeaseGoes(q, r) /\ UNCHANGED <<file, files, misjudged>>
    BY <1>0, <1>4, <2>1 DEF LeaseGoes, Guards!Stat
  <2>3. CASE file.old
    <3>1. r.pc = "owner" /\ r.read = file.id /\ file.id # 0
      BY <1>0, <2>1, <2>3 DEF Acquiring, Guards!NoFile
    <3> QED  BY <1>0, <2>2, <2>3, <3>1, SameFile DEF AcquiringFits, JudgedAs, HeldBy
  <2>4. CASE ~file.old
    <3>1. r.pc = "out" /\ r.read = 0  BY <2>1, <2>4 DEF Guards!Out
    <3> QED  BY <1>0, <2>2, <3>1, SameFile DEF AcquiringFits, JudgedAs, HeldBy
  <2> QED  BY <2>3, <2>4
<1>5. CASE Guards!ReadOwner(q)
  <2>1. PICK r \in Acquiring :
           r = IF Guards!OwnerGone THEN [portal[q] EXCEPT !.pc = "unlink"] ELSE Guards!Out
    BY <1>0, <1>1 DEF Acquiring
  <2>2. LeaseGoes(q, r) /\ UNCHANGED <<file, files, misjudged>>
    BY <1>0, <1>5, <2>1 DEF LeaseGoes, Guards!ReadOwner
  <2>3. CASE Guards!OwnerGone
    <3>1. r.pc = "unlink" /\ r.read = portal[q].read /\ portal[q].pc = "owner"
      BY <1>0, <1>5, <2>1, <2>3 DEF Acquiring, Guards!ReadOwner
    <3> QED  BY <1>0, <2>2, <2>3, <3>1, SameFile DEF AcquiringFits, JudgedAs, HeldBy,
                Guards!OwnerGone
  <2>4. CASE ~Guards!OwnerGone
    <3>1. r.pc = "out" /\ r.read = 0  BY <2>1, <2>4 DEF Guards!Out
    <3> QED  BY <1>0, <2>2, <3>1, SameFile DEF AcquiringFits, JudgedAs, HeldBy
  <2> QED  BY <2>3, <2>4
<1>6. CASE Guards!Unlink(q)
  <2>1. PICK r \in Acquiring :
           r = IF file = Guards!NoFile \/ portal[q].tries = 1 THEN Guards!Out
               ELSE [portal[q] EXCEPT !.pc = "open", !.tries = 1]
    <3>1. 1 \in 0 .. 1 /\ portal[q] \in Acquiring  BY <1>0
    <3>2. [portal[q] EXCEPT !.pc = "open", !.tries = 1] \in Acquiring  BY <3>1 DEF Acquiring
    <3> QED  BY <1>1, <3>2
  <2>2. r.pc \in {"out", "open"} /\ r.read <= files
    BY <1>0, <2>1 DEF Guards!Out, Acquiring, AcquiringFits
  <2>3. /\ LeaseGoes(q, r) /\ UNCHANGED files /\ file' = Guards!NoFile
        /\ misjudged' = (misjudged \/ (file # Guards!NoFile /\ file.id # portal[q].read))
        /\ portal[q].pc = "unlink"
    BY <1>0, <1>6, <2>1 DEF LeaseGoes, Guards!Unlink
  <2>4. ASSUME ~misjudged', NEW o \in Procs \ {q}, o \in alive  PROVE ~HeldBy(portal[o])
    <3>1. /\ ~misjudged /\ (file = Guards!NoFile \/ file.id = portal[q].read)
          /\ JudgedAs(o, portal[o], file, alive) /\ JudgedAs(q, portal[q], file, alive)
          /\ AcquiringFits(o, portal[o], alive, files)
      BY <1>0, <2>3, <2>4
    <3>2. CASE file = Guards!NoFile
      BY <2>4, <3>1, <3>2 DEF JudgedAs, AcquiringFits, HeldBy, Guards!NoFile
    <3>3. CASE file.id = portal[q].read
      BY <2>3, <2>4, <3>1, <3>3 DEF JudgedAs, HeldBy
    <3> QED  BY <3>1, <3>2, <3>3
  <2>5. AcquiringFits(q, r, alive, files) /\ misjudged' \in BOOLEAN
    BY <1>0, <2>2, <2>3 DEF AcquiringFits
  <2> QED  BY <2>2, <2>3, <2>4, <2>5, FileGone
<1>7. CASE Guards!Release(q)
  <2>1. /\ LeaseGoes(q, Guards!Out) /\ UNCHANGED <<files, misjudged>>
        /\ file' = Guards!NoFile /\ portal[q].pc = "held"
    BY <1>0, <1>7 DEF LeaseGoes, Guards!Release
  <2>2. ASSUME ~misjudged', NEW o \in Procs \ {q}, o \in alive  PROVE ~HeldBy(portal[o])
    BY <1>0, <2>1, <2>2 DEF Guards!OneDriver, Guards!Holds, HeldBy
  <2>3. AcquiringFits(q, Guards!Out, alive, files) /\ Guards!Out.pc = "out"
    BY <1>0 DEF AcquiringFits, Guards!Out
  <2> QED  BY <1>0, <1>1, <2>1, <2>2, <2>3, FileGone
<1>8. CASE Guards!WritePid(q)
  <2>1. PICK r \in Acquiring : r = [portal[q] EXCEPT !.pc = "held"]  BY <1>0 DEF Acquiring
  <2>2. /\ r.pc = "held" /\ r.read = portal[q].read /\ portal[q].pc = "created"
        /\ portal' = [portal EXCEPT ![q] = r]
        /\ file' = IF file.id = portal[q].read THEN [file EXCEPT !.pid = q] ELSE file
        /\ UNCHANGED <<alive, files, deaths, misjudged, serving, endpoint>>
    BY <1>0, <1>8, <2>1 DEF Guards!WritePid, Acquiring
  <2>3. /\ file' \in LeaseFile /\ file'.id = file.id /\ file'.old = file.old
        /\ file.id = portal[q].read => file'.pid = q
    BY <1>0, <2>2 DEF LeaseFile
  <2>4. Guards!GuardsTypeOK'
    <3>1. portal[q].read # 0  BY <1>0, <2>2 DEF AcquiringFits
    <3>2. file'.id = 0 => file' = Guards!NoFile  BY <1>0, <2>2, <2>3, <3>1
    <3>3. AcquiringFits(q, r, alive, files)  BY <1>0, <2>2 DEF AcquiringFits
    <3> QED  BY <1>0, <2>2, <2>3, <3>2, <3>3, GuardsShapes
                DEF Guards!HostLocksExclude, Guards!Scopes
  <2>5. Guards!LeaseStory'
    <3>1. ASSUME ~misjudged, NEW o \in Procs
          PROVE  JudgedAs(o, portal'[o], file', alive')
      <4>1. /\ JudgedAs(q, portal[q], file, alive) /\ JudgedAs(o, portal[o], file, alive)
            /\ file.id = portal[q].read /\ ~file.old
        BY <1>0, <2>2, <3>1 DEF JudgedAs
      <4>2. CASE o = q  BY <1>0, <2>2, <2>3, <4>1, <4>2 DEF JudgedAs
      <4>3. CASE o # q
        <5>1. portal'[o] = portal[o]  BY <1>0, <2>2, <4>3
        <5>2. ~ (o \in alive /\ HeldBy(portal[o]))
          BY <1>0, <2>2, <3>1, <4>3 DEF Guards!OneDriver, Guards!Holds, HeldBy
        <5>3. ~HeldBy(portal[o])
          BY <1>0, <5>2 DEF HeldBy, AcquiringFits, Guards!Out
        <5> QED  BY <2>2, <2>3, <4>1, <5>1, <5>3 DEF JudgedAs, HeldBy
      <4> QED  BY <4>2, <4>3
    <3> QED  BY <2>2, <3>1, Judging
  <2>6. Guards!OneDriver'
    BY <1>0, <2>2 DEF Guards!OneDriver, Guards!Holds
  <2>7. Guards!EndpointStory' /\ Guards!OneDashboard'
    BY <2>2 DEF Guards!HostLocksExclude, Guards!EndpointStory, Guards!OneDashboard, Guards!Scope
  <2> QED  BY <2>4, <2>5, <2>6, <2>7 DEF Guards!HostLocksExclude
<1>9. CASE Guards!Create(q)
  <2>1. PICK r \in Acquiring : r = [portal[q] EXCEPT !.pc = "created", !.read = files + 1]
    <3>1. files + 1 \in Nat /\ portal[q] \in Acquiring  BY <1>0
    <3> QED  BY <3>1 DEF Acquiring
  <2>2. /\ r.pc = "created" /\ r.read = files + 1
        /\ portal' = [portal EXCEPT ![q] = r] /\ files' = files + 1
        /\ file = Guards!NoFile /\ file' = [id |-> files + 1, pid |-> Nobody, old |-> FALSE]
        /\ UNCHANGED <<alive, deaths, misjudged, serving, endpoint>>
    BY <1>0, <1>9, <2>1 DEF Guards!Create, Acquiring
  <2>3. /\ file' \in LeaseFile /\ file'.id = files + 1 /\ ~file'.old /\ file'.pid = Nobody
    BY <1>0, <2>2 DEF LeaseFile
  <2>4. Guards!GuardsTypeOK'
    <3>1. ASSUME NEW o \in Procs  PROVE AcquiringFits(o, portal'[o], alive', files')
      BY <1>0, <2>2 DEF AcquiringFits, Acquiring
    <3> QED  BY <1>0, <2>2, <2>3, <3>1, GuardsShapes DEF Guards!HostLocksExclude, Guards!Scopes
  <2>5. ASSUME ~misjudged, NEW o \in Procs \ {q}  PROVE ~HeldBy(portal[o])
    <3>1. file.id = 0  BY <2>2 DEF Guards!NoFile
    <3> QED  BY <1>0, <2>5, <3>1 DEF JudgedAs, AcquiringFits, HeldBy, Guards!Out
  <2>6. Guards!LeaseStory'
    <3>1. ASSUME ~misjudged, NEW o \in Procs
          PROVE  JudgedAs(o, portal'[o], file', alive')
      <4>1. CASE o = q  BY <1>0, <2>2, <2>3, <4>1 DEF JudgedAs
      <4>2. CASE o # q
        <5>1. portal'[o] = portal[o] /\ ~HeldBy(portal[o]) /\ portal[o].read # files + 1
          BY <1>0, <2>2, <2>5, <3>1, <4>2 DEF AcquiringFits, Acquiring
        <5> QED  BY <2>2, <2>3, <5>1 DEF JudgedAs, HeldBy
      <4> QED  BY <4>1, <4>2
    <3> QED  BY <2>2, <3>1, Judging
  <2>7. Guards!OneDriver'
    BY <1>0, <2>2, <2>5 DEF Guards!OneDriver, Guards!Holds, HeldBy
  <2>8. Guards!EndpointStory' /\ Guards!OneDashboard'
    BY <2>2 DEF Guards!HostLocksExclude, Guards!EndpointStory, Guards!OneDashboard, Guards!Scope
  <2> QED  BY <2>4, <2>6, <2>7, <2>8 DEF Guards!HostLocksExclude
<1> QED  BY <1>2, <1>3, <1>4, <1>5, <1>6, <1>7, <1>8, <1>9

\* A file gets old only while nobody is between two calls of acquire.
LEMMA AgeStep ==
    ASSUME Guards!HostLocksExclude, Guards!Age  PROVE Guards!HostLocksExclude'
<1>0. /\ Guards!GuardsTypeOK /\ Guards!LeaseStory /\ Guards!EndpointStory
      /\ Guards!OneDriver /\ Guards!OneDashboard
  BY DEF Guards!HostLocksExclude
<1>1. /\ file' = [file EXCEPT !.old = TRUE]
      /\ \A o \in alive : portal[o].pc \in {"out", "held"}
      /\ UNCHANGED <<portal, alive, files, deaths, misjudged, serving, endpoint>>
  BY DEF Guards!Age, Guards!guardsSame
<1>2. /\ file' \in LeaseFile /\ file'.id = file.id /\ file'.pid = file.pid /\ file'.old
      /\ file # Guards!NoFile
  BY <1>0, <1>1, GuardsShapes DEF LeaseFile, Guards!Age
<1>3. Guards!GuardsTypeOK'
  BY <1>0, <1>1, <1>2, GuardsShapes DEF Guards!Scopes
<1>4. ASSUME ~misjudged, NEW o \in Procs  PROVE JudgedAs(o, portal'[o], file', alive')
  <2>1. portal[o].pc # "created"
    BY <1>0, <1>1, GuardsShapes DEF AcquiringFits, Guards!Out
  <2> QED  BY <1>0, <1>1, <1>2, <1>4, <2>1, Judging DEF JudgedAs
<1>5. Guards!LeaseStory'  BY <1>1, <1>4, Judging
<1>6. Guards!OneDriver'  BY <1>0, <1>1 DEF Guards!OneDriver, Guards!Holds
<1>7. Guards!EndpointStory' /\ Guards!OneDashboard'
  BY <1>0, <1>1 DEF Guards!EndpointStory, Guards!OneDashboard, Guards!Scope
<1> QED  BY <1>3, <1>5, <1>6, <1>7 DEF Guards!HostLocksExclude

\* Overlapping addresses share a lock, and a lock has one process that serves.
LEMMA OneServes ==
    ASSUME GuardsSettings, Guards!GuardsTypeOK, Guards!EndpointStory
    PROVE  Guards!OneDashboard
<1>1. ASSUME NEW o \in Procs, NEW q \in Procs, serving[o] \in LocalHosts,
             serving[q] \in LocalHosts
      PROVE  o = q
  BY <1>1 DEF GuardsSettings, Guards!EndpointStory, Guards!Scope
<1>2. ASSUME NEW s \in Guards!Scopes, endpoint[s] # Nobody
      PROVE  endpoint[s] \in alive /\ serving[endpoint[s]] # Nobody
  <2>1. endpoint[s] \in Procs  BY <1>2, GuardsShapes
  <2> QED  BY <1>2, <2>1 DEF Guards!EndpointStory
<1> QED  BY <1>1, <1>2 DEF Guards!OneDashboard

LEMMA OneServesNext ==
    ASSUME GuardsSettings, Guards!GuardsTypeOK', Guards!EndpointStory'
    PROVE  Guards!OneDashboard'
<1>1. ASSUME NEW o \in Procs, NEW q \in Procs, serving'[o] \in LocalHosts,
             serving'[q] \in LocalHosts
      PROVE  o = q
  BY <1>1 DEF GuardsSettings, Guards!EndpointStory, Guards!Scope
<1>2. ASSUME NEW s \in Guards!Scopes, endpoint'[s] # Nobody
      PROVE  endpoint'[s] \in alive' /\ serving'[endpoint'[s]] # Nobody
  <2>1. endpoint'[s] \in Procs  BY <1>2, GuardsShapes
  <2> QED  BY <1>2, <2>1 DEF Guards!EndpointStory
<1> QED  BY <1>1, <1>2 DEF Guards!OneDashboard

\* The locks of the endpoints, and what the death of a process does to both locks.
LEMMA EndpointSteps ==
    ASSUME GuardsSettings, Guards!HostLocksExclude, NEW q \in Procs,
           \/ Guards!StopServing(q) \/ Guards!Die(q)
           \/ \E h \in Hosts : Guards!Serve(q, h)
    PROVE  Guards!HostLocksExclude'
<1>0. /\ Guards!GuardsTypeOK /\ Guards!LeaseStory /\ Guards!EndpointStory
      /\ Guards!OneDriver
      /\ serving \in [Procs -> Hosts \cup {Nobody}]
      /\ endpoint \in [Guards!Scopes -> Procs \cup {Nobody}]
      /\ q # Nobody
  BY GuardsShapes DEF Guards!HostLocksExclude, GuardsSettings
<1>1. ASSUME NEW h \in Hosts, Guards!Serve(q, h)  PROVE Guards!HostLocksExclude'
  <2>1. /\ q \in alive /\ serving[q] = Nobody /\ endpoint[Guards!Scope(h)] = Nobody
        /\ endpoint' = [endpoint EXCEPT ![Guards!Scope(h)] = q]
        /\ serving' = [serving EXCEPT ![q] = h]
        /\ UNCHANGED <<file, portal, alive, files, deaths, misjudged>>
        /\ Guards!Scope(h) \in Guards!Scopes
    BY <1>1 DEF Guards!Serve, Guards!Scope, Guards!Scopes
  <2>2. /\ serving' \in [Procs -> Hosts \cup {Nobody}]
        /\ endpoint' \in [Guards!Scopes -> Procs \cup {Nobody}]
    BY <1>0, <2>1
  <2>3. Guards!GuardsTypeOK'  BY <1>0, <2>1, <2>2, GuardsShapes
  <2>4. Guards!LeaseStory' /\ Guards!OneDriver'
    BY <1>0, <2>1, Judging DEF Guards!OneDriver, Guards!Holds
  <2>5. ASSUME NEW o \in Procs, serving'[o] # Nobody
        PROVE  o \in alive' /\ endpoint'[Guards!Scope(serving'[o])] = o
    <3>1. CASE o = q  BY <1>0, <2>1, <3>1
    <3>2. CASE o # q
      <4>1. serving'[o] = serving[o] /\ serving[o] \in Hosts
        BY <1>0, <2>1, <2>5, <3>2
      <4>2. o \in alive /\ endpoint[Guards!Scope(serving[o])] = o /\ o # Nobody
        BY <1>0, <2>5, <4>1 DEF Guards!EndpointStory, GuardsSettings
      <4>3. endpoint'[Guards!Scope(serving[o])] = endpoint[Guards!Scope(serving[o])]
        BY <1>0, <2>1, <4>2
      <4> QED  BY <2>1, <4>1, <4>2, <4>3
    <3> QED  BY <3>1, <3>2
  <2>6. ASSUME NEW s \in Guards!Scopes, endpoint'[s] # Nobody
        PROVE  serving'[endpoint'[s]] # Nobody /\ Guards!Scope(serving'[endpoint'[s]]) = s
    <3>1. CASE s = Guards!Scope(h)
      BY <1>0, <2>1, <3>1 DEF GuardsSettings
    <3>2. CASE s # Guards!Scope(h)
      <4>1. endpoint'[s] = endpoint[s] /\ endpoint[s] # Nobody  BY <1>0, <2>1, <2>6, <3>2
      <4>2. serving[endpoint[s]] # Nobody /\ Guards!Scope(serving[endpoint[s]]) = s
        BY <1>0, <4>1 DEF Guards!EndpointStory
      <4>3. endpoint[s] # q  BY <2>1, <4>2
      <4>4. serving'[endpoint[s]] = serving[endpoint[s]]  BY <1>0, <2>1, <4>1, <4>3
      <4> QED  BY <4>1, <4>2, <4>4
    <3> QED  BY <3>1, <3>2
  <2>7. Guards!EndpointStory'  BY <2>5, <2>6 DEF Guards!EndpointStory, Guards!Scope, Guards!Scopes
  <2> QED  BY <2>3, <2>4, <2>7, OneServesNext DEF Guards!HostLocksExclude
<1>2. ASSUME endpoint' = [s \in Guards!Scopes |-> IF endpoint[s] = q THEN Nobody ELSE endpoint[s]],
             serving' = [serving EXCEPT ![q] = Nobody],
             \A o \in Procs \ {q} : o \in alive => o \in alive'
      PROVE  /\ serving' \in [Procs -> Hosts \cup {Nobody}]
             /\ endpoint' \in [Guards!Scopes -> Procs \cup {Nobody}]
             /\ Guards!EndpointStory'
  <2>1. ASSUME NEW o \in Procs, serving'[o] # Nobody
        PROVE  o \in alive' /\ endpoint'[Guards!Scope(serving'[o])] = o
    <3>1. o # q /\ serving'[o] = serving[o]  BY <1>0, <1>2, <2>1
    <3>2. serving[o] \in Hosts /\ o \in alive /\ endpoint[Guards!Scope(serving[o])] = o
      BY <1>0, <2>1, <3>1 DEF Guards!EndpointStory
    <3>3. Guards!Scope(serving[o]) \in Guards!Scopes
      BY <3>2 DEF Guards!Scope, Guards!Scopes
    <3> QED  BY <1>2, <3>1, <3>2, <3>3
  <2>2. ASSUME NEW s \in Guards!Scopes, endpoint'[s] # Nobody
        PROVE  serving'[endpoint'[s]] # Nobody /\ Guards!Scope(serving'[endpoint'[s]]) = s
    <3>1. endpoint'[s] = endpoint[s] /\ endpoint[s] # q /\ endpoint[s] # Nobody
      BY <1>2, <2>2
    <3>2. serving[endpoint[s]] # Nobody /\ Guards!Scope(serving[endpoint[s]]) = s
      BY <1>0, <3>1 DEF Guards!EndpointStory
    <3> QED  BY <1>0, <1>2, <3>1, <3>2
  <2>3. Guards!EndpointStory'  BY <2>1, <2>2 DEF Guards!EndpointStory, Guards!Scope, Guards!Scopes
  <2> QED  BY <1>0, <1>2, <2>3
<1>3. CASE Guards!StopServing(q)
  <2>1. /\ Guards!EndpointStory' /\ UNCHANGED <<file, portal, alive, files, deaths, misjudged>>
        /\ serving' \in [Procs -> Hosts \cup {Nobody}]
        /\ endpoint' \in [Guards!Scopes -> Procs \cup {Nobody}]
    BY <1>2, <1>3 DEF Guards!StopServing
  <2>2. Guards!GuardsTypeOK'  BY <1>0, <2>1, GuardsShapes
  <2>3. Guards!LeaseStory' /\ Guards!OneDriver'
    BY <1>0, <2>1, Judging DEF Guards!OneDriver, Guards!Holds
  <2> QED  BY <2>1, <2>2, <2>3, OneServesNext DEF Guards!HostLocksExclude
<1>4. CASE Guards!Die(q)
  <2>1. /\ alive' = alive \ {q} /\ portal' = [portal EXCEPT ![q] = Guards!Out]
        /\ UNCHANGED <<file, files, misjudged>>
    BY <1>4 DEF Guards!Die
  <2>2. /\ Guards!EndpointStory'
        /\ serving' \in [Procs -> Hosts \cup {Nobody}]
        /\ endpoint' \in [Guards!Scopes -> Procs \cup {Nobody}]
    BY <1>2, <1>4, <2>1 DEF Guards!Die
  <2>3. Guards!Out \in Acquiring /\ AcquiringFits(q, Guards!Out, alive', files)
    BY <1>0, GuardsShapes DEF Guards!Out, Acquiring, AcquiringFits
  <2>4. Guards!GuardsTypeOK'
    <3>1. ASSUME NEW o \in Procs  PROVE AcquiringFits(o, portal'[o], alive', files')
      <4>1. CASE o = q  BY <1>0, <2>1, <2>3, <4>1, GuardsShapes
      <4>2. CASE o # q
        BY <1>0, <2>1, <4>2, GuardsShapes DEF AcquiringFits
      <4> QED  BY <4>1, <4>2
    <3>2. portal' \in [Procs -> Acquiring]  BY <1>0, <2>1, <2>3, GuardsShapes
    <3> QED  BY <1>0, <2>1, <2>2, <3>1, <3>2, GuardsShapes
  <2>5. ASSUME ~misjudged, NEW o \in Procs  PROVE JudgedAs(o, portal'[o], file', alive')
    <3>1. CASE o = q
      BY <1>0, <2>1, <3>1, GuardsShapes DEF JudgedAs, Guards!Out
    <3>2. CASE o # q
      BY <1>0, <2>1, <2>5, <3>2, GuardsShapes, Judging DEF JudgedAs
    <3> QED  BY <3>1, <3>2
  <2>6. Guards!LeaseStory'  BY <2>1, <2>5, Judging
  <2>7. Guards!OneDriver'
    BY <1>0, <2>1, GuardsShapes DEF Guards!OneDriver, Guards!Holds
  <2> QED  BY <2>2, <2>4, <2>6, <2>7, OneServesNext DEF Guards!HostLocksExclude
<1> QED  BY <1>1, <1>3, <1>4

\* However acquisitions, takeovers, releases and deaths interleave, call by call, two
\* processes drive one browser profile only after a takeover removed a file other
\* than the one it had judged; no two dashboards serve addresses that overlap, and a
\* lock of the operating system is held by a live process that serves.
THEOREM LocksExclude == ASSUME GuardsSettings  PROVE Guards!Spec => []Guards!HostLocksExclude
<1>1. Guards!Init => Guards!HostLocksExclude
  <2> SUFFICES ASSUME Guards!Init  PROVE Guards!HostLocksExclude
    OBVIOUS
  <2>1. /\ file = Guards!NoFile /\ portal = [o \in Procs |-> Guards!Out]
        /\ alive = Procs /\ files = 0 /\ misjudged = FALSE
        /\ serving = [o \in Procs |-> Nobody]
        /\ endpoint = [s \in Guards!Scopes |-> Nobody]
    BY DEF Guards!Init
  <2>2. Guards!NoFile \in LeaseFile /\ Guards!NoFile.id = 0 /\ Guards!Out \in Acquiring
    BY DEF Guards!NoFile, LeaseFile, Guards!Out, Acquiring
  <2>3. Guards!GuardsTypeOK
    <3>1. \A o \in Procs : AcquiringFits(o, portal[o], alive, files)
      BY <2>1 DEF AcquiringFits, Guards!Out
    <3>2. /\ serving \in [Procs -> Hosts \cup {Nobody}]
          /\ endpoint \in [Guards!Scopes -> Procs \cup {Nobody}]
          /\ portal \in [Procs -> Acquiring]
      BY <2>1, <2>2
    <3>3. /\ file \in LeaseFile /\ (file.id = 0 => file = Guards!NoFile)
          /\ alive \subseteq Procs /\ misjudged \in BOOLEAN
      BY <2>1, <2>2
    <3>4. file.id <= files /\ files \in Nat
      <4>1. file.id = 0 /\ files = 0  BY <2>1, <2>2
      <4> QED  BY <4>1
    <3> QED  BY <3>1, <3>2, <3>3, <3>4, GuardsShapes
  <2>4. Guards!LeaseStory /\ Guards!OneDriver
    BY <2>1, Judging DEF JudgedAs, Guards!OneDriver, Guards!Holds, Guards!Out
  <2>5. Guards!EndpointStory  BY <2>1 DEF Guards!EndpointStory
  <2> QED  BY <2>3, <2>4, <2>5, OneServes DEF Guards!HostLocksExclude
<1>2. Guards!HostLocksExclude /\ [Guards!Next]_Guards!guardVars => Guards!HostLocksExclude'
  <2> SUFFICES ASSUME Guards!HostLocksExclude, [Guards!Next]_Guards!guardVars
               PROVE  Guards!HostLocksExclude'
    OBVIOUS
  <2>1. CASE UNCHANGED Guards!guardVars
    <3>1. Guards!GuardsTypeOK'
      BY <2>1, GuardsShapes DEF Guards!guardVars, Guards!HostLocksExclude
    <3>2. Guards!LeaseStory'
      BY <2>1, Judging DEF Guards!guardVars, Guards!HostLocksExclude
    <3> QED  BY <2>1, <3>1, <3>2 DEF Guards!guardVars, Guards!HostLocksExclude,
                Guards!EndpointStory, Guards!OneDriver, Guards!Holds, Guards!OneDashboard
  <2>2. CASE Guards!Next
    BY <2>2, LeaseSteps, AgeStep, EndpointSteps DEF Guards!Next
  <2> QED  BY <2>1, <2>2
<1> QED  BY <1>1, <1>2, PTL DEF Guards!Spec

----------------------------------------------------------------------------
(* The WhatsApp bridge (WhatsAppBridge).                                   *)
connected == x1
heartbeat == x2
generation == x3
holder == x4
sched == x5
shown == x6
handler == x7
seen == x8
begun == x9
spent == x10
USE DEF connected, heartbeat, generation, holder, sched, shown, handler, seen, begun, spent

\* What the sessions share, without the items that are forwarded.
SessionsHold ==
    /\ connected \in BOOLEAN /\ generation \in Nat /\ holder \in {0, generation}
    /\ sched \in [Bridge!Generations -> Bridge!Schedulers]
    /\ handler \in [BridgeTasks -> Bridge!Handlers]
    /\ spent \in [ready : 0 .. MaxReady, live : Nat, forgets : Nat]
    /\ Bridge!PassesAreKnown /\ Bridge!GenerationsCounted
    /\ Bridge!OneScheduler /\ Bridge!ShownIsCurrent
ForwardsHold ==
    /\ seen \subseteq Items /\ begun \in [Items -> Nat]
    /\ Bridge!ForwardedIsSeen /\ Bridge!ForwardedOnce

LEMMA BridgeParts ==
    /\ Bridge!BridgeInv <=> SessionsHold /\ ForwardsHold
    /\ Bridge!BridgeInv' <=> SessionsHold' /\ ForwardsHold'
<1> USE DEF Bridge!BridgeInv, Bridge!BridgeTypeOK, Bridge!BridgeStaysSingle,
            SessionsHold, ForwardsHold
<1>1. Bridge!BridgeInv <=> SessionsHold /\ ForwardsHold  OBVIOUS
<1>2. Bridge!BridgeInv' <=> SessionsHold' /\ ForwardsHold'  OBVIOUS
<1> QED  BY <1>1, <1>2

Scanning(h) == {t \in BridgeTasks : h[t].kind = "ready"}

LEMMA ScanningCounts ==
    ASSUME IsFiniteSet(BridgeTasks)
    PROVE  /\ \A S : Bridge!Cardinality(S) = Cardinality(S)
           /\ \A h : IsFiniteSet(Scanning(h)) /\ Cardinality(Scanning(h)) \in Nat
           /\ Bridge!GenerationsCounted
              <=> generation + Cardinality(Scanning(handler))
                      + (IF connected THEN 1 ELSE 0) <= 2 * spent.ready
           /\ Bridge!GenerationsCounted'
              <=> generation' + Cardinality(Scanning(handler'))
                      + (IF connected' THEN 1 ELSE 0) <= 2 * spent'.ready
<1>1. \A S : Bridge!Cardinality(S) = Cardinality(S)
  BY DEF Bridge!Cardinality, Cardinality
<1>2. \A h : IsFiniteSet(Scanning(h))
  <2>1. \A h : Scanning(h) \subseteq BridgeTasks  BY DEF Scanning
  <2> QED  BY <2>1, FS_Subset
<1>3. \A h : Cardinality(Scanning(h)) \in Nat  BY <1>2, FS_CardinalityType
<1> QED  BY <1>1, <1>2, <1>3 DEF Bridge!GenerationsCounted, Scanning

\* One handler changes.
LEMMA HandlerTurns ==
    ASSUME handler \in [BridgeTasks -> Bridge!Handlers], NEW t \in BridgeTasks,
           NEW h \in Bridge!Handlers, handler' = [handler EXCEPT ![t] = h]
    PROVE  /\ handler' \in [BridgeTasks -> Bridge!Handlers] /\ handler'[t] = h
           /\ \A o \in BridgeTasks \ {t} : handler'[o] = handler[o]
  OBVIOUS

\* A handler that begins or ends a scan of the watched groups.
LEMMA ScanningBegins ==
    ASSUME IsFiniteSet(BridgeTasks), NEW h, NEW k, NEW t \in BridgeTasks,
           h[t].kind # "ready", k[t].kind = "ready",
           \A o \in BridgeTasks \ {t} : k[o] = h[o]
    PROVE  Cardinality(Scanning(k)) = Cardinality(Scanning(h)) + 1
<1>1. Scanning(k) = Scanning(h) \cup {t} /\ t \notin Scanning(h)  BY DEF Scanning
<1>2. IsFiniteSet(Scanning(h))  BY ScanningCounts
<1> QED  BY <1>1, <1>2, FS_AddElement

\* A handler that goes on as it was.
LEMMA ScanningLasts ==
    ASSUME NEW h, NEW k,
           \A t \in BridgeTasks : k[t].kind = "ready" <=> h[t].kind = "ready"
    PROVE  Scanning(k) = Scanning(h)
  BY Zenon DEF Scanning

\* The sessions do not notice what a handler does with its items.
LEMMA SessionsLast ==
    ASSUME BridgeSettings, SessionsHold,
           UNCHANGED <<connected, generation, holder, sched, shown>>,
           handler' \in [BridgeTasks -> Bridge!Handlers],
           spent' \in [ready : 0 .. MaxReady, live : Nat, forgets : Nat],
           spent'.ready = spent.ready,
           \A t \in BridgeTasks :
              /\ handler'[t].kind = "ready" <=> handler[t].kind = "ready"
              /\ handler'[t].kind = "pass" =>
                    handler[t].kind = "pass" /\ handler'[t].gen = handler[t].gen
    PROVE  SessionsHold'
<1>1. Scanning(handler') = Scanning(handler)  BY ScanningLasts
<1> USE DEF SessionsHold
<1>2. Bridge!GenerationsCounted'  BY <1>1, ScanningCounts DEF BridgeSettings
<1>3. Bridge!PassesAreKnown'
  <2>1. \A t \in BridgeTasks : handler'[t].kind = "pass" =>
            handler[t].kind = "pass" /\ handler'[t].gen = handler[t].gen
    OBVIOUS
  <2>2. Bridge!Generations' = Bridge!Generations /\ sched' = sched
    BY DEF Bridge!Generations
  <2> QED  BY <2>1, <2>2 DEF Bridge!PassesAreKnown
<1>4. Bridge!OneScheduler' /\ Bridge!ShownIsCurrent'
  BY DEF Bridge!OneScheduler, Bridge!ShownIsCurrent, Bridge!Generations
<1>5. sched' \in [Bridge!Generations -> Bridge!Schedulers]  BY DEF Bridge!Generations
<1> QED  BY <1>2, <1>3, <1>4, <1>5

LEMMA ForwardsLast ==
    ASSUME ForwardsHold, UNCHANGED <<seen, begun>>  PROVE ForwardsHold'
  BY DEF ForwardsHold, Bridge!ForwardedIsSeen, Bridge!ForwardedOnce

\* An item is marked as it is taken, so nobody takes it again until it is forgotten.
LEMMA ForwardsStep ==
    ASSUME ForwardsHold, Bridge!Next  PROVE ForwardsHold'
<1> USE DEF ForwardsHold, Bridge!ForwardedIsSeen, Bridge!ForwardedOnce
<1>1. ASSUME NEW t \in BridgeTasks, NEW i \in Items, Bridge!Consider(t, i)  PROVE ForwardsHold'
  <2>1. /\ begun' = IF i \in seen THEN begun ELSE [begun EXCEPT ![i] = @ + 1]
        /\ seen' = seen \cup {i}
    BY <1>1 DEF Bridge!Consider
  <2>2. CASE i \in seen  BY <2>1, <2>2
  <2>3. CASE i \notin seen
    <3>1. begun[i] = 0 /\ begun' = [begun EXCEPT ![i] = begun[i] + 1]  BY <2>1, <2>3
    <3>2. begun' = [begun EXCEPT ![i] = 1]  BY <3>1
    <3> QED  BY <2>1, <3>2
  <2> QED  BY <2>2, <2>3
<1>2. ASSUME NEW i \in Items, Bridge!Forget(i)  PROVE ForwardsHold'
  <2>1. begun' = [begun EXCEPT ![i] = 0] /\ seen' = seen \ {i}  BY <1>2 DEF Bridge!Forget
  <2> QED  BY <2>1
<1>3. \/ \E t \in BridgeTasks, i \in Items : Bridge!Consider(t, i)
      \/ \E i \in Items : Bridge!Forget(i)
      \/ UNCHANGED <<seen, begun>>
  BY DEF Bridge!Next, Bridge!Ready, Bridge!ReadyEnds, Bridge!LiveMessage, Bridge!LiveEnds,
     Bridge!Forwarded, Bridge!PassEnds, Bridge!PassStarts, Bridge!Disconnected
<1> QED  BY <1>1, <1>2, <1>3, ForwardsLast

\* What the scheduler's own functions leave.
LEMMA SchedulerScripts ==
    ASSUME BridgeSettings
    PROVE  /\ Bridge!Unmade \in Bridge!Schedulers
           /\ \A s \in Bridge!Schedulers :
                 /\ Bridge!ScheduleNext(s) \in Bridge!Schedulers
                 /\ ~s.active => Bridge!ScheduleNext(s) = s
                 /\ Bridge!Stop(s) \in Bridge!Schedulers
                 /\ ~Bridge!Stop(s).active /\ ~Bridge!Stop(s).timer
  BY DEF Bridge!Unmade, Bridge!Schedulers, Bridge!ScheduleNext, Bridge!Stop, BridgeSettings

\* After an invalidation no scheduler is active or armed.
LEMMA AllStopped ==
    ASSUME BridgeSettings, SessionsHold
    PROVE  /\ Bridge!Invalidated \in [Bridge!Generations -> Bridge!Schedulers]
           /\ \A g \in Bridge!Generations :
                 ~Bridge!Invalidated[g].active /\ ~Bridge!Invalidated[g].timer
<1>1. /\ sched \in [Bridge!Generations -> Bridge!Schedulers] /\ holder \in {0, generation}
      /\ \A g \in Bridge!Generations : sched[g].active \/ sched[g].timer => g = holder
  BY DEF SessionsHold, Bridge!OneScheduler
<1>2. CASE holder = 0
  <2>1. 0 \notin Bridge!Generations  BY DEF Bridge!Generations
  <2> QED  BY <1>1, <1>2, <2>1 DEF Bridge!Invalidated
<1>3. CASE holder # 0
  <2>1. Bridge!Invalidated = [sched EXCEPT ![holder] = Bridge!Stop(sched[holder])]
    BY <1>3 DEF Bridge!Invalidated
  <2>2. \A g \in Bridge!Generations : sched[g] \in Bridge!Schedulers  BY <1>1
  <2> QED  BY <1>1, <2>1, <2>2, SchedulerScripts
<1> QED  BY <1>2, <1>3

LEMMA ReadyStep ==
    ASSUME BridgeSettings, SessionsHold, NEW t \in BridgeTasks, Bridge!Ready(t)
    PROVE  SessionsHold'
<1> USE DEF SessionsHold
<1>1. /\ ~connected /\ handler[t] = Bridge!Free /\ connected' = TRUE
      /\ spent' = [spent EXCEPT !.ready = @ + 1] /\ spent.ready < MaxReady
      /\ UNCHANGED <<generation, holder, sched, shown>>
  BY DEF Bridge!Ready
<1>2. PICK todo \in SUBSET Items :
         handler' = [handler EXCEPT ![t] = [Bridge!Free EXCEPT !.kind = "ready", !.todo = todo]]
  BY DEF Bridge!Ready
<1>3. /\ handler' \in [BridgeTasks -> Bridge!Handlers] /\ handler'[t].kind = "ready"
      /\ \A o \in BridgeTasks \ {t} : handler'[o] = handler[o]
  BY <1>2 DEF Bridge!Free, Bridge!Handlers
<1>4. /\ spent' \in [ready : 0 .. MaxReady, live : Nat, forgets : Nat]
      /\ spent'.ready = spent.ready + 1
  BY <1>1 DEF BridgeSettings
<1>5. Cardinality(Scanning(handler')) = Cardinality(Scanning(handler)) + 1
  BY <1>1, <1>3, ScanningBegins DEF BridgeSettings, Bridge!Free
<1>6. Bridge!GenerationsCounted'
  <2>1. Cardinality(Scanning(handler)) \in Nat  BY ScanningCounts DEF BridgeSettings
  <2>2. generation + Cardinality(Scanning(handler)) <= 2 * spent.ready
    BY <1>1, <2>1, ScanningCounts DEF BridgeSettings
  <2>3. generation' + Cardinality(Scanning(handler')) + 1 <= 2 * spent'.ready
    BY <1>1, <1>4, <1>5, <2>1, <2>2
  <2> QED  BY <1>1, <2>3, ScanningCounts DEF BridgeSettings
<1>7. Bridge!PassesAreKnown'
  BY <1>1, <1>3 DEF Bridge!PassesAreKnown, Bridge!Generations
<1>8. Bridge!OneScheduler' /\ Bridge!ShownIsCurrent'
      /\ sched' \in [Bridge!Generations -> Bridge!Schedulers]
  BY <1>1 DEF Bridge!OneScheduler, Bridge!ShownIsCurrent, Bridge!Generations
<1> QED  BY <1>1, <1>3, <1>4, <1>6, <1>7, <1>8

\* There is a generation left for a ready handler that ends.
LEMMA ReadyEndsStep ==
    ASSUME BridgeSettings, SessionsHold, NEW t \in BridgeTasks, Bridge!ReadyEnds(t)
    PROVE  SessionsHold'
<1> DEFINE g == generation + 1
           s == Bridge!ScheduleNext([Bridge!Unmade EXCEPT !.active = TRUE, !.left = Rescans])
<1>0. /\ connected \in BOOLEAN /\ generation \in Nat
      /\ handler \in [BridgeTasks -> Bridge!Handlers]
      /\ spent \in [ready : 0 .. MaxReady, live : Nat, forgets : Nat]
      /\ Bridge!PassesAreKnown /\ Bridge!GenerationsCounted
  BY DEF SessionsHold
<1>1. /\ handler[t].kind = "ready" /\ handler' = [handler EXCEPT ![t] = Bridge!Free]
      /\ generation' = g /\ holder' = g /\ UNCHANGED <<connected, spent>>
      /\ sched' = [Bridge!Invalidated EXCEPT ![g] = s]
      /\ shown' = [active |-> s.active, running |-> s.running]
  BY DEF Bridge!ReadyEnds, Bridge!ScheduleArchiveRescans, Bridge!Publish
<1>2. /\ handler' \in [BridgeTasks -> Bridge!Handlers] /\ handler'[t].kind = "free"
      /\ \A o \in BridgeTasks \ {t} : handler'[o] = handler[o]
  BY <1>0, <1>1 DEF Bridge!Free, Bridge!Handlers
<1>3. Cardinality(Scanning(handler)) = Cardinality(Scanning(handler')) + 1
  BY <1>1, <1>2, ScanningBegins DEF BridgeSettings
<1>4. Cardinality(Scanning(handler')) \in Nat  BY ScanningCounts DEF BridgeSettings
<1>5. g + Cardinality(Scanning(handler')) + (IF connected THEN 1 ELSE 0) <= 2 * spent.ready
  BY <1>0, <1>3, <1>4, ScanningCounts DEF BridgeSettings
<1>6. g \in Bridge!Generations /\ generation < g
  <2>1. g <= 2 * spent.ready /\ 1 <= g  BY <1>0, <1>4, <1>5
  <2>2. 2 * spent.ready <= 2 * MaxReady  BY <1>0 DEF BridgeSettings
  <2> QED  BY <1>0, <2>1, <2>2 DEF Bridge!Generations, BridgeSettings
<1>7. s \in Bridge!Schedulers
  <2>1. [Bridge!Unmade EXCEPT !.active = TRUE, !.left = Rescans] \in Bridge!Schedulers
    BY DEF Bridge!Unmade, Bridge!Schedulers, BridgeSettings
  <2> QED  BY <2>1, SchedulerScripts
<1> HIDE DEF s
<1>8. /\ sched' \in [Bridge!Generations -> Bridge!Schedulers] /\ sched'[g] = s
      /\ \A k \in Bridge!Generations : k # g => ~sched'[k].active /\ ~sched'[k].timer
  BY <1>1, <1>6, <1>7, AllStopped
<1>9. Bridge!GenerationsCounted'  BY <1>1, <1>5, ScanningCounts DEF BridgeSettings
<1>10. Bridge!PassesAreKnown'
  BY <1>0, <1>1, <1>2, <1>6 DEF Bridge!PassesAreKnown, Bridge!Generations
<1>11. Bridge!OneScheduler'
  BY <1>1, <1>8 DEF Bridge!OneScheduler, Bridge!Generations
<1>12. Bridge!ShownIsCurrent'
  <2>1. g # 0  BY <1>0
  <2> QED  BY <1>1, <1>8, <2>1 DEF Bridge!ShownIsCurrent
<1>13. generation' \in Nat /\ holder' \in {0, generation'}  BY <1>0, <1>1
<1> QED
  BY <1>0, <1>1, <1>2, <1>8, <1>9, <1>10, <1>11, <1>12, <1>13
     DEF SessionsHold, Bridge!Generations

LEMMA DisconnectedStep ==
    ASSUME BridgeSettings, SessionsHold, Bridge!Disconnected  PROVE SessionsHold'
<1>0. /\ connected \in BOOLEAN /\ generation \in Nat
      /\ handler \in [BridgeTasks -> Bridge!Handlers]
      /\ spent \in [ready : 0 .. MaxReady, live : Nat, forgets : Nat]
      /\ Bridge!PassesAreKnown /\ Bridge!GenerationsCounted
  BY DEF SessionsHold
<1>1. /\ connected /\ connected' = FALSE /\ generation' = generation + 1 /\ holder' = 0
      /\ sched' = Bridge!Invalidated /\ shown' = [active |-> FALSE, running |-> FALSE]
      /\ UNCHANGED <<handler, spent>>
  BY DEF Bridge!Disconnected
<1>2. /\ sched' \in [Bridge!Generations -> Bridge!Schedulers]
      /\ \A k \in Bridge!Generations : ~sched'[k].active /\ ~sched'[k].timer
  BY <1>1, AllStopped
<1>3. Bridge!GenerationsCounted'
  <2>1. Cardinality(Scanning(handler)) \in Nat  BY ScanningCounts DEF BridgeSettings
  <2>2. generation + Cardinality(Scanning(handler)) + 1 <= 2 * spent.ready
    BY <1>0, <1>1, ScanningCounts DEF BridgeSettings
  <2>3. generation' + Cardinality(Scanning(handler')) + 0 <= 2 * spent'.ready
    BY <1>0, <1>1, <2>1, <2>2
  <2> QED  BY <1>1, <2>3, ScanningCounts DEF BridgeSettings
<1>4. Bridge!PassesAreKnown'
  BY <1>0, <1>1 DEF Bridge!PassesAreKnown, Bridge!Generations
<1>5. Bridge!OneScheduler' /\ Bridge!ShownIsCurrent'
  BY <1>1, <1>2 DEF Bridge!OneScheduler, Bridge!ShownIsCurrent, Bridge!Generations
<1>6. generation' \in Nat /\ holder' \in {0, generation'}  BY <1>0, <1>1
<1> QED  BY <1>0, <1>1, <1>2, <1>3, <1>4, <1>5, <1>6 DEF SessionsHold, Bridge!Generations

\* Only the bridge's own scheduler has a timer that fires.
LEMMA PassStartsStep ==
    ASSUME BridgeSettings, SessionsHold, NEW g \in Bridge!Generations, NEW t \in BridgeTasks,
           Bridge!PassStarts(g, t)
    PROVE  SessionsHold'
<1> DEFINE s == [sched[g] EXCEPT !.timer = FALSE, !.running = TRUE,
                                 !.left = IF @ > 0 THEN @ - 1 ELSE 0]
<1>0. /\ generation \in Nat /\ holder \in {0, generation}
      /\ handler \in [BridgeTasks -> Bridge!Handlers]
      /\ sched \in [Bridge!Generations -> Bridge!Schedulers]
      /\ Bridge!PassesAreKnown /\ Bridge!GenerationsCounted /\ Bridge!OneScheduler
  BY DEF SessionsHold
<1>1. /\ sched[g].timer /\ sched[g].active /\ handler[t] = Bridge!Free
      /\ sched' = [sched EXCEPT ![g] = s] /\ shown' = Bridge!Publish(g, generation, s, shown)
      /\ UNCHANGED <<connected, generation, holder, spent>>
  BY DEF Bridge!PassStarts
<1>2. PICK todo \in SUBSET Items :
         handler' = [handler EXCEPT ![t] = [Bridge!Free EXCEPT !.kind = "pass", !.gen = g,
                                                               !.todo = todo]]
  BY DEF Bridge!PassStarts
<1>3. g = holder /\ g = generation /\ g # 0 /\ g \in Nat
  BY <1>0, <1>1 DEF Bridge!OneScheduler, Bridge!Generations
<1>4. s \in Bridge!Schedulers /\ s.active /\ ~s.timer /\ s.running
  <2>1. sched[g] \in Bridge!Schedulers /\ sched[g].left \in Nat
    BY <1>0 DEF Bridge!Schedulers
  <2>2. (IF sched[g].left > 0 THEN sched[g].left - 1 ELSE 0) \in Nat  BY <2>1
  <2>3. \A n \in Nat : [sched[g] EXCEPT !.timer = FALSE, !.running = TRUE, !.left = n]
                          \in Bridge!Schedulers
    BY <2>1 DEF Bridge!Schedulers
  <2>4. s \in Bridge!Schedulers  BY <2>2, <2>3
  <2> QED  BY <1>1, <2>1, <2>4 DEF Bridge!Schedulers
<1> HIDE DEF s
<1>5. /\ handler' \in [BridgeTasks -> Bridge!Handlers]
      /\ handler'[t].kind = "pass" /\ handler'[t].gen = g
      /\ \A o \in BridgeTasks \ {t} : handler'[o] = handler[o]
  BY <1>0, <1>2, <1>3 DEF Bridge!Free, Bridge!Handlers
<1>6. Scanning(handler') = Scanning(handler)  BY <1>1, <1>5 DEF Scanning, Bridge!Free
<1>7. Bridge!GenerationsCounted'
  BY <1>0, <1>1, <1>6, ScanningCounts DEF BridgeSettings
<1>8. Bridge!PassesAreKnown'
  BY <1>0, <1>1, <1>3, <1>5 DEF Bridge!PassesAreKnown, Bridge!Generations
<1>9. sched' \in [Bridge!Generations -> Bridge!Schedulers] /\ sched'[g] = s
      /\ \A k \in Bridge!Generations : k # g => sched'[k] = sched[k]
  BY <1>0, <1>1, <1>4
<1>10. Bridge!OneScheduler'
  BY <1>0, <1>1, <1>3, <1>9 DEF Bridge!OneScheduler, Bridge!Generations
<1>11. Bridge!ShownIsCurrent'
  BY <1>1, <1>3, <1>9 DEF Bridge!ShownIsCurrent, Bridge!Publish
<1> QED
  BY <1>1, <1>5, <1>7, <1>8, <1>9, <1>10, <1>11 DEF SessionsHold, Bridge!Generations

\* A pass that ends late finds its scheduler stopped, and is not heard.
LEMMA PassEndsStep ==
    ASSUME BridgeSettings, SessionsHold, NEW t \in BridgeTasks, Bridge!PassEnds(t)
    PROVE  SessionsHold'
<1> DEFINE g == handler[t].gen
           s == Bridge!ScheduleNext([sched[g] EXCEPT !.running = FALSE])
<1>0. /\ generation \in Nat /\ holder \in {0, generation}
      /\ handler \in [BridgeTasks -> Bridge!Handlers]
      /\ sched \in [Bridge!Generations -> Bridge!Schedulers]
      /\ Bridge!PassesAreKnown /\ Bridge!GenerationsCounted
      /\ Bridge!OneScheduler /\ Bridge!ShownIsCurrent
  BY DEF SessionsHold
<1>1. /\ handler[t].kind = "pass" /\ handler' = [handler EXCEPT ![t] = Bridge!Free]
      /\ sched' = [sched EXCEPT ![g] = s] /\ shown' = Bridge!Publish(g, generation, s, shown)
      /\ UNCHANGED <<connected, generation, holder, spent>>
  BY DEF Bridge!PassEnds
<1>2. g \in Bridge!Generations /\ (g = generation => holder = generation) /\ g # 0
  BY <1>0, <1>1 DEF Bridge!PassesAreKnown, Bridge!Generations
<1>3. s \in Bridge!Schedulers /\ (~sched[g].active => ~s.active /\ s.timer = sched[g].timer)
  <2>1. sched[g] \in Bridge!Schedulers  BY <1>0, <1>2
  <2>2. /\ [sched[g] EXCEPT !.running = FALSE] \in Bridge!Schedulers
        /\ [sched[g] EXCEPT !.running = FALSE].active = sched[g].active
        /\ [sched[g] EXCEPT !.running = FALSE].timer = sched[g].timer
    BY <2>1 DEF Bridge!Schedulers
  <2> HIDE DEF g
  <2>3. \A x \in Bridge!Schedulers : /\ Bridge!ScheduleNext(x) \in Bridge!Schedulers
                                     /\ ~x.active => Bridge!ScheduleNext(x) = x
    BY SchedulerScripts
  <2> QED  BY <2>2, <2>3
<1> HIDE DEF s, g
<1>5. /\ handler' \in [BridgeTasks -> Bridge!Handlers] /\ handler'[t].kind = "free"
      /\ \A o \in BridgeTasks \ {t} : handler'[o] = handler[o]
  BY <1>0, <1>1 DEF Bridge!Free, Bridge!Handlers
<1>6. Scanning(handler') = Scanning(handler)  BY <1>1, <1>5 DEF Scanning
<1>7. Bridge!GenerationsCounted'
  BY <1>0, <1>1, <1>6, ScanningCounts DEF BridgeSettings
<1>8. Bridge!PassesAreKnown'
  BY <1>0, <1>1, <1>5 DEF Bridge!PassesAreKnown, Bridge!Generations
<1>9. sched' \in [Bridge!Generations -> Bridge!Schedulers] /\ sched'[g] = s
      /\ \A k \in Bridge!Generations : k # g => sched'[k] = sched[k]
  BY <1>0, <1>1, <1>2, <1>3
<1>10. Bridge!OneScheduler'
  BY <1>0, <1>1, <1>2, <1>3, <1>9 DEF Bridge!OneScheduler, Bridge!Generations
<1>11. Bridge!ShownIsCurrent'
  <2>1. CASE g = generation
    BY <1>1, <1>2, <1>9, <2>1 DEF Bridge!ShownIsCurrent, Bridge!Publish
  <2>2. CASE g # generation
    <3>1. holder = 0 \/ (holder # g /\ holder = generation)  BY <1>0, <2>2
    <3>2. CASE holder = 0
      BY <1>0, <1>1, <2>2, <3>2 DEF Bridge!ShownIsCurrent, Bridge!Publish
    <3>3. CASE holder # 0
      <4>1. sched'[holder] = sched[holder]
        BY <1>0, <1>1, <3>1, <3>3
      <4> QED  BY <1>0, <1>1, <2>2, <3>3, <4>1 DEF Bridge!ShownIsCurrent, Bridge!Publish
    <3> QED  BY <3>2, <3>3
  <2> QED  BY <2>1, <2>2
<1> QED
  BY <1>0, <1>1, <1>5, <1>7, <1>8, <1>9, <1>10, <1>11 DEF SessionsHold, Bridge!Generations

LEMMA SessionsStep ==
    ASSUME BridgeSettings, SessionsHold, Bridge!Next  PROVE SessionsHold'
<1>0. /\ handler \in [BridgeTasks -> Bridge!Handlers]
      /\ spent \in [ready : 0 .. MaxReady, live : Nat, forgets : Nat]
  BY DEF SessionsHold
<1>1. ASSUME NEW t \in BridgeTasks, Bridge!LiveMessage(t)  PROVE SessionsHold'
  <2>1. PICK todo \in SUBSET Items :
           handler' = [handler EXCEPT ![t] = [Bridge!Free EXCEPT !.kind = "live", !.todo = todo]]
    BY <1>1 DEF Bridge!LiveMessage
  <2>2. /\ handler[t] = Bridge!Free /\ spent' = [spent EXCEPT !.live = @ + 1]
        /\ UNCHANGED <<connected, generation, holder, sched, shown>>
    BY <1>1 DEF Bridge!LiveMessage
  <2>3. /\ handler' \in [BridgeTasks -> Bridge!Handlers] /\ handler'[t].kind = "live"
        /\ \A o \in BridgeTasks \ {t} : handler'[o] = handler[o]
        /\ handler[t].kind = "free"
    <3>1. [Bridge!Free EXCEPT !.kind = "live", !.todo = todo] \in Bridge!Handlers
          /\ Bridge!Free.kind = "free"
      BY DEF Bridge!Free, Bridge!Handlers
    <3>2. [Bridge!Free EXCEPT !.kind = "live", !.todo = todo].kind = "live"
      BY DEF Bridge!Free
    <3> QED  BY <1>0, <2>1, <2>2, <3>1, <3>2
  <2>4. /\ spent' \in [ready : 0 .. MaxReady, live : Nat, forgets : Nat]
        /\ spent'.ready = spent.ready
    BY <1>0, <2>2
  <2> QED  BY <2>2, <2>3, <2>4, SessionsLast
<1>2. ASSUME NEW t \in BridgeTasks, Bridge!LiveEnds(t)  PROVE SessionsHold'
  <2>1. /\ handler[t].kind = "live" /\ handler' = [handler EXCEPT ![t] = Bridge!Free]
        /\ UNCHANGED <<connected, generation, holder, sched, shown, spent>>
    BY <1>2 DEF Bridge!LiveEnds
  <2>2. /\ handler' \in [BridgeTasks -> Bridge!Handlers] /\ handler'[t].kind = "free"
        /\ \A o \in BridgeTasks \ {t} : handler'[o] = handler[o]
    BY <1>0, <2>1 DEF Bridge!Free, Bridge!Handlers
  <2> QED  BY <1>0, <2>1, <2>2, SessionsLast
<1>3. ASSUME NEW t \in BridgeTasks, NEW h \in Bridge!Handlers,
             h.kind = handler[t].kind, h.gen = handler[t].gen,
             handler' = [handler EXCEPT ![t] = h],
             UNCHANGED <<connected, generation, holder, sched, shown, spent>>
      PROVE  SessionsHold'
  <2>1. /\ handler' \in [BridgeTasks -> Bridge!Handlers] /\ handler'[t] = h
        /\ \A o \in BridgeTasks \ {t} : handler'[o] = handler[o]
    BY <1>0, <1>3
  <2> QED  BY <1>0, <1>3, <2>1, SessionsLast
<1>4. ASSUME NEW t \in BridgeTasks, Bridge!Forwarded(t)  PROVE SessionsHold'
  <2> DEFINE h == [handler[t] EXCEPT !.waiting = Nothing]
  <2>1. /\ handler' = [handler EXCEPT ![t] = h]
        /\ UNCHANGED <<connected, generation, holder, sched, shown, spent>>
    BY <1>0, <1>4 DEF Bridge!Forwarded
  <2>2. h \in Bridge!Handlers /\ h.kind = handler[t].kind /\ h.gen = handler[t].gen
    BY <1>0 DEF Bridge!Handlers
  <2> QED  BY <1>3, <2>1, <2>2
<1>5. ASSUME NEW t \in BridgeTasks, NEW i \in Items, Bridge!Consider(t, i)  PROVE SessionsHold'
  <2> DEFINE h == [handler[t] EXCEPT !.todo = @ \ {i},
                                     !.waiting = IF i \in seen THEN Nothing ELSE i]
  <2>1. /\ handler' = [handler EXCEPT ![t] = h]
        /\ UNCHANGED <<connected, generation, holder, sched, shown, spent>>
    BY <1>0, <1>5 DEF Bridge!Consider
  <2>2. h \in Bridge!Handlers /\ h.kind = handler[t].kind /\ h.gen = handler[t].gen
    BY <1>0 DEF Bridge!Handlers
  <2> QED  BY <1>3, <2>1, <2>2
<1>6. ASSUME NEW i \in Items, Bridge!Forget(i)  PROVE SessionsHold'
  <2>1. /\ spent' = [spent EXCEPT !.forgets = @ + 1]
        /\ UNCHANGED <<connected, generation, holder, sched, shown, handler>>
    BY <1>6 DEF Bridge!Forget
  <2>2. /\ spent' \in [ready : 0 .. MaxReady, live : Nat, forgets : Nat]
        /\ spent'.ready = spent.ready
    BY <1>0, <2>1
  <2> QED  BY <1>0, <2>1, <2>2, SessionsLast
<1>7. \/ \E t \in BridgeTasks :
            \/ Bridge!Ready(t) \/ Bridge!ReadyEnds(t) \/ Bridge!LiveMessage(t)
            \/ Bridge!LiveEnds(t) \/ Bridge!Forwarded(t) \/ Bridge!PassEnds(t)
            \/ \E i \in Items : Bridge!Consider(t, i)
            \/ \E g \in Bridge!Generations : Bridge!PassStarts(g, t)
      \/ \E i \in Items : Bridge!Forget(i)
      \/ Bridge!Disconnected
  BY DEF Bridge!Next
<1> QED
  BY <1>1, <1>2, <1>4, <1>5, <1>6, <1>7, ReadyStep, ReadyEndsStep, PassStartsStep,
     PassEndsStep, DisconnectedStep

\* However many ready events, disconnects, slow passes and live messages overlap, an
\* item is forwarded once until the index forgets it, only the scheduler the bridge
\* holds is active or armed, and the heartbeat reports what that one does.
THEOREM OneBridge ==
    ASSUME BridgeSettings  PROVE Bridge!Spec => []Bridge!BridgeStaysSingle
<1>1. Bridge!Init => Bridge!BridgeInv
  <2> SUFFICES ASSUME Bridge!Init  PROVE SessionsHold /\ ForwardsHold
    BY BridgeParts
  <2> USE DEF Bridge!Init
  <2>1. ForwardsHold  BY DEF ForwardsHold, Bridge!ForwardedIsSeen, Bridge!ForwardedOnce
  <2>2. /\ sched \in [Bridge!Generations -> Bridge!Schedulers]
        /\ \A g \in Bridge!Generations : ~sched[g].active /\ ~sched[g].timer
    BY DEF Bridge!Unmade, Bridge!Schedulers
  <2>3. /\ handler \in [BridgeTasks -> Bridge!Handlers] /\ \A t \in BridgeTasks : handler[t].kind = "free"
    BY DEF Bridge!Free, Bridge!Handlers
  <2>4. Bridge!GenerationsCounted
    <3>1. Scanning(handler) = {}  BY <2>3 DEF Scanning
    <3>2. Cardinality(Scanning(handler)) = 0  BY <3>1, FS_EmptySet
    <3> QED  BY <3>2, ScanningCounts DEF BridgeSettings
  <2>5. Bridge!PassesAreKnown  BY <2>3 DEF Bridge!PassesAreKnown
  <2>6. Bridge!OneScheduler /\ Bridge!ShownIsCurrent
    BY <2>2 DEF Bridge!OneScheduler, Bridge!ShownIsCurrent
  <2>7. spent \in [ready : 0 .. MaxReady, live : Nat, forgets : Nat]
    <3>1. 0 \in 0 .. MaxReady /\ 0 \in Nat  BY DEF BridgeSettings
    <3> QED  BY <3>1
  <2>8. connected \in BOOLEAN /\ generation \in Nat /\ holder \in {0, generation}
    OBVIOUS
  <2> QED  BY <2>1, <2>2, <2>3, <2>4, <2>5, <2>6, <2>7, <2>8 DEF SessionsHold
<1>2. Bridge!BridgeInv /\ [Bridge!Next]_Bridge!bridgeVars => Bridge!BridgeInv'
  <2> SUFFICES ASSUME SessionsHold, ForwardsHold, [Bridge!Next]_Bridge!bridgeVars
               PROVE  SessionsHold' /\ ForwardsHold'
    BY BridgeParts
  <2>1. CASE Bridge!Next  BY <2>1, SessionsStep, ForwardsStep
  <2>2. CASE UNCHANGED Bridge!bridgeVars
    <3>1. ForwardsHold'  BY <2>2, ForwardsLast DEF Bridge!bridgeVars
    <3>2. /\ handler \in [BridgeTasks -> Bridge!Handlers]
          /\ spent \in [ready : 0 .. MaxReady, live : Nat, forgets : Nat]
      BY DEF SessionsHold
    <3>3. SessionsHold'  BY <2>2, <3>2, SessionsLast DEF Bridge!bridgeVars
    <3> QED  BY <3>1, <3>3
  <2> QED  BY <2>1, <2>2
<1>3. Bridge!BridgeInv => Bridge!BridgeStaysSingle  BY DEF Bridge!BridgeInv
<1> QED  BY <1>1, <1>2, <1>3, PTL DEF Bridge!Spec

----------------------------------------------------------------------------
(* The identity of the control plane (IdentityProvisioning).               *)
staging == x1
final == x2
current == x3
shell == x4
hosted == x5
pinned == x6
configured == x7
commands == x8
edits == x9
USE DEF staging, final, current, shell, hosted, pinned, configured, commands, edits

LEMMA IdleShell ==
    /\ Identity!Idle \in Identity!ShellRows /\ Identity!Idle.at = "idle"
    /\ [n \in Identity!Variables |-> 0] \in [Identity!Variables -> Nat]
  BY DEF Identity!Idle, Identity!ShellRows

\* A shell that does not configure disturbs nobody who does.
LEMMA ConfigurationRests ==
    ASSUME Identity!IdentityInv, NEW s \in Shells, NEW row \in Identity!ShellRows,
           shell' = [shell EXCEPT ![s] = row], row.at \notin {"put", "attest"},
           UNCHANGED <<hosted, configured>>
    PROVE  /\ shell' \in [Shells -> Identity!ShellRows]
           /\ Identity!ConfigurationFollows'
<1>1. shell \in [Shells -> Identity!ShellRows]
  BY DEF Identity!IdentityInv, Identity!IdentityShape
<1>2. /\ shell' \in [Shells -> Identity!ShellRows] /\ shell'[s] = row
      /\ \A o \in Shells \ {s} : shell'[o] = shell[o]
  BY <1>1
<1>3. \A o \in Shells : shell'[o].at \in {"put", "attest"} =>
         o # s /\ shell'[o] = shell[o]
  BY <1>2
<1>4. ASSUME NEW o \in Shells
      PROVE  /\ shell'[o].at = "attest" => shell'[o].left = {}
             /\ shell'[o].at \in {"put", "attest"} /\ shell'[o].alone =>
                   /\ \A u \in Shells \ {o} : ~(shell'[u].at \in {"put", "attest"})
                   /\ \A n \in Identity!Variables \ shell'[o].left :
                         hosted'[n].version = shell'[o].version
  BY <1>3 DEF Identity!IdentityInv, Identity!ConfigurationFollows, Identity!Configuring,
     Identity!At
<1>5. configured' # 0 =>
          /\ \A o \in Shells : ~(shell'[o].at \in {"put", "attest"})
          /\ \A n \in Identity!Variables : hosted'[n].version = configured'
  BY <1>3 DEF Identity!IdentityInv, Identity!ConfigurationFollows, Identity!Configuring
<1> QED  BY <1>2, <1>4, <1>5 DEF Identity!ConfigurationFollows, Identity!Configuring, Identity!At

\* A shell that goes on to no version of its own, or keeps it, disturbs no selection.
LEMMA SelectionRests ==
    ASSUME Identity!IdentityInv, NEW s \in Shells, NEW row \in Identity!ShellRows,
           shell' = [shell EXCEPT ![s] = row], UNCHANGED <<final, current>>,
           row.at \in {"mkdir", "write", "select"} => row.version \in Versions,
           row.at # "select"
    PROVE  Identity!SelectionFollows'
<1>1. /\ shell'[s] = row /\ \A o \in Shells \ {s} : shell'[o] = shell[o]
  BY DEF Identity!IdentityInv, Identity!IdentityShape
<1>2. ASSUME NEW o \in Shells
      PROVE  /\ shell'[o].at \in {"mkdir", "write", "select"} => shell'[o].version \in Versions
             /\ shell'[o].at = "select" => final'[shell'[o].version] = Files
  <2>1. CASE o = s  BY <1>1, <2>1
  <2>2. CASE o # s  BY <1>1, <2>2 DEF Identity!IdentityInv, Identity!SelectionFollows, Identity!At
  <2> QED  BY <2>1, <2>2
<1> QED  BY <1>2 DEF Identity!IdentityInv, Identity!SelectionFollows, Identity!At

\* One shell moves and everything else of the invariant rests.
LEMMA ShellMoves ==
    ASSUME Identity!IdentityInv, NEW s \in Shells, NEW row \in Identity!ShellRows,
           shell' = [shell EXCEPT ![s] = row], row.at \notin {"select", "put", "attest"},
           row.at \in {"mkdir", "write"} => row.version \in Versions,
           UNCHANGED <<final, current, hosted, configured, edits>>
    PROVE  Identity!IdentityInv'
<1>1. shell' \in [Shells -> Identity!ShellRows] /\ Identity!ConfigurationFollows'
  BY ConfigurationRests
<1>2. Identity!SelectionFollows'  BY SelectionRests
<1> QED  BY <1>1, <1>2 DEF Identity!IdentityInv, Identity!IdentityShape

\* The way of a new version to disk, and to its selection.
LEMMA CreationStep ==
    ASSUME IdentitySettings, Identity!IdentityInv, NEW s \in Shells,
           \/ Identity!Mkdir(s) \/ Identity!WriteFile(s) \/ Identity!Publish(s)
           \/ Identity!Select(s) \/ Identity!Kill(s)
           \/ \E v \in Versions : Identity!Create(s, v)
    PROVE  Identity!IdentityInv'
<1> USE DEF Identity!disk
<1>1. /\ shell \in [Shells -> Identity!ShellRows] /\ shell[s] \in Identity!ShellRows
      /\ shell[s].at \in {"mkdir", "write", "select"} => shell[s].version \in Versions
      /\ final \in [Versions -> {Absent, Files}]
  BY DEF Identity!IdentityInv, Identity!IdentityShape, Identity!SelectionFollows
<1>2. ASSUME Identity!Quit(s), UNCHANGED <<final, current, hosted, configured, edits>>
      PROVE  Identity!IdentityInv'
  BY <1>2, IdleShell, ShellMoves DEF Identity!Quit
<1>3. ASSUME NEW v \in Versions, Identity!Create(s, v)  PROVE Identity!IdentityInv'
  <2>1. PICK row : row = [Identity!Idle EXCEPT !.at = "mkdir", !.version = v]  OBVIOUS
  <2>2. row \in Identity!ShellRows /\ row.at = "mkdir" /\ row.version = v
    BY <2>1, IdleShell DEF IdentitySettings, Identity!ShellRows
  <2> QED  BY <1>3, <2>1, <2>2, ShellMoves, ZenonT(60) DEF Identity!Create
<1>4. CASE Identity!Mkdir(s)
  <2>1. CASE Identity!Quit(s)  BY <1>2, <1>4, <2>1 DEF Identity!Mkdir
  <2>2. CASE Identity!Go(s, "write")
    <3>1. PICK row : row = [shell[s] EXCEPT !.at = "write"]  OBVIOUS
    <3>2. row \in Identity!ShellRows /\ row.at = "write" /\ row.version \in Versions
      BY <1>1, <1>4, <3>1 DEF Identity!ShellRows, Identity!Mkdir, Identity!At
    <3>3. shell' = [shell EXCEPT ![s] = row]  BY <1>1, <2>2, <3>1 DEF Identity!Go
    <3> QED  BY <1>4, <3>2, <3>3, ShellMoves DEF Identity!Mkdir
  <2> QED  BY <1>4, <2>1, <2>2 DEF Identity!Mkdir
<1>5. CASE Identity!WriteFile(s)
  <2>1. CASE Identity!Quit(s)  BY <1>2, <1>5, <2>1 DEF Identity!WriteFile
  <2>2. CASE UNCHANGED shell
    BY <1>5, <2>2 DEF Identity!WriteFile, Identity!IdentityInv, Identity!IdentityShape,
       Identity!SelectionFollows, Identity!ConfigurationFollows, Identity!Configuring,
       Identity!At
  <2> QED  BY <1>5, <2>1, <2>2 DEF Identity!WriteFile, Identity!Cleanup
<1>6. CASE Identity!Publish(s)
  <2>1. PICK v \in Versions : v = shell[s].version
    BY <1>1, <1>6 DEF Identity!Publish, Identity!At
  <2>2. final' = [final EXCEPT ![v] = Files] /\ Identity!Go(s, "select")
        /\ UNCHANGED <<current, hosted, configured, edits>>
    BY <1>6, <2>1 DEF Identity!Publish, Identity!BundleComplete
  <2>3. PICK row : row = [shell[s] EXCEPT !.at = "select"]  OBVIOUS
  <2>4. row \in Identity!ShellRows /\ row.at = "select" /\ row.version = v
    BY <1>1, <2>1, <2>3 DEF Identity!ShellRows
  <2>5. shell' = [shell EXCEPT ![s] = row]  BY <1>1, <2>2, <2>3 DEF Identity!Go
  <2>6. shell' \in [Shells -> Identity!ShellRows] /\ Identity!ConfigurationFollows'
    BY <2>2, <2>4, <2>5, ConfigurationRests
  <2>7. /\ final' \in [Versions -> {Absent, Files}] /\ final'[v] = Files
        /\ \A u \in Versions : final[u] = Files => final'[u] = Files
    BY <1>1, <2>2
  <2>8. current' # 0 => current' \in Versions /\ final'[current'] = Files
    BY <2>2, <2>7 DEF Identity!IdentityInv, Identity!SelectionFollows
  <2>9. ASSUME NEW o \in Shells
        PROVE  /\ shell'[o].at \in {"mkdir", "write", "select"} =>
                     shell'[o].version \in Versions
               /\ shell'[o].at = "select" => final'[shell'[o].version] = Files
    <3>1. CASE o = s  BY <1>1, <2>4, <2>5, <2>7, <3>1
    <3>2. CASE o # s
      BY <1>1, <2>5, <2>7, <3>2 DEF Identity!IdentityInv, Identity!SelectionFollows, Identity!At
    <3> QED  BY <3>1, <3>2
  <2>10. Identity!SelectionFollows'
    BY <2>7, <2>8, <2>9 DEF Identity!SelectionFollows, Identity!At
  <2> QED  BY <2>2, <2>6, <2>10 DEF Identity!IdentityInv, Identity!IdentityShape
<1>7. CASE Identity!Select(s)
  <2>1. CASE UNCHANGED current
    <3>1. Identity!Quit(s)  BY <1>7 DEF Identity!Select, Identity!Cleanup
    <3> QED  BY <1>2, <1>7, <2>1, <3>1 DEF Identity!Select
  <2>2. CASE current' = shell[s].version /\ Identity!Quit(s)
    <3>1. /\ shell' = [shell EXCEPT ![s] = Identity!Idle]
          /\ UNCHANGED <<final, hosted, configured, edits>> /\ shell[s].at = "select"
      BY <1>7, <2>2 DEF Identity!Select, Identity!Quit, Identity!At
    <3>2. shell' \in [Shells -> Identity!ShellRows] /\ Identity!ConfigurationFollows'
      BY <3>1, IdleShell, ConfigurationRests
    <3>3. current' \in Versions /\ final'[current'] = Files
      BY <1>1, <2>2, <3>1 DEF Identity!IdentityInv, Identity!SelectionFollows, Identity!At
    <3>4. ASSUME NEW o \in Shells
          PROVE  /\ shell'[o].at \in {"mkdir", "write", "select"} =>
                       shell'[o].version \in Versions
                 /\ shell'[o].at = "select" => final'[shell'[o].version] = Files
      <4>1. CASE o = s  BY <1>1, <3>1, <4>1, IdleShell
      <4>2. CASE o # s
        BY <1>1, <3>1, <4>2 DEF Identity!IdentityInv, Identity!SelectionFollows, Identity!At
      <4> QED  BY <4>1, <4>2
    <3>5. Identity!SelectionFollows'
      BY <1>1, <3>1, <3>3, <3>4 DEF Identity!SelectionFollows, Identity!At
    <3> QED  BY <3>1, <3>2, <3>5 DEF Identity!IdentityInv, Identity!IdentityShape
  <2> QED  BY <1>7, <2>1, <2>2 DEF Identity!Select
<1>8. CASE Identity!Kill(s)  BY <1>2, <1>8 DEF Identity!Kill
<1> QED  BY <1>3, <1>4, <1>5, <1>6, <1>7, <1>8

\* Whoever begins to configure takes the others' word away; nothing counts as done.
LEMMA ConfigureStep ==
    ASSUME IdentitySettings, Identity!IdentityInv, NEW s \in Shells, Identity!Configure(s)
    PROVE  Identity!IdentityInv'
<1> DEFINE others == {o \in Shells \ {s} : shell[o].at \in {"put", "attest"}}
<1>1. /\ shell \in [Shells -> Identity!ShellRows]
      /\ hosted \in [Identity!Variables -> [id : Nat, version : Nat]]
      /\ final \in [Versions -> {Absent, Files}]
  BY DEF Identity!IdentityInv, Identity!IdentityShape, Identity!SelectionFollows
<1>2. /\ UNCHANGED <<staging, final, current, hosted, edits>> /\ configured' = 0
      /\ current # 0
      /\ shell' = [o \in Shells |->
            IF o = s THEN [at |-> "put", version |-> current, left |-> Identity!Variables,
                           ids |-> Identity!Inventory, alone |-> others = {}]
            ELSE [shell[o] EXCEPT !.alone = FALSE]]
  BY DEF Identity!Configure, Identity!Loadable, Identity!disk
<1> HIDE DEF others
<1>3. current \in Nat  BY <1>2 DEF IdentitySettings, Identity!IdentityInv, Identity!SelectionFollows
<1>4. Identity!Inventory \in [Identity!Variables -> Nat]  BY <1>1 DEF Identity!Inventory
<1>5. PICK row : row = [at |-> "put", version |-> current, left |-> Identity!Variables,
                        ids |-> Identity!Inventory, alone |-> others = {}]
  OBVIOUS
<1>6. row \in Identity!ShellRows /\ row.at = "put" /\ row.left = Identity!Variables
      /\ (row.alone => others = {})
  BY <1>3, <1>4, <1>5 DEF Identity!ShellRows
<1>7. ASSUME NEW o \in Shells \ {s}
      PROVE  /\ shell'[o] \in Identity!ShellRows /\ shell'[o].at = shell[o].at
             /\ shell'[o].version = shell[o].version /\ shell'[o].left = shell[o].left
             /\ ~shell'[o].alone
  <2>1. shell'[o] = [shell[o] EXCEPT !.alone = FALSE]  BY <1>2
  <2>2. PICK old \in Identity!ShellRows : old = shell[o]  BY <1>1
  <2> QED  BY <2>1, <2>2 DEF Identity!ShellRows
<1>8. shell'[s] = row  BY <1>2, <1>5
<1>9. shell' \in [Shells -> Identity!ShellRows]
  <2>1. \A o \in Shells : shell'[o] \in Identity!ShellRows  BY <1>6, <1>7, <1>8
  <2> QED  BY <1>2, <2>1
<1>10. Identity!SelectionFollows'
  <2>1. ASSUME NEW o \in Shells
        PROVE  /\ shell'[o].at \in {"mkdir", "write", "select"} =>
                     shell'[o].version \in Versions
               /\ shell'[o].at = "select" => final'[shell'[o].version] = Files
    <3>1. CASE o = s  BY <1>6, <1>8, <3>1
    <3>2. CASE o # s
      BY <1>2, <1>7, <3>2 DEF Identity!IdentityInv, Identity!SelectionFollows, Identity!At
    <3> QED  BY <3>1, <3>2
  <2> QED  BY <1>2, <2>1 DEF Identity!IdentityInv, Identity!SelectionFollows, Identity!At
<1>11. Identity!ConfigurationFollows'
  <2>1. ASSUME NEW o \in Shells
        PROVE  /\ shell'[o].at = "attest" => shell'[o].left = {}
               /\ shell'[o].at \in {"put", "attest"} /\ shell'[o].alone =>
                     /\ \A u \in Shells \ {o} : ~(shell'[u].at \in {"put", "attest"})
                     /\ \A n \in Identity!Variables \ shell'[o].left :
                           hosted'[n].version = shell'[o].version
    <3>1. CASE o = s
      <4>1. shell'[o].alone => \A u \in Shells \ {o} : ~(shell'[u].at \in {"put", "attest"})
        BY <1>6, <1>7, <1>8, <3>1 DEF others
      <4> QED  BY <1>6, <1>8, <3>1, <4>1
    <3>2. CASE o # s
      BY <1>7, <3>2 DEF Identity!IdentityInv, Identity!ConfigurationFollows, Identity!At
    <3> QED  BY <3>1, <3>2
  <2> QED  BY <1>2, <2>1 DEF Identity!ConfigurationFollows, Identity!Configuring, Identity!At
<1> QED  BY <1>1, <1>2, <1>9, <1>10, <1>11 DEF Identity!IdentityInv, Identity!IdentityShape

\* One record at a time, the digest last.
LEMMA PutStep ==
    ASSUME IdentitySettings, Identity!IdentityInv, NEW s \in Shells,
           NEW n \in Identity!Variables, Identity!Put(s, n)
    PROVE  Identity!IdentityInv'
<1>1. /\ shell \in [Shells -> Identity!ShellRows]
      /\ hosted \in [Identity!Variables -> [id : Nat, version : Nat]] /\ edits \in Nat
  BY DEF Identity!IdentityInv, Identity!IdentityShape
<1>2. /\ shell[s].at = "put" /\ n \in shell[s].left
      /\ n = "digest" => shell[s].left = {"digest"}
      /\ UNCHANGED <<staging, final, current, pinned, configured, edits>>
  BY DEF Identity!Put, Identity!NextName, Identity!At, Identity!disk
<1>3. configured = 0 /\ configured' = 0
  BY <1>2 DEF Identity!IdentityInv, Identity!ConfigurationFollows, Identity!Configuring
<1>4. PICK old \in Identity!ShellRows : old = shell[s]  BY <1>1
<1>5. hosted' \in [Identity!Variables -> [id : Nat, version : Nat]]
      /\ \A m \in Identity!Variables \ {n} : hosted'[m] = hosted[m]
  <2>1. CASE UNCHANGED hosted  BY <1>1, <2>1
  <2>2. CASE hosted' = Identity!Applied(s, n)
    <3>1. PICK id \in Nat : id = IF shell[s].ids[n] = 0 THEN Identity!NewId ELSE hosted[n].id
      BY <1>1 DEF Identity!NewId
    <3>2. shell[s].version \in Nat  BY <1>1 DEF Identity!ShellRows
    <3>3. hosted' = [hosted EXCEPT ![n] = [id |-> id, version |-> shell[s].version]]
      BY <1>1, <2>2, <3>1 DEF Identity!Applied, Identity!Value
    <3> QED  BY <1>1, <3>2, <3>3
  <2> QED  BY <2>1, <2>2 DEF Identity!Put
<1>6. CASE Identity!Failed(s, n)
  <2>1. shell' = [shell EXCEPT ![s] = Identity!Idle]
    BY <1>6 DEF Identity!Failed, Identity!Quit
  <2>2. Identity!SelectionFollows'  BY <1>2, <2>1, IdleShell, SelectionRests
  <2>3. /\ shell' \in [Shells -> Identity!ShellRows] /\ shell'[s].at = "idle"
        /\ \A o \in Shells \ {s} : shell'[o] = shell[o]
    BY <1>1, <2>1, IdleShell
  <2>4. \A o \in Shells \ {s} : shell[o].at \in {"put", "attest"} => ~shell[o].alone
    BY <1>2 DEF Identity!IdentityInv, Identity!ConfigurationFollows, Identity!Configuring
  <2>5. ASSUME NEW o \in Shells
        PROVE  /\ shell'[o].at = "attest" => shell'[o].left = {}
               /\ ~(shell'[o].at \in {"put", "attest"} /\ shell'[o].alone)
    BY <2>3, <2>4 DEF Identity!IdentityInv, Identity!ConfigurationFollows, Identity!At
  <2>6. Identity!ConfigurationFollows'
    BY <1>3, <2>5 DEF Identity!ConfigurationFollows, Identity!Configuring, Identity!At
  <2> QED  BY <1>1, <1>2, <1>5, <2>2, <2>3, <2>6 DEF Identity!IdentityInv, Identity!IdentityShape
<1>7. CASE Identity!Done(s, n) /\ hosted' = Identity!Applied(s, n)
  <2>1. PICK at \in {"put", "attest"} : at = IF n = "digest" THEN "attest" ELSE "put"  OBVIOUS
  <2>2. PICK row : row = [old EXCEPT !.left = old.left \ {n}, !.at = at]  OBVIOUS
  <2>3. /\ row \in Identity!ShellRows /\ row.at = at /\ row.version = old.version
        /\ row.left = old.left \ {n} /\ row.alone = old.alone
    BY <2>2 DEF Identity!ShellRows
  <2>4. shell' = [shell EXCEPT ![s] = row]  BY <1>1, <1>4, <1>7, <2>1, <2>2 DEF Identity!Done
  <2>5. row.at \notin {"mkdir", "write", "select"}  BY <2>3
  <2>6. Identity!SelectionFollows'  BY <1>2, <2>3, <2>4, <2>5, SelectionRests
  <2>7. /\ shell' \in [Shells -> Identity!ShellRows] /\ shell'[s] = row
        /\ \A o \in Shells \ {s} : shell'[o] = shell[o]
    BY <1>1, <2>3, <2>4
  <2>8. hosted'[n].version = old.version
    BY <1>1, <1>4, <1>7 DEF Identity!Applied, Identity!Value
  <2>9. ASSUME NEW o \in Shells
        PROVE  /\ shell'[o].at = "attest" => shell'[o].left = {}
               /\ shell'[o].at \in {"put", "attest"} /\ shell'[o].alone =>
                     /\ \A u \in Shells \ {o} : ~(shell'[u].at \in {"put", "attest"})
                     /\ \A m \in Identity!Variables \ shell'[o].left :
                           hosted'[m].version = shell'[o].version
    <3>1. CASE o = s
      <4>1. row.at = "attest" => row.left = {}  BY <1>2, <1>4, <2>1, <2>3
      <4>2. old.alone =>
               /\ \A u \in Shells \ {s} : ~(shell[u].at \in {"put", "attest"})
               /\ \A m \in Identity!Variables \ old.left : hosted[m].version = old.version
        BY <1>2, <1>4 DEF Identity!IdentityInv, Identity!ConfigurationFollows,
           Identity!Configuring
      <4>3. old.alone => \A m \in Identity!Variables \ row.left : hosted'[m].version = old.version
        BY <1>5, <2>3, <2>8, <4>2
      <4> QED  BY <2>3, <2>7, <3>1, <4>1, <4>2, <4>3
    <3>2. CASE o # s
      <4>1. shell[o].at \in {"put", "attest"} => ~shell[o].alone
        BY <1>2, <3>2 DEF Identity!IdentityInv, Identity!ConfigurationFollows,
           Identity!Configuring
      <4> QED
        BY <2>7, <3>2, <4>1 DEF Identity!IdentityInv, Identity!ConfigurationFollows, Identity!At
    <3> QED  BY <3>1, <3>2
  <2>10. Identity!ConfigurationFollows'
    BY <1>3, <2>9 DEF Identity!ConfigurationFollows, Identity!Configuring, Identity!At
  <2> QED  BY <1>1, <1>2, <1>5, <2>6, <2>7, <2>10 DEF Identity!IdentityInv, Identity!IdentityShape
<1> QED  BY <1>6, <1>7 DEF Identity!Put

\* Success is reported of what nobody else touched.
LEMMA AttestStep ==
    ASSUME IdentitySettings, Identity!IdentityInv, NEW s \in Shells, Identity!Attest(s)
    PROVE  Identity!IdentityInv'
<1>1. /\ shell \in [Shells -> Identity!ShellRows]
      /\ shell[s].at = "attest" /\ shell' = [shell EXCEPT ![s] = Identity!Idle]
      /\ UNCHANGED <<staging, final, current, hosted, pinned, edits>>
      /\ configured' = configured \/ (shell[s].alone /\ configured' = shell[s].version)
  BY DEF Identity!Attest, Identity!At, Identity!Quit, Identity!disk, Identity!IdentityInv,
     Identity!IdentityShape
<1>2. configured = 0 /\ shell[s].left = {}
  BY <1>1 DEF Identity!IdentityInv, Identity!ConfigurationFollows, Identity!Configuring,
     Identity!At
<1>3. Identity!SelectionFollows'  BY <1>1, IdleShell, SelectionRests
<1>4. /\ shell' \in [Shells -> Identity!ShellRows] /\ shell'[s].at = "idle"
      /\ \A o \in Shells \ {s} : shell'[o] = shell[o]
  BY <1>1, IdleShell
<1>5. \A o \in Shells \ {s} : shell[o].at \in {"put", "attest"} => ~shell[o].alone
  BY <1>1 DEF Identity!IdentityInv, Identity!ConfigurationFollows, Identity!Configuring
<1>6. ASSUME NEW o \in Shells
      PROVE  /\ shell'[o].at = "attest" => shell'[o].left = {}
             /\ ~(shell'[o].at \in {"put", "attest"} /\ shell'[o].alone)
  BY <1>4, <1>5 DEF Identity!IdentityInv, Identity!ConfigurationFollows, Identity!At
<1>7. ASSUME configured' # 0
      PROVE  /\ \A o \in Shells : ~(shell'[o].at \in {"put", "attest"})
             /\ \A n \in Identity!Variables : hosted'[n].version = configured'
  <2>1. shell[s].alone /\ configured' = shell[s].version  BY <1>1, <1>2, <1>7
  <2> QED
    BY <1>1, <1>2, <1>4, <2>1 DEF Identity!IdentityInv, Identity!ConfigurationFollows,
       Identity!Configuring
<1>8. Identity!ConfigurationFollows'
  BY <1>6, <1>7 DEF Identity!ConfigurationFollows, Identity!Configuring, Identity!At
<1> QED  BY <1>1, <1>3, <1>4, <1>8 DEF Identity!IdentityInv, Identity!IdentityShape

\* Somebody removes a record: nobody is alone any more.
LEMMA RemoveStep ==
    ASSUME IdentitySettings, Identity!IdentityInv, NEW n \in Identity!Variables,
           Identity!Remove(n)
    PROVE  Identity!IdentityInv'
<1>1. /\ UNCHANGED <<staging, final, current>> /\ configured' = 0 /\ edits' = edits + 1
      /\ hosted' = [hosted EXCEPT ![n] = Identity!NoRecord]
      /\ shell' = [s \in Shells |-> [shell[s] EXCEPT !.alone = FALSE]]
  BY DEF Identity!Remove, Identity!disk
<1>2. /\ shell \in [Shells -> Identity!ShellRows] /\ edits \in Nat
      /\ hosted \in [Identity!Variables -> [id : Nat, version : Nat]]
  BY DEF Identity!IdentityInv, Identity!IdentityShape
<1>3. ASSUME NEW o \in Shells
      PROVE  /\ shell'[o] \in Identity!ShellRows /\ shell'[o].at = shell[o].at
             /\ shell'[o].version = shell[o].version /\ shell'[o].left = shell[o].left
             /\ ~shell'[o].alone
  <2>1. shell'[o] = [shell[o] EXCEPT !.alone = FALSE]  BY <1>1
  <2>2. PICK old \in Identity!ShellRows : old = shell[o]  BY <1>2
  <2> QED  BY <2>1, <2>2 DEF Identity!ShellRows
<1>4. Identity!IdentityShape'
  <2>1. Identity!NoRecord \in [id : Nat, version : Nat]  BY DEF Identity!NoRecord
  <2>2. shell' \in [Shells -> Identity!ShellRows]  BY <1>1, <1>3
  <2> QED  BY <1>1, <1>2, <2>1, <2>2 DEF Identity!IdentityShape
<1>5. Identity!SelectionFollows'
  BY <1>1, <1>3 DEF Identity!IdentityInv, Identity!SelectionFollows, Identity!At
<1>6. Identity!ConfigurationFollows'
  BY <1>1, <1>3 DEF Identity!IdentityInv, Identity!ConfigurationFollows,
     Identity!Configuring, Identity!At
<1> QED  BY <1>4, <1>5, <1>6 DEF Identity!IdentityInv

\* The selected version is whole, the hosted side never starts on two identities, and a
\* configuration that reported success with nobody else at work left one that starts
\* (IdentityProvisioning: create_identity_bundle, configure_vercel_identity).
THEOREM WholeVersions ==
    ASSUME IdentitySettings
    PROVE  Identity!Spec => []Identity!IdentityIsWhole
<1>1. Identity!Init => Identity!IdentityInv
  <2> SUFFICES ASSUME Identity!Init PROVE Identity!IdentityInv  OBVIOUS
  <2>1. /\ shell = [s \in Shells |-> Identity!Idle]
        /\ hosted = [n \in Identity!Variables |-> [id |-> 0, version |-> 0]]
        /\ final = [v \in Versions |-> Absent] /\ current = 0 /\ configured = 0 /\ edits = 0
    BY DEF Identity!Init, Identity!NoRecord
  <2>2. Identity!IdentityShape  BY <2>1, IdleShell DEF Identity!IdentityShape
  <2>3. \A s \in Shells : shell[s].at = "idle"  BY <2>1, IdleShell
  <2>4. Identity!SelectionFollows  BY <2>1, <2>3 DEF Identity!SelectionFollows, Identity!At
  <2>5. Identity!ConfigurationFollows
    BY <2>1, <2>3 DEF Identity!ConfigurationFollows, Identity!Configuring, Identity!At
  <2> QED  BY <2>2, <2>4, <2>5 DEF Identity!IdentityInv
<1>2. Identity!IdentityInv /\ [Identity!Next]_Identity!vars => Identity!IdentityInv'
  <2> SUFFICES ASSUME Identity!IdentityInv, [Identity!Next]_Identity!vars
               PROVE  Identity!IdentityInv'
    OBVIOUS
  <2>1. CASE UNCHANGED Identity!vars \/ Identity!Replace
    <3>1. UNCHANGED <<staging, final, current, shell, hosted, configured, edits>>
      BY <2>1 DEF Identity!vars, Identity!Replace, Identity!disk
    <3> QED
      BY <3>1 DEF Identity!IdentityInv, Identity!IdentityShape, Identity!SelectionFollows,
         Identity!ConfigurationFollows, Identity!Configuring, Identity!At
  <2>2. ASSUME NEW s \in Shells,
               \/ Identity!Mkdir(s) \/ Identity!WriteFile(s) \/ Identity!Publish(s)
               \/ Identity!Select(s) \/ Identity!Kill(s)
               \/ \E v \in Versions : Identity!Create(s, v)
        PROVE  Identity!IdentityInv'
    BY <2>2, CreationStep
  <2>3. ASSUME NEW s \in Shells, Identity!Configure(s)  PROVE Identity!IdentityInv'
    BY <2>3, ConfigureStep
  <2>4. ASSUME NEW s \in Shells, NEW n \in Identity!Variables, Identity!Put(s, n)
        PROVE  Identity!IdentityInv'
    BY <2>4, PutStep
  <2>5. ASSUME NEW s \in Shells, Identity!Attest(s)  PROVE Identity!IdentityInv'
    BY <2>5, AttestStep
  <2>6. ASSUME NEW n \in Identity!Variables, Identity!Remove(n)  PROVE Identity!IdentityInv'
    BY <2>6, RemoveStep
  <2> QED  BY <2>1, <2>2, <2>3, <2>4, <2>5, <2>6 DEF Identity!Next
<1>3. Identity!IdentityInv => Identity!IdentityIsWhole
  <2> SUFFICES ASSUME Identity!IdentityInv PROVE Identity!IdentityIsWhole  OBVIOUS
  <2>1. Identity!SelectionIsComplete
    BY DEF Identity!IdentityInv, Identity!SelectionFollows, Identity!SelectionIsComplete,
       Identity!Loadable
  <2>2. Identity!ConfiguredServes
    <3>1. configured # 0 => \A n \in Names \cup {"digest"} : hosted[n].version = configured
      BY DEF Identity!IdentityInv, Identity!ConfigurationFollows, Identity!Variables
    <3> QED  BY <3>1 DEF Identity!ConfiguredServes, Identity!Serves, Identity!Attested
  <2>3. Identity!HostedNeverMixed
    BY DEF Identity!HostedNeverMixed, Identity!Serves, Identity!Attested
  <2> QED  BY <2>1, <2>2, <2>3 DEF Identity!IdentityIsWhole
<1> QED  BY <1>1, <1>2, <1>3, PTL DEF Identity!Spec

----------------------------------------------------------------------------
(* The qualification of the local model (ModelQualification).              *)
world == x1
run == x2
report == x3
published == x4
drifts == x5
USE DEF world, run, report, published, drifts

\* What the client counts of one row.
OfOneRow(c) == c \in Evaluation!Counts /\ Evaluation!Sound(c)

\* A row for which the model was not asked.
Unasked(c) ==
    c \in Evaluation!Counts /\ \A f \in Evaluation!Inference : c[f] = 0

LEMMA UnaskedIsSound == ASSUME NEW c, Unasked(c)  PROVE OfOneRow(c)
  BY DEF Unasked, OfOneRow, Evaluation!Sound, Evaluation!Inference, Evaluation!Counts,
     Evaluation!Counters

LEMMA ZeroUnasked == Unasked(Evaluation!Zero)
  BY DEF Unasked, Evaluation!Zero, Evaluation!Counts, Evaluation!Inference, Evaluation!Counters

\* What the evaluator counts itself leaves the client's counters alone.
LEMMA CountedUnasked ==
    ASSUME NEW c, Unasked(c), NEW f \in Evaluation!Counters \ Evaluation!Inference, NEW n \in Nat
    PROVE  Unasked([c EXCEPT ![f] = n])
  BY DEF Unasked, Evaluation!Counts

LEMMA CaseUnasked ==
    ASSUME NEW f \in Evaluation!Counters \ Evaluation!Inference
    PROVE  Unasked(Evaluation!Case(f))
<1>1. "cases" \in Evaluation!Counters \ Evaluation!Inference
  BY DEF Evaluation!Counters, Evaluation!Inference
<1>2. PICK c : c = [Evaluation!Zero EXCEPT !["cases"] = 1] /\ Unasked(c)
  BY <1>1, ZeroUnasked, CountedUnasked
<1>3. Unasked([c EXCEPT ![f] = 1])  BY <1>2, CountedUnasked
<1>4. Evaluation!Case(f) = [c EXCEPT ![f] = 1]  BY <1>2 DEF Evaluation!Case
<1> QED  BY <1>3, <1>4

LEMMA PlusCounts ==
    ASSUME NEW a \in Evaluation!Counts, NEW b \in Evaluation!Counts
    PROVE  /\ Evaluation!Plus(a, b) \in Evaluation!Counts
           /\ \A f \in Evaluation!Counters : Evaluation!Plus(a, b)[f] = a[f] + b[f]
<1>1. \A f \in Evaluation!Counters : a[f] + b[f] \in Nat  BY DEF Evaluation!Counts
<1> QED  BY <1>1 DEF Evaluation!Plus, Evaluation!Counts

LEMMA PlusSound ==
    ASSUME NEW a, NEW b, OfOneRow(a), OfOneRow(b)  PROVE OfOneRow(Evaluation!Plus(a, b))
<1>1. PICK c \in Evaluation!Counts : c = Evaluation!Plus(a, b)
                                    /\ \A f \in Evaluation!Counters : c[f] = a[f] + b[f]
  BY PlusCounts DEF OfOneRow
<1>2. {"typed", "attempts", "payloads", "successes"} \subseteq Evaluation!Counters
  BY DEF Evaluation!Counters
<1>3. /\ c["typed"] = a["typed"] + b["typed"] /\ c["attempts"] = a["attempts"] + b["attempts"]
      /\ c["payloads"] = a["payloads"] + b["payloads"]
      /\ c["successes"] = a["successes"] + b["successes"]
  BY <1>1, <1>2
<1>4. \A f \in {"typed", "attempts", "payloads", "successes"} : a[f] \in Nat /\ b[f] \in Nat
  BY <1>2 DEF OfOneRow, Evaluation!Counts
<1> QED  BY <1>1, <1>3, <1>4 DEF OfOneRow, Evaluation!Sound

LEMMA GenerationSound ==
    ASSUME NEW g \in Evaluation!Answered \cup Evaluation!Unanswered  PROVE OfOneRow(g)
<1>1. ASSUME NEW x \in Nat, NEW y \in Nat, NEW z \in {0, 1}, y <= x, z <= y
      PROVE  OfOneRow(Evaluation!Generation(x, y, z))
  <2>1. PICK c : c = Evaluation!Generation(x, y, z)  OBVIOUS
  <2>2. c \in Evaluation!Counts /\ c.typed = 1 /\ c.attempts = x /\ c.payloads = y
        /\ c.successes = z
    <3>1. Evaluation!Zero \in [Evaluation!Counters -> Nat]
      BY ZeroUnasked DEF Unasked, Evaluation!Counts
    <3>2. {"typed", "attempts", "payloads", "successes", "provider", "good"}
            \subseteq Evaluation!Counters
      BY DEF Evaluation!Counters
    <3>3. c = [Evaluation!Zero EXCEPT !.typed = 1, !.attempts = x, !.payloads = y,
                                      !.successes = z, !.provider = 1, !.good = z]
      BY <2>1 DEF Evaluation!Generation
    <3>4. z \in Nat  OBVIOUS
    <3> QED  BY <3>1, <3>2, <3>3, <3>4 DEF Evaluation!Counts
  <2> QED  BY <1>1, <2>1, <2>2 DEF OfOneRow, Evaluation!Sound
<1>2. /\ OfOneRow(Evaluation!Generation(1, 1, 1)) /\ OfOneRow(Evaluation!Generation(2, 2, 1))
      /\ OfOneRow(Evaluation!Generation(1, 0, 0)) /\ OfOneRow(Evaluation!Generation(2, 2, 0))
      /\ OfOneRow(Evaluation!Generation(0, 0, 0))
  BY <1>1
<1> QED  BY <1>2 DEF Evaluation!Answered, Evaluation!Unanswered

LEMMA AskedSound ==
    ASSUME NEW c, Unasked(c), NEW g \in Evaluation!Answered \cup Evaluation!Unanswered
    PROVE  OfOneRow(Evaluation!Plus(c, g))
  BY UnaskedIsSound, GenerationSound, PlusSound

\* Confidence is the evaluator's to count.
LEMMA ConfidentSound ==
    ASSUME NEW c, OfOneRow(c), NEW d \in Evaluation!Confident(c)  PROVE OfOneRow(d)
<1>1. CASE d = c  BY <1>1
<1>2. CASE d = [c EXCEPT !.highRight = c.right, !.highWrong = c.wrong]
  <2>1. c \in Evaluation!Counts /\ c.right \in Nat /\ c.wrong \in Nat
    BY DEF OfOneRow, Evaluation!Counts, Evaluation!Counters
  <2>2. PICK x \in Nat, y \in Nat : x = c.right /\ y = c.wrong  BY <2>1
  <2>3. d = [c EXCEPT !.highRight = x, !.highWrong = y]  BY <1>2, <2>2
  <2>4. d \in Evaluation!Counts /\ d.typed = c.typed /\ d.attempts = c.attempts
        /\ d.payloads = c.payloads /\ d.successes = c.successes
    BY <2>1, <2>3 DEF Evaluation!Counts, Evaluation!Counters
  <2> QED  BY <2>4 DEF OfOneRow, Evaluation!Sound
<1> QED  BY <1>1, <1>2 DEF Evaluation!Confident

LEMMA EvaluatorsCounters ==
    {"cases", "right", "wrong", "abstain", "highRight", "highWrong", "scope", "modelRight",
     "modelWrong", "errors", "unsafe"} \subseteq Evaluation!Counters \ Evaluation!Inference
  BY DEF Evaluation!Counters, Evaluation!Inference

\* The rows the evaluators may count, before the client's part.
LEMMA RowCases ==
    /\ Unasked(Evaluation!Case("right")) /\ Unasked(Evaluation!Case("wrong"))
    /\ Unasked(Evaluation!Case("abstain"))
    /\ Unasked([Evaluation!Case("right") EXCEPT !.scope = 1, !.modelRight = 1])
    /\ Unasked([Evaluation!Case("wrong") EXCEPT !.scope = 1, !.modelWrong = 1])
    /\ Unasked([Evaluation!Case("abstain") EXCEPT !.scope = 1, !.modelWrong = 1])
    /\ Unasked([Evaluation!Case("abstain") EXCEPT !.scope = 1, !.errors = 1])
    /\ Unasked([Evaluation!Case("abstain") EXCEPT !.scope = 1])
    /\ Unasked([Evaluation!Case("abstain") EXCEPT !.unsafe = 1])
    /\ Unasked([Evaluation!Case("wrong") EXCEPT !.unsafe = 1])
    /\ Unasked([Evaluation!Case("wrong") EXCEPT !.scope = 1, !.modelWrong = 1, !.unsafe = 1])
<1>1. /\ Unasked(Evaluation!Case("right")) /\ Unasked(Evaluation!Case("wrong"))
      /\ Unasked(Evaluation!Case("abstain"))
  BY CaseUnasked, EvaluatorsCounters
<1>2. \A c, f, g : Unasked(c) /\ f \in Evaluation!Counters \ Evaluation!Inference
                  /\ g \in Evaluation!Counters \ Evaluation!Inference =>
         Unasked([c EXCEPT ![f] = 1]) /\ Unasked([[c EXCEPT ![f] = 1] EXCEPT ![g] = 1])
  BY CountedUnasked
<1>3. \A c, f, g : [c EXCEPT ![f] = 1, ![g] = 1] = [[c EXCEPT ![f] = 1] EXCEPT ![g] = 1]
  OBVIOUS
<1>4. \A c, f, g : Unasked(c) /\ f \in Evaluation!Counters \ Evaluation!Inference
                  /\ g \in Evaluation!Counters \ Evaluation!Inference =>
         Unasked([c EXCEPT ![f] = 1]) /\ Unasked([c EXCEPT ![f] = 1, ![g] = 1])
  BY <1>2, <1>3
<1>5. PICK c : c = [Evaluation!Case("wrong") EXCEPT !["scope"] = 1, !["modelWrong"] = 1]
               /\ Unasked(c)
  BY <1>1, <1>4, EvaluatorsCounters
<1>6. Unasked([c EXCEPT !["unsafe"] = 1])  BY <1>4, <1>5, EvaluatorsCounters
<1>7. [c EXCEPT !["unsafe"] = 1]
        = [Evaluation!Case("wrong") EXCEPT !.scope = 1, !.modelWrong = 1, !.unsafe = 1]
  BY <1>5
<1> QED  BY <1>1, <1>4, <1>6, <1>7, EvaluatorsCounters

LEMMA RowOutcomeSound ==
    ASSUME NEW t \in 1 .. 4, NEW o \in Evaluation!RowOutcomes(t)  PROVE OfOneRow(o)
<1>1. ASSUME NEW c, Unasked(c)
      PROVE  \A g \in Evaluation!Answered \cup Evaluation!Unanswered :
               OfOneRow(Evaluation!Plus(c, g))
  BY <1>1, AskedSound
<1>2. CASE t = 1
  <2>1. PICK c : o \in Evaluation!Confident(c) /\ c \in
            {Evaluation!Case("abstain"), Evaluation!Case("right"), Evaluation!Case("wrong")}
            \cup {Evaluation!Plus([Evaluation!Case("right") EXCEPT !.scope = 1, !.modelRight = 1],
                                  g) : g \in Evaluation!Answered}
            \cup {Evaluation!Plus([Evaluation!Case("wrong") EXCEPT !.scope = 1, !.modelWrong = 1],
                                  g) : g \in Evaluation!Answered}
            \cup {Evaluation!Plus([Evaluation!Case("abstain") EXCEPT !.scope = 1, !.errors = 1],
                                  g) : g \in Evaluation!Unanswered}
    BY <1>2 DEF Evaluation!RowOutcomes, Evaluation!RoutingRow
  <2>2. OfOneRow(c)  BY <1>1, <2>1, RowCases, UnaskedIsSound
  <2> QED  BY <2>1, <2>2, ConfidentSound
<1>3. CASE t = 2
  <2>1. o \in {Evaluation!Case("right"), Evaluation!Case("abstain"),
               [Evaluation!Case("wrong") EXCEPT !.unsafe = 1]}
        \/ (\E g \in Evaluation!Answered : o = Evaluation!Plus(
               [Evaluation!Case("right") EXCEPT !.scope = 1, !.modelRight = 1], g))
        \/ (\E g \in Evaluation!Answered : o = Evaluation!Plus(
               [Evaluation!Case("wrong") EXCEPT !.scope = 1, !.modelWrong = 1, !.unsafe = 1], g))
        \/ (\E g \in Evaluation!Answered \cup Evaluation!Unanswered : o = Evaluation!Plus(
               [Evaluation!Case("abstain") EXCEPT !.scope = 1], g))
        \/ (\E g \in Evaluation!Unanswered : o = Evaluation!Plus(
               [Evaluation!Case("abstain") EXCEPT !.unsafe = 1], g))
    BY <1>3 DEF Evaluation!RowOutcomes, Evaluation!FormRow
  <2> QED  BY <1>1, <2>1, RowCases, UnaskedIsSound
<1>4. CASE t = 3
  <2>1. \/ \E g \in Evaluation!Answered : o = Evaluation!Plus(
               [Evaluation!Case("right") EXCEPT !.scope = 1, !.modelRight = 1], g)
        \/ \E g \in Evaluation!Answered : o = Evaluation!Plus(
               [Evaluation!Case("abstain") EXCEPT !.scope = 1, !.modelWrong = 1], g)
        \/ \E g \in Evaluation!Unanswered : o = Evaluation!Plus(
               [Evaluation!Case("abstain") EXCEPT !.scope = 1, !.errors = 1], g)
    BY <1>4 DEF Evaluation!RowOutcomes, Evaluation!MaterialRow
  <2> QED  BY <1>1, <2>1, RowCases
<1>5. CASE t = 4
  <2>1. o \in {Evaluation!Case("right"), [Evaluation!Case("wrong") EXCEPT !.unsafe = 1]}
    BY <1>5 DEF Evaluation!RowOutcomes, Evaluation!MalformedRow
  <2> QED  BY <2>1, RowCases, UnaskedIsSound
<1> QED  BY <1>2, <1>3, <1>4, <1>5

StageNames == {"preflight", "cv_routing", "form_resolution", "full_material",
               "malformed_boundaries", "final_readiness", "aggregate_validation"}
CompletedBy(stage) ==
    IF stage \in {"preflight", "cv_routing"} THEN 0
    ELSE IF stage = "form_resolution" THEN 1
    ELSE IF stage = "full_material" THEN 2
    ELSE IF stage = "malformed_boundaries" THEN 3 ELSE 4
TaskStage(t) ==
    IF t = 1 THEN "cv_routing" ELSE IF t = 2 THEN "form_resolution"
    ELSE IF t = 3 THEN "full_material" ELSE "malformed_boundaries"

RunRows ==
    [at : {"start", "preflight", "load", "row", "final", "aggregate", "built", "ended"},
     stage : StageNames, row : Nat, done : 0 .. 4, inputs : Nat, env : Nat,
     code : SUBSET (Nat \X Nat), moved : BOOLEAN, read : SUBSET Nat,
     stable : BOOLEAN, ended : BOOLEAN, task : [1 .. 4 -> Evaluation!Counts],
     total : Evaluation!Counts]
WorldRows == [inputs : Nat, env : Nat, model : {"exact", "other"}]

ShapeOf(w, n, r, rep, pub) ==
    /\ w \in WorldRows /\ n \in Nat /\ w.inputs <= n /\ r \in RunRows
    /\ rep \in Evaluation!Reports /\ pub \in Evaluation!Reports
StageOf(r, rep) ==
    /\ CompletedBy(r.stage) = r.done
    /\ r.at = "row" => r.done < 4 /\ r.stage = TaskStage(r.done + 1)
    /\ r.at \in {"start", "preflight", "load"} => r.done = 0
    /\ r.at \in {"final", "aggregate"} => r.done = 4
    /\ r.at = "built" /\ rep.status # "blocked" => r.done = 4
CountersOf(done, tasks, total) ==
    /\ \A t \in 1 .. done : Evaluation!TaskValid(t, tasks[t])
    /\ Evaluation!Sound(total)
    /\ \A f \in Evaluation!Counters :
          total[f] = tasks[1][f] + tasks[2][f] + tasks[3][f] + tasks[4][f]
InputsOf(w, r, rep, pub) ==
    /\ r.at \in {"load", "row", "final", "aggregate"} =>
          r.inputs <= w.inputs /\ \A x \in r.read : r.inputs <= x /\ x <= w.inputs
    /\ r.at \in {"start", "preflight"} => r.read = {}
    /\ r.at \in {"row", "final", "aggregate"} => r.read # {}
    /\ r.at = "aggregate" /\ r.stable => r.ended
    /\ r.at = "built" /\ rep.status = "passed" => rep.earned
    /\ pub.status = "passed" => pub.earned
CodeOf(w, r) ==
    /\ r.at \in {"preflight", "load", "row", "final", "aggregate"} => r.code # {}
    /\ ~r.moved =>
          \A c \in r.code :
             /\ r.at \in {"start", "preflight"} => c = <<w.inputs, w.env>>
             /\ r.at = "load" => c = <<r.inputs, w.env>>
             /\ r.at \in {"row", "final", "aggregate"} => c = <<r.inputs, r.env>>

LEMMA TaskStages ==
    /\ {Evaluation!Tasks[t] : t \in 1 .. 4} =
          {"cv_routing", "form_resolution", "full_material", "malformed_boundaries"}
    /\ \A t \in 1 .. 4 : Evaluation!Tasks[t] = TaskStage(t)
    /\ \A t \in 1 .. 4 : TaskStage(t) \in StageNames /\ CompletedBy(TaskStage(t)) = t - 1
<1>1. /\ Evaluation!Tasks[1] = "cv_routing" /\ Evaluation!Tasks[2] = "form_resolution"
      /\ Evaluation!Tasks[3] = "full_material"
      /\ Evaluation!Tasks[4] = "malformed_boundaries"
  BY DEF Evaluation!Tasks
<1>2. 1 .. 4 = {1, 2, 3, 4}  OBVIOUS
<1>3. {Evaluation!Tasks[t] : t \in {1, 2, 3, 4}} =
        {"cv_routing", "form_resolution", "full_material", "malformed_boundaries"}
  BY <1>1
<1>4. \A t \in {1, 2, 3, 4} : Evaluation!Tasks[t] = TaskStage(t)  BY <1>1 DEF TaskStage
<1>5. \A t \in {1, 2, 3, 4} : TaskStage(t) \in StageNames /\ CompletedBy(TaskStage(t)) = t - 1
  BY DEF TaskStage, StageNames, CompletedBy
<1> QED  BY <1>2, <1>3, <1>4, <1>5

LEMMA StageCounts ==
    /\ Evaluation!RequiredCompleted = CompletedBy(run.stage)
    /\ Evaluation!RequiredCompleted' = CompletedBy(run'.stage)
<1>1. /\ Evaluation!Tasks[1] = "cv_routing" /\ Evaluation!Tasks[2] = "form_resolution"
      /\ Evaluation!Tasks[3] = "full_material"
      /\ Evaluation!Tasks[4] = "malformed_boundaries"
  BY DEF Evaluation!Tasks
<1>2. Evaluation!RequiredCompleted = CompletedBy(run.stage)
  BY <1>1 DEF Evaluation!RequiredCompleted, CompletedBy
<1>3. Evaluation!RequiredCompleted' = CompletedBy(run'.stage)
  BY <1>1 DEF Evaluation!RequiredCompleted, CompletedBy
<1> QED  BY <1>2, <1>3

LEMMA EvaluationParts ==
    /\ Evaluation!EvaluationInv <=>
          /\ ShapeOf(world, drifts, run, report, published) /\ StageOf(run, report)
          /\ CountersOf(run.done, run.task, run.total)
          /\ InputsOf(world, run, report, published) /\ CodeOf(world, run)
    /\ Evaluation!EvaluationInv' <=>
          /\ ShapeOf(world', drifts', run', report', published') /\ StageOf(run', report')
          /\ CountersOf(run'.done, run'.task, run'.total)
          /\ InputsOf(world', run', report', published') /\ CodeOf(world', run')
<1>1. StageNames = {"preflight", "final_readiness", "aggregate_validation"}
                   \cup {Evaluation!Tasks[t] : t \in 1 .. 4}
  BY TaskStages DEF StageNames
<1>2. Evaluation!EvaluationShape <=> ShapeOf(world, drifts, run, report, published)
  BY <1>1 DEF Evaluation!EvaluationShape, ShapeOf, RunRows, WorldRows
<1>3. Evaluation!EvaluationShape' <=> ShapeOf(world', drifts', run', report', published')
  BY <1>1 DEF Evaluation!EvaluationShape, ShapeOf, RunRows, WorldRows
<1>4. ShapeOf(world, drifts, run, report, published) =>
        (Evaluation!StageFollows <=> StageOf(run, report))
  <2>1. run \in RunRows /\ run.done < 4 => Evaluation!Tasks[run.done + 1] = TaskStage(run.done + 1)
    BY TaskStages DEF RunRows
  <2> QED  BY <2>1, StageCounts DEF Evaluation!StageFollows, StageOf, ShapeOf
<1>5. ShapeOf(world', drifts', run', report', published') =>
        (Evaluation!StageFollows' <=> StageOf(run', report'))
  <2>1. run' \in RunRows /\ run'.done < 4 =>
          Evaluation!Tasks[run'.done + 1] = TaskStage(run'.done + 1)
    BY TaskStages DEF RunRows
  <2> QED  BY <2>1, StageCounts DEF Evaluation!StageFollows, StageOf, ShapeOf
<1>6. Evaluation!CountersFollow <=> CountersOf(run.done, run.task, run.total)
  BY DEF Evaluation!CountersFollow, CountersOf
<1>7. Evaluation!CountersFollow' <=> CountersOf(run'.done, run'.task, run'.total)
  BY DEF Evaluation!CountersFollow, CountersOf
<1>8. Evaluation!InputsFollow <=> InputsOf(world, run, report, published)
  BY DEF Evaluation!InputsFollow, InputsOf
<1>9. Evaluation!InputsFollow' <=> InputsOf(world', run', report', published')
  BY DEF Evaluation!InputsFollow, InputsOf
<1>10. Evaluation!CodeFollows <=> CodeOf(world, run)  BY DEF Evaluation!CodeFollows, CodeOf
<1>11. Evaluation!CodeFollows' <=> CodeOf(world', run')  BY DEF Evaluation!CodeFollows, CodeOf
<1> QED
  BY <1>2, <1>3, <1>4, <1>5, <1>6, <1>7, <1>8, <1>9, <1>10, <1>11 DEF Evaluation!EvaluationInv

EvaluationHolds ==
    /\ ShapeOf(world, drifts, run, report, published) /\ StageOf(run, report)
    /\ CountersOf(run.done, run.task, run.total)
    /\ InputsOf(world, run, report, published) /\ CodeOf(world, run)

\* A run that has counted nothing.
LEMMA FreshRun ==
    ASSUME NEW at \in {"start", "ended"}, NEW row, row = Evaluation!Fresh(at)
    PROVE  /\ row \in RunRows /\ row.at = at /\ row.done = 0 /\ row.read = {}
           /\ CompletedBy(row.stage) = 0 /\ row.code = {}
           /\ CountersOf(row.done, row.task, row.total)
<1>1. Evaluation!Zero \in Evaluation!Counts
      /\ \A f \in Evaluation!Counters : Evaluation!Zero[f] = 0
  BY DEF Evaluation!Zero, Evaluation!Counts
<1>2. PICK tasks : tasks = [t \in 1 .. 4 |-> Evaluation!Zero]  OBVIOUS
<1>3. tasks \in [1 .. 4 -> Evaluation!Counts]  BY <1>1, <1>2
<1>4. tasks[1] = Evaluation!Zero /\ tasks[2] = Evaluation!Zero
      /\ tasks[3] = Evaluation!Zero /\ tasks[4] = Evaluation!Zero
  BY <1>2
<1>5. /\ 0 \in 0 .. 4 /\ {} \in SUBSET Nat /\ {} \in SUBSET (Nat \X Nat)
      /\ "preflight" \in StageNames
  BY DEF StageNames
<1>6. row = [at |-> at, stage |-> "preflight", row |-> 0, done |-> 0, inputs |-> 0, env |-> 0,
             code |-> {}, moved |-> FALSE, read |-> {}, stable |-> FALSE, ended |-> FALSE,
             task |-> tasks, total |-> Evaluation!Zero]
  BY <1>2 DEF Evaluation!Fresh
<1>7. row \in RunRows  BY <1>1, <1>3, <1>5, <1>6 DEF RunRows
<1>8. /\ row.at = at /\ row.done = 0 /\ row.read = {} /\ row.stage = "preflight"
      /\ row.code = {}
      /\ row.task = tasks /\ row.total = Evaluation!Zero
  BY <1>6
<1>9. Evaluation!Sound(Evaluation!Zero)
  BY ZeroUnasked, UnaskedIsSound DEF OfOneRow
<1>10. CountersOf(0, tasks, Evaluation!Zero)
  <2>1. \A f \in Evaluation!Counters :
          Evaluation!Zero[f] = tasks[1][f] + tasks[2][f] + tasks[3][f] + tasks[4][f]
    BY <1>1, <1>4
  <2> QED  BY <1>9, <2>1 DEF CountersOf
<1> QED  BY <1>7, <1>8, <1>10 DEF CompletedBy

\* The evaluated code is imported.
LEMMA ImportStep ==
    ASSUME EvaluationHolds, Evaluation!Import  PROVE EvaluationHolds'
<1>1. /\ UNCHANGED <<world, report, published, drifts>>
      /\ run \in RunRows /\ world \in WorldRows /\ world.inputs <= drifts /\ drifts \in Nat
      /\ report \in Evaluation!Reports /\ published \in Evaluation!Reports
      /\ run.at = "start"
  BY DEF EvaluationHolds, ShapeOf, Evaluation!Import
<1>2. PICK next \in {"start", "preflight"} :
        run' = [run EXCEPT !.at = next, !.code = @ \cup {<<world.inputs, world.env>>}]
  BY DEF Evaluation!Import
<1>3. PICK row : row = [run EXCEPT !.at = next, !.code = @ \cup {<<world.inputs, world.env>>}]
                 /\ run' = row
  BY <1>2
<1>4. /\ row.at = next /\ row.stage = run.stage /\ row.done = run.done
      /\ row.code = run.code \cup {<<world.inputs, world.env>>} /\ row.moved = run.moved
      /\ row.read = run.read /\ row.task = run.task /\ row.total = run.total
  BY <1>1, <1>3 DEF RunRows
<1>5. row \in RunRows
  <2>1. run.code \cup {<<world.inputs, world.env>>} \in SUBSET (Nat \X Nat)
    BY <1>1 DEF RunRows, WorldRows
  <2> QED  BY <1>1, <1>3, <2>1 DEF RunRows
<1>6. ShapeOf(world', drifts', run', report', published')  BY <1>1, <1>3, <1>5 DEF ShapeOf
<1>7. StageOf(run', report')  BY <1>1, <1>3, <1>4 DEF EvaluationHolds, StageOf
<1>8. CountersOf(run'.done, run'.task, run'.total)  BY <1>3, <1>4 DEF EvaluationHolds
<1>9. InputsOf(world', run', report', published')
  BY <1>1, <1>3, <1>4 DEF EvaluationHolds, InputsOf
<1>10. CodeOf(world', run')  BY <1>1, <1>3, <1>4 DEF EvaluationHolds, CodeOf
<1> QED  BY <1>6, <1>7, <1>8, <1>9, <1>10 DEF EvaluationHolds

\* A step that leaves the counters of the run alone.
LEMMA SettingOff ==
    ASSUME EvaluationHolds, Evaluation!Attest \/ Evaluation!Load \/ Evaluation!FinalReadiness
    PROVE  EvaluationHolds'
<1>1. /\ UNCHANGED <<world, report, published, drifts>>
      /\ run \in RunRows /\ world \in WorldRows /\ world.inputs <= drifts /\ drifts \in Nat
      /\ report \in Evaluation!Reports /\ published \in Evaluation!Reports
  BY DEF EvaluationHolds, ShapeOf, Evaluation!Attest, Evaluation!Load, Evaluation!FinalReadiness
<1>2. CASE Evaluation!Attest
  <2>1. PICK row : row = [run EXCEPT !.at = "load", !.inputs = world.inputs]  OBVIOUS
  <2>2. /\ row.at = "load" /\ row.inputs = world.inputs /\ row.stage = run.stage
        /\ row.done = run.done /\ row.read = run.read /\ row.task = run.task
        /\ row.total = run.total /\ row.code = run.code /\ row.moved = run.moved
    BY <1>1, <2>1 DEF RunRows
  <2>3. row \in RunRows  BY <1>1, <2>1 DEF RunRows, WorldRows
  <2>4. run' = row /\ run.at = "preflight"  BY <1>2, <2>1 DEF Evaluation!Attest
  <2>5. run.read = {} /\ run.done = 0 /\ CompletedBy(run.stage) = run.done
    BY <2>4 DEF EvaluationHolds, InputsOf, StageOf
  <2>6. ShapeOf(world', drifts', run', report', published')
    BY <1>1, <2>3, <2>4 DEF ShapeOf
  <2>7. StageOf(run', report')  BY <2>2, <2>4, <2>5 DEF StageOf
  <2>8. CountersOf(run'.done, run'.task, run'.total)  BY <2>2, <2>4 DEF EvaluationHolds
  <2>9. InputsOf(world', run', report', published')
    BY <1>1, <2>2, <2>4, <2>5 DEF EvaluationHolds, InputsOf, WorldRows
  <2>10. CodeOf(world', run')  BY <1>1, <2>2, <2>4 DEF EvaluationHolds, CodeOf
  <2> QED  BY <2>6, <2>7, <2>8, <2>9, <2>10 DEF EvaluationHolds
<1>3. CASE Evaluation!Load
  <2>1. PICK row : row = [run EXCEPT !.at = "row", !.stage = Evaluation!Tasks[1],
                                     !.read = @ \cup {world.inputs}, !.env = world.env]
    OBVIOUS
  <2>2. Evaluation!Tasks[1] = "cv_routing"  BY TaskStages DEF TaskStage
  <2>3. /\ row.at = "row" /\ row.inputs = run.inputs /\ row.stage = "cv_routing"
        /\ row.done = run.done /\ row.read = run.read \cup {world.inputs}
        /\ row.task = run.task /\ row.total = run.total
        /\ row.code = run.code /\ row.moved = run.moved /\ row.env = world.env
    BY <1>1, <2>1, <2>2 DEF RunRows
  <2>4. row \in RunRows  BY <1>1, <2>1, <2>2 DEF RunRows, WorldRows, StageNames
  <2>5. run' = row /\ run.at = "load"  BY <1>3, <2>1 DEF Evaluation!Load
  <2>6. run.done = 0 /\ run.inputs <= world.inputs
        /\ \A x \in run.read : run.inputs <= x /\ x <= world.inputs
    BY <2>5 DEF EvaluationHolds, InputsOf, StageOf
  <2>7. ShapeOf(world', drifts', run', report', published')
    BY <1>1, <2>4, <2>5 DEF ShapeOf
  <2>8. StageOf(run', report')
    BY <2>3, <2>5, <2>6 DEF StageOf, TaskStage, CompletedBy
  <2>9. CountersOf(run'.done, run'.task, run'.total)  BY <2>3, <2>5 DEF EvaluationHolds
  <2>10. InputsOf(world', run', report', published')
    BY <1>1, <2>3, <2>5, <2>6 DEF EvaluationHolds, InputsOf, WorldRows
  <2>11. CodeOf(world', run')  BY <1>1, <2>3, <2>5 DEF EvaluationHolds, CodeOf
  <2> QED  BY <2>7, <2>8, <2>9, <2>10, <2>11 DEF EvaluationHolds
<1>4. CASE Evaluation!FinalReadiness
  <2>1. PICK here \in BOOLEAN : here = (world.model = "exact" /\ world.env = run.env)  OBVIOUS
  <2>2. PICK row : row = [run EXCEPT !.at = "aggregate", !.stage = "aggregate_validation",
                                     !.stable = here, !.ended = here]
    OBVIOUS
  <2>3. /\ row.at = "aggregate" /\ row.inputs = run.inputs
        /\ row.stage = "aggregate_validation" /\ row.done = run.done /\ row.read = run.read
        /\ row.task = run.task /\ row.total = run.total /\ row.stable = here
        /\ row.ended = here /\ row.env = run.env
        /\ row.code = run.code /\ row.moved = run.moved
    BY <1>1, <2>2 DEF RunRows
  <2>4. row \in RunRows  BY <1>1, <2>2 DEF RunRows, StageNames
  <2>5. run' = row /\ run.at = "final"
    BY <1>4, <2>1, <2>2 DEF Evaluation!FinalReadiness, Evaluation!Stable
  <2>6. run.done = 4 /\ run.inputs <= world.inputs /\ run.read # {}
        /\ \A x \in run.read : run.inputs <= x /\ x <= world.inputs
    BY <2>5 DEF EvaluationHolds, InputsOf, StageOf
  <2>7. ShapeOf(world', drifts', run', report', published')
    BY <1>1, <2>4, <2>5 DEF ShapeOf
  <2>8. StageOf(run', report')
    BY <2>3, <2>5, <2>6 DEF StageOf, TaskStage, CompletedBy
  <2>9. CountersOf(run'.done, run'.task, run'.total)  BY <2>3, <2>5 DEF EvaluationHolds
  <2>10. InputsOf(world', run', report', published')
    BY <1>1, <2>3, <2>5, <2>6 DEF EvaluationHolds, InputsOf, WorldRows
  <2>11. CodeOf(world', run')  BY <1>1, <2>3, <2>5 DEF EvaluationHolds, CodeOf
  <2> QED  BY <2>7, <2>8, <2>9, <2>10, <2>11 DEF EvaluationHolds
<1> QED  BY <1>2, <1>3, <1>4

\* One row counted: in its task, and in the client's totals.
LEMMA RowStep ==
    ASSUME EvaluationHolds, Evaluation!Row  PROVE EvaluationHolds'
<1>1. /\ UNCHANGED <<world, report, published, drifts>>
      /\ run \in RunRows /\ world \in WorldRows /\ world.inputs <= drifts /\ drifts \in Nat
      /\ report \in Evaluation!Reports /\ published \in Evaluation!Reports
      /\ run.at = "row" /\ run.done < 4
  BY DEF EvaluationHolds, ShapeOf, Evaluation!Row
<1>2. PICK t : t = run.done + 1  OBVIOUS
<1>3. t \in 1 .. 4 /\ run.done = t - 1 /\ run.done \in 0 .. 3  BY <1>1, <1>2 DEF RunRows
<1>4. PICK o \in Evaluation!RowOutcomes(t), more \in SUBSET {world.inputs} :
         run' = [run EXCEPT !.row = @ + 1, !.task[t] = Evaluation!Plus(@, o),
                            !.total = Evaluation!Plus(@, o), !.read = @ \cup more]
  <2>1. PICK o \in Evaluation!RowOutcomes(t) :
         run' = [run EXCEPT !.row = @ + 1, !.task[t] = Evaluation!Plus(@, o),
                            !.total = Evaluation!Plus(@, o),
                            !.read = @ \cup (IF run.row = 0 THEN Evaluation!ReadInPhase(t)
                                             ELSE {})]
    BY <1>2 DEF Evaluation!Row
  <2>2. PICK more : more = IF run.row = 0 THEN Evaluation!ReadInPhase(t) ELSE {}  OBVIOUS
  <2>3. more \in SUBSET {world.inputs}  BY <2>2 DEF Evaluation!ReadInPhase
  <2> QED  BY <2>1, <2>2, <2>3
<1>5. OfOneRow(o)  BY <1>3, RowOutcomeSound
<1>6. run.task \in [1 .. 4 -> Evaluation!Counts] /\ run.total \in Evaluation!Counts
  BY <1>1 DEF RunRows
<1>7. PICK count \in Evaluation!Counts, sum \in Evaluation!Counts :
        /\ count = Evaluation!Plus(run.task[t], o) /\ sum = Evaluation!Plus(run.total, o)
        /\ \A f \in Evaluation!Counters : count[f] = run.task[t][f] + o[f]
        /\ \A f \in Evaluation!Counters : sum[f] = run.total[f] + o[f]
  BY <1>3, <1>5, <1>6, PlusCounts DEF OfOneRow
<1>8. Evaluation!Sound(sum)
  <2>1. OfOneRow(run.total)  BY <1>6 DEF EvaluationHolds, CountersOf, OfOneRow
  <2> QED  BY <1>5, <1>7, <2>1, PlusSound DEF OfOneRow
<1>9. PICK tasks : tasks = [run.task EXCEPT ![t] = count]  OBVIOUS
<1>10. /\ tasks \in [1 .. 4 -> Evaluation!Counts] /\ tasks[t] = count
       /\ \A u \in 1 .. 4 : u # t => tasks[u] = run.task[u]
  BY <1>3, <1>6, <1>7, <1>9
<1>11. PICK row : row = [run EXCEPT !.row = @ + 1, !.task = tasks, !.total = sum,
                                    !.read = @ \cup more]
  OBVIOUS
<1>12. run' = row  BY <1>4, <1>7, <1>9, <1>11
<1>13. /\ row.at = "row" /\ row.inputs = run.inputs /\ row.stage = run.stage
       /\ row.done = run.done /\ row.read = run.read \cup more
       /\ row.task = tasks /\ row.total = sum /\ row.env = run.env
       /\ row.code = run.code /\ row.moved = run.moved
  BY <1>1, <1>11 DEF RunRows
<1>14. row \in RunRows
  <2>1. run.row + 1 \in Nat /\ run.read \cup more \in SUBSET Nat
    BY <1>1, <1>4 DEF RunRows, WorldRows
  <2> QED  BY <1>1, <1>7, <1>10, <1>11, <2>1 DEF RunRows
<1>15. ShapeOf(world', drifts', run', report', published')
  BY <1>1, <1>12, <1>14 DEF ShapeOf
<1>16. StageOf(run', report')
  BY <1>1, <1>12, <1>13 DEF EvaluationHolds, StageOf
<1>17. CountersOf(run.done, tasks, sum)
  <2>1. \A u \in 1 .. run.done : Evaluation!TaskValid(u, tasks[u])
    <3>1. \A u \in 1 .. run.done : tasks[u] = run.task[u]  BY <1>3, <1>10
    <3> QED  BY <3>1 DEF EvaluationHolds, CountersOf
  <2>2. ASSUME NEW f \in Evaluation!Counters
        PROVE  sum[f] = tasks[1][f] + tasks[2][f] + tasks[3][f] + tasks[4][f]
    <3>1. run.total[f] = run.task[1][f] + run.task[2][f] + run.task[3][f] + run.task[4][f]
      BY DEF EvaluationHolds, CountersOf
    <3>2. o[f] \in Nat /\ \A u \in 1 .. 4 : run.task[u][f] \in Nat
      BY <1>5, <1>6 DEF OfOneRow, Evaluation!Counts
    <3>3. sum[f] = run.total[f] + o[f] /\ count[f] = run.task[t][f] + o[f]  BY <1>7
    <3>4. \A u \in 1 .. 4 : tasks[u][f] = IF u = t THEN run.task[u][f] + o[f]
                                         ELSE run.task[u][f]
      BY <1>3, <1>10, <3>3
    <3>5. \A u \in {1, 2, 3, 4} : tasks[u][f] = IF u = t THEN run.task[u][f] + o[f]
                                         ELSE run.task[u][f]
      BY <3>4
    <3>6. \A u \in {1, 2, 3, 4} : run.task[u][f] \in Nat  BY <3>2
    <3>7. t \in {1, 2, 3, 4}  BY <1>3
    <3> QED  BY <3>1, <3>2, <3>3, <3>5, <3>6, <3>7
  <2> QED  BY <1>8, <2>1, <2>2 DEF CountersOf
<1>18. InputsOf(world', run', report', published')
  BY <1>1, <1>4, <1>12, <1>13 DEF EvaluationHolds, InputsOf, WorldRows
<1>19. CodeOf(world', run')  BY <1>1, <1>12, <1>13 DEF EvaluationHolds, CodeOf
<1> QED  BY <1>12, <1>13, <1>15, <1>16, <1>17, <1>18, <1>19 DEF EvaluationHolds

\* A phase ends: one more task is completed, and valid.
LEMMA FinishTaskStep ==
    ASSUME EvaluationHolds, Evaluation!FinishTask  PROVE EvaluationHolds'
<1>1. /\ UNCHANGED <<world, report, published, drifts>>
      /\ run \in RunRows /\ world \in WorldRows /\ world.inputs <= drifts /\ drifts \in Nat
      /\ report \in Evaluation!Reports /\ published \in Evaluation!Reports
      /\ run.at = "row" /\ run.done < 4
      /\ Evaluation!TaskValid(run.done + 1, run.task[run.done + 1])
  BY DEF EvaluationHolds, ShapeOf, Evaluation!FinishTask
<1>2. run.done \in {0, 1, 2, 3}  BY <1>1 DEF RunRows
<1>3. PICK next, at :
        /\ next = IF run.done + 1 < 4 THEN Evaluation!Tasks[run.done + 2] ELSE "final_readiness"
        /\ at = IF run.done = 3 THEN "final" ELSE "row"
  OBVIOUS
<1>4. /\ next \in StageNames /\ CompletedBy(next) = run.done + 1
      /\ run.done + 1 < 4 => next = TaskStage(run.done + 2)
  <2>1. CASE run.done + 1 < 4
    <3>1. run.done + 2 \in 1 .. 4  BY <1>2, <2>1
    <3>2. next = TaskStage(run.done + 2)  BY <1>3, <2>1, <3>1, TaskStages
    <3>3. next \in StageNames /\ CompletedBy(next) = run.done + 2 - 1
      <4>1. PICK u \in 1 .. 4 : u = run.done + 2  BY <3>1
      <4>2. TaskStage(u) \in StageNames /\ CompletedBy(TaskStage(u)) = u - 1
        BY TaskStages
      <4>3. u - 1 = run.done + 2 - 1  BY <1>2, <4>1
      <4>4. next = TaskStage(u)  BY <3>2, <4>1, Zenon
      <4> QED  BY <4>2, <4>3, <4>4, Zenon
    <3> QED  BY <1>2, <3>2, <3>3
  <2>2. CASE ~(run.done + 1 < 4)
    <3>1. next = "final_readiness" /\ run.done = 3  BY <1>2, <1>3, <2>2
    <3> QED  BY <3>1 DEF StageNames, CompletedBy
  <2> QED  BY <2>1, <2>2
<1>5. PICK row : row = [run EXCEPT !.done = @ + 1, !.row = 0, !.stage = next, !.at = at]  OBVIOUS
<1>6. run' = row
  BY <1>3, <1>5 DEF Evaluation!FinishTask, Evaluation!StageAfterTask, Evaluation!NextStage
<1>7. /\ row.at = at /\ row.inputs = run.inputs /\ row.stage = next
      /\ row.done = run.done + 1 /\ row.read = run.read
      /\ row.task = run.task /\ row.total = run.total /\ row.env = run.env
      /\ row.code = run.code /\ row.moved = run.moved
  BY <1>1, <1>5 DEF RunRows
<1>8. row \in RunRows
  <2>1. run.done + 1 \in 0 .. 4 /\ at \in {"final", "row"}  BY <1>2, <1>3
  <2> QED  BY <1>1, <1>4, <1>5, <2>1 DEF RunRows
<1>9. ShapeOf(world', drifts', run', report', published')
  BY <1>1, <1>6, <1>8 DEF ShapeOf
<1>10. StageOf(run', report')
  <2>1. at = "row" => run.done + 1 < 4 /\ next = TaskStage(run.done + 1 + 1)
    <3>1. run.done + 1 + 1 = run.done + 2  BY <1>2
    <3> QED  BY <1>2, <1>3, <1>4, <3>1
  <2>2. at = "final" => run.done + 1 = 4  BY <1>2, <1>3
  <2>3. at \in {"row", "final"}  BY <1>3
  <2> QED  BY <1>4, <1>6, <1>7, <2>1, <2>2, <2>3 DEF StageOf
<1>11. CountersOf(run.done + 1, run.task, run.total)
  <2>1. \A u \in 1 .. run.done + 1 : u \in 1 .. run.done \/ u = run.done + 1  BY <1>2
  <2> QED  BY <1>1, <2>1 DEF EvaluationHolds, CountersOf
<1>12. InputsOf(world', run', report', published')
  <2>1. at \in {"row", "final"}  BY <1>3
  <2> QED  BY <1>1, <1>6, <1>7, <2>1 DEF EvaluationHolds, InputsOf
<1>13. CodeOf(world', run')
  <2>1. at \in {"row", "final"}  BY <1>3
  <2> QED  BY <1>1, <1>6, <1>7, <2>1 DEF EvaluationHolds, CodeOf
<1> QED  BY <1>6, <1>7, <1>9, <1>10, <1>11, <1>12, <1>13 DEF EvaluationHolds

\* The report, of the run or of what stopped it.
LEMMA ReportStep ==
    ASSUME EvaluationHolds, Evaluation!Aggregate \/ Evaluation!Block  PROVE EvaluationHolds'
<1>1. /\ UNCHANGED <<world, published, drifts>>
      /\ run \in RunRows /\ world \in WorldRows /\ world.inputs <= drifts /\ drifts \in Nat
      /\ published \in Evaluation!Reports
      /\ run' = [run EXCEPT !.at = "built"]
  BY DEF EvaluationHolds, ShapeOf, Evaluation!Aggregate, Evaluation!Block
<1>2. PICK row : row = [run EXCEPT !.at = "built"]  OBVIOUS
<1>3. run' = row  BY <1>1, <1>2
<1>4. /\ row.at = "built" /\ row.inputs = run.inputs /\ row.stage = run.stage
      /\ row.done = run.done /\ row.read = run.read
      /\ row.task = run.task /\ row.total = run.total
  BY <1>1, <1>2 DEF RunRows
<1>5. row \in RunRows  BY <1>1, <1>2 DEF RunRows
<1>6. /\ report' \in Evaluation!Reports
      /\ report'.status # "blocked" => run.done = 4
      /\ report'.status = "passed" => report'.earned
  <2>1. CASE Evaluation!Aggregate
    <3>1. PICK status, earned :
            /\ status = IF Evaluation!OverallPass THEN "passed" ELSE "failed"
            /\ earned \in BOOLEAN /\ (earned <=> Evaluation!Earned)
            /\ earned = Evaluation!Earned
      <4>1. Evaluation!Earned \in BOOLEAN  BY <1>1 DEF Evaluation!Earned, RunRows
      <4> QED  BY <4>1
    <3>2. PICK rep : rep = [status |-> status, inputs |-> run.inputs, env |-> run.env,
                            earned |-> earned]
      OBVIOUS
    <3>3. report' = rep /\ run.at = "aggregate" /\ world.inputs = run.inputs
      BY <2>1, <3>1, <3>2 DEF Evaluation!Aggregate
    <3>4. rep.status = status /\ rep.earned = earned  BY <3>2
    <3>5. status \in {"passed", "failed"}  BY <3>1
    <3>6. rep \in Evaluation!Reports
      <4>1. run.inputs \in Nat /\ run.env \in Nat  BY <1>1 DEF RunRows
      <4>2. status \in {"none", "blocked", "passed", "failed"} /\ earned \in BOOLEAN
        BY <3>1, <3>5
      <4> QED  BY <3>2, <4>1, <4>2 DEF Evaluation!Reports
    <3>7. run.done = 4  BY <3>3 DEF EvaluationHolds, StageOf
    <3>8. ASSUME status = "passed"  PROVE earned
      <4>1. run.stable  BY <3>1, <3>8 DEF Evaluation!OverallPass
      <4>2. run.ended /\ run.read # {}
            /\ \A x \in run.read : run.inputs <= x /\ x <= run.inputs
        BY <3>3, <4>1 DEF EvaluationHolds, InputsOf
      <4>3. \A x \in run.read : x = run.inputs  BY <1>1, <4>2 DEF RunRows
      <4>4. run.code # {} /\ (~run.moved => \A c \in run.code : c = <<run.inputs, run.env>>)
        BY <3>3 DEF EvaluationHolds, CodeOf
      <4>5. run.code = {<<run.inputs, run.env>>} \/ run.moved
        <5>1. CASE run.moved  BY <5>1
        <5>2. CASE ~run.moved  BY <4>4, <5>2
        <5> QED  BY <5>1, <5>2
      <4> QED  BY <3>1, <4>2, <4>3, <4>5 DEF Evaluation!Earned
    <3> QED  BY <3>3, <3>4, <3>5, <3>6, <3>7, <3>8
  <2>2. CASE Evaluation!Block
    <3>1. report' = [status |-> "blocked", inputs |-> world.inputs, env |-> run.env,
                     earned |-> FALSE]
      BY <2>2 DEF Evaluation!Block
    <3> QED  BY <1>1, <3>1 DEF Evaluation!Reports, RunRows, WorldRows
  <2> QED  BY <2>1, <2>2
<1>7. ShapeOf(world', drifts', run', report', published')
  BY <1>1, <1>3, <1>5, <1>6 DEF ShapeOf
<1>8. StageOf(run', report')  BY <1>3, <1>4, <1>6 DEF EvaluationHolds, StageOf
<1>9. InputsOf(world', run', report', published')
  BY <1>1, <1>3, <1>4, <1>6 DEF EvaluationHolds, InputsOf
<1>10. CodeOf(world', run')  BY <1>3, <1>4 DEF CodeOf
<1> QED  BY <1>3, <1>4, <1>7, <1>8, <1>9, <1>10 DEF EvaluationHolds

\* The evaluation is over, with a report or without.
LEMMA EndStep ==
    ASSUME EvaluationHolds, Evaluation!Write \/ Evaluation!RecoveryFails
    PROVE  EvaluationHolds'
<1>1. /\ UNCHANGED <<world, report, drifts>>
      /\ world \in WorldRows /\ world.inputs <= drifts /\ drifts \in Nat
      /\ report \in Evaluation!Reports /\ published \in Evaluation!Reports
      /\ run' = Evaluation!Fresh("ended")
      /\ (run.at = "built" /\ published' = report) \/ published' = published
  BY DEF EvaluationHolds, ShapeOf, Evaluation!Write, Evaluation!RecoveryFails
<1>2. PICK row : row = Evaluation!Fresh("ended") /\ run' = row  BY <1>1
<1>3. /\ row \in RunRows /\ row.at = "ended" /\ row.done = 0 /\ row.read = {}
      /\ CompletedBy(row.stage) = 0 /\ CountersOf(row.done, row.task, row.total)
      /\ row.code = {}
  BY <1>2, FreshRun
<1>4. ShapeOf(world', drifts', run', report', published')  BY <1>1, <1>2, <1>3 DEF ShapeOf
<1>5. StageOf(run', report')  BY <1>2, <1>3 DEF StageOf
<1>6. InputsOf(world', run', report', published')
  BY <1>1, <1>2, <1>3 DEF EvaluationHolds, InputsOf
<1>7. CodeOf(world', run')  BY <1>2, <1>3 DEF CodeOf
<1> QED  BY <1>2, <1>3, <1>4, <1>5, <1>6, <1>7 DEF EvaluationHolds

\* Something changes under the run, which only the history of it notices.
LEMMA DriftStep ==
    ASSUME EvaluationHolds, Evaluation!Drift  PROVE EvaluationHolds'
<1>1. /\ UNCHANGED <<report, published>>
      /\ world \in WorldRows /\ world.inputs <= drifts /\ drifts \in Nat
      /\ run \in RunRows /\ report \in Evaluation!Reports /\ published \in Evaluation!Reports
      /\ drifts' = drifts + 1
  BY DEF EvaluationHolds, ShapeOf, Evaluation!Drift
<1>2. world' \in WorldRows /\ world.inputs <= world'.inputs /\ world'.inputs <= drifts'
  <2>1. CASE world' = [world EXCEPT !.inputs = drifts + 1]  BY <1>1, <2>1 DEF WorldRows
  <2>2. CASE world' = [world EXCEPT !.env = drifts + 1]  BY <1>1, <2>2 DEF WorldRows
  <2>3. CASE world' = [world EXCEPT !.model = IF @ = "exact" THEN "other" ELSE "exact"]
    BY <1>1, <2>3 DEF WorldRows
  <2> QED  BY <2>1, <2>2, <2>3 DEF Evaluation!Drift
<1>3. PICK moved \in BOOLEAN :
        /\ run' = [run EXCEPT !.moved = moved]
        /\ run.moved => moved
        /\ \/ /\ world' = [world EXCEPT !.inputs = drifts + 1]
              /\ run.at \in {"start", "preflight"} /\ run.code # {} => moved
           \/ /\ world' = [world EXCEPT !.env = drifts + 1]
              /\ run.at \in {"start", "preflight", "load"} /\ run.code # {} => moved
           \/ world'.inputs = world.inputs /\ world'.env = world.env
  <2>1. CASE /\ world' = [world EXCEPT !.inputs = drifts + 1]
             /\ run' = [run EXCEPT !.moved = @ \/ Evaluation!Hidden({"start", "preflight"})]
    <3>1. PICK moved \in BOOLEAN :
            moved = (run.moved \/ (run.at \in {"start", "preflight"} /\ run.code # {}))
      BY <1>1 DEF RunRows
    <3>2. run' = [run EXCEPT !.moved = moved]  BY <1>1, <2>1, <3>1 DEF Evaluation!Hidden, RunRows
    <3> QED  BY <2>1, <3>1, <3>2
  <2>2. CASE /\ world' = [world EXCEPT !.env = drifts + 1]
             /\ run' = [run EXCEPT !.moved =
                          @ \/ Evaluation!Hidden({"start", "preflight", "load"})]
    <3>1. PICK moved \in BOOLEAN :
            moved = (run.moved \/ (run.at \in {"start", "preflight", "load"} /\ run.code # {}))
      BY <1>1 DEF RunRows
    <3>2. run' = [run EXCEPT !.moved = moved]  BY <1>1, <2>2, <3>1 DEF Evaluation!Hidden, RunRows
    <3> QED  BY <2>2, <3>1, <3>2
  <2>3. CASE /\ world' = [world EXCEPT !.model = IF @ = "exact" THEN "other" ELSE "exact"]
             /\ UNCHANGED run
    <3>1. run.moved \in BOOLEAN /\ run = [run EXCEPT !.moved = run.moved]
      BY <1>1 DEF RunRows
    <3>2. world'.inputs = world.inputs /\ world'.env = world.env
      BY <1>1, <2>3 DEF WorldRows
    <3> QED  BY <2>3, <3>1, <3>2
  <2> QED  BY <2>1, <2>2, <2>3 DEF Evaluation!Drift
<1>4. PICK row : row = [run EXCEPT !.moved = moved] /\ run' = row  BY <1>3
<1>5. /\ row.at = run.at /\ row.stage = run.stage /\ row.done = run.done
      /\ row.inputs = run.inputs /\ row.env = run.env /\ row.code = run.code
      /\ row.moved = moved /\ row.read = run.read /\ row.stable = run.stable
      /\ row.ended = run.ended /\ row.task = run.task /\ row.total = run.total
  BY <1>1, <1>4 DEF RunRows
<1>6. row \in RunRows  BY <1>1, <1>4 DEF RunRows
<1>7. ShapeOf(world', drifts', run', report', published')
  BY <1>1, <1>2, <1>4, <1>6 DEF ShapeOf
<1>8. StageOf(run', report')  BY <1>1, <1>4, <1>5 DEF EvaluationHolds, StageOf
<1>9. CountersOf(run'.done, run'.task, run'.total)  BY <1>4, <1>5 DEF EvaluationHolds
<1>10. InputsOf(world', run', report', published')
  <2>1. run.inputs \in Nat /\ run.read \subseteq Nat /\ world.inputs \in Nat
        /\ world'.inputs \in Nat
    BY <1>1, <1>2 DEF RunRows, WorldRows
  <2>2. \A x \in run.read : x <= world.inputs => x <= world'.inputs  BY <1>2, <2>1
  <2>3. run.inputs <= world.inputs => run.inputs <= world'.inputs  BY <1>2, <2>1
  <2> QED  BY <1>1, <1>4, <1>5, <2>2, <2>3 DEF EvaluationHolds, InputsOf
<1>11. CodeOf(world', run')
  <2>1. CASE moved
    BY <1>4, <1>5, <2>1 DEF EvaluationHolds, CodeOf
  <2>2. CASE ~moved
    <3>1. ~run.moved  BY <1>3, <2>2
    <3>2. ASSUME NEW c \in run.code
          PROVE  /\ run.at \in {"start", "preflight"} => c = <<world'.inputs, world'.env>>
                 /\ run.at = "load" => c = <<run.inputs, world'.env>>
                 /\ run.at \in {"row", "final", "aggregate"} => c = <<run.inputs, run.env>>
      <4>1. run.at \in {"start", "preflight"} =>
              c = <<world.inputs, world.env>> /\ world'.inputs = world.inputs
              /\ world'.env = world.env
        BY <1>3, <2>2, <3>1, <3>2 DEF EvaluationHolds, CodeOf
      <4>2. run.at = "load" => c = <<run.inputs, world.env>> /\ world'.env = world.env
        BY <1>1, <1>3, <2>2, <3>1, <3>2 DEF EvaluationHolds, CodeOf, WorldRows
      <4> QED  BY <3>1, <3>2, <4>1, <4>2 DEF EvaluationHolds, CodeOf
    <3> QED  BY <1>4, <1>5, <3>2 DEF EvaluationHolds, CodeOf
  <2> QED  BY <2>1, <2>2
<1> QED  BY <1>7, <1>8, <1>9, <1>10, <1>11 DEF EvaluationHolds

\* A report that was built is one its own validator accepts.
LEMMA BuiltIsConsistent ==
    ASSUME EvaluationHolds, run.at = "built"  PROVE Evaluation!ReportConsistent
<1>1. run \in RunRows /\ Evaluation!Sound(run.total) /\ CompletedBy(run.stage) = run.done
  BY DEF EvaluationHolds, ShapeOf, StageOf, CountersOf
<1>2. \A t \in 1 .. run.done : Evaluation!TaskValid(t, run.task[t])
  BY DEF EvaluationHolds, CountersOf
<1>3. ASSUME NEW f \in Evaluation!Inference
      PROVE  /\ Evaluation!Completed(f) <= run.total[f]
             /\ run.done = 4 => Evaluation!Completed(f) = run.total[f]
  <2>1. f \in Evaluation!Counters  BY DEF Evaluation!Inference, Evaluation!Counters
  <2>2. run.total[f] = run.task[1][f] + run.task[2][f] + run.task[3][f] + run.task[4][f]
    BY <2>1 DEF EvaluationHolds, CountersOf
  <2>3. /\ run.task[1][f] \in Nat /\ run.task[2][f] \in Nat /\ run.task[3][f] \in Nat
        /\ run.task[4][f] \in Nat
    BY <1>1, <2>1 DEF RunRows, Evaluation!Counts
  <2>4. run.done \in Nat  BY <1>1 DEF RunRows
  <2>5. PICK a, b, c, d :
          /\ a = IF 1 <= run.done THEN run.task[1][f] ELSE 0
          /\ b = IF 2 <= run.done THEN run.task[2][f] ELSE 0
          /\ c = IF 3 <= run.done THEN run.task[3][f] ELSE 0
          /\ d = IF 4 <= run.done THEN run.task[4][f] ELSE 0
    OBVIOUS
  <2>6. Evaluation!Completed(f) = a + b + c + d  BY <2>5, Zenon DEF Evaluation!Completed
  <2>7. a + b + c + d <= run.total[f] /\ (run.done = 4 => a + b + c + d = run.total[f])
    BY <2>2, <2>3, <2>4, <2>5
  <2> QED  BY <2>6, <2>7
<1>4. Evaluation!InferenceValid  BY <1>1 DEF Evaluation!Sound, Evaluation!InferenceValid
<1>5. CASE report.status = "blocked"
  BY <1>1, <1>2, <1>3, <1>4, <1>5, StageCounts
  DEF Evaluation!ReportConsistent, Evaluation!BlockedReportValid
<1>6. CASE report.status # "blocked"
  <2>1. run.done = 4  BY <1>6 DEF EvaluationHolds, StageOf
  <2> QED
    BY <1>2, <1>3, <1>4, <1>6, <2>1
    DEF Evaluation!ReportConsistent, Evaluation!CompletedReportValid
<1> QED  BY <1>5, <1>6

\* The registry lets the model work only on a report that was earned, by these
\* datasets and, unless a change fell between the imports and the attestation,
\* this code; and a report that an evaluation built is one its validator
\* accepts: whatever the rows, the thresholds, what the model makes of a row
\* and what changes in the hours of the run
\* (scripts/evaluate_v4_local_model_qualification.py).
THEOREM ReportsAreHonest == Evaluation!Spec => []Evaluation!QualificationIsHonest
<1>1. Evaluation!Init => Evaluation!EvaluationInv
  <2> SUFFICES ASSUME Evaluation!Init PROVE EvaluationHolds
    BY EvaluationParts DEF EvaluationHolds
  <2>1. PICK row : row = Evaluation!Fresh("start") /\ run = row  BY DEF Evaluation!Init
  <2>2. /\ row \in RunRows /\ row.at = "start" /\ row.done = 0 /\ row.read = {}
        /\ CompletedBy(row.stage) = 0 /\ CountersOf(row.done, row.task, row.total)
        /\ row.code = {}
    BY <2>1, FreshRun
  <2>3. /\ world \in WorldRows /\ world.inputs = 0 /\ drifts = 0
        /\ report \in Evaluation!Reports /\ published = report /\ report.status = "none"
    BY DEF Evaluation!Init, Evaluation!NoReport, Evaluation!Reports, WorldRows
  <2>4. ShapeOf(world, drifts, run, report, published)  BY <2>1, <2>2, <2>3 DEF ShapeOf
  <2>5. StageOf(run, report)  BY <2>1, <2>2 DEF StageOf
  <2>6. InputsOf(world, run, report, published)  BY <2>1, <2>2, <2>3 DEF InputsOf
  <2>7. CodeOf(world, run)  BY <2>1, <2>2 DEF CodeOf
  <2> QED  BY <2>1, <2>2, <2>4, <2>5, <2>6, <2>7 DEF EvaluationHolds
<1>2. Evaluation!EvaluationInv /\ [Evaluation!Next]_(Evaluation!vars)
        => Evaluation!EvaluationInv'
  <2> SUFFICES ASSUME EvaluationHolds, [Evaluation!Next]_(Evaluation!vars)
               PROVE  EvaluationHolds'
    BY EvaluationParts DEF EvaluationHolds
  <2>1. CASE UNCHANGED Evaluation!vars
    BY <2>1 DEF EvaluationHolds, Evaluation!vars
  <2>2. CASE Evaluation!Next
    BY <2>2, ImportStep, SettingOff, RowStep, FinishTaskStep, ReportStep, EndStep, DriftStep
    DEF Evaluation!Next
  <2> QED  BY <2>1, <2>2
<1>3. Evaluation!EvaluationInv => Evaluation!QualificationIsHonest
  <2> SUFFICES ASSUME EvaluationHolds PROVE Evaluation!QualificationIsHonest
    BY EvaluationParts DEF EvaluationHolds
  <2>1. Evaluation!QualifiedIsEarned
    BY DEF EvaluationHolds, InputsOf, Evaluation!QualifiedIsEarned, Evaluation!Qualified
  <2> QED
    BY <2>1, BuiltIsConsistent
    DEF Evaluation!QualificationIsHonest, Evaluation!HonestReportValid
<1> QED  BY <1>1, <1>2, <1>3, PTL DEF Evaluation!Spec

----------------------------------------------------------------------------
(* What follows for a behaviour of Host: of the part in focus it is a      *)
(* behaviour, and no step leaves the focus.                                *)

LEMMA InferenceFocus ==
    /\ HostInit /\ focus = "inference" => Inference!Init
    /\ [HostNext]_hostVars /\ focus = "inference" => [Inference!Next]_(Inference!vars)
    /\ [HostNext]_hostVars /\ focus = "inference" /\ UNCHANGED Inference!vars
         => UNCHANGED hostVars
    /\ [HostNext]_hostVars => (focus = "inference" <=> (focus = "inference")')
<1>1. HostInit /\ focus = "inference" => Inference!Init  BY DEF HostInit
<1>2. [HostNext]_hostVars /\ focus = "inference" => [Inference!Next]_(Inference!vars)
  BY DEF HostNext, hostVars, slots, Inference!vars
<1>3. [HostNext]_hostVars /\ focus = "inference" /\ UNCHANGED Inference!vars
        => UNCHANGED hostVars
  BY DEF HostNext, hostVars, slots, Inference!vars
<1>4. [HostNext]_hostVars => (focus = "inference" <=> (focus = "inference")')
  BY DEF HostNext, hostVars
<1> QED  BY <1>1, <1>2, <1>3, <1>4

LEMMA RemoteKillFocus ==
    /\ HostInit /\ focus = "kill" => RemoteKill!Init
    /\ [HostNext]_hostVars /\ focus = "kill" => [RemoteKill!Next]_(RemoteKill!killVars)
    /\ [HostNext]_hostVars /\ focus = "kill" /\ UNCHANGED RemoteKill!killVars
         => UNCHANGED hostVars
    /\ [HostNext]_hostVars => (focus = "kill" <=> (focus = "kill")')
<1>1. HostInit /\ focus = "kill" => RemoteKill!Init  BY DEF HostInit
<1>2. [HostNext]_hostVars /\ focus = "kill" => [RemoteKill!Next]_(RemoteKill!killVars)
  BY DEF HostNext, hostVars, slots, RemoteKill!killVars
<1>3. [HostNext]_hostVars /\ focus = "kill" /\ UNCHANGED RemoteKill!killVars
        => UNCHANGED hostVars
  BY DEF HostNext, hostVars, slots, RemoteKill!killVars
<1>4. [HostNext]_hostVars => (focus = "kill" <=> (focus = "kill")')
  BY DEF HostNext, hostVars
<1> QED  BY <1>1, <1>2, <1>3, <1>4

LEMMA ClipboardFocus ==
    /\ HostInit /\ focus = "clipboard" => Clipboard!Init
    /\ [HostNext]_hostVars /\ focus = "clipboard" => [Clipboard!Next]_(Clipboard!vars)
    /\ [HostNext]_hostVars /\ focus = "clipboard" /\ UNCHANGED Clipboard!vars
         => UNCHANGED hostVars
    /\ [HostNext]_hostVars => (focus = "clipboard" <=> (focus = "clipboard")')
<1>1. HostInit /\ focus = "clipboard" => Clipboard!Init  BY DEF HostInit
<1>2. [HostNext]_hostVars /\ focus = "clipboard" => [Clipboard!Next]_(Clipboard!vars)
  BY DEF HostNext, hostVars, slots, Clipboard!vars
<1>3. [HostNext]_hostVars /\ focus = "clipboard" /\ UNCHANGED Clipboard!vars
        => UNCHANGED hostVars
  BY DEF HostNext, hostVars, slots, Clipboard!vars
<1>4. [HostNext]_hostVars => (focus = "clipboard" <=> (focus = "clipboard")')
  BY DEF HostNext, hostVars
<1> QED  BY <1>1, <1>2, <1>3, <1>4

LEMMA GuardsFocus ==
    /\ HostInit /\ focus = "guards" => Guards!Init
    /\ [HostNext]_hostVars /\ focus = "guards" => [Guards!Next]_(Guards!guardVars)
    /\ [HostNext]_hostVars /\ focus = "guards" /\ UNCHANGED Guards!guardVars
         => UNCHANGED hostVars
    /\ [HostNext]_hostVars => (focus = "guards" <=> (focus = "guards")')
<1>1. HostInit /\ focus = "guards" => Guards!Init  BY DEF HostInit
<1>2. [HostNext]_hostVars /\ focus = "guards" => [Guards!Next]_(Guards!guardVars)
  BY DEF HostNext, hostVars, slots, Guards!guardVars
<1>3. [HostNext]_hostVars /\ focus = "guards" /\ UNCHANGED Guards!guardVars
        => UNCHANGED hostVars
  BY DEF HostNext, hostVars, slots, Guards!guardVars
<1>4. [HostNext]_hostVars => (focus = "guards" <=> (focus = "guards")')
  BY DEF HostNext, hostVars
<1> QED  BY <1>1, <1>2, <1>3, <1>4

LEMMA BridgeFocus ==
    /\ HostInit /\ focus = "bridge" => Bridge!Init
    /\ [HostNext]_hostVars /\ focus = "bridge" => [Bridge!Next]_(Bridge!bridgeVars)
    /\ [HostNext]_hostVars /\ focus = "bridge" /\ UNCHANGED Bridge!bridgeVars
         => UNCHANGED hostVars
    /\ [HostNext]_hostVars => (focus = "bridge" <=> (focus = "bridge")')
<1>1. HostInit /\ focus = "bridge" => Bridge!Init  BY DEF HostInit
<1>2. [HostNext]_hostVars /\ focus = "bridge" => [Bridge!Next]_(Bridge!bridgeVars)
  BY DEF HostNext, hostVars, slots, Bridge!bridgeVars
<1>3. [HostNext]_hostVars /\ focus = "bridge" /\ UNCHANGED Bridge!bridgeVars
        => UNCHANGED hostVars
  BY DEF HostNext, hostVars, slots, Bridge!bridgeVars
<1>4. [HostNext]_hostVars => (focus = "bridge" <=> (focus = "bridge")')
  BY DEF HostNext, hostVars
<1> QED  BY <1>1, <1>2, <1>3, <1>4

LEMMA IdentityFocus ==
    /\ HostInit /\ focus = "identity" => Identity!Init
    /\ [HostNext]_hostVars /\ focus = "identity" => [Identity!Next]_(Identity!vars)
    /\ [HostNext]_hostVars /\ focus = "identity" /\ UNCHANGED Identity!vars
         => UNCHANGED hostVars
    /\ [HostNext]_hostVars => (focus = "identity" <=> (focus = "identity")')
<1>1. HostInit /\ focus = "identity" => Identity!Init  BY DEF HostInit
<1>2. [HostNext]_hostVars /\ focus = "identity" => [Identity!Next]_(Identity!vars)
  BY DEF HostNext, hostVars, slots, Identity!vars
<1>3. [HostNext]_hostVars /\ focus = "identity" /\ UNCHANGED Identity!vars
        => UNCHANGED hostVars
  BY DEF HostNext, hostVars, slots, Identity!vars
<1>4. [HostNext]_hostVars => (focus = "identity" <=> (focus = "identity")')
  BY DEF HostNext, hostVars
<1> QED  BY <1>1, <1>2, <1>3, <1>4

LEMMA EvaluationFocus ==
    /\ HostInit /\ focus = "evaluation" => Evaluation!Init
    /\ [HostNext]_hostVars /\ focus = "evaluation" => [Evaluation!Next]_(Evaluation!vars)
    /\ [HostNext]_hostVars /\ focus = "evaluation" /\ UNCHANGED Evaluation!vars
         => UNCHANGED hostVars
    /\ [HostNext]_hostVars => (focus = "evaluation" <=> (focus = "evaluation")')
<1>1. HostInit /\ focus = "evaluation" => Evaluation!Init  BY DEF HostInit
<1>2. [HostNext]_hostVars /\ focus = "evaluation" => [Evaluation!Next]_(Evaluation!vars)
  BY DEF HostNext, hostVars, slots, Evaluation!vars
<1>3. [HostNext]_hostVars /\ focus = "evaluation" /\ UNCHANGED Evaluation!vars
        => UNCHANGED hostVars
  BY DEF HostNext, hostVars, slots, Evaluation!vars
<1>4. [HostNext]_hostVars => (focus = "evaluation" <=> (focus = "evaluation")')
  BY DEF HostNext, hostVars
<1> QED  BY <1>1, <1>2, <1>3, <1>4

\* One generation at a time on the host, none while the circuit is open, and no lock
\* that its call will not give back (InferenceRuntime).
THEOREM InferenceInvariant == HostSpec => []InferenceInv
<1>1. Inference!Spec => []Inference!InferenceInv  BY HostAssumption, ModelIsShared
<1> QED  BY <1>1, InferenceFocus, PTL DEF HostSpec, Inference!Spec, InferenceInv

\* The registry only enables the model on a report that was earned, by these datasets
\* and this code unless a change fell between the imports and the attestation, and
\* every report that was built passes its own validator (ModelQualification).
THEOREM ModelIsQualified == HostSpec => []QualificationIsHonest
<1>1. Evaluation!Spec => []Evaluation!QualificationIsHonest  BY ReportsAreHonest
<1> QED  BY <1>1, EvaluationFocus, PTL DEF HostSpec, Evaluation!Spec, QualificationIsHonest

\* What current.json names is whole, and the control plane starts on the values of one
\* identity (IdentityProvisioning).
THEOREM IdentityWhole == HostSpec => []IdentityIsWhole
<1>1. Identity!Spec => []Identity!IdentityIsWhole  BY HostAssumption, WholeVersions
<1> QED  BY <1>1, IdentityFocus, PTL DEF HostSpec, Identity!Spec, IdentityIsWhole

\* One process drives a browser profile but for the takeover of another file than the one
\* it judged, and no two dashboards overlap (HostGuards).
THEOREM HostLocks == HostSpec => []HostLocksExclude
<1>1. Guards!Spec => []Guards!HostLocksExclude  BY HostAssumption, LocksExclude
<1> QED  BY <1>1, GuardsFocus, PTL DEF HostSpec, Guards!Spec, HostLocksExclude

\* An item is forwarded once, by the one scheduler the bridge holds (WhatsAppBridge).
THEOREM BridgeIsSingle == HostSpec => []BridgeStaysSingle
<1>1. Bridge!Spec => []Bridge!BridgeStaysSingle  BY HostAssumption, OneBridge
<1> QED  BY <1>1, BridgeFocus, PTL DEF HostSpec, Bridge!Spec, BridgeStaysSingle

\* The cleanup takes off its own token and nothing else, and an orderly end leaves none
\* unless it could not read it back (TokenClipboard).
THEOREM TokenIsGivenBack == HostSpec => ClipboardGivenBack
<1>1. Clipboard!Spec
        => [][(Clipboard!NoTokenLeft)' /\ Clipboard!ForeignClipboardKept]_(Clipboard!vars)
  BY HostAssumption, CopiesAreCleared DEF Clipboard!ClipboardGivenBack
<1>2. [HostNext]_hostVars
    /\ (focus = "clipboard" =>
            [(Clipboard!NoTokenLeft)' /\ Clipboard!ForeignClipboardKept]_(Clipboard!vars))
        => [focus = "clipboard" => (Clipboard!NoTokenLeft)' /\ Clipboard!ForeignClipboardKept]_hostVars
  BY ClipboardFocus
<1> QED  BY <1>1, <1>2, ClipboardFocus, PTL DEF HostSpec, Clipboard!Spec, ClipboardGivenBack

\* A remote stop shown as acknowledged is in force unless the operator cleared it, and a
\* cleared one does not come back (KillRelay).
THEOREM RemoteStop == HostSpec => RemoteStopHolds
<1>1. RemoteKill!Spec
        => [][(RemoteKill!AcknowledgedStopIsReal)' /\ RemoteKill!ClearedStaysCleared]_(RemoteKill!killVars)
  BY StopIsRelayed DEF RemoteKill!RemoteStopHolds
<1>2. [HostNext]_hostVars
    /\ (focus = "kill" =>
            [(RemoteKill!AcknowledgedStopIsReal)' /\ RemoteKill!ClearedStaysCleared]_(RemoteKill!killVars))
        => [focus = "kill" => (RemoteKill!AcknowledgedStopIsReal)' /\ RemoteKill!ClearedStaysCleared]_hostVars
  BY RemoteKillFocus
<1> QED  BY <1>1, <1>2, RemoteKillFocus, PTL DEF HostSpec, RemoteKill!Spec, RemoteStopHolds

=============================================================================
