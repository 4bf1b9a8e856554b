------------------------------- MODULE Governor -------------------------------
(***************************************************************************)
(* The shared rate governor (core/governor.py): the last gate before the   *)
(* commit boundary.  Workers of several processes reserve final actions    *)
(* with optimistic transactions over Redis (WATCH, read, MULTI, EXEC) while*)
(* the operator throws the kill switch, a browser challenge trips the      *)
(* cooldown, and midnight changes the key the daily budget is kept under.  *)
(*                                                                         *)
(* Every Redis command of the loop is a step of its own, except that the   *)
(* reads of one kind are taken together: all of them are of watched keys   *)
(* but the budget of a day that began after the call did.  What the        *)
(* transaction carries, the key it charges and the end of the gap, is fixed*)
(* when it is queued; the clock runs on until it is executed.              *)
(***************************************************************************)
EXTENDS Naturals

CONSTANTS
    Attempts,      \* reservation ids: attempt-<id>
    LinkedIn,      \* the attempts of the platform with a budget and a gap
    Workers,
    Sessions,      \* browser sessions that may meet a challenge
    NoAttempt,
    DailyCap,      \* linkedin_daily_cap
    MinGap, MaxGap,   \* linkedin_min_gap_s, linkedin_max_gap_s
    FirstCooldown, MaxCooldown,   \* 6 and 48 hours
    MaxTries,      \* 5 rounds of the optimistic loop
    MaxDays,       \* bound: days
    MaxTrips,      \* bound: challenges counted
    MaxCalls       \* bound: calls of reserve_final_action

ASSUME GovernorAssumption ==
    /\ LinkedIn \subseteq Attempts /\ NoAttempt \notin Attempts
    /\ DailyCap \in Nat \ {0} /\ MinGap \in Nat \ {0} /\ MaxGap \in Nat /\ MinGap <= MaxGap
    /\ FirstCooldown \in Nat \ {0} /\ MaxCooldown \in Nat /\ FirstCooldown <= MaxCooldown
    /\ MaxTries \in Nat \ {0} /\ MaxDays \in Nat \ {0} /\ MaxTrips \in Nat /\ MaxCalls \in Nat

\* Arithmetic the provers do not know: powers of two are natural numbers.
ASSUME PowersAssumption == \A n \in 0 .. MaxTrips : FirstCooldown * 2^n \in Nat

VARIABLES
    today,         \* the day _day_key names
    used,          \* li:apps:<day>
    gapLeft,       \* until li:next_action_at
    killed,        \* li:kill
    cooldownLeft,  \* until li:cooldown_until
    trips,         \* li:trips
    reserved,      \* the submit:reservation:* keys; each outlives (24 h) its attempt's claim
    caller,        \* workers inside reserve_final_action
    queued,        \* what a caller's transaction carries of the gap
    session,       \* trips a session has read and not yet written, plus 1; or 0
    sinceLast,     \* history: time since the last LinkedIn reservation, up to MinGap
    lastStall,     \* history: how long its transaction had been queued, until MinGap has passed
    calls          \* calls so far

vars == <<today, used, gapLeft, killed, cooldownLeft, trips, reserved, caller, queued,
          session, sinceLast, lastStall, calls>>

Days == 1 .. MaxDays

PCs == {"idle", "watch", "read", "budget", "queue", "exec", "granted", "denied"}

Caller ==
    [pc : PCs,
     attempt : Attempts \cup {NoAttempt},
     tries : 0 .. MaxTries,
     watchedDay : Days,          \* the budget key in the watch list
     readDay : Days,             \* the day of the last read; of a queued INCR, the day it charges
     dirty : BOOLEAN,            \* a watched key was written since WATCH
     killedThroughout : BOOLEAN] \* history: the kill switch was on since the call began

Queued == [gap : 0 .. MaxGap,    \* until the end of the gap the transaction will set
           stall : 0 .. MinGap]  \* history: time since that end was computed

GovernorTypeOK ==
    /\ today \in Days /\ used \in [Days -> Nat]
    /\ gapLeft \in 0 .. MaxGap /\ killed \in BOOLEAN
    /\ cooldownLeft \in 0 .. MaxCooldown /\ trips \in 0 .. MaxTrips
    /\ reserved \subseteq Attempts
    /\ caller \in [Workers -> Caller]
    /\ queued \in [Workers -> Queued]
    /\ session \in [Sessions -> 0 .. MaxTrips]
    /\ sinceLast \in 0 .. MinGap /\ lastStall \in 0 .. MinGap
    /\ calls \in 0 .. MaxCalls

Outside == [pc |-> "idle", attempt |-> NoAttempt, tries |-> 0, watchedDay |-> 1,
            readDay |-> 1, dirty |-> FALSE, killedThroughout |-> FALSE]
NotQueued == [gap |-> 0, stall |-> 0]

Init ==
    /\ today = 1 /\ used = [d \in Days |-> 0]
    /\ gapLeft = 0 /\ killed = FALSE /\ cooldownLeft = 0 /\ trips = 0
    /\ reserved = {}
    /\ caller = [w \in Workers |-> Outside]
    /\ queued = [w \in Workers |-> NotQueued]
    /\ session = [s \in Sessions |-> 0]
    /\ sinceLast = MinGap /\ lastStall = 0 /\ calls = 0

-----------------------------------------------------------------------------
(***************************************************************************)
(* WATCH.                                                                  *)
(***************************************************************************)
Watching(w) == caller[w].pc \in {"read", "budget", "queue", "exec"}

\* Callers after someone wrote the reservation of attempt a (NoAttempt for none),
\* the budgets of `days` and the other keys in `keys`.
Disturbed(a, days, keys) ==
    LET Watched(w) == \/ keys \cap {"kill", "cooldown"} # {}
                      \/ a # NoAttempt /\ caller[w].attempt = a
                      \/ caller[w].attempt \in LinkedIn
                           /\ ("gap" \in keys \/ caller[w].watchedDay \in days)
    IN  [w \in Workers |-> [caller[w] EXCEPT !.dirty = @ \/ (Watching(w) /\ Watched(w))]]

-----------------------------------------------------------------------------
(***************************************************************************)
(* reserve_final_action and _reserve_shared.                               *)
(***************************************************************************)

\* The watch list is made once, before the loop.  Two workers may hold the same
\* attempt for a while (a redelivered claim).
Call(w, a) ==
    /\ caller[w].pc = "idle" /\ calls < MaxCalls
    /\ calls' = calls + 1
    /\ caller' = [caller EXCEPT ![w] = [pc |-> "watch", attempt |-> a, tries |-> 0,
                                        watchedDay |-> today, readDay |-> today,
                                        dirty |-> FALSE, killedThroughout |-> killed]]
    /\ UNCHANGED <<today, used, gapLeft, killed, cooldownLeft, trips, reserved, queued,
                   session, sinceLast, lastStall>>

\* A call that has its answer; what the loop knew is gone.
Out(w, pc) ==
    [Outside EXCEPT !.pc = pc, !.attempt = caller[w].attempt,
                    !.killedThroughout = caller[w].killedThroughout]

\* Each outcome of a step that only reads.
Answer(w, pc) ==
    /\ caller' = [caller EXCEPT ![w] = IF pc \in {"granted", "denied"} THEN Out(w, pc)
                                       ELSE [@ EXCEPT !.pc = pc, !.readDay = today]]
    /\ UNCHANGED <<today, used, gapLeft, killed, cooldownLeft, trips, reserved, queued,
                   session, sinceLast, lastStall, calls>>

\* It is outside active hours.
OutsideHours(w) == caller[w].pc = "watch" /\ caller[w].tries = 0 /\ Answer(w, "denied")

Watch(w) ==
    /\ caller[w].pc = "watch"
    /\ caller' = [caller EXCEPT ![w].pc = "read", ![w].dirty = FALSE]
    /\ UNCHANGED <<today, used, gapLeft, killed, cooldownLeft, trips, reserved, queued,
                   session, sinceLast, lastStall, calls>>

\* Mutant: an existing reservation is honoured before the stops are looked at.
Fault_ReadStops(w) ==
    LET a == caller[w].attempt
    IN  /\ caller[w].pc = "read"
        /\ Answer(w, IF a \in reserved THEN "granted"
                     ELSE IF killed \/ cooldownLeft > 0 THEN "denied"
                     ELSE IF a \in LinkedIn THEN "budget" ELSE "exec")

\* Mutant: a repeated call does not look for the reservation it already has.
Fault_ReadStopsForgetful(w) ==
    /\ caller[w].pc = "read"
    /\ Answer(w, IF killed \/ cooldownLeft > 0 THEN "denied"
                 ELSE IF caller[w].attempt \in LinkedIn THEN "budget" ELSE "exec")

\* The stops come first; an attempt that has its reservation keeps it.
ReadStops(w) ==
    LET a == caller[w].attempt
    IN  /\ caller[w].pc = "read"
        /\ Answer(w, IF killed \/ cooldownLeft > 0 THEN "denied"
                     ELSE IF a \in reserved THEN "granted"
                     ELSE IF a \in LinkedIn THEN "budget" ELSE "exec")

\* The budget is read under the key of the day it is now.
ReadBudget(w) ==
    /\ caller[w].pc = "budget"
    /\ Answer(w, IF used[today] >= DailyCap \/ gapLeft > 0 THEN "denied" ELSE "queue")

\* MULTI: the INCR names the key of some day since the last read, and the end of the
\* gap is counted from this moment, whenever the EXEC will be.
Queue(w) ==
    /\ caller[w].pc = "queue"
    /\ \E d \in caller[w].readDay .. today :
           caller' = [caller EXCEPT ![w].pc = "exec", ![w].readDay = d]
    /\ \E g \in MinGap .. MaxGap : queued' = [queued EXCEPT ![w] = [gap |-> g, stall |-> 0]]
    /\ UNCHANGED <<today, used, gapLeft, killed, cooldownLeft, trips, reserved, session,
                   sinceLast, lastStall, calls>>

\* Mutant: the transaction is not optimistic; it executes whatever happened.
Fault_Clean(w) == TRUE

\* EXEC succeeds only when no watched key was written since WATCH.
Clean(w) == ~caller[w].dirty

Granted(w, days, keys) ==
    [Disturbed(caller[w].attempt, days, keys) EXCEPT ![w] = Out(w, "granted")]

\* Mutant: the gap is not established at the boundary.
Fault_ExecLinkedIn(w) ==
    LET a == caller[w].attempt
    IN  /\ caller[w].pc = "exec" /\ Clean(w) /\ a \in LinkedIn
        /\ reserved' = reserved \cup {a}
        /\ used' = [used EXCEPT ![caller[w].readDay] = @ + 1]
        /\ caller' = Granted(w, {caller[w].readDay}, {})
        /\ sinceLast' = 0 /\ lastStall' = queued[w].stall
        /\ queued' = [queued EXCEPT ![w] = NotQueued]
        /\ UNCHANGED <<today, gapLeft, killed, cooldownLeft, trips, session, calls>>

\* EXEC: the reservation, the budget and the gap are written in one transaction, with
\* what is left of the gap by now.
ExecLinkedIn(w) ==
    LET a == caller[w].attempt
    IN  /\ caller[w].pc = "exec" /\ Clean(w) /\ a \in LinkedIn
        /\ reserved' = reserved \cup {a}
        /\ used' = [used EXCEPT ![caller[w].readDay] = @ + 1]
        /\ caller' = Granted(w, {caller[w].readDay}, {"gap"})
        /\ gapLeft' = queued[w].gap
        /\ sinceLast' = 0 /\ lastStall' = queued[w].stall
        /\ queued' = [queued EXCEPT ![w] = NotQueued]
        /\ UNCHANGED <<today, killed, cooldownLeft, trips, session, calls>>

ExecOther(w) ==
    LET a == caller[w].attempt
    IN  /\ caller[w].pc = "exec" /\ Clean(w) /\ a \notin LinkedIn
        /\ reserved' = reserved \cup {a}
        /\ caller' = Granted(w, {}, {})
        /\ UNCHANGED <<today, used, gapLeft, killed, cooldownLeft, trips, queued, session,
                       sinceLast, lastStall, calls>>

\* Mutant: one round too many.
Fault_ExecFails(w) ==
    /\ caller[w].pc = "exec" /\ ~Clean(w)
    /\ caller' = [caller EXCEPT ![w].tries = @ + 1,
                                ![w].pc = IF caller[w].tries < MaxTries
                                          THEN "watch" ELSE "denied"]
    /\ queued' = [queued EXCEPT ![w] = NotQueued]
    /\ UNCHANGED <<today, used, gapLeft, killed, cooldownLeft, trips, reserved, session,
                   sinceLast, lastStall, calls>>

\* WatchError: start again with the same watch list, five times in all.
ExecFails(w) ==
    /\ caller[w].pc = "exec" /\ ~Clean(w)
    /\ caller' = [caller EXCEPT ![w].tries = @ + 1,
                                ![w].pc = IF caller[w].tries + 1 < MaxTries
                                          THEN "watch" ELSE "denied"]
    /\ queued' = [queued EXCEPT ![w] = NotQueued]
    /\ UNCHANGED <<today, used, gapLeft, killed, cooldownLeft, trips, reserved, session,
                   sinceLast, lastStall, calls>>

Return(w) ==
    /\ caller[w].pc \in {"granted", "denied"}
    /\ caller' = [caller EXCEPT ![w] = Outside]
    /\ UNCHANGED <<today, used, gapLeft, killed, cooldownLeft, trips, reserved, queued,
                   session, sinceLast, lastStall, calls>>

-----------------------------------------------------------------------------
(***************************************************************************)
(* The stops, and time.                                                    *)
(***************************************************************************)
Kill ==
    /\ killed' = TRUE
    /\ caller' = Disturbed(NoAttempt, {}, {"kill"})
    /\ UNCHANGED <<today, used, gapLeft, cooldownLeft, trips, reserved, queued, session,
                   sinceLast, lastStall, calls>>

Resume ==
    /\ killed /\ killed' = FALSE
    /\ caller' = [w \in Workers |-> [Disturbed(NoAttempt, {}, {"kill"})[w] EXCEPT !.killedThroughout = FALSE]]
    /\ UNCHANGED <<today, used, gapLeft, cooldownLeft, trips, reserved, queued, session,
                   sinceLast, lastStall, calls>>

\* trip_cooldown reads the count, then writes it and the cooldown.
TripRead(s) ==
    /\ session[s] = 0 /\ trips < MaxTrips
    /\ session' = [session EXCEPT ![s] = trips + 1]
    /\ UNCHANGED <<today, used, gapLeft, killed, cooldownLeft, trips, reserved, caller, queued,
                   sinceLast, lastStall, calls>>

Cooldown(n) == IF FirstCooldown * 2^n < MaxCooldown THEN FirstCooldown * 2^n ELSE MaxCooldown

\* The end of the cooldown was computed before it is written: what is left of it then.
TripWrite(s) ==
    /\ session[s] > 0
    /\ trips' = session[s]
    /\ cooldownLeft' \in 0 .. Cooldown(session[s] - 1)
    /\ caller' = Disturbed(NoAttempt, {}, {"cooldown"})
    /\ session' = [session EXCEPT ![s] = 0]
    /\ UNCHANGED <<today, used, gapLeft, killed, reserved, queued, sinceLast, lastStall,
                   calls>>

\* li:trips expires seven days after the last challenge.
TripsExpire ==
    /\ trips > 0 /\ trips' = 0
    /\ UNCHANGED <<today, used, gapLeft, killed, cooldownLeft, reserved, caller, queued,
                   session, sinceLast, lastStall, calls>>

Less(n) == IF n = 0 THEN 0 ELSE n - 1
Later(n) == IF n < MinGap THEN n + 1 ELSE n

\* A deadline that was computed comes nearer whether or not it has been written.
Tick ==
    /\ gapLeft' = Less(gapLeft) /\ cooldownLeft' = Less(cooldownLeft)
    /\ sinceLast' = Later(sinceLast)
    /\ lastStall' = IF sinceLast' = MinGap THEN 0 ELSE lastStall
    /\ queued' = [w \in Workers |->
                     IF caller[w].pc = "exec" /\ caller[w].attempt \in LinkedIn
                     THEN [gap |-> Less(queued[w].gap), stall |-> Later(queued[w].stall)]
                     ELSE queued[w]]
    /\ UNCHANGED <<today, used, killed, trips, reserved, caller, session, calls>>

\* Midnight: the budget continues under another key.
NewDay ==
    /\ today < MaxDays /\ today' = today + 1
    /\ UNCHANGED <<used, gapLeft, killed, cooldownLeft, trips, reserved, caller, queued,
                   session, sinceLast, lastStall, calls>>

Reserve(w) ==
    \/ \E a \in Attempts : Call(w, a)
    \/ OutsideHours(w) \/ Watch(w) \/ ReadStops(w) \/ ReadBudget(w) \/ Queue(w)
    \/ ExecLinkedIn(w) \/ ExecOther(w) \/ ExecFails(w) \/ Return(w)

Next ==
    \/ \E w \in Workers : Reserve(w)
    \/ \E s \in Sessions : TripRead(s) \/ TripWrite(s)
    \/ Kill \/ Resume \/ TripsExpire \/ Tick \/ NewDay

Spec == Init /\ [][Next]_vars

-----------------------------------------------------------------------------
(***************************************************************************)
(* Properties.                                                             *)
(***************************************************************************)

\* However many workers race, and whichever day the budget key was watched, read
\* and charged for, no day's budget is charged more than linkedin_daily_cap times.
CapHolds == \A d \in Days : used[d] <= DailyCap

\* No reservation is made while a stop is in force: the kill switch and the
\* cooldown are watched up to the EXEC itself.
StopsBind ==
    [][reserved' # reserved => ~killed /\ cooldownLeft = 0]_vars

\* Two LinkedIn reservations are linkedin_min_gap_s apart, over midnight too, less only
\* what the earlier one's own transaction had waited, between computing the end of its
\* gap and its EXEC: no third caller, retry or change of day takes anything off it.
GapHolds ==
    [][(reserved' \ reserved) \cap LinkedIn # {} => sinceLast + lastStall >= MinGap]_vars

\* A call that began with the kill switch on, and saw it on all the way, is not
\* answered "already reserved".
KillOutranksReservation ==
    \A w \in Workers : caller[w].pc = "granted" => ~caller[w].killedThroughout

(***************************************************************************)
(* What a caller knows at each point of the loop, which makes the above    *)
(* inductive.                                                              *)
(***************************************************************************)
FutureUnspent == \A d \in Days : d > today => used[d] = 0

InLoop(w) ==
    /\ caller[w].pc # "idle" => caller[w].attempt \in Attempts
    /\ caller[w].pc \in {"budget", "queue"} => caller[w].attempt \in LinkedIn
    /\ caller[w].pc \in {"watch", "read", "budget", "queue", "exec"} => caller[w].tries < MaxTries

PastStops(w) ==
    caller[w].pc \in {"budget", "queue", "exec"} /\ ~caller[w].dirty => ~killed /\ cooldownLeft = 0

\* Whichever day is charged, from the read to the queuing any, then the one chosen.
PastBudget(w) ==
    /\ caller[w].pc \in {"queue", "exec"} /\ ~caller[w].dirty /\ caller[w].attempt \in LinkedIn
        => gapLeft = 0 /\ caller[w].readDay <= today /\ used[caller[w].readDay] < DailyCap
    /\ caller[w].pc = "queue" /\ ~caller[w].dirty
        => \A d \in Days : caller[w].readDay <= d /\ d <= today => used[d] < DailyCap

\* What a queued transaction carries is the gap, less what it has waited.
GapQueued(w) ==
    caller[w].pc = "exec" /\ caller[w].attempt \in LinkedIn
        => queued[w].gap + queued[w].stall >= MinGap

Unstopped(w) ==
    /\ caller[w].killedThroughout => killed
    /\ caller[w].pc \in {"budget", "queue", "exec", "granted"} => ~caller[w].killedThroughout

\* What is left of the gap, what has passed, and what its own EXEC had waited.
GapRuns == gapLeft + sinceLast + lastStall >= MinGap

\* The inductive invariant: what has been read in the loop still holds at EXEC as
\* long as no watched key was written, whichever day the budget was watched for.
GovernorInv ==
    /\ GovernorTypeOK /\ CapHolds /\ FutureUnspent /\ GapRuns
    /\ \A w \in Workers :
          /\ InLoop(w)
          /\ PastStops(w) /\ PastBudget(w) /\ GapQueued(w) /\ Unstopped(w)

=============================================================================
