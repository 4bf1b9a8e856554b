------------------------------ MODULE KillRelay ------------------------------
(***************************************************************************)
(* The remote stop: the operator asks the hosted control plane for it, the *)
(* runner fetches the signed command at the start of a cycle, records it   *)
(* in the private database and acknowledges it                             *)
(* (control_plane/job_control_plane/services.py and                        *)
(* worker/control_plane_runner.py).                                        *)
(*                                                                         *)
(* A command is bound to one boot of the runner, expires on both clocks,   *)
(* which need not agree, and is delivered again when its claim lease ends. *)
(* A request the runner gave up on may be lost or handled later, once.     *)
(* What a heartbeat shows besides boot and readiness is display.  The poll *)
(* skips rows another transaction has locked, so it may return any of the  *)
(* commands it could.                                                      *)
(***************************************************************************)
EXTENDS Integers, FiniteSets

CONSTANTS
    Kills,      \* commands, one for each idempotency key of a client
    NoKill,     \* not a command
    MaxBoots,   \* bound on starts of the runner
    MaxLate,    \* bound on requests that are handled late
    MaxLocal    \* bound on the operator's own use of the switch

VARIABLES
    device,     \* RunnerDevice: [boot, seen, ready], seen while the heartbeat is recent
    kill,       \* ControlKillSwitchCommand of each command
    past,       \* [hosted, local]: commands whose expiry that clock has passed
    switch,     \* AutomationKillSwitchEvent: [active, digests] and, of the digests,
                \*   those that preceded the last clearing
    runner,     \* the runner's process: [boot, pc, cmd, verdict]
    late,       \* requests given up and still under way
    local       \* uses of the switch by the operator on the machine

killVars == <<device, kill, past, switch, runner, late, local>>

NoCommand == [status |-> "none", boot |-> 0, leased |-> FALSE]

Init ==
    /\ device = [boot |-> 0, seen |-> FALSE, ready |-> FALSE]
    /\ kill = [k \in Kills |-> NoCommand]
    /\ past = [hosted |-> {}, local |-> {}]
    /\ switch = [active |-> FALSE, digests |-> {}, cleared |-> {}]
    /\ runner = [boot |-> 1, pc |-> "beat", cmd |-> NoKill, verdict |-> "none"]
    /\ late = {}
    /\ local = 0

-----------------------------------------------------------------------------
(* The control plane.                                                      *)

\* create_kill_switch_command with a fresh key.
CreateKill(k) ==
    /\ kill[k].status = "none"
    /\ device.seen /\ device.ready
    /\ kill' = [kill EXCEPT ![k] = [status |-> "queued", boot |-> device.boot,
                                    leased |-> FALSE]]
    /\ UNCHANGED <<device, past, switch, runner, late, local>>

\* The same key again: a command that can no longer be delivered is closed.
ReplayKill(k) ==
    /\ kill[k].status \in {"queued", "claimed"}
    /\ k \in past.hosted \/ kill[k].boot # device.boot
    /\ kill' = [kill EXCEPT ![k].status = "expired", ![k].leased = FALSE]
    /\ UNCHANGED <<device, past, switch, runner, late, local>>

\* What poll_kill_switch_command may hand out to this boot.
Deliverable(boot) ==
    {k \in Kills : /\ kill[k].boot = boot /\ k \notin past.hosted
                   /\ \/ kill[k].status = "queued"
                      \/ kill[k].status = "claimed" /\ ~kill[k].leased}

PollAnswered(boot) == device.boot = boot /\ device.seen

Claimed(k) == [kill EXCEPT ![k].status = "claimed", ![k].leased = TRUE]

\* acknowledge_kill_switch_command; a repetition changes nothing.
Acknowledged(k, verdict) ==
    IF kill[k].boot = device.boot /\ kill[k].status = "claimed"
    THEN [kill EXCEPT ![k].status = IF verdict = "received" THEN "acknowledged"
                                                            ELSE "rejected",
                      ![k].leased = FALSE]
    ELSE kill

Heard(boot, ready) == [boot |-> boot, seen |-> TRUE, ready |-> ready]

-----------------------------------------------------------------------------
(* The runner, from request to request.                                    *)

Rest == [runner EXCEPT !.pc = "rest", !.cmd = NoKill, !.verdict = "none"]

\* The request is given up: lost, or handled later.
GivenUp(request) ==
    /\ \/ late' = late
       \/ Cardinality(late) < MaxLate /\ late' = late \cup {request}
    /\ runner' = Rest

\* _heartbeat, when one is due.
Heartbeat ==
    /\ runner.pc = "beat"
    /\ \E ready \in BOOLEAN :
         \/ /\ device' = Heard(runner.boot, ready)
            /\ runner' \in {[runner EXCEPT !.pc = "poll"], Rest}
            /\ UNCHANGED late
         \/ /\ GivenUp([kind |-> "beat", boot |-> runner.boot, cmd |-> NoKill,
                        verdict |-> IF ready THEN "ready" ELSE "degraded"])
            /\ UNCHANGED device
    /\ UNCHANGED <<kill, past, switch, local>>

\* _poll_kill_switch: a command, none (the rest of the cycle follows), a
\* refusal, or an answer that is lost.
PollKill ==
    /\ runner.pc = "poll"
    /\ \/ /\ PollAnswered(runner.boot) /\ Deliverable(runner.boot) # {}
          /\ \E k \in Deliverable(runner.boot) :
                /\ kill' = Claimed(k)
                /\ runner' \in {[runner EXCEPT !.pc = "verify", !.cmd = k], Rest}
          /\ UNCHANGED late
       \/ /\ PollAnswered(runner.boot) => Deliverable(runner.boot) = {}
          /\ runner' = Rest /\ UNCHANGED <<kill, late>>
       \/ /\ GivenUp([kind |-> "poll", boot |-> runner.boot, cmd |-> NoKill,
                      verdict |-> "none"])
          /\ UNCHANGED kill
    /\ UNCHANGED <<device, past, switch, local>>

\* _verify_kill_switch_command; a command that fails it is not answered.
VerifyKill ==
    /\ runner.pc = "verify"
    /\ runner' = IF runner.cmd \in past.local THEN Rest ELSE [runner EXCEPT !.pc = "act"]
    /\ UNCHANGED <<device, kill, past, switch, late, local>>

\* set_automation_kill_switch: a digest that is known changes nothing.
Fault_Recorded(k) == [switch EXCEPT !.active = TRUE, !.digests = @ \cup {k}]

Recorded(k) ==
    IF k \in switch.digests THEN switch
    ELSE [switch EXCEPT !.active = TRUE, !.digests = @ \cup {k}]

\* activate_control_plane_kill_switch: expired by now, stored, or an error of
\* the database, after which the commit may have happened or not.
Fault_Verdict(failed) == "received"

Verdict(failed) == IF failed THEN "rejected" ELSE "received"

ActivateKill ==
    /\ runner.pc = "act"
    /\ \E failed \in BOOLEAN :
          /\ runner.cmd \in past.local => failed
          /\ switch' \in IF runner.cmd \in past.local THEN {switch}
                         ELSE IF failed THEN {switch, Recorded(runner.cmd)}
                         ELSE {Recorded(runner.cmd)}
          /\ runner' = [runner EXCEPT !.pc = "ack", !.verdict = Verdict(failed)]
    /\ UNCHANGED <<device, kill, past, late, local>>

\* _ack_kill_switch; the cycle ends, answered or not.
AckKill ==
    /\ runner.pc = "ack"
    /\ \/ /\ kill' = Acknowledged(runner.cmd, runner.verdict)
          /\ runner' = Rest /\ UNCHANGED late
       \/ /\ GivenUp([kind |-> "ack", boot |-> runner.boot, cmd |-> runner.cmd,
                      verdict |-> runner.verdict])
          /\ UNCHANGED kill
    /\ UNCHANGED <<device, past, switch, local>>

\* The next cycle, with or without a heartbeat.
NextCycle ==
    /\ runner.pc = "rest"
    /\ \E pc \in {"beat", "poll"} : runner' = [runner EXCEPT !.pc = pc]
    /\ UNCHANGED <<device, kill, past, switch, late, local>>

\* The process dies at any point and is started again under a new boot id.
Restart ==
    /\ runner.boot < MaxBoots
    /\ runner' = [boot |-> runner.boot + 1, pc |-> "beat", cmd |-> NoKill,
                  verdict |-> "none"]
    /\ UNCHANGED <<device, kill, past, switch, late, local>>

-----------------------------------------------------------------------------
(* The environment.                                                        *)

\* A request the runner gave up on reaches the control plane.
HandleLate ==
    /\ \E r \in late :
         /\ late' = late \ {r}
         /\ \/ r.kind = "beat" /\ device' = Heard(r.boot, r.verdict = "ready")
               /\ UNCHANGED kill
            \/ /\ r.kind = "poll" /\ UNCHANGED device
               /\ IF PollAnswered(r.boot) /\ Deliverable(r.boot) # {}
                  THEN \E k \in Deliverable(r.boot) : kill' = Claimed(k)
                  ELSE UNCHANGED kill
            \/ r.kind = "ack" /\ kill' = Acknowledged(r.cmd, r.verdict) /\ UNCHANGED device
    /\ UNCHANGED <<past, switch, runner, local>>

\* The operator at the machine clears the stop or sets it.
OperatorSwitches ==
    /\ local < MaxLocal /\ local' = local + 1
    /\ switch' = [switch EXCEPT !.active = ~@,
                                !.cleared = IF switch.active THEN switch.digests ELSE @]
    /\ UNCHANGED <<device, kill, past, runner, late>>

\* Five minutes are over on one of the clocks; fifteen seconds of a lease;
\* runner_offline_seconds since the last heartbeat.
TimePasses ==
    /\ \/ /\ \E k \in Kills, clock \in {"hosted", "local"} :
                /\ kill[k].status # "none" /\ k \notin past[clock]
                /\ past' = [past EXCEPT ![clock] = @ \cup {k}]
          /\ UNCHANGED <<device, kill>>
       \/ /\ \E k \in Kills : kill[k].leased /\ kill' = [kill EXCEPT ![k].leased = FALSE]
          /\ UNCHANGED <<device, past>>
       \/ /\ device.seen /\ device' = [device EXCEPT !.seen = FALSE]
          /\ UNCHANGED <<kill, past>>
    /\ UNCHANGED <<switch, runner, late, local>>

Next ==
    \/ \E k \in Kills : CreateKill(k) \/ ReplayKill(k)
    \/ Heartbeat \/ PollKill \/ VerifyKill \/ ActivateKill \/ AckKill \/ NextCycle
    \/ Restart \/ HandleLate \/ OperatorSwitches \/ TimePasses

Spec == Init /\ [][Next]_killVars

-----------------------------------------------------------------------------
(* Properties.                                                             *)

\* A stop the control plane shows as acknowledged was put in force by the
\* runner it was meant for, and is in force still unless the operator at the
\* machine cleared it afterwards: not so only because a lost, late or repeated
\* acknowledgement says so.
AcknowledgedStopIsReal ==
    \A k \in Kills : kill[k].status = "acknowledged" =>
        k \in switch.digests /\ (switch.active \/ k \in switch.cleared)

\* A stop the operator cleared does not come back because its command, whose
\* acknowledgement was lost, is delivered once more.
ClearedStaysCleared ==
    ~switch.active /\ switch'.active /\ local' = local =>
        switch'.digests # switch.digests

\* Both, at every step: the remote stop as the operator relies on it.
RemoteStopHolds == [][AcknowledgedStopIsReal' /\ ClearedStaysCleared]_killVars

\* The shape of the state.
Verdicts == {"none", "received", "rejected"}
KillTypeOK ==
    /\ device \in [boot : Nat, seen : BOOLEAN, ready : BOOLEAN]
    /\ kill \in [Kills -> [status : {"none", "queued", "claimed", "expired", "acknowledged",
                                    "rejected"},
                           boot : Nat, leased : BOOLEAN]]
    /\ switch \in [active : BOOLEAN, digests : SUBSET Kills, cleared : SUBSET Kills]
    /\ runner \in [boot : Nat, pc : {"beat", "poll", "verify", "act", "ack", "rest"},
                   cmd : Kills \cup {NoKill}, verdict : Verdicts]
    /\ late \subseteq [kind : {"beat", "poll", "ack"}, boot : Nat, cmd : Kills \cup {NoKill},
                       verdict : Verdicts \cup {"ready", "degraded"}]
    /\ local \in Nat

\* An answer "received", wherever it still is, is about a stop that was recorded;
\* and what was recorded is in force, or was there when the stop was cleared.
AnswersAreTrue ==
    /\ runner.pc \in {"verify", "act", "ack"} => runner.cmd \in Kills
    /\ runner.pc = "ack" /\ runner.verdict = "received" => runner.cmd \in switch.digests
    /\ \A r \in late : r.kind = "ack" =>
          r.cmd \in Kills /\ (r.verdict = "received" => r.cmd \in switch.digests)
    /\ \A k \in Kills : kill[k].status = "acknowledged" => k \in switch.digests
RecordedIsInForce == switch.active \/ switch.digests \subseteq switch.cleared

\* The inductive invariant of the relay.
RelayInv == KillTypeOK /\ AnswersAreTrue /\ RecordedIsInForce

=============================================================================
