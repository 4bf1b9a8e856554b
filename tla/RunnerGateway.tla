---------------------------- MODULE RunnerGateway ----------------------------
(***************************************************************************)
(* The private runner and the hosted control plane, over an unreliable     *)
(* network: worker/control_plane_runner.py,                                *)
(* core/control_plane_review_permits.py and                                *)
(* worker/control_plane_event_outbox.py, composed with HostedQueue.        *)
(*                                                                         *)
(* run_once goes through the same steps in every cycle: publish the        *)
(* revocations that are due, publish one grant, poll for one command,      *)
(* admit it, acknowledge it, send one outbox event.  An exception anywhere *)
(* ends the cycle.  Every step that talks to the control plane first       *)
(* commits a claim in the runner's database, then sends a request and      *)
(* waits.  The control plane may handle the request before, after or       *)
(* instead of the runner giving up on it: the reply can be lost, and a     *)
(* request that timed out can still arrive (its nonce lets it be handled   *)
(* once).  The runner can crash between any two steps.                     *)
(*                                                                         *)
(* The local attempt a command starts is the stage machine of              *)
(* SubmissionState; SubmissionKernel models how its steps come about.      *)
(***************************************************************************)
EXTENDS HostedQueue, FiniteSets

CONSTANTS
    MaxLate,     \* bound: requests that outlive the runner's wait for them
    MaxEvents    \* bound: rows of one command in the event outbox

ASSUME BoundsAreNatural == MaxLate \in Nat /\ MaxEvents \in Nat \ {0}

VARIABLES
    grant,       \* control_plane_review_grants
    fresh,       \* grants whose bindings match the application as it is now
    skipped,     \* the application is SKIPPED
    attempt,     \* the local attempt of an admitted command, behind its receipt
    outbox,      \* control_plane_event_outbox, per command in sequence order
    late,        \* requests still in the network that nobody waits for
    runner       \* the runner process

localVars == <<grant, fresh, skipped, attempt, outbox>>
vars == <<hosted, command, log, lapsed, grant, fresh, skipped, attempt, outbox, late, runner>>

\* A claim is the runner's hold on the row.  One left behind by a crash is
\* open to be claimed again after thirty seconds, so it reads as pending; for
\* a revocation "tried" says it was claimed or released before, and may still
\* have to wait for that, or for its ten-second back-off.
GrantRow == [minted     : BOOLEAN,
             revoked    : BOOLEAN,
             consumed   : Commands \cup {NoCommand},
             projection : {"pending", "projected"},
             revocation : {"none", "pending", "tried", "delivered", "expired"}]

\* The receipt, the submission command and the attempt are written in one
\* transaction: stage "none" says there is no receipt.
Attempt == [stage : Stages \cup {"none"}, outcome : Outcomes \cup {"none"}]

OutboxRow == [stage : Stages, outcome : Outcomes \cup {"none"},
              state : {"pending", "sent"}]

Request == [kind : {"revoke", "project", "poll", "ack", "drain"},
            g    : Grants \cup {NoGrant},
            c    : Commands \cup {NoCommand},
            n    : Nat,
            ack  : {"none", "received", "rejected"}]

\* pc names the step of run_once; wire says how far its request has got:
\* not sent, sent, answered with success, answered with an error.
Runner == [pc   : {"revoke", "project", "poll", "admit", "ack", "drain"},
           wire : {"none", "sent", "ok", "error"},
           g    : Grants \cup {NoGrant},
           c    : Commands \cup {NoCommand},
           n    : Nat,
           ack  : {"none", "received", "rejected"}]

\* The start of a cycle.
AtStart == [pc |-> "revoke", wire |-> "none", g |-> NoGrant, c |-> NoCommand,
            n |-> 0, ack |-> "none"]

Init ==
    /\ HostedInit
    /\ lapsed = [g \in Grants |-> {}]
    /\ grant = [g \in Grants |-> [minted |-> FALSE, revoked |-> FALSE, consumed |-> NoCommand,
                                  projection |-> "pending", revocation |-> "none"]]
    /\ fresh = {}
    /\ skipped = FALSE
    /\ attempt = [c \in Commands |-> [stage |-> "none", outcome |-> "none"]]
    /\ outbox = [c \in Commands |-> << >>]
    /\ late = {}
    /\ runner = AtStart

-----------------------------------------------------------------------------
\* The application and its review, on the runner's machine.

Admitted(c) == attempt[c].stage # "none"

\* application.status == DRAFT: the application was not skipped, no attempt is
\* open and none has closed it for good.
Draft ==
    /\ ~skipped
    /\ \A c \in Commands :
          Admitted(c) => /\ attempt[c].stage = "finished"
                         /\ attempt[c].outcome \notin ImmutableOutcomes

\* mint_control_plane_review_grant supersedes every unconsumed grant.
Superseded(g) ==
    IF grant[g].minted /\ grant[g].consumed = NoCommand /\ ~grant[g].revoked
    THEN [grant[g] EXCEPT !.revoked = TRUE,
                          !.revocation = IF Expired(g, "runner") THEN "expired" ELSE "pending"]
    ELSE grant[g]

Mint(g) ==
    /\ Draft
    /\ ~grant[g].minted
    /\ grant' = [h \in Grants |-> IF h = g THEN [grant[g] EXCEPT !.minted = TRUE]
                                           ELSE Superseded(h)]
    /\ fresh' = fresh \cup {g}
    /\ UNCHANGED <<cloudVars, lapsed, skipped, attempt, outbox, late, runner>>

\* Any local change of what was reviewed: new content, another CV, a new
\* form plan.
Edit ==
    /\ Draft
    /\ fresh # {}
    /\ fresh' = {}
    /\ UNCHANGED <<cloudVars, lapsed, grant, skipped, attempt, outbox, late, runner>>

\* Mutant: the revocation is left to the control plane.
Fault_GrantValid(g) ==
    /\ grant[g].minted /\ grant[g].consumed = NoCommand
    /\ ~Expired(g, "runner")
    /\ Draft /\ g \in fresh

\* validate_control_plane_review_grant.
GrantValid(g) ==
    /\ grant[g].minted /\ ~grant[g].revoked /\ grant[g].consumed = NoCommand
    /\ ~Expired(g, "runner")
    /\ Draft /\ g \in fresh

-----------------------------------------------------------------------------
\* Requests.

\* The request the runner is waiting for.
Awaited == [kind |-> runner.pc, g |-> runner.g, c |-> runner.c, n |-> runner.n,
            ack |-> runner.ack]

\* The payload of an outbox row.
Payload(c, n) == [stage |-> outbox[c][n].stage, outcome |-> outbox[c][n].outcome]

\* What the control plane does with a request it accepts.  A poll is the one
\* request whose answer carries something: d is the command delivered.
Handle(m, d) ==
    \/ m.kind = "revoke" /\ d = NoCommand /\ ReceiveRevocation(m.g)
    \/ m.kind = "project" /\ d = NoCommand /\ ReceiveReviewGrant(m.g)
    \/ m.kind = "poll" /\ d # NoCommand /\ PollCommand(d)
    \/ /\ m.kind = "poll" /\ d = NoCommand
       /\ \A c \in Commands : ~Deliverable(c)
       /\ UNCHANGED cloudVars
    \/ /\ m.kind = "ack" /\ d = NoCommand
       /\ AckAccepted(m.c, m.ack)
       /\ AcknowledgeCommand(m.c, m.ack)
    \/ /\ m.kind = "drain" /\ d = NoCommand
       /\ EventAccepted(m.c, m.n, Payload(m.c, m.n))
       /\ ReceiveRunnerEvent(m.c, m.n, Payload(m.c, m.n))

\* The requests it refuses.  A poll is refused while the device's last
\* heartbeat is not a recent, ready one.
Refuses(m) ==
    \/ m.kind \in {"revoke", "project"} /\ Expired(m.g, "cloud")
    \/ m.kind = "poll"
    \/ m.kind = "ack" /\ ~AckAccepted(m.c, m.ack)
    \/ m.kind = "drain" /\ ~EventAccepted(m.c, m.n, Payload(m.c, m.n))

\* The awaited request is handled; its reply is on the way.
HandleAwaited(d) ==
    /\ runner.wire = "sent"
    /\ Handle(Awaited, d)
    /\ runner' = [runner EXCEPT !.wire = "ok", !.c = IF runner.pc = "poll" THEN d ELSE @]
    /\ UNCHANGED <<lapsed, localVars, late>>

RefuseAwaited ==
    /\ runner.wire = "sent"
    /\ Refuses(Awaited)
    /\ runner' = [runner EXCEPT !.wire = "error"]
    /\ UNCHANGED <<cloudVars, lapsed, localVars, late>>

\* A request nobody waits for any more is handled, refused or lost.
HandleLate(m, d) ==
    /\ Handle(m, d)
    /\ late' = late \ {m}
    /\ UNCHANGED <<lapsed, localVars, runner>>

DropLate(m) ==
    /\ late' = late \ {m}
    /\ UNCHANGED <<cloudVars, lapsed, localVars, runner>>

\* The runner stops waiting: a request that was sent and not handled is lost
\* or stays in the network.
Abandon ==
    \/ late' = late
    \/ runner.wire = "sent" /\ Cardinality(late) < MaxLate /\ late' = late \cup {Awaited}

\* The wait failed: refused, timed out, or the reply was lost.
Failed == runner.wire \in {"sent", "ok", "error"} /\ Abandon

-----------------------------------------------------------------------------
\* One cycle of run_once: revocations.

RevocationOpen(g) == grant[g].revocation \in {"pending", "tried"}

\* claim_review_grant_revocation also closes what has expired unsent.
Swept(g) ==
    IF RevocationOpen(g) /\ Expired(g, "runner")
    THEN [grant[g] EXCEPT !.revocation = "expired"]
    ELSE grant[g]

ClaimRevocation(g) ==
    /\ runner.pc = "revoke" /\ runner.wire = "none"
    /\ RevocationOpen(g) /\ grant[g].revoked /\ grant[g].consumed = NoCommand
    /\ ~Expired(g, "runner")
    /\ grant' = [h \in Grants |-> IF h = g THEN [grant[g] EXCEPT !.revocation = "tried"]
                                           ELSE Swept(h)]
    /\ runner' = [runner EXCEPT !.wire = "sent", !.g = g]
    /\ UNCHANGED <<cloudVars, lapsed, fresh, skipped, attempt, outbox, late>>

\* mark_review_grant_revocation_delivered, and on to the next one.
RevocationDelivered ==
    /\ runner.pc = "revoke" /\ runner.wire = "ok"
    /\ grant' = [grant EXCEPT ![runner.g].revocation = "delivered"]
    /\ runner' = AtStart
    /\ UNCHANGED <<cloudVars, lapsed, fresh, skipped, attempt, outbox, late>>

\* release_review_grant_revocation.
RevocationFails ==
    /\ runner.pc = "revoke" /\ Failed
    /\ grant' = [grant EXCEPT ![runner.g].revocation =
                    IF Expired(runner.g, "runner") THEN "expired" ELSE "tried"]
    /\ runner' = AtStart
    /\ UNCHANGED <<cloudVars, lapsed, fresh, skipped, attempt, outbox>>

NoRevocationDue ==
    /\ runner.pc = "revoke" /\ runner.wire = "none"
    /\ \A g \in Grants : grant[g].revocation = "pending" => Expired(g, "runner")
    /\ grant' = [g \in Grants |-> Swept(g)]
    /\ runner' = [runner EXCEPT !.pc = "project"]
    /\ UNCHANGED <<cloudVars, lapsed, fresh, skipped, attempt, outbox, late>>

-----------------------------------------------------------------------------
\* Grants.

\* The rows claim_review_grant_projection selects.
Projectable(g) ==
    /\ \A h \in Grants : RevocationOpen(h) => Expired(h, "runner")
    /\ grant[g].minted /\ grant[g].projection = "pending"
    /\ ~grant[g].revoked /\ grant[g].consumed = NoCommand /\ ~Expired(g, "runner")

ClaimProjection(g) ==
    /\ runner.pc = "project" /\ runner.wire = "none"
    /\ Projectable(g) /\ GrantValid(g)
    /\ runner' = [runner EXCEPT !.wire = "sent", !.g = g]
    /\ UNCHANGED <<cloudVars, lapsed, localVars, late>>

\* load_claimed_review_grant_projection refuses: the claim is released and
\* the cycle ends.
ProjectionInvalid(g) ==
    /\ runner.pc = "project" /\ runner.wire = "none"
    /\ Projectable(g) /\ ~GrantValid(g)
    /\ runner' = AtStart
    /\ UNCHANGED <<cloudVars, lapsed, localVars, late>>

Polling == [AtStart EXCEPT !.pc = "poll", !.wire = "sent"]

\* mark_review_grant_projected.
ProjectionDelivered ==
    /\ runner.pc = "project" /\ runner.wire = "ok"
    /\ grant' = [grant EXCEPT ![runner.g].projection = "projected"]
    /\ runner' = Polling
    /\ UNCHANGED <<cloudVars, lapsed, fresh, skipped, attempt, outbox, late>>

\* release_review_grant_projection.
ProjectionFails ==
    /\ runner.pc = "project" /\ Failed
    /\ runner' = AtStart
    /\ UNCHANGED <<cloudVars, lapsed, localVars>>

\* None is due: a released or claimed projection may be waiting.
NoProjectionDue ==
    /\ runner.pc = "project" /\ runner.wire = "none"
    /\ runner' = Polling
    /\ UNCHANGED <<cloudVars, lapsed, localVars, late>>

-----------------------------------------------------------------------------
\* Commands.

Draining == [AtStart EXCEPT !.pc = "drain"]

NoCommandDelivered ==
    /\ runner.pc = "poll" /\ runner.wire = "ok" /\ runner.c = NoCommand
    /\ runner' = Draining
    /\ UNCHANGED <<cloudVars, lapsed, localVars, late>>

\* _verify_command.
VerifyCommand ==
    /\ runner.pc = "poll" /\ runner.wire = "ok" /\ runner.c # NoCommand
    /\ runner' = IF Expired(command[runner.c].grant, "runner")
                 THEN AtStart
                 ELSE [runner EXCEPT !.pc = "admit", !.wire = "none"]
    /\ UNCHANGED <<cloudVars, lapsed, localVars, late>>

PollFails ==
    /\ runner.pc = "poll" /\ Failed
    /\ runner' = AtStart
    /\ UNCHANGED <<cloudVars, lapsed, localVars>>

Acknowledging(ack) == [runner EXCEPT !.pc = "ack", !.wire = "sent", !.ack = ack]

\* Mutant: the grant is checked and not spent.
Fault_AdmitNew ==
    LET c == runner.c
        g == command[c].grant
    IN  /\ runner.pc = "admit"
        /\ ~Admitted(c)
        /\ GrantValid(g)
        /\ attempt' = [attempt EXCEPT ![c].stage = "queued"]
        /\ outbox' = [outbox EXCEPT ![c] =
                          << [stage |-> "queued", outcome |-> "none", state |-> "pending"] >>]
        /\ runner' = Acknowledging("received")
        /\ UNCHANGED <<cloudVars, lapsed, grant, fresh, skipped, late>>

\* accept_control_plane_command: the receipt, the spent grant, the first
\* outbox row and the submission command are one transaction.
AdmitNew ==
    LET c == runner.c
        g == command[c].grant
    IN  /\ runner.pc = "admit"
        /\ ~Admitted(c)
        /\ GrantValid(g)
        /\ grant' = [grant EXCEPT ![g].consumed = c]
        /\ attempt' = [attempt EXCEPT ![c].stage = "queued"]
        /\ outbox' = [outbox EXCEPT ![c] =
                          << [stage |-> "queued", outcome |-> "none", state |-> "pending"] >>]
        /\ runner' = Acknowledging("received")
        /\ UNCHANGED <<cloudVars, lapsed, fresh, skipped, late>>

\* _find_command_replay finds the receipt of an earlier delivery.
AdmitReplay ==
    /\ runner.pc = "admit"
    /\ Admitted(runner.c)
    /\ ~Expired(command[runner.c].grant, "runner")
    /\ runner' = Acknowledging("received")
    /\ UNCHANGED <<cloudVars, lapsed, localVars, late>>

\* Mutant: the exception handler acknowledges what it did not admit.
Fault_AdmitRefused ==
    /\ runner.pc = "admit"
    /\ Expired(command[runner.c].grant, "runner") \/ ~Admitted(runner.c)
    /\ runner' = Acknowledging("received")
    /\ UNCHANGED <<cloudVars, lapsed, localVars, late>>

\* Any exception is acknowledged as a rejection: an expired command, before
\* its receipt is looked up; a grant that is no longer valid; a refusal by
\* create_submission_commands.
AdmitRefused ==
    /\ runner.pc = "admit"
    /\ Expired(command[runner.c].grant, "runner") \/ ~Admitted(runner.c)
    /\ runner' = Acknowledging("rejected")
    /\ UNCHANGED <<cloudVars, lapsed, localVars, late>>

\* A delivered rejection still raises and ends the cycle.
Acknowledged ==
    /\ runner.pc = "ack" /\ runner.wire = "ok"
    /\ runner' = IF runner.ack = "received" THEN Draining ELSE AtStart
    /\ UNCHANGED <<cloudVars, lapsed, localVars, late>>

AckFails ==
    /\ runner.pc = "ack" /\ Failed
    /\ runner' = AtStart
    /\ UNCHANGED <<cloudVars, lapsed, localVars>>

-----------------------------------------------------------------------------
\* Events.

\* claim_control_plane_event takes a due row, or one that a crashed runner
\* had claimed.
ClaimEvent(c, n) ==
    /\ runner.pc = "drain" /\ runner.wire = "none"
    /\ n \in 1 .. Len(outbox[c]) /\ outbox[c][n].state # "sent"
    /\ runner' = [runner EXCEPT !.wire = "sent", !.c = c, !.n = n]
    /\ UNCHANGED <<cloudVars, lapsed, localVars, late>>

NoEventDue ==
    /\ runner.pc = "drain" /\ runner.wire = "none"
    /\ runner' = AtStart
    /\ UNCHANGED <<cloudVars, lapsed, localVars, late>>

\* deliver_claimed_control_plane_event: sent, or pending again.
EventDelivered ==
    /\ runner.pc = "drain" /\ runner.wire = "ok"
    /\ outbox' = [outbox EXCEPT ![runner.c][runner.n].state = "sent"]
    /\ runner' = AtStart
    /\ UNCHANGED <<cloudVars, lapsed, grant, fresh, skipped, attempt, late>>

EventFails ==
    /\ runner.pc = "drain" /\ Failed
    /\ runner' = AtStart
    /\ UNCHANGED <<cloudVars, lapsed, localVars>>

\* The runner process dies; its claims stay in the database.
Crash ==
    /\ runner # AtStart
    /\ Abandon
    /\ runner' = AtStart
    /\ UNCHANGED <<cloudVars, lapsed, localVars>>

-----------------------------------------------------------------------------
\* The local attempt, and enqueue_control_plane_attempt_transition with it.

\* A transition that repeats the last row is not enqueued again.
Enqueue(c, s, o) ==
    /\ Len(outbox[c]) < MaxEvents
    /\ outbox' = [outbox EXCEPT ![c] = Append(@, [stage |-> s, outcome |-> o,
                                                  state |-> "pending"])]

Transition(c, s, o) ==
    /\ attempt' = [attempt EXCEPT ![c] = [stage |-> s, outcome |-> o]]
    /\ Enqueue(c, s, o)
    /\ UNCHANGED <<cloudVars, lapsed, grant, fresh, skipped, late, runner>>

\* The worker moves the attempt on, or ends it.
Advance(c, s) == CanAdvance(attempt[c].stage, s) /\ Transition(c, s, "none")
Finish(c, o) == CanFinish(attempt[c].stage, o) /\ Transition(c, "finished", o)

\* reconcile_stale_submission_commands returns a pre-commit attempt to the queue.
Redeliver(c) ==
    /\ attempt[c].stage \in PreCommit \ {"queued"}
    /\ Transition(c, "queued", "none")

\* _reconcile_attempt: the operator settles an unknown outcome.
Reconcile(c, o) ==
    /\ Admitted(c) /\ attempt[c].outcome = "unknown"
    /\ o \in {"operator_confirmed", "failed_before_commit"}
    /\ Transition(c, "finished", o)

\* transition_locked_application_to_skipped: refused past the commit boundary
\* and after an immutable outcome; a pre-commit attempt is cancelled without an
\* event.
Skip ==
    /\ ~skipped
    /\ \A c \in Commands : /\ attempt[c].stage \notin PostCommit
                           /\ attempt[c].outcome \notin ImmutableOutcomes
    /\ attempt' = [c \in Commands |->
                      IF attempt[c].stage \in PreCommit
                      THEN [stage |-> "finished", outcome |-> "failed_before_commit"]
                      ELSE attempt[c]]
    /\ fresh' = {}
    /\ skipped' = TRUE
    /\ UNCHANGED <<cloudVars, lapsed, grant, outbox, late, runner>>

-----------------------------------------------------------------------------
\* The hosted operator, and time.

Create(c, g) ==
    /\ CreateCommand(c, g)
    /\ UNCHANGED <<lapsed, localVars, late, runner>>

LeaseEnds(c) ==
    /\ LeaseRunsOut(c)
    /\ UNCHANGED <<lapsed, localVars, late, runner>>

\* A clock passes a grant's expiry; the two clocks need not agree.
Lapse(g, clock) ==
    /\ grant[g].minted /\ ~Expired(g, clock)
    /\ lapsed' = [lapsed EXCEPT ![g] = @ \cup {clock}]
    /\ UNCHANGED <<cloudVars, localVars, late, runner>>

-----------------------------------------------------------------------------
Local ==
    \/ \E g \in Grants : Mint(g)
    \/ Edit
    \/ \E c \in Commands :
          \/ \E s \in Stages : Advance(c, s)
          \/ \E o \in Outcomes : Finish(c, o) \/ Reconcile(c, o)
          \/ Redeliver(c)
    \/ Skip

Network ==
    \/ \E d \in Commands \cup {NoCommand} : HandleAwaited(d)
    \/ RefuseAwaited
    \/ \E m \in late : DropLate(m) \/ \E d \in Commands \cup {NoCommand} : HandleLate(m, d)

RunOnce ==
    \/ \E g \in Grants : ClaimRevocation(g) \/ ClaimProjection(g) \/ ProjectionInvalid(g)
    \/ RevocationDelivered \/ RevocationFails \/ NoRevocationDue
    \/ ProjectionDelivered \/ ProjectionFails \/ NoProjectionDue
    \/ NoCommandDelivered \/ VerifyCommand \/ PollFails
    \/ AdmitNew \/ AdmitReplay \/ AdmitRefused \/ Acknowledged \/ AckFails
    \/ \E c \in Commands, n \in 1 .. MaxEvents : ClaimEvent(c, n)
    \/ NoEventDue \/ EventDelivered \/ EventFails

Environment ==
    \/ \E c \in Commands, g \in Grants : Create(c, g)
    \/ \E c \in Commands : LeaseEnds(c)
    \/ \E g \in Grants, clock \in Clocks : Lapse(g, clock)
    \/ Crash

Next == Local \/ Network \/ RunOnce \/ Environment

Spec == Init /\ [][Next]_vars

\* Fairness.  The runner's loop never stops, it is not restarted each time
\* before it gets to poll, and clocks go on.  The network
\* answers a request that is repeated for ever, and the answer arrives: each
\* of the two halves is asked of the poll that every drain follows and of
\* each event.  Rows are claimed in the order of available_at, which a failed
\* delivery moves behind the other due rows, so no row is passed over for ever.
AnswerPoll == runner.pc = "poll" /\ HandleAwaited(NoCommand)
AnswerEvent(c, n) ==
    runner.pc = "drain" /\ runner.c = c /\ runner.n = n /\ HandleAwaited(NoCommand)
CompleteEvent(c, n) == runner.c = c /\ runner.n = n /\ EventDelivered

LiveSpec ==
    /\ Spec
    /\ WF_vars(RunOnce)
    /\ \A g \in Grants, clock \in Clocks : WF_vars(Lapse(g, clock))
    /\ SF_vars(NoRevocationDue) /\ SF_vars(NoProjectionDue)
    /\ SF_vars(AnswerPoll) /\ SF_vars(NoCommandDelivered)
    /\ \A c \in Commands, n \in 1 .. MaxEvents :
          /\ SF_vars(ClaimEvent(c, n))
          /\ SF_vars(AnswerEvent(c, n))
          /\ SF_vars(CompleteEvent(c, n))

-----------------------------------------------------------------------------
\* Properties.

\* Type invariant of both databases, the network and the runner.
GatewayTypeOK ==
    /\ hosted \in [Grants -> HostedRow]
    /\ command \in [Commands -> HostedCommand]
    /\ log \in [Commands -> Seq(Event)]
    /\ lapsed \in [Grants -> SUBSET Clocks]
    /\ grant \in [Grants -> GrantRow]
    /\ fresh \in SUBSET Grants
    /\ skipped \in BOOLEAN
    /\ attempt \in [Commands -> Attempt]
    /\ outbox \in [Commands -> Seq(OutboxRow)]
    /\ late \in SUBSET Request
    /\ runner \in Runner

\* A tombstone is final: once the control plane has stored the revocation of a
\* grant, the runner has not admitted the command minted from it and, the
\* revocation being permanent, never will, whatever was delayed or crossed on
\* the way.
RevokedNeverAdmitted ==
    \A c \in Commands :
        command[c].grant \in Grants /\ hosted[command[c].grant].revoked => ~Admitted(c)

\* The control plane believes a command was received only if the runner holds
\* its receipt: no acknowledgement, late ones and the one recovered from a
\* first event included, gets ahead of the local transaction.
AcknowledgedMeansAdmitted ==
    \A c \in Commands : command[c].ack = "received" => Admitted(c)

\* The hosted event log of a command is a prefix of the runner's outbox for it,
\* and a row marked sent is in the log: no event is lost, reordered, doubled or
\* invented between the two databases.
HostedLogMirrorsOutbox ==
    \A c \in Commands :
        /\ Len(log[c]) <= Len(outbox[c])
        /\ \A n \in 1 .. Len(log[c]) : log[c][n] = Payload(c, n)
        /\ \A n \in 1 .. Len(outbox[c]) : outbox[c][n].state = "sent" => n <= Len(log[c])

\* The stage rules of the two sides agree: unless a rejection has closed the
\* command, the control plane would accept the first row it has not stored, so
\* no row can block the ones behind it for good.
NextEventAcceptable ==
    \A c \in Commands :
        Admitted(c) /\ command[c].status # "rejected" /\ Len(log[c]) < Len(outbox[c]) =>
            EventAccepted(c, Len(log[c]) + 1, Payload(c, Len(log[c]) + 1))

\* A command that was rejected or has finished stays so: no late poll,
\* acknowledgement, revocation or event brings it back.
ClosedStaysClosed ==
    [][\A c \in Commands : command[c].status \in {"rejected", "finished"} =>
          command'[c].status = command[c].status]_vars

\* Every event the runner records reaches the control plane, unless a rejection
\* closed the command there.
OutboxDrains ==
    \A c \in Commands, n \in 1 .. MaxEvents :
        (n <= Len(outbox[c])) ~>
            \/ n <= Len(outbox[c]) /\ outbox[c][n].state = "sent"
            \/ command[c].status = "rejected"

-----------------------------------------------------------------------------
\* The inductive invariant behind the safety properties.

\* What the runner's database held when a request was sent, and still holds.
Backed(m) ==
    /\ m.kind \in {"revoke", "project"} => m.g \in Grants
    /\ m.kind = "revoke" => grant[m.g].revoked
    /\ m.kind = "ack" => /\ m.c \in Commands /\ Created(m.c)
                         /\ m.ack \in {"received", "rejected"}
                         /\ m.ack = "received" => Admitted(m.c)
    /\ m.kind = "drain" => m.c \in Commands /\ m.n \in 1 .. Len(outbox[m.c])

\* The runner in the middle of a step.
RunnerInv ==
    /\ runner.wire # "none" => runner.pc # "admit" /\ Backed(Awaited)
    /\ runner.pc = "admit" => runner.c \in Commands /\ Created(runner.c)
    /\ runner.pc = "poll" /\ runner.c # NoCommand => Created(runner.c)
    /\ runner.pc = "drain" /\ runner.wire = "ok" => runner.n <= Len(log[runner.c])

LateInv == \A m \in late : Backed(m)

\* A grant is spent or revoked, never both, and every tombstone was one here.
GrantsInv ==
    \A g \in Grants : /\ grant[g].revoked => grant[g].consumed = NoCommand
                      /\ hosted[g].revoked => grant[g].revoked

\* A receipt spends the grant of its own command, and only it fills the outbox.
ReceiptsInv ==
    \A c \in Commands :
        /\ Created(c) <=> command[c].grant # NoGrant
        /\ Admitted(c) => /\ command[c].grant \in Grants
                          /\ grant[command[c].grant].consumed = c
        /\ outbox[c] # << >> => Admitted(c)

\* A rejected command holds no received acknowledgement, a finished one is closed.
ClosedInv ==
    \A c \in Commands : /\ command[c].status = "rejected" => command[c].ack # "received"
                        /\ command[c].status = "finished" => command[c].closed

\* What each database, each request in flight and each step of the runner
\* presuppose of the others.
LinkInv ==
    /\ GatewayTypeOK
    /\ RunnerInv
    /\ LateInv
    /\ GrantsInv
    /\ ReceiptsInv
    /\ ClosedInv
    /\ AcknowledgedMeansAdmitted
    /\ HostedLogMirrorsOutbox

\* The log of a hosted command fits its status.
Story(c) ==
    LET status == command[c].status
    IN  /\ status \in {"absent", "queued", "claimed"} => command[c].ack = "none"
        /\ status \in {"acknowledged", "running", "finished"} => command[c].ack = "received"
        /\ status \in {"absent", "queued", "claimed", "acknowledged", "rejected"} =>
               log[c] = << >>
        /\ command[c].closed => status \in {"rejected", "finished"}
        /\ status = "finished" => log[c] # << >> /\ log[c][Len(log[c])].stage = "finished"

StoryInv == \A c \in Commands : Story(c)

\* The runner only works on commands that were delivered to it.
Delivered(c) == command[c].status \notin {"absent", "queued"}

DeliveredInv ==
    /\ \A c \in Commands : Admitted(c) => Delivered(c)
    /\ runner.pc = "admit" \/ (runner.pc = "poll" /\ runner.c # NoCommand) =>
           Delivered(runner.c)

\* A row that may stand behind another in the outbox.
RowFollows(p, e) ==
    \/ /\ p.stage # "finished"
       /\ \/ StageOrder[e.stage] >= StageOrder[p.stage]
          \/ e.stage = "queued" /\ p.stage \in {"inspecting", "preparing", "ready"}
    \/ /\ p.stage = "finished" /\ p.outcome = "unknown"
       /\ e.stage = "finished" /\ e.outcome \in {"operator_confirmed", "failed_before_commit"}

SkippedAttempt == [stage |-> "finished", outcome |-> "failed_before_commit"]

\* The outbox of a command tells the attempt's story, from its admission to where
\* it stands now or, after a skip, stood then.
Reported(c) ==
    /\ attempt[c].outcome # "none" <=> attempt[c].stage = "finished"
    /\ Admitted(c) => /\ outbox[c] # << >> /\ outbox[c][1].stage = "queued"
                      /\ \/ Payload(c, Len(outbox[c])) = attempt[c]
                         \/ attempt[c] = SkippedAttempt
    /\ \A n \in 1 .. Len(outbox[c]) - 1 : RowFollows(outbox[c][n], outbox[c][n + 1])

OutboxInv == \A c \in Commands : Reported(c)

\* The inductive invariant.
GatewayInv == LinkInv /\ StoryInv /\ DeliveredInv /\ OutboxInv

-----------------------------------------------------------------------------
\* A claim of control_plane/README.md that the code does not keep.

\* Lines 43-45: the runner's durable receipt makes a redelivery idempotent, so
\* a command that was admitted is never reported as rejected.
RedeliveryIsIdempotent ==
    \A c \in Commands : Admitted(c) => command[c].status # "rejected"

=============================================================================
