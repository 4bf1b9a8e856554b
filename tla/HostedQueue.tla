----------------------------- MODULE HostedQueue -----------------------------
(***************************************************************************)
(* The hosted control plane: the review grants a runner has projected to   *)
(* it, the one-use commands an operator mints from them, and the log of    *)
(* runner events it keeps for each command                                 *)
(* (control_plane/job_control_plane/services.py).                          *)
(*                                                                         *)
(* Every handler is one database transaction on rows it has locked, so     *)
(* each is one action here.  A handler is written as the guard under which *)
(* it answers 200 and the effect it then has; a refused request rolls back *)
(* and changes nothing.  Grant, command and event identifiers stand for    *)
(* the signed bindings they carry: the envelopes are signed, so two        *)
(* messages about one identifier agree on its content.                     *)
(*                                                                         *)
(* A command's expiry is its grant's: expires_at is the minimum of the     *)
(* grant's and five minutes from now, and no grant lives longer than that. *)
(***************************************************************************)
EXTENDS Integers, Sequences, SubmissionState

CONSTANTS
    Grants,      \* review grants, one per local review
    Commands,    \* submission commands
    NoGrant,     \* the grant of a command that has not been created
    NoCommand    \* no command

ASSUME NonesAreNew == NoGrant \notin Grants /\ NoCommand \notin Commands

VARIABLES
    hosted,      \* review_grants
    command,     \* submission_commands
    log,         \* runner_events, per command in sequence order
    lapsed       \* the clocks that have passed a grant's expires_at

cloudVars == <<hosted, command, log>>

Clocks == {"cloud", "runner"}

\* review_grants: an absent row has all three false.
HostedRow == [projected : BOOLEAN, revoked : BOOLEAN, consumed : BOOLEAN]

\* submission_commands: leased is claim_lease_expires_at in the future,
\* closed is finished_at set.
HostedCommand == [status : {"absent", "queued", "claimed", "acknowledged", "running",
                            "rejected", "finished"},
                  grant  : Grants \cup {NoGrant},
                  ack    : {"none", "received", "rejected"},
                  leased : BOOLEAN,
                  closed : BOOLEAN]

\* A runner event, without its reason and its evidence digest.
Event == [stage : Stages, outcome : Outcomes \cup {"none"}]

Absent == [status |-> "absent", grant |-> NoGrant, ack |-> "none",
           leased |-> FALSE, closed |-> FALSE]

HostedInit ==
    /\ hosted = [g \in Grants |-> [projected |-> FALSE, revoked |-> FALSE, consumed |-> FALSE]]
    /\ command = [c \in Commands |-> Absent]
    /\ log = [c \in Commands |-> << >>]

Expired(g, clock) == clock \in lapsed[g]

Created(c) == command[c].status # "absent"

-----------------------------------------------------------------------------
\* The grants' handlers.

\* receive_review_grant: a projection of a known grant, tombstoned ones
\* included, is a duplicate and changes nothing.
ReceiveReviewGrant(g) ==
    /\ ~Expired(g, "cloud")
    /\ hosted' = [hosted EXCEPT ![g].projected = TRUE]
    /\ UNCHANGED <<command, log>>

\* _cancel_unadmitted_revoked_command.
Cancelled(g) ==
    [c \in Commands |->
        IF /\ command[c].grant = g
           /\ command[c].ack = "none"
           /\ command[c].status \in {"queued", "claimed"}
        THEN [command[c] EXCEPT !.status = "rejected", !.leased = FALSE, !.closed = TRUE]
        ELSE command[c]]

\* receive_review_grant_revocation: the tombstone is stored even when the
\* grant itself has not arrived.
ReceiveRevocation(g) ==
    /\ ~Expired(g, "cloud")
    /\ hosted' = [hosted EXCEPT ![g].projected = TRUE, ![g].revoked = TRUE]
    /\ command' = Cancelled(g)
    /\ UNCHANGED log

\* create_command.  A request that repeats an idempotency key is answered
\* with the stored command and changes nothing.
CreateCommand(c, g) ==
    /\ command[c].status = "absent"
    /\ hosted[g].projected /\ ~hosted[g].revoked /\ ~hosted[g].consumed
    /\ ~Expired(g, "cloud")
    /\ \A d \in Commands : command[d].grant # g
    /\ hosted' = [hosted EXCEPT ![g].consumed = TRUE]
    /\ command' = [command EXCEPT ![c] = [Absent EXCEPT !.status = "queued", !.grant = g]]
    /\ UNCHANGED log

-----------------------------------------------------------------------------
\* The commands' handlers.

\* Mutant: redelivers whatever is unacknowledged, a cancelled command too.
Fault_Deliverable(c) ==
    /\ Created(c) /\ command[c].ack = "none" /\ ~command[c].leased
    /\ ~Expired(command[c].grant, "cloud")

\* The rows poll_command selects: queued, or claimed under a lease that ran
\* out unacknowledged.
Deliverable(c) ==
    /\ \/ command[c].status = "queued"
       \/ command[c].status = "claimed" /\ command[c].ack = "none" /\ ~command[c].leased
    /\ ~Expired(command[c].grant, "cloud")

\* poll_command delivers one of them.  It prefers the oldest, but skips rows
\* that a concurrent transaction has locked.
PollCommand(c) ==
    /\ Deliverable(c)
    /\ command' = [command EXCEPT ![c].status = "claimed", ![c].leased = TRUE]
    /\ UNCHANGED <<hosted, log>>

\* acknowledge_command.  The last disjunct is the first acknowledgement of a
\* claimed command; claimed_at precedes the expiry because poll_command has
\* checked it.
AckDuplicate(c, ack) == command[c].ack = ack
AckAfterRevocation(c, ack) ==
    /\ command[c].ack = "none" /\ command[c].status = "rejected"
    /\ hosted[command[c].grant].revoked
    /\ ack = "rejected"
AckFirst(c, ack) == command[c].ack = "none" /\ command[c].status = "claimed"

AckAccepted(c, ack) == AckDuplicate(c, ack) \/ AckAfterRevocation(c, ack) \/ AckFirst(c, ack)

\* Mutant: the acknowledgement's own word becomes the status.
Fault_AcknowledgeCommand(c, ack) ==
    /\ command' = [command EXCEPT ![c].ack = ack, ![c].status = ack, ![c].leased = FALSE]
    /\ UNCHANGED <<hosted, log>>

AcknowledgeCommand(c, ack) ==
    /\ command' =
          [command EXCEPT ![c] =
              IF AckFirst(c, ack)
              THEN [@ EXCEPT !.ack = ack, !.leased = FALSE,
                             !.status = IF ack = "received" THEN "acknowledged" ELSE "rejected",
                             !.closed = (ack = "rejected")]
              ELSE [@ EXCEPT !.ack = ack]]
    /\ UNCHANGED <<hosted, log>>

-----------------------------------------------------------------------------
\* The event handler, receive_runner_event.

StageOrder == [queued |-> 0, inspecting |-> 1, preparing |-> 2, ready |-> 3,
               committing |-> 4, verifying |-> 5, finished |-> 6]

\* Mutant: a lost acknowledgement cannot be recovered after the expiry.
Fault_RecoversLostAck(c, n, e) ==
    /\ command[c].status = "claimed" /\ ~Expired(command[c].grant, "cloud")
    /\ n = 1 /\ e.stage = "queued"

\* The durable local QUEUED event stands in for an acknowledgement that was lost.
\* Its occurred_at falls between the claim and the expiry, give or take the
\* thirty seconds of skew allowed: accept_control_plane_command wrote it in
\* between.
RecoversLostAck(c, n, e) ==
    /\ command[c].status = "claimed"
    /\ n = 1 /\ e.stage = "queued"

\* The one event a finished command still takes.
SafeReconciliation(c, e) ==
    /\ log[c] # << >> /\ log[c][Len(log[c])].outcome = "unknown"
    /\ e.stage = "finished" /\ e.outcome \in {"operator_confirmed", "failed_before_commit"}

\* Mutant: no reset, as if stages only went up.
Fault_StageFollows(c, e) ==
    IF log[c] = << >>
    THEN e.stage = "queued"
    ELSE StageOrder[e.stage] >= StageOrder[log[c][Len(log[c])].stage]

\* No stage regression but the safe pre-commit reset.
StageFollows(c, e) ==
    IF log[c] = << >>
    THEN e.stage = "queued"
    ELSE LET previous == log[c][Len(log[c])].stage
         IN  \/ StageOrder[e.stage] >= StageOrder[previous]
             \/ e.stage = "queued" /\ previous \in {"inspecting", "preparing", "ready"}

\* A stored event identifier is command and sequence: its redelivery is a
\* duplicate.
EventDuplicate(c, n) == n \in 1 .. Len(log[c])

\* Mutant: any later sequence number will do.
Fault_EventFresh(c, n, e) ==
    /\ command[c].ack = "received" \/ RecoversLostAck(c, n, e)
    /\ command[c].closed => SafeReconciliation(c, e)
    /\ n > Len(log[c])
    /\ StageFollows(c, e)

EventFresh(c, n, e) ==
    /\ command[c].ack = "received" \/ RecoversLostAck(c, n, e)
    /\ command[c].closed => SafeReconciliation(c, e)
    /\ n = Len(log[c]) + 1
    /\ StageFollows(c, e)

EventAccepted(c, n, e) == EventDuplicate(c, n) \/ EventFresh(c, n, e)

\* The row is written and the command follows its stage; a first event also
\* records the acknowledgement it recovers.
ReceiveRunnerEvent(c, n, e) ==
    IF EventDuplicate(c, n)
    THEN UNCHANGED cloudVars
    ELSE /\ log' = [log EXCEPT ![c] = Append(@, e)]
         /\ command' =
               [command EXCEPT ![c].ack = "received",
                               ![c].leased = FALSE,
                               ![c].status = IF e.stage = "finished" THEN "finished" ELSE "running",
                               ![c].closed = @ \/ e.stage = "finished"]
         /\ UNCHANGED hosted

-----------------------------------------------------------------------------
\* Time at the hosted side: a claim lease of fifteen seconds runs out.
LeaseRunsOut(c) ==
    /\ command[c].leased
    /\ command' = [command EXCEPT ![c].leased = FALSE]
    /\ UNCHANGED <<hosted, log>>

=============================================================================
