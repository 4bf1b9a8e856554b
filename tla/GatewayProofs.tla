---------------------------- MODULE GatewayProofs ----------------------------
(***************************************************************************)
(* Safety of the runner and the control plane for any number of grants,    *)
(* commands, late requests and events.  The invariant says of each request *)
(* in flight what the runner's database held when it was sent (Backed);    *)
(* since that only ever grows (Grows), the control plane may handle the    *)
(* request at any later time.                                              *)
(***************************************************************************)
EXTENDS RunnerGateway, TLAPS

\* The hosted part of the type invariant.
HostedTypeOK ==
    /\ hosted \in [Grants -> HostedRow]
    /\ command \in [Commands -> HostedCommand]
    /\ log \in [Commands -> Seq(Event)]

-----------------------------------------------------------------------------
\* What one handler of the control plane may do.

\* Everything the invariant needs to know of a handled request.
HandleEffect(m) ==
    /\ HostedTypeOK'
    /\ \A g \in Grants : hosted'[g].revoked => hosted[g].revoked \/ (m.kind = "revoke" /\ g = m.g)
    /\ \A c \in Commands :
          /\ command'[c].grant = command[c].grant
          /\ (command'[c].status # "absent") <=> (command[c].status # "absent")
          /\ command'[c].ack = "received" =>
                \/ command[c].ack = "received"
                \/ m.kind = "ack" /\ c = m.c /\ m.ack = "received"
                \/ m.kind = "drain" /\ c = m.c
          /\ command'[c].status = "rejected" => command'[c].ack # "received"
          /\ command'[c].status = "finished" => command'[c].closed
          /\ command[c].status \in {"rejected", "finished"} =>
                command'[c].status = command[c].status
          /\ \/ log'[c] = log[c]
             \/ /\ m.kind = "drain" /\ c = m.c /\ m.n = Len(log[c]) + 1
                /\ log'[c] = Append(log[c], Payload(c, m.n))
    /\ m.kind = "drain" => m.n <= Len(log'[m.c])

\* receive_review_grant_revocation stores the tombstone and cancels only commands
\* that were not acknowledged.
LEMMA RevokeEffect ==
    ASSUME HostedTypeOK, ClosedInv, NEW m, m.kind = "revoke", m.g \in Grants,
           ReceiveRevocation(m.g)
    PROVE  HandleEffect(m)
<1>1. hosted' \in [Grants -> HostedRow]
  BY DEF ReceiveRevocation, HostedTypeOK, HostedRow
<1>2. ASSUME NEW c \in Commands
      PROVE  /\ command'[c] \in HostedCommand
             /\ command'[c].grant = command[c].grant
             /\ command'[c].ack = command[c].ack
             /\ \/ command'[c] = command[c]
                \/ /\ command[c].ack = "none" /\ command[c].status \in {"queued", "claimed"}
                   /\ command'[c].status = "rejected"
  <2>1. command[c] \in HostedCommand
    BY DEF HostedTypeOK
  <2> QED
    BY <2>1 DEF ReceiveRevocation, Cancelled, HostedCommand
<1>3. command' \in [Commands -> HostedCommand]
  BY <1>2 DEF ReceiveRevocation, Cancelled
<1>4. \A g \in Grants : hosted'[g].revoked => hosted[g].revoked \/ g = m.g
  BY DEF ReceiveRevocation, HostedTypeOK, HostedRow
<1>5. log' = log
  BY DEF ReceiveRevocation
<1> QED
  BY <1>1, <1>2, <1>3, <1>4, <1>5, ZenonT(60) DEF HandleEffect, HostedTypeOK, ClosedInv

\* receive_review_grant stores the grant and never a tombstone.
LEMMA ProjectEffect ==
    ASSUME HostedTypeOK, ClosedInv, NEW m, m.kind = "project", m.g \in Grants,
           ReceiveReviewGrant(m.g)
    PROVE  HandleEffect(m)
<1>1. hosted' \in [Grants -> HostedRow]
  BY DEF ReceiveReviewGrant, HostedTypeOK, HostedRow
<1>2. \A g \in Grants : hosted'[g].revoked = hosted[g].revoked
  BY DEF ReceiveReviewGrant, HostedTypeOK, HostedRow
<1>3. command' = command /\ log' = log
  BY DEF ReceiveReviewGrant
<1> QED
  BY <1>1, <1>2, <1>3 DEF HandleEffect, HostedTypeOK, ClosedInv

\* poll_command delivers a command that exists and is not closed.
LEMMA PollEffect ==
    ASSUME HostedTypeOK, ClosedInv, NEW m, m.kind = "poll", NEW d \in Commands,
           PollCommand(d)
    PROVE  HandleEffect(m) /\ Created(d)
<1> DEFINE row == [command[d] EXCEPT !.status = "claimed", !.leased = TRUE]
<1>1. command[d] \in HostedCommand /\ command[d].status \in {"queued", "claimed"}
  BY DEF PollCommand, Deliverable, HostedTypeOK
<1>2. /\ row \in HostedCommand /\ row.grant = command[d].grant
      /\ row.status = "claimed" /\ row.ack = command[d].ack
  BY <1>1 DEF HostedCommand
<1>3. command' = [command EXCEPT ![d] = row]
  BY <1>1 DEF PollCommand, HostedTypeOK, HostedCommand
<1>4. hosted' = hosted /\ log' = log
  BY DEF PollCommand
<1> HIDE DEF row
<1>5. command' \in [Commands -> HostedCommand]
  BY <1>2, <1>3 DEF HostedTypeOK
<1>6. \A c \in Commands : command'[c] = IF c = d THEN row ELSE command[c]
  BY <1>3 DEF HostedTypeOK
<1> QED
  BY <1>1, <1>2, <1>4, <1>5, <1>6 DEF HandleEffect, HostedTypeOK, ClosedInv, Created

\* acknowledge_command writes its word on the command it names, and does not
\* reopen it.
LEMMA AckEffect ==
    ASSUME HostedTypeOK, ClosedInv, NEW m, m.kind = "ack", m.c \in Commands,
           m.ack \in {"received", "rejected"}, Created(m.c),
           AckAccepted(m.c, m.ack), AcknowledgeCommand(m.c, m.ack)
    PROVE  HandleEffect(m)
<1> DEFINE old == command[m.c]
           row == command'[m.c]
<1>1. old \in HostedCommand
  BY DEF HostedTypeOK
<1>2. /\ row \in HostedCommand /\ row.grant = old.grant /\ row.ack = m.ack
      /\ \A c \in Commands \ {m.c} : command'[c] = command[c]
      /\ command' \in [Commands -> HostedCommand]
      /\ hosted' = hosted /\ log' = log
  <2>1. CASE AckFirst(m.c, m.ack)
    BY <1>1, <2>1 DEF AcknowledgeCommand, HostedTypeOK, HostedCommand
  <2>2. CASE ~AckFirst(m.c, m.ack)
    BY <1>1, <2>2 DEF AcknowledgeCommand, HostedTypeOK, HostedCommand
  <2> QED
    BY <2>1, <2>2
<1>3. /\ row.status # "absent"
      /\ row.status = "rejected" => m.ack # "received"
      /\ row.status = "finished" => row.closed
      /\ old.status \in {"rejected", "finished"} => row.status = old.status
  <2>1. CASE AckFirst(m.c, m.ack)
    <3>1. row.status = IF m.ack = "received" THEN "acknowledged" ELSE "rejected"
      BY <1>1, <2>1 DEF AcknowledgeCommand, HostedTypeOK, HostedCommand
    <3> QED
      BY <2>1, <3>1 DEF AckFirst
  <2>2. CASE ~AckFirst(m.c, m.ack)
    <3>1. row.status = old.status /\ row.closed = old.closed
      BY <1>1, <2>2 DEF AcknowledgeCommand, HostedTypeOK, HostedCommand
    <3> QED
      BY <2>2, <3>1 DEF AckAccepted, AckDuplicate, AckAfterRevocation, ClosedInv, Created
  <2> QED
    BY <2>1, <2>2
<1> HIDE DEF old, row
<1>4. \A c \in Commands : c = m.c \/ command'[c] = command[c]
  BY <1>2
<1> QED
  BY <1>2, <1>3, <1>4 DEF HandleEffect, HostedTypeOK, ClosedInv, Created, old, row

\* A row in hand exists, so its payload is an event.
LEMMA PayloadType ==
    ASSUME outbox \in [Commands -> Seq(OutboxRow)], NEW c \in Commands,
           NEW n \in 1 .. Len(outbox[c])
    PROVE  Payload(c, n) \in Event
<1>1. outbox[c] \in Seq(OutboxRow)
  OBVIOUS
<1>2. outbox[c][n] \in OutboxRow
  BY <1>1
<1> QED
  BY <1>2 DEF Payload, OutboxRow, Event

\* receive_runner_event appends the next event of its command or changes nothing.
LEMMA EventEffect ==
    ASSUME HostedTypeOK, ClosedInv, NEW m, m.kind = "drain", m.c \in Commands,
           NEW e \in Event, e = Payload(m.c, m.n), m.n \in Nat,
           \A c \in Commands : command[c].ack = "received" \/ command[c].status = "claimed"
                                  => Created(c),
           EventAccepted(m.c, m.n, e), ReceiveRunnerEvent(m.c, m.n, e)
    PROVE  HandleEffect(m)
<1> DEFINE old == command[m.c]
           row == command'[m.c]
<1>1. old \in HostedCommand /\ log[m.c] \in Seq(Event) /\ Len(log[m.c]) \in Nat
  BY DEF HostedTypeOK
<1>2. CASE EventDuplicate(m.c, m.n)
  <2>1. hosted' = hosted /\ command' = command /\ log' = log
    BY <1>2 DEF ReceiveRunnerEvent, cloudVars
  <2>2. m.n <= Len(log[m.c])
    BY <1>1, <1>2 DEF EventDuplicate
  <2> QED
    BY <2>1, <2>2 DEF HandleEffect, HostedTypeOK, ClosedInv
<1>3. CASE ~EventDuplicate(m.c, m.n)
  <2>1. EventFresh(m.c, m.n, e) /\ m.n = Len(log[m.c]) + 1
    BY <1>3 DEF EventAccepted, EventFresh
  <2>2. /\ log' = [log EXCEPT ![m.c] = Append(@, e)]
        /\ hosted' = hosted
        /\ command' = [command EXCEPT ![m.c].ack = "received",
                                      ![m.c].leased = FALSE,
                                      ![m.c].status = IF e.stage = "finished" THEN "finished" ELSE "running",
                                      ![m.c].closed = @ \/ e.stage = "finished"]
    BY <1>3 DEF ReceiveRunnerEvent
  <2>3. /\ log' \in [Commands -> Seq(Event)]
        /\ log'[m.c] = Append(log[m.c], e)
        /\ \A c \in Commands \ {m.c} : log'[c] = log[c]
        /\ Len(log'[m.c]) = Len(log[m.c]) + 1
    BY <1>1, <2>2 DEF HostedTypeOK
  <2>4. /\ row.ack = "received" /\ row.grant = old.grant
        /\ row.status = IF e.stage = "finished" THEN "finished" ELSE "running"
        /\ row.closed = (old.closed \/ e.stage = "finished")
        /\ row \in HostedCommand
        /\ command' \in [Commands -> HostedCommand]
        /\ \A c \in Commands \ {m.c} : command'[c] = command[c]
    BY <1>1, <2>2 DEF HostedTypeOK, HostedCommand
  <2>5. old.status # "absent"
    BY <2>1 DEF EventFresh, RecoversLostAck, Created
  <2>6. old.status \in {"rejected", "finished"} => row.status = old.status
    <3>1. CASE old.status = "rejected"
      BY <2>1, <3>1 DEF EventFresh, RecoversLostAck, ClosedInv
    <3>2. CASE old.status = "finished"
      BY <2>1, <2>4, <3>2 DEF EventFresh, SafeReconciliation, ClosedInv
    <3> QED
      BY <3>1, <3>2
  <2> HIDE DEF old, row
  <2>7. \A c \in Commands : c = m.c \/ (command'[c] = command[c] /\ log'[c] = log[c])
    BY <2>3, <2>4
  <2>8. row.status # "absent" /\ row.status # "rejected"
        /\ (row.status = "finished" => row.closed)
    BY <2>4
  <2>9. HostedTypeOK'
    BY <2>2, <2>3, <2>4 DEF HostedTypeOK
  <2>10. ASSUME NEW c \in Commands
         PROVE  /\ command'[c].grant = command[c].grant
                /\ (command'[c].status # "absent") <=> (command[c].status # "absent")
                /\ command'[c].ack = "received" => command[c].ack = "received" \/ c = m.c
                /\ command'[c].status = "rejected" => command'[c].ack # "received"
                /\ command'[c].status = "finished" => command'[c].closed
                /\ command[c].status \in {"rejected", "finished"} =>
                      command'[c].status = command[c].status
                /\ \/ log'[c] = log[c]
                   \/ c = m.c /\ log'[c] = Append(log[c], Payload(c, m.n))
    <3>1. CASE c = m.c
      BY <2>3, <2>4, <2>5, <2>6, <2>8, <3>1 DEF old, row
    <3>2. CASE c # m.c
      BY <2>7, <3>2 DEF ClosedInv
    <3> QED
      BY <3>1, <3>2
  <2>11. m.n <= Len(log'[m.c])
    BY <1>1, <2>1, <2>3
  <2>12. \A c \in Commands :
            \/ log'[c] = log[c]
            \/ /\ c = m.c /\ m.n = Len(log[c]) + 1
               /\ log'[c] = Append(log[c], Payload(c, m.n))
    BY <2>1, <2>10
  <2>13. \A g \in Grants : hosted'[g].revoked => hosted[g].revoked
    BY <2>2
  <2> QED
    BY <2>9, <2>10, <2>11, <2>12, <2>13 DEF HandleEffect
<1> QED
  BY <1>2, <1>3

\* Every handled request has these effects and no others; what a poll delivers
\* is a command that exists.
LEMMA HandleEffects ==
    ASSUME LinkInv, NEW m \in Request, NEW d \in Commands \cup {NoCommand},
           Backed(m), Handle(m, d)
    PROVE  HandleEffect(m) /\ (m.kind = "poll" /\ d # NoCommand => d \in Commands /\ Created(d))
<1>1. HostedTypeOK /\ ClosedInv /\ outbox \in [Commands -> Seq(OutboxRow)]
  BY DEF LinkInv, GatewayTypeOK, HostedTypeOK
<1>2. \A c \in Commands : command[c].ack = "received" \/ command[c].status = "claimed" => Created(c)
  BY NonesAreNew DEF LinkInv, AcknowledgedMeansAdmitted, ReceiptsInv, Created
<1>3. CASE m.kind = "revoke" /\ ReceiveRevocation(m.g)
  BY <1>1, <1>3, RevokeEffect DEF Backed
<1>4. CASE m.kind = "project" /\ ReceiveReviewGrant(m.g)
  BY <1>1, <1>4, ProjectEffect DEF Backed
<1>5. CASE m.kind = "poll" /\ d # NoCommand /\ PollCommand(d)
  BY <1>1, <1>5, PollEffect
<1>6. CASE m.kind = "poll" /\ d = NoCommand /\ UNCHANGED cloudVars
  BY <1>1, <1>6 DEF HandleEffect, HostedTypeOK, ClosedInv, cloudVars
<1>7. CASE m.kind = "ack" /\ AckAccepted(m.c, m.ack) /\ AcknowledgeCommand(m.c, m.ack)
  BY <1>1, <1>7, AckEffect DEF Backed
<1>8. CASE /\ m.kind = "drain"
           /\ EventAccepted(m.c, m.n, Payload(m.c, m.n))
           /\ ReceiveRunnerEvent(m.c, m.n, Payload(m.c, m.n))
  <2>1. m.c \in Commands /\ m.n \in 1 .. Len(outbox[m.c]) /\ m.n \in Nat
    BY <1>8 DEF Backed, Request
  <2>2. Payload(m.c, m.n) \in Event
    BY <1>1, <2>1, PayloadType
  <2>3. HandleEffect(m)
    BY <1>1, <1>2, <1>8, <2>1, <2>2, EventEffect
  <2> QED
    BY <1>8, <2>3
<1> QED
  BY <1>3, <1>4, <1>5, <1>6, <1>7, <1>8 DEF Handle

-----------------------------------------------------------------------------
\* What a step may do to the runner's side of the invariant.

\* Nothing a request was backed by is ever taken back.
Grows ==
    /\ \A g \in Grants : grant[g].revoked => grant'[g].revoked
    /\ \A c \in Commands : /\ command[c].status # "absent" => command'[c].status # "absent"
                           /\ attempt[c].stage # "none" => attempt'[c].stage # "none"
                           /\ Len(outbox[c]) <= Len(outbox'[c])

\* The requests in flight after a step were in flight before, or the runner has
\* just stopped waiting for them (Abandon).
LateFrom == \A m \in late' : m \in late \/ (runner.wire # "none" /\ m = Awaited)

\* A request stays backed: grants stay revoked, receipts and outbox rows stay.
LEMMA BackedStable ==
    ASSUME GatewayTypeOK, GatewayTypeOK', Grows, NEW m \in Request, Backed(m)
    PROVE  Backed(m)'
<1>1. m.kind \in {"revoke", "project"} => m.g \in Grants
  BY DEF Backed
<1>2. m.kind = "revoke" => grant'[m.g].revoked
  BY <1>1 DEF Backed, Grows
<1>3. m.kind = "ack" => /\ m.c \in Commands /\ command'[m.c].status # "absent"
                        /\ m.ack \in {"received", "rejected"}
                        /\ m.ack = "received" => attempt'[m.c].stage # "none"
  BY DEF Backed, Grows, Created, Admitted
<1>4. m.kind = "drain" => m.c \in Commands /\ m.n \in 1 .. Len(outbox'[m.c])
  <2>1. SUFFICES ASSUME m.kind = "drain"
                 PROVE  m.c \in Commands /\ m.n \in 1 .. Len(outbox'[m.c])
    OBVIOUS
  <2>2. m.c \in Commands /\ m.n \in 1 .. Len(outbox[m.c])
    BY <2>1 DEF Backed
  <2>3. Len(outbox[m.c]) \in Nat /\ Len(outbox'[m.c]) \in Nat
        /\ Len(outbox[m.c]) <= Len(outbox'[m.c])
    BY <2>2 DEF GatewayTypeOK, Grows
  <2> QED
    BY <2>2, <2>3
<1> QED
  BY <1>1, <1>2, <1>3, <1>4 DEF Backed, Created, Admitted

\* The request of a runner that waits is a request.
LEMMA AwaitedType ==
    ASSUME GatewayTypeOK, RunnerInv, runner.wire # "none"
    PROVE  Awaited \in Request /\ Backed(Awaited) /\ Awaited.kind = runner.pc
BY DEF GatewayTypeOK, RunnerInv, Runner, Request, Awaited

\* The parts of the invariant that concern what is in flight follow from Grows.
LEMMA InFlight ==
    ASSUME LinkInv, GatewayTypeOK', Grows, LateFrom
    PROVE  LateInv'
<1>1. SUFFICES ASSUME NEW m \in late'
               PROVE  Backed(m)'
  BY DEF LateInv
<1>2. GatewayTypeOK /\ RunnerInv
  BY DEF LinkInv
<1>3. m \in Request /\ Backed(m)
  <2>1. CASE m \in late
    BY <1>2, <2>1 DEF LinkInv, LateInv, GatewayTypeOK
  <2>2. CASE runner.wire # "none" /\ m = Awaited
    BY <1>2, <2>2, AwaitedType
  <2> QED
    BY <2>1, <2>2 DEF LateFrom
<1> QED
  BY <1>2, <1>3, BackedStable

\* A runner that does not move keeps its place.
LEMMA RunnerWaits ==
    ASSUME LinkInv, GatewayTypeOK', Grows, runner' = runner,
           \A c \in Commands : Len(log[c]) <= Len(log'[c])
    PROVE  RunnerInv'
<1>1. GatewayTypeOK /\ RunnerInv
  BY DEF LinkInv
<1>2. ASSUME runner.wire # "none"
      PROVE  runner.pc # "admit" /\ Backed(Awaited)'
  <2>1. Awaited \in Request /\ Backed(Awaited)
    BY <1>1, <1>2, AwaitedType
  <2>2. \A m \in Request : Backed(m) => Backed(m)'
    BY <1>1, BackedStable
  <2>3. PICK m \in Request : m = Awaited
    BY <2>1
  <2>4. Backed(m)'
    BY <2>1, <2>2, <2>3
  <2>5. Awaited' = m
    BY <2>3 DEF Awaited
  <2> QED
    BY <1>1, <1>2, <2>4, <2>5 DEF RunnerInv, Backed
<1>3. runner.pc = "admit" => runner.c \in Commands /\ command'[runner.c].status # "absent"
  BY <1>1 DEF RunnerInv, Grows, Created
<1>4. runner.pc = "poll" /\ runner.c # NoCommand => command'[runner.c].status # "absent"
  BY <1>1 DEF RunnerInv, Grows, Created, GatewayTypeOK, Runner
<1>5. runner.pc = "drain" /\ runner.wire = "ok" => runner.n <= Len(log'[runner.c])
  <2>1. SUFFICES ASSUME runner.pc = "drain", runner.wire = "ok"
                 PROVE  runner.n <= Len(log'[runner.c])
    OBVIOUS
  <2>2. runner.c \in Commands /\ runner.n \in Nat /\ runner.n <= Len(log[runner.c])
    BY <1>1, <2>1 DEF RunnerInv, Backed, Awaited, GatewayTypeOK, Runner
  <2>3. Len(log[runner.c]) \in Nat /\ Len(log'[runner.c]) \in Nat
    BY <1>1, <2>2 DEF GatewayTypeOK
  <2> QED
    BY <2>2, <2>3
<1> QED
  BY <1>2, <1>3, <1>4, <1>5 DEF RunnerInv, Created

\* A step of the runner alone: both databases stay as they are.
LEMMA RunnerMoves ==
    ASSUME LinkInv, UNCHANGED <<cloudVars, lapsed, localVars>>, runner' \in Runner,
           RunnerInv', LateFrom
    PROVE  LinkInv'
<1>1. GatewayTypeOK'
  <2>1. late' \in SUBSET Request
    BY AwaitedType DEF LateFrom, LinkInv, GatewayTypeOK
  <2> QED
    BY <2>1 DEF LinkInv, GatewayTypeOK, cloudVars, localVars
<1>2. Grows
  BY DEF Grows, LinkInv, GatewayTypeOK, cloudVars, localVars
<1>3. LateInv'
  BY <1>1, <1>2, InFlight
<1>4. GrantsInv' /\ ReceiptsInv' /\ ClosedInv'
  BY DEF LinkInv, GrantsInv, ReceiptsInv, ClosedInv, Created, Admitted, cloudVars, localVars
<1>5. AcknowledgedMeansAdmitted' /\ HostedLogMirrorsOutbox'
  BY DEF LinkInv, AcknowledgedMeansAdmitted, HostedLogMirrorsOutbox, Admitted, Payload,
         cloudVars, localVars
<1> QED
  BY <1>1, <1>3, <1>4, <1>5 DEF LinkInv

\* The three places the runner goes to without anything in hand.
LEMMA RunnerRests ==
    ASSUME runner' \in {AtStart, Polling, Draining}
    PROVE  runner' \in Runner /\ RunnerInv'
<1>1. CASE runner' = AtStart
  BY <1>1 DEF AtStart, Runner, RunnerInv
<1>2. CASE runner' = Polling
  <2>1. AtStart \in Runner /\ AtStart.c = NoCommand
    BY DEF AtStart, Runner
  <2>2. /\ Polling \in Runner /\ Polling.c = NoCommand
        /\ Polling.pc = "poll" /\ Polling.wire = "sent"
    BY <2>1 DEF Polling, Runner
  <2> QED
    BY <1>2, <2>2 DEF RunnerInv, Backed, Awaited
<1>3. CASE runner' = Draining
  <2>1. Draining = [pc |-> "drain", wire |-> "none", g |-> NoGrant, c |-> NoCommand, n |-> 0,
                    ack |-> "none"]
    BY DEF Draining, AtStart
  <2> QED
    BY <1>3, <2>1 DEF Runner, RunnerInv
<1> QED
  BY <1>1, <1>2, <1>3

\* A step on the grant table: no grant is unrevoked, none is spent or freed, and
\* none that was spent is revoked.
LEMMA GrantsMove ==
    ASSUME LinkInv, UNCHANGED <<cloudVars, lapsed, attempt, outbox>>,
           fresh' \in SUBSET Grants /\ skipped' \in BOOLEAN, grant' \in [Grants -> GrantRow],
           \A g \in Grants : /\ grant[g].revoked => grant'[g].revoked
                             /\ grant'[g].consumed = grant[g].consumed
                             /\ grant'[g].revoked => grant'[g].consumed = NoCommand,
           runner' \in Runner, RunnerInv' \/ runner' = runner, LateFrom
    PROVE  LinkInv'
<1>1. GatewayTypeOK'
  <2>1. late' \in SUBSET Request
    BY AwaitedType DEF LateFrom, LinkInv, GatewayTypeOK
  <2> QED
    BY <2>1 DEF LinkInv, GatewayTypeOK, cloudVars
<1>2. Grows
  BY DEF Grows, LinkInv, GatewayTypeOK, cloudVars
<1>3. LateInv'
  BY <1>1, <1>2, InFlight
<1>4. RunnerInv'
  <2>1. \A c \in Commands : Len(log[c]) <= Len(log'[c])
    BY DEF LinkInv, GatewayTypeOK, cloudVars
  <2> QED
    BY <1>1, <1>2, <2>1, RunnerWaits
<1>5. GrantsInv'
  BY DEF LinkInv, GrantsInv, cloudVars
<1>6. ReceiptsInv' /\ ClosedInv'
  BY DEF LinkInv, ReceiptsInv, ClosedInv, Created, Admitted, cloudVars
<1>7. AcknowledgedMeansAdmitted' /\ HostedLogMirrorsOutbox'
  BY DEF LinkInv, AcknowledgedMeansAdmitted, HostedLogMirrorsOutbox, Admitted, Payload,
         cloudVars
<1> QED
  BY <1>1, <1>3, <1>4, <1>5, <1>6, <1>7 DEF LinkInv

\* A cycle that ends, a poll and a drain begin with nothing in hand, and what
\* the runner gives up on was backed.
LEMMA AbandonLate ==
    ASSUME Abandon \/ late' = late
    PROVE  LateFrom
BY DEF Abandon, LateFrom

\* Sweeping expired revocations changes their delivery state and nothing else.
LEMMA SweptRow ==
    ASSUME GatewayTypeOK, NEW g \in Grants
    PROVE  /\ Swept(g) \in GrantRow
           /\ Swept(g).revoked = grant[g].revoked
           /\ Swept(g).consumed = grant[g].consumed
<1>1. grant[g] \in GrantRow
  BY DEF GatewayTypeOK
<1> QED
  BY <1>1 DEF Swept, GrantRow

\* So does a change of one grant's delivery state.
LEMMA DeliveryState ==
    ASSUME GatewayTypeOK, NEW g \in Grants,
           NEW r \in {"none", "pending", "tried", "delivered", "expired"},
           NEW p \in {"pending", "projected"}
    PROVE  /\ [grant[g] EXCEPT !.revocation = r] \in GrantRow
           /\ [grant[g] EXCEPT !.revocation = r].revoked = grant[g].revoked
           /\ [grant[g] EXCEPT !.revocation = r].consumed = grant[g].consumed
           /\ [grant[g] EXCEPT !.projection = p] \in GrantRow
           /\ [grant[g] EXCEPT !.projection = p].revoked = grant[g].revoked
           /\ [grant[g] EXCEPT !.projection = p].consumed = grant[g].consumed
<1>1. grant[g] \in GrantRow
  BY DEF GatewayTypeOK
<1> QED
  BY <1>1 DEF GrantRow

\* The steps of run_once on the revocations and the projection.
LEMMA RevocationSteps ==
    ASSUME LinkInv,
           \/ \E g \in Grants : ClaimRevocation(g)
           \/ RevocationDelivered \/ RevocationFails \/ NoRevocationDue \/ ProjectionDelivered
    PROVE  LinkInv'
<1> DEFINE Quiet == /\ grant' \in [Grants -> GrantRow]
                    /\ \A g \in Grants : /\ grant'[g].revoked = grant[g].revoked
                                         /\ grant'[g].consumed = grant[g].consumed
<1>1. GatewayTypeOK /\ RunnerInv /\ runner \in Runner
  BY DEF LinkInv, GatewayTypeOK
<1>2. ASSUME Quiet, UNCHANGED <<cloudVars, lapsed, fresh, skipped, attempt, outbox>>,
             runner' \in Runner, RunnerInv', LateFrom
      PROVE  LinkInv'
  <2>1. \A g \in Grants : /\ grant[g].revoked => grant'[g].revoked
                          /\ grant'[g].consumed = grant[g].consumed
                          /\ grant'[g].revoked => grant'[g].consumed = NoCommand
    BY <1>2 DEF LinkInv, GrantsInv
  <2>2. fresh' \in SUBSET Grants /\ skipped' \in BOOLEAN
    BY <1>1, <1>2 DEF GatewayTypeOK
  <2> QED
    BY <1>2, <2>1, <2>2, GrantsMove
<1>3. CASE \E g \in Grants : ClaimRevocation(g)
  <2>1. PICK g \in Grants : ClaimRevocation(g)
    BY <1>3
  <2>2. \A h \in Grants : grant'[h] = IF h = g THEN [grant[g] EXCEPT !.revocation = "tried"]
                                               ELSE Swept(h)
    BY <2>1 DEF ClaimRevocation
  <2>3. Quiet
    <3>1. grant' = [h \in Grants |-> grant'[h]]
      BY <2>1 DEF ClaimRevocation
    <3>2. \A h \in Grants : /\ grant'[h] \in GrantRow
                            /\ grant'[h].revoked = grant[h].revoked
                            /\ grant'[h].consumed = grant[h].consumed
      BY <1>1, <2>2, SweptRow, DeliveryState, ZenonT(60)
    <3> QED
      BY <3>1, <3>2
  <2>4. runner' \in Runner /\ runner'.pc = "revoke" /\ runner'.wire = "sent" /\ runner'.g = g
    BY <1>1, <2>1 DEF ClaimRevocation, Runner
  <2>5. grant'[g].revoked
    BY <2>1, <2>3 DEF ClaimRevocation
  <2>6. RunnerInv'
    BY <2>4, <2>5 DEF RunnerInv, Backed, Awaited
  <2>7. LateFrom
    BY <2>1 DEF ClaimRevocation, LateFrom
  <2> QED
    BY <1>2, <2>1, <2>3, <2>4, <2>6, <2>7 DEF ClaimRevocation
<1>4. ASSUME runner.wire # "none", runner.pc \in {"revoke", "project"}
      PROVE  runner.g \in Grants
  BY <1>1, <1>4 DEF RunnerInv, Backed, Awaited
<1>5. CASE RevocationDelivered
  <2>1. runner.g \in Grants
    BY <1>4, <1>5 DEF RevocationDelivered
  <2>2. grant' = [grant EXCEPT ![runner.g] = [grant[runner.g] EXCEPT !.revocation = "delivered"]]
    BY <1>1, <1>5, <2>1 DEF RevocationDelivered, GatewayTypeOK
  <2>3. Quiet
    BY <1>1, <2>1, <2>2, DeliveryState DEF GatewayTypeOK
  <2>4. runner' \in Runner /\ RunnerInv' /\ LateFrom
    BY <1>5, RunnerRests, AbandonLate DEF RevocationDelivered
  <2> QED
    BY <1>2, <1>5, <2>3, <2>4 DEF RevocationDelivered
<1>6. CASE RevocationFails
  <2>1. runner.g \in Grants
    BY <1>4, <1>6 DEF RevocationFails, Failed
  <2>2. PICK r \in {"tried", "expired"} :
           grant' = [grant EXCEPT ![runner.g] = [grant[runner.g] EXCEPT !.revocation = r]]
    BY <1>1, <1>6, <2>1 DEF RevocationFails, GatewayTypeOK
  <2>3. Quiet
    BY <1>1, <2>1, <2>2, DeliveryState DEF GatewayTypeOK
  <2>4. runner' \in Runner /\ RunnerInv' /\ LateFrom
    BY <1>6, RunnerRests, AbandonLate DEF RevocationFails, Failed
  <2> QED
    BY <1>2, <1>6, <2>3, <2>4 DEF RevocationFails
<1>7. CASE NoRevocationDue
  <2>1. Quiet
    <3>1. \A h \in Grants : grant'[h] = Swept(h)
      BY <1>7 DEF NoRevocationDue
    <3>2. grant' = [h \in Grants |-> grant'[h]]
      BY <1>7 DEF NoRevocationDue
    <3> QED
      BY <1>1, <3>1, <3>2, SweptRow
  <2>2. runner' \in Runner /\ runner'.pc = "project" /\ runner'.wire = "none"
    BY <1>1, <1>7 DEF NoRevocationDue, Runner
  <2>3. RunnerInv'
    BY <2>2 DEF RunnerInv
  <2>4. LateFrom
    BY <1>7 DEF NoRevocationDue, LateFrom
  <2> QED
    BY <1>2, <1>7, <2>1, <2>2, <2>3, <2>4 DEF NoRevocationDue
<1>8. CASE ProjectionDelivered
  <2>1. runner.g \in Grants
    BY <1>4, <1>8 DEF ProjectionDelivered
  <2>2. grant' = [grant EXCEPT ![runner.g] = [grant[runner.g] EXCEPT !.projection = "projected"]]
    BY <1>1, <1>8, <2>1 DEF ProjectionDelivered, GatewayTypeOK
  <2>3. Quiet
    BY <1>1, <2>1, <2>2, DeliveryState DEF GatewayTypeOK
  <2>4. runner' \in Runner /\ RunnerInv' /\ LateFrom
    BY <1>8, RunnerRests, AbandonLate DEF ProjectionDelivered
  <2> QED
    BY <1>2, <1>8, <2>3, <2>4 DEF ProjectionDelivered
<1> QED
  BY <1>3, <1>5, <1>6, <1>7, <1>8


\* The steps that only move the runner: refusals, failed waits, crashes, empty
\* polls, and the claims and replies that write nothing the invariant reads.
LEMMA RunnerSteps ==
    ASSUME LinkInv,
           \/ \E g \in Grants : ClaimProjection(g) \/ ProjectionInvalid(g)
           \/ ProjectionFails \/ NoProjectionDue
           \/ NoCommandDelivered \/ VerifyCommand \/ PollFails
           \/ AdmitReplay \/ AdmitRefused \/ Acknowledged \/ AckFails
           \/ \E c \in Commands, n \in 1 .. MaxEvents : ClaimEvent(c, n)
           \/ NoEventDue \/ EventFails \/ Crash \/ RefuseAwaited
    PROVE  LinkInv'
<1>1. GatewayTypeOK /\ RunnerInv /\ runner \in Runner
  BY DEF LinkInv, GatewayTypeOK
<1>2. ASSUME UNCHANGED <<cloudVars, lapsed, localVars>>, runner' \in {AtStart, Polling, Draining},
             Abandon \/ late' = late
      PROVE  LinkInv'
  BY <1>2, RunnerRests, AbandonLate, RunnerMoves
<1>3. ASSUME UNCHANGED <<cloudVars, lapsed, localVars, late>>, runner' \in Runner, RunnerInv'
      PROVE  LinkInv'
  BY <1>3, AbandonLate, RunnerMoves
<1>4. ASSUME NEW g \in Grants, ClaimProjection(g)
      PROVE  LinkInv'
  <2>1. runner' \in Runner /\ runner'.pc = "project" /\ runner'.wire = "sent" /\ runner'.g = g
    BY <1>1, <1>4 DEF ClaimProjection, Runner
  <2>2. RunnerInv'
    BY <2>1 DEF RunnerInv, Backed, Awaited
  <2> QED
    BY <1>3, <1>4, <2>1, <2>2 DEF ClaimProjection
<1>5. ASSUME NEW g \in Grants, ProjectionInvalid(g)
      PROVE  LinkInv'
  BY <1>2, <1>5 DEF ProjectionInvalid
<1>6. CASE ProjectionFails
  BY <1>2, <1>6 DEF ProjectionFails, Failed
<1>7. CASE NoProjectionDue
  BY <1>2, <1>7 DEF NoProjectionDue
<1>8. CASE NoCommandDelivered
  BY <1>2, <1>8 DEF NoCommandDelivered
<1>9. CASE VerifyCommand
  <2>1. CASE Expired(command[runner.c].grant, "runner")
    BY <1>2, <1>9, <2>1 DEF VerifyCommand
  <2>2. CASE ~Expired(command[runner.c].grant, "runner")
    <3>1. /\ runner' \in Runner /\ runner'.pc = "admit" /\ runner'.wire = "none"
          /\ runner'.c = runner.c
      BY <1>1, <1>9, <2>2 DEF VerifyCommand, Runner
    <3>2. runner.c \in Commands /\ Created(runner.c)
      BY <1>1, <1>9 DEF VerifyCommand, RunnerInv, Runner
    <3>3. RunnerInv'
      BY <1>9, <3>1, <3>2 DEF VerifyCommand, RunnerInv, Created, cloudVars
    <3> QED
      BY <1>3, <1>9, <3>1, <3>3 DEF VerifyCommand
  <2> QED
    BY <2>1, <2>2
<1>10. CASE PollFails
  BY <1>2, <1>10 DEF PollFails, Failed
<1>11. ASSUME NEW ack \in {"received", "rejected"}, runner.pc = "admit",
              runner' = Acknowledging(ack), ack = "received" => Admitted(runner.c),
              UNCHANGED <<cloudVars, lapsed, localVars, late>>
       PROVE  LinkInv'
  <2>1. /\ runner' \in Runner /\ runner'.pc = "ack" /\ runner'.wire = "sent"
        /\ runner'.c = runner.c /\ runner'.ack = ack
    BY <1>1, <1>11 DEF Acknowledging, Runner
  <2>2. runner.c \in Commands /\ Created(runner.c)
    BY <1>1, <1>11 DEF RunnerInv
  <2>3. RunnerInv'
    BY <1>11, <2>1, <2>2 DEF RunnerInv, Backed, Awaited, Created, Admitted, cloudVars, localVars
  <2> QED
    BY <1>3, <1>11, <2>1, <2>3
<1>12. CASE AdmitReplay
  BY <1>11, <1>12 DEF AdmitReplay
<1>13. CASE AdmitRefused
  BY <1>11, <1>13 DEF AdmitRefused
<1>14. CASE Acknowledged
  BY <1>2, <1>14 DEF Acknowledged
<1>15. CASE AckFails
  BY <1>2, <1>15 DEF AckFails, Failed
<1>16. ASSUME NEW c \in Commands, NEW n \in 1 .. MaxEvents, ClaimEvent(c, n)
       PROVE  LinkInv'
  <2>1. n \in Nat
    BY <1>16, BoundsAreNatural
  <2>2. /\ runner' \in Runner /\ runner'.pc = "drain" /\ runner'.wire = "sent"
        /\ runner'.c = c /\ runner'.n = n
    BY <1>1, <1>16, <2>1 DEF ClaimEvent, Runner
  <2>3. n \in 1 .. Len(outbox'[c])
    BY <1>16 DEF ClaimEvent, localVars
  <2>4. RunnerInv'
    BY <2>2, <2>3 DEF RunnerInv, Backed, Awaited
  <2> QED
    BY <1>3, <1>16, <2>2, <2>4 DEF ClaimEvent
<1>17. CASE NoEventDue
  BY <1>2, <1>17 DEF NoEventDue
<1>18. CASE EventFails
  BY <1>2, <1>18 DEF EventFails, Failed
<1>19. CASE Crash
  BY <1>2, <1>19 DEF Crash
<1>20. CASE RefuseAwaited
  <2>1. /\ runner' \in Runner /\ runner'.pc = runner.pc /\ runner'.wire = "error"
        /\ runner'.g = runner.g /\ runner'.c = runner.c /\ runner'.n = runner.n
        /\ runner'.ack = runner.ack
    BY <1>1, <1>20 DEF RefuseAwaited, Runner
  <2>2. Awaited' = Awaited
    BY <2>1 DEF Awaited
  <2>3. runner.pc # "admit" /\ Backed(Awaited)
    BY <1>1, <1>20 DEF RefuseAwaited, RunnerInv
  <2>4. Backed(Awaited)'
    BY <1>20, <2>2, <2>3 DEF RefuseAwaited, Backed, Created, Admitted, cloudVars, localVars
  <2>5. RunnerInv'
    BY <1>1, <1>20, <2>1, <2>3, <2>4 DEF RefuseAwaited, RunnerInv, Created, cloudVars
  <2> QED
    BY <1>3, <1>20, <2>1, <2>5 DEF RefuseAwaited
<1> QED
  BY <1>4, <1>5, <1>6, <1>7, <1>8, <1>9, <1>10, <1>12, <1>13, <1>14, <1>15, <1>16, <1>17,
     <1>18, <1>19, <1>20

\* A new review mints a grant and supersedes the unspent ones; an edit only
\* makes grants stale.
LEMMA ReviewSteps ==
    ASSUME LinkInv, (\E g \in Grants : Mint(g)) \/ Edit
    PROVE  LinkInv'
<1>1. GatewayTypeOK /\ runner \in Runner /\ GrantsInv
  BY DEF LinkInv, GatewayTypeOK
<1>2. CASE \E g \in Grants : Mint(g)
  <2>1. PICK g \in Grants : Mint(g)
    BY <1>2
  <2>2. ASSUME NEW h \in Grants
        PROVE  /\ grant'[h] \in GrantRow
               /\ grant[h].revoked => grant'[h].revoked
               /\ grant'[h].consumed = grant[h].consumed
               /\ grant'[h].revoked => grant'[h].consumed = NoCommand
    <3>1. grant[h] \in GrantRow /\ (grant[h].revoked => grant[h].consumed = NoCommand)
      BY <1>1 DEF GatewayTypeOK, GrantsInv
    <3>2. CASE h = g
      BY <2>1, <3>1, <3>2 DEF Mint, GrantRow
    <3>3. CASE h # g
      <4>1. grant'[h] = Superseded(h)
        BY <2>1, <3>3 DEF Mint
      <4> QED
        BY <3>1, <4>1 DEF Superseded, GrantRow
    <3> QED
      BY <3>2, <3>3
  <2>3. grant' \in [Grants -> GrantRow] /\ fresh' \in SUBSET Grants /\ skipped' \in BOOLEAN
    <3>1. grant' = [h \in Grants |-> grant'[h]]
      BY <2>1 DEF Mint
    <3> QED
      BY <1>1, <2>1, <2>2, <3>1 DEF Mint, GatewayTypeOK
  <2>4. LateFrom
    BY <2>1 DEF Mint, LateFrom
  <2> QED
    BY <1>1, <2>1, <2>2, <2>3, <2>4, GrantsMove DEF Mint
<1>3. CASE Edit
  <2>1. LateFrom
    BY <1>3 DEF Edit, LateFrom
  <2> QED
    BY <1>1, <1>3, <2>1, GrantsMove DEF Edit, GatewayTypeOK, GrantsInv
<1> QED
  BY <1>2, <1>3


-----------------------------------------------------------------------------
\* The steps that touch attempts and outbox rows.

\* A step that leaves hosted state and grants alone, and under which rows stay
\* what they were: the log still mirrors the outbox.
LEMMA OutboxMoves ==
    ASSUME LinkInv, UNCHANGED <<cloudVars, lapsed, grant>>,
           fresh' \in SUBSET Grants /\ skipped' \in BOOLEAN, attempt' \in [Commands -> Attempt],
           outbox' \in [Commands -> Seq(OutboxRow)],
           \A c \in Commands :
               /\ attempt[c].stage # "none" <=> attempt'[c].stage # "none"
               /\ outbox[c] = << >> => outbox'[c] = << >> \/ attempt[c].stage # "none"
               /\ Len(outbox[c]) <= Len(outbox'[c])
               /\ \A n \in 1 .. Len(outbox[c]) :
                     outbox'[c][n].stage = outbox[c][n].stage
                     /\ outbox'[c][n].outcome = outbox[c][n].outcome
               /\ \A n \in 1 .. Len(outbox'[c]) :
                     outbox'[c][n].state = "sent" => n <= Len(log[c]),
           runner' \in Runner, RunnerInv' \/ runner' = runner, LateFrom
    PROVE  LinkInv'
<1>1. GatewayTypeOK'
  <2>1. late' \in SUBSET Request
    BY AwaitedType DEF LateFrom, LinkInv, GatewayTypeOK
  <2> QED
    BY <2>1 DEF LinkInv, GatewayTypeOK, cloudVars
<1>2. Grows
  BY DEF Grows, LinkInv, GatewayTypeOK, cloudVars
<1>3. LateInv'
  BY <1>1, <1>2, InFlight
<1>4. RunnerInv'
  <2>1. \A c \in Commands : Len(log[c]) <= Len(log'[c])
    BY DEF LinkInv, GatewayTypeOK, cloudVars
  <2> QED
    BY <1>1, <1>2, <2>1, RunnerWaits
<1>5. GrantsInv' /\ ClosedInv'
  BY DEF LinkInv, GrantsInv, ClosedInv, cloudVars
<1>6. ReceiptsInv'
  BY DEF LinkInv, ReceiptsInv, Created, Admitted, cloudVars
<1>7. AcknowledgedMeansAdmitted'
  BY DEF LinkInv, AcknowledgedMeansAdmitted, Admitted, cloudVars
<1>8. HostedLogMirrorsOutbox'
  <2>1. SUFFICES ASSUME NEW c \in Commands
                 PROVE  /\ Len(log[c]) <= Len(outbox'[c])
                        /\ \A n \in 1 .. Len(log[c]) : log[c][n] = Payload(c, n)'
                        /\ \A n \in 1 .. Len(outbox'[c]) :
                              outbox'[c][n].state = "sent" => n <= Len(log[c])
    BY DEF HostedLogMirrorsOutbox, cloudVars
  <2>2. /\ Len(log[c]) \in Nat /\ Len(outbox[c]) \in Nat /\ Len(outbox'[c]) \in Nat
        /\ Len(log[c]) <= Len(outbox[c]) /\ Len(outbox[c]) <= Len(outbox'[c])
    BY DEF LinkInv, GatewayTypeOK, HostedLogMirrorsOutbox
  <2>3. ASSUME NEW n \in 1 .. Len(log[c])
        PROVE  log[c][n] = Payload(c, n)'
    <3>1. n \in 1 .. Len(outbox[c])
      BY <2>2
    <3>2. log[c][n] = [stage |-> outbox[c][n].stage, outcome |-> outbox[c][n].outcome]
      BY DEF LinkInv, HostedLogMirrorsOutbox, Payload
    <3> QED
      BY <3>1, <3>2 DEF Payload
  <2> QED
    BY <2>2, <2>3
<1> QED
  BY <1>1, <1>3, <1>4, <1>5, <1>6, <1>7, <1>8 DEF LinkInv

\* A transition of an admitted attempt appends one pending row.
LEMMA TransitionStep ==
    ASSUME LinkInv, NEW c \in Commands, NEW s \in Stages, NEW o \in Outcomes \cup {"none"},
           attempt[c].stage # "none", Transition(c, s, o)
    PROVE  LinkInv'
<1> DEFINE row == [stage |-> s, outcome |-> o, state |-> "pending"]
<1>1. GatewayTypeOK /\ runner \in Runner /\ HostedLogMirrorsOutbox
  BY DEF LinkInv, GatewayTypeOK
<1>2. row \in OutboxRow /\ row.state = "pending"
  BY DEF OutboxRow
<1>3. outbox' = [outbox EXCEPT ![c] = Append(outbox[c], row)]
  BY <1>1 DEF Transition, Enqueue, GatewayTypeOK
<1>4. attempt' \in [Commands -> Attempt]
  BY <1>1 DEF Transition, GatewayTypeOK, Attempt
<1>5. \A d \in Commands : attempt[d].stage # "none" <=> attempt'[d].stage # "none"
  <2>1. attempt' = [attempt EXCEPT ![c] = [stage |-> s, outcome |-> o]]
    BY DEF Transition
  <2>2. s # "none"
    BY DEF Stages, PreCommit, PostCommit
  <2> QED
    BY <1>1, <2>1, <2>2 DEF GatewayTypeOK
<1> HIDE DEF row
<1>6. outbox[c] \in Seq(OutboxRow) /\ outbox'[c] = Append(outbox[c], row)
      /\ outbox' \in [Commands -> Seq(OutboxRow)]
  BY <1>1, <1>2, <1>3 DEF GatewayTypeOK
<1>7. ASSUME NEW d \in Commands
      PROVE  /\ outbox[d] = << >> => outbox'[d] = << >> \/ attempt[d].stage # "none"
             /\ Len(outbox[d]) <= Len(outbox'[d])
             /\ \A n \in 1 .. Len(outbox[d]) :
                   outbox'[d][n].stage = outbox[d][n].stage
                   /\ outbox'[d][n].outcome = outbox[d][n].outcome
             /\ \A n \in 1 .. Len(outbox'[d]) :
                   outbox'[d][n].state = "sent" => n <= Len(log[d])
  <2>1. CASE d = c
    <3>1. /\ Len(outbox[c]) \in Nat /\ Len(outbox'[c]) = Len(outbox[c]) + 1
          /\ \A n \in 1 .. Len(outbox[c]) : outbox'[c][n] = outbox[c][n]
          /\ outbox'[c][Len(outbox[c]) + 1] = row
      BY <1>2, <1>6
    <3>2. ASSUME NEW n \in 1 .. Len(outbox'[c]), outbox'[c][n].state = "sent"
          PROVE  n <= Len(log[c])
      <4>1. n # Len(outbox[c]) + 1
        BY <1>2, <3>1, <3>2
      <4>2. n \in 1 .. Len(outbox[c])
        BY <3>1, <4>1
      <4> QED
        BY <1>1, <3>1, <3>2, <4>2 DEF HostedLogMirrorsOutbox
    <3> QED
      BY <2>1, <3>1, <3>2
  <2>2. CASE d # c
    <3>1. outbox'[d] = outbox[d]
      BY <1>1, <1>3, <2>2 DEF GatewayTypeOK
    <3>2. Len(outbox[d]) \in Nat
      BY <1>1 DEF GatewayTypeOK
    <3> QED
      BY <1>1, <3>1, <3>2 DEF HostedLogMirrorsOutbox
  <2> QED
    BY <2>1, <2>2
<1>8. LateFrom
  BY DEF Transition, LateFrom
<1>9. UNCHANGED <<cloudVars, lapsed, grant, fresh, skipped, runner>>
  BY DEF Transition
<1>10. fresh' \in SUBSET Grants /\ skipped' \in BOOLEAN /\ runner' \in Runner
  BY <1>1, <1>9 DEF GatewayTypeOK
<1> QED
  BY <1>4, <1>5, <1>6, <1>7, <1>8, <1>9, <1>10, OutboxMoves

\* The worker, the reconciler and the operator move attempts.
LEMMA AttemptSteps ==
    ASSUME LinkInv, NEW c \in Commands,
           \/ \E s \in Stages : Advance(c, s)
           \/ \E o \in Outcomes : Finish(c, o) \/ Reconcile(c, o)
           \/ Redeliver(c)
    PROVE  LinkInv'
<1>1. GatewayTypeOK /\ runner \in Runner /\ HostedLogMirrorsOutbox
  BY DEF LinkInv, GatewayTypeOK
<1>2. ASSUME NEW s \in Stages, Advance(c, s)
      PROVE  LinkInv'
  <2>1. attempt[c].stage # "none"
    BY <1>2 DEF Advance, CanAdvance, AllowedNextStage
  <2> QED
    BY <1>2, <2>1, TransitionStep DEF Advance
<1>3. ASSUME NEW o \in Outcomes, Finish(c, o)
      PROVE  LinkInv'
  <2>1. attempt[c].stage # "none"
    BY <1>3 DEF Finish, CanFinish, AllowedNextStage
  <2>2. "finished" \in Stages
    BY DEF Stages
  <2> QED
    BY <1>3, <2>1, <2>2, TransitionStep DEF Finish
<1>4. ASSUME NEW o \in Outcomes, Reconcile(c, o)
      PROVE  LinkInv'
  <2>1. attempt[c].stage # "none"
    BY <1>4 DEF Reconcile, Admitted
  <2>2. "finished" \in Stages
    BY DEF Stages
  <2> QED
    BY <1>4, <2>1, <2>2, TransitionStep DEF Reconcile
<1>5. CASE Redeliver(c)
  <2>1. attempt[c].stage # "none" /\ "queued" \in Stages
    BY <1>5 DEF Redeliver, PreCommit, Stages
  <2> QED
    BY <1>5, <2>1, TransitionStep DEF Redeliver
<1> QED
  BY <1>2, <1>3, <1>4, <1>5

\* A skip cancels a pre-commit attempt and leaves its outbox rows as they are.
LEMMA SkipStep ==
    ASSUME LinkInv, Skip
    PROVE  LinkInv'
<1> DEFINE cancelled == [stage |-> "finished", outcome |-> "failed_before_commit"]
<1>1. GatewayTypeOK /\ runner \in Runner /\ HostedLogMirrorsOutbox
  BY DEF LinkInv, GatewayTypeOK
<1>2. cancelled \in Attempt /\ cancelled.stage = "finished"
  BY DEF Attempt, Stages, Outcomes
<1>3. /\ attempt' = [c \in Commands |-> IF attempt[c].stage \in PreCommit THEN cancelled
                                                                        ELSE attempt[c]]
      /\ fresh' = {} /\ skipped' = TRUE
      /\ UNCHANGED <<cloudVars, lapsed, grant, outbox, late, runner>>
  BY DEF Skip
<1> HIDE DEF cancelled
<1>4. "none" \notin PreCommit
  BY DEF PreCommit
<1>5. /\ attempt' \in [Commands -> Attempt]
      /\ \A c \in Commands : attempt[c].stage # "none" <=> attempt'[c].stage # "none"
  BY <1>1, <1>2, <1>3, <1>4 DEF GatewayTypeOK
<1>6. \A c \in Commands : /\ Len(outbox[c]) <= Len(outbox'[c])
                          /\ \A n \in 1 .. Len(outbox'[c]) :
                                outbox'[c][n].state = "sent" => n <= Len(log[c])
  BY <1>1, <1>3 DEF GatewayTypeOK, HostedLogMirrorsOutbox
<1>7. outbox' \in [Commands -> Seq(OutboxRow)] /\ outbox' = outbox
  BY <1>1, <1>3 DEF GatewayTypeOK
<1>8. LateFrom
  BY <1>3 DEF LateFrom
<1> QED
  BY <1>1, <1>3, <1>5, <1>6, <1>7, <1>8, OutboxMoves


\* The acknowledged delivery of an event marks a row that the log holds.
LEMMA EventDeliveredStep ==
    ASSUME LinkInv, EventDelivered
    PROVE  LinkInv'
<1> DEFINE c == runner.c
           n == runner.n
           row == [outbox[c][n] EXCEPT !.state = "sent"]
<1>1. GatewayTypeOK /\ RunnerInv /\ runner \in Runner /\ HostedLogMirrorsOutbox
  BY DEF LinkInv, GatewayTypeOK
<1>2. c \in Commands /\ n \in 1 .. Len(outbox[c]) /\ n <= Len(log[c])
  BY <1>1 DEF EventDelivered, RunnerInv, Backed, Awaited
<1>3. outbox[c] \in Seq(OutboxRow) /\ outbox[c][n] \in OutboxRow
  BY <1>1, <1>2 DEF GatewayTypeOK
<1>4. row \in OutboxRow /\ row.stage = outbox[c][n].stage /\ row.outcome = outbox[c][n].outcome
  BY <1>3 DEF OutboxRow
<1>5. outbox' = [outbox EXCEPT ![c] = [outbox[c] EXCEPT ![n] = row]]
  BY <1>1, <1>2, <1>3 DEF EventDelivered, GatewayTypeOK
<1>6. UNCHANGED <<cloudVars, lapsed, grant, fresh, skipped, attempt>> /\ runner' = AtStart /\ late' = late
  BY DEF EventDelivered
<1> HIDE DEF row, c, n
<1>7. /\ outbox'[c] \in Seq(OutboxRow) /\ Len(outbox'[c]) = Len(outbox[c])
      /\ outbox'[c][n] = row
      /\ \A k \in 1 .. Len(outbox[c]) : k # n => outbox'[c][k] = outbox[c][k]
  BY <1>1, <1>2, <1>3, <1>4, <1>5 DEF GatewayTypeOK
<1>8. \A d \in Commands : d # c => outbox'[d] = outbox[d]
  BY <1>1, <1>5 DEF GatewayTypeOK
<1>9. outbox' \in [Commands -> Seq(OutboxRow)]
  <2>1. outbox' = [d \in Commands |-> outbox'[d]]
    BY <1>1, <1>5 DEF GatewayTypeOK
  <2>2. \A d \in Commands : outbox'[d] \in Seq(OutboxRow)
    BY <1>1, <1>7, <1>8 DEF GatewayTypeOK
  <2> QED
    BY <2>1, <2>2
<1>10. ASSUME NEW d \in Commands
       PROVE  /\ attempt[d].stage # "none" <=> attempt'[d].stage # "none"
              /\ outbox[d] = << >> => outbox'[d] = << >> \/ attempt[d].stage # "none"
              /\ Len(outbox[d]) <= Len(outbox'[d])
              /\ \A k \in 1 .. Len(outbox[d]) :
                    outbox'[d][k].stage = outbox[d][k].stage
                    /\ outbox'[d][k].outcome = outbox[d][k].outcome
              /\ \A k \in 1 .. Len(outbox'[d]) :
                    outbox'[d][k].state = "sent" => k <= Len(log[d])
  <2>1. Len(outbox[d]) \in Nat
    BY <1>1 DEF GatewayTypeOK
  <2>2. CASE d = c
    <3>1. outbox[d] # << >>
      BY <1>2, <1>3, <2>2
    <3>2. \A k \in 1 .. Len(outbox[d]) :
             /\ outbox'[d][k].stage = outbox[d][k].stage
             /\ outbox'[d][k].outcome = outbox[d][k].outcome
      BY <1>4, <1>7, <2>2
    <3>3. \A k \in 1 .. Len(outbox'[d]) : outbox'[d][k].state = "sent" => k <= Len(log[d])
      BY <1>1, <1>2, <1>7, <2>2 DEF HostedLogMirrorsOutbox
    <3> QED
      BY <1>6, <1>7, <2>1, <2>2, <3>1, <3>2, <3>3
  <2>3. CASE d # c
    BY <1>1, <1>6, <1>8, <2>1, <2>3 DEF HostedLogMirrorsOutbox
  <2> QED
    BY <2>2, <2>3
<1>11. runner' \in Runner /\ RunnerInv' /\ LateFrom
  BY <1>6, RunnerRests, AbandonLate
<1>12. fresh' \in SUBSET Grants /\ skipped' \in BOOLEAN /\ attempt' \in [Commands -> Attempt]
  BY <1>1, <1>6 DEF GatewayTypeOK
<1> QED
  BY <1>6, <1>9, <1>10, <1>11, <1>12, OutboxMoves

\* Admission spends a valid grant and writes the receipt and the first row in
\* one transaction.
LEMMA AdmitNewStep ==
    ASSUME LinkInv, AdmitNew
    PROVE  LinkInv'
<1> DEFINE c == runner.c
           g == command[c].grant
           first == [stage |-> "queued", outcome |-> "none", state |-> "pending"]
<1>1. GatewayTypeOK /\ RunnerInv /\ runner \in Runner
  BY DEF LinkInv, GatewayTypeOK
<1>2. GrantsInv /\ ReceiptsInv /\ ClosedInv /\ AcknowledgedMeansAdmitted /\ HostedLogMirrorsOutbox
  BY DEF LinkInv
<1>3. c \in Commands /\ Created(c) /\ g \in Grants
  <2>1. c \in Commands /\ Created(c)
    BY <1>1 DEF AdmitNew, RunnerInv
  <2> QED
    BY <1>1, <1>2, <2>1 DEF ReceiptsInv, GatewayTypeOK, HostedCommand
<1>4. ~Admitted(c) /\ ~grant[g].revoked /\ grant[g].consumed = NoCommand
  BY DEF AdmitNew, GrantValid
<1>5. /\ grant' = [grant EXCEPT ![g] = [grant[g] EXCEPT !.consumed = c]]
      /\ attempt' = [attempt EXCEPT ![c] = [attempt[c] EXCEPT !.stage = "queued"]]
      /\ outbox' = [outbox EXCEPT ![c] = << first >>]
      /\ runner' = Acknowledging("received")
      /\ UNCHANGED <<cloudVars, lapsed, fresh, skipped, late>>
  BY <1>1, <1>3 DEF AdmitNew, GatewayTypeOK
<1>6. outbox[c] = << >> /\ log[c] = << >> /\ command[c].ack # "received"
  <2>1. outbox[c] = << >> /\ command[c].ack # "received"
    BY <1>2, <1>3, <1>4 DEF ReceiptsInv, AcknowledgedMeansAdmitted
  <2>2. Len(log[c]) <= 0 /\ log[c] \in Seq(Event)
    BY <1>1, <1>2, <1>3, <2>1 DEF HostedLogMirrorsOutbox, GatewayTypeOK
  <2> QED
    BY <2>1, <2>2
<1>7. first \in OutboxRow /\ first.state = "pending"
  BY DEF OutboxRow, Stages, PreCommit
<1> HIDE DEF c, g, first
<1>8. /\ grant' \in [Grants -> GrantRow]
      /\ \A h \in Grants : /\ grant'[h].revoked = grant[h].revoked
                           /\ h # g => grant'[h].consumed = grant[h].consumed
      /\ grant'[g].consumed = c
  <2>1. grant[g] \in GrantRow
    BY <1>1, <1>3 DEF GatewayTypeOK
  <2>2. /\ [grant[g] EXCEPT !.consumed = c] \in GrantRow
        /\ [grant[g] EXCEPT !.consumed = c].revoked = grant[g].revoked
        /\ [grant[g] EXCEPT !.consumed = c].consumed = c
    BY <1>3, <2>1 DEF GrantRow
  <2> QED
    BY <1>1, <1>3, <1>5, <2>2 DEF GatewayTypeOK
<1>9. /\ attempt' \in [Commands -> Attempt] /\ attempt'[c].stage = "queued"
      /\ \A d \in Commands : d # c => attempt'[d] = attempt[d]
  <2>1. attempt[c] \in Attempt
    BY <1>1, <1>3 DEF GatewayTypeOK
  <2>2. /\ [attempt[c] EXCEPT !.stage = "queued"] \in Attempt
        /\ [attempt[c] EXCEPT !.stage = "queued"].stage = "queued"
    BY <2>1 DEF Attempt, Stages, PreCommit
  <2> QED
    BY <1>1, <1>3, <1>5, <2>2 DEF GatewayTypeOK
<1>10. /\ outbox' \in [Commands -> Seq(OutboxRow)]
       /\ outbox'[c] = << first >> /\ Len(outbox'[c]) = 1 /\ outbox'[c][1] = first
       /\ \A d \in Commands : d # c => outbox'[d] = outbox[d]
  BY <1>1, <1>3, <1>5, <1>7 DEF GatewayTypeOK
<1>11. /\ runner' \in Runner /\ runner'.pc = "ack" /\ runner'.wire = "sent"
       /\ runner'.c = c /\ runner'.ack = "received"
  BY <1>1, <1>5 DEF Acknowledging, Runner, c
<1>12. GatewayTypeOK'
  BY <1>1, <1>5, <1>8, <1>9, <1>10, <1>11 DEF GatewayTypeOK, cloudVars
<1>13. Grows
  <2>1. ASSUME NEW d \in Commands
        PROVE  Len(outbox[d]) <= Len(outbox'[d])
    <3>1. CASE d = c
      BY <1>6, <1>10, <3>1
    <3>2. CASE d # c
      <4>1. Len(outbox[d]) \in Nat
        BY <1>1 DEF GatewayTypeOK
      <4> QED
        BY <1>10, <3>2, <4>1
    <3> QED
      BY <3>1, <3>2
  <2> QED
    BY <1>5, <1>8, <1>9, <2>1 DEF Grows, cloudVars
<1>14. RunnerInv'
  BY <1>3, <1>5, <1>9, <1>11 DEF RunnerInv, Backed, Awaited, Created, Admitted, cloudVars
<1>15. LateInv'
  <2>1. LateFrom
    BY <1>5 DEF LateFrom
  <2> QED
    BY <1>12, <1>13, <2>1, InFlight
<1>16. GrantsInv'
  <2>1. hosted' = hosted
    BY <1>5 DEF cloudVars
  <2> QED
    BY <1>2, <1>4, <1>8, <2>1 DEF GrantsInv
<1>17. ReceiptsInv'
  <2>1. command' = command
    BY <1>5 DEF cloudVars
  <2>2. ASSUME NEW d \in Commands
        PROVE  /\ Created(d) <=> command[d].grant # NoGrant
               /\ attempt'[d].stage # "none" => /\ command[d].grant \in Grants
                                                /\ grant'[command[d].grant].consumed = d
               /\ outbox'[d] # << >> => attempt'[d].stage # "none"
    <3>1. CASE d = c
      BY <1>2, <1>3, <1>8, <1>9, <3>1 DEF ReceiptsInv, g
    <3>2. CASE d # c
      <4>1. d # NoCommand
        BY NonesAreNew
      <4> QED
        BY <1>2, <1>4, <1>8, <1>9, <1>10, <3>2, <4>1, SMTT(60) DEF ReceiptsInv, Admitted
    <3> QED
      BY <3>1, <3>2
  <2> QED
    BY <2>1, <2>2 DEF ReceiptsInv, Created, Admitted
<1>18. ClosedInv'
  BY <1>2, <1>5 DEF ClosedInv, cloudVars
<1>19. AcknowledgedMeansAdmitted'
  BY <1>2, <1>5, <1>9 DEF AcknowledgedMeansAdmitted, Admitted, cloudVars
<1>20. HostedLogMirrorsOutbox'
  <2>1. log' = log
    BY <1>5 DEF cloudVars
  <2>2. ASSUME NEW d \in Commands
        PROVE  /\ Len(log[d]) <= Len(outbox'[d])
               /\ \A n \in 1 .. Len(log[d]) : log[d][n] = Payload(d, n)'
               /\ \A n \in 1 .. Len(outbox'[d]) : outbox'[d][n].state = "sent" => n <= Len(log[d])
    <3>1. CASE d = c
      BY <1>6, <1>7, <1>10, <3>1
    <3>2. CASE d # c
      BY <1>2, <1>10, <3>2 DEF HostedLogMirrorsOutbox, Payload
    <3> QED
      BY <3>1, <3>2
  <2> QED
    BY <2>1, <2>2 DEF HostedLogMirrorsOutbox
<1> QED
  BY <1>12, <1>14, <1>15, <1>16, <1>17, <1>18, <1>19, <1>20 DEF LinkInv


-----------------------------------------------------------------------------
\* The steps that touch the control plane's database.

\* Whatever request the control plane handles, the two databases stay in step:
\* the request was backed by the runner's database when it was sent, and still is.
LEMMA HandledStep ==
    ASSUME LinkInv, NEW m \in Request, NEW d \in Commands \cup {NoCommand}, Backed(m),
           Handle(m, d), UNCHANGED <<lapsed, localVars>>, late' \in SUBSET late,
           runner' \in Runner, RunnerInv' \/ runner' = runner
    PROVE  LinkInv'
<1>1. HandleEffect(m)
  BY HandleEffects
<1>2. GatewayTypeOK /\ GrantsInv /\ ReceiptsInv /\ AcknowledgedMeansAdmitted /\ HostedLogMirrorsOutbox
  BY DEF LinkInv
<1>3. grant' = grant /\ attempt' = attempt /\ outbox' = outbox /\ fresh' = fresh
      /\ skipped' = skipped /\ lapsed' = lapsed
  BY DEF localVars
<1>4. GatewayTypeOK'
  BY <1>1, <1>2, <1>3 DEF GatewayTypeOK, HandleEffect, HostedTypeOK
<1>5. Grows
  <2>1. \A c \in Commands : Len(outbox[c]) <= Len(outbox'[c])
    BY <1>2, <1>3 DEF GatewayTypeOK
  <2> QED
    BY <1>1, <1>3, <2>1 DEF Grows, HandleEffect
<1>6. \A c \in Commands : Len(log[c]) <= Len(log'[c])
  <2>1. SUFFICES ASSUME NEW c \in Commands
                 PROVE  Len(log[c]) <= Len(log'[c])
    OBVIOUS
  <2>2. log[c] \in Seq(Event) /\ Len(log[c]) \in Nat
    BY <1>2 DEF GatewayTypeOK
  <2>3. log'[c] = log[c] \/ Len(log'[c]) = Len(log[c]) + 1
    BY <1>1, <2>2 DEF HandleEffect
  <2> QED
    BY <2>2, <2>3
<1>7. RunnerInv'
  BY <1>4, <1>5, <1>6, RunnerWaits
<1>8. LateInv'
  <2>1. LateFrom
    BY DEF LateFrom
  <2> QED
    BY <1>4, <1>5, <2>1, InFlight
<1>9. GrantsInv'
  BY <1>1, <1>2, <1>3 DEF GrantsInv, HandleEffect, Backed
<1>10. ReceiptsInv'
  BY <1>1, <1>2, <1>3 DEF ReceiptsInv, HandleEffect, Created, Admitted
<1>11. ClosedInv'
  BY <1>1 DEF ClosedInv, HandleEffect
<1>12. AcknowledgedMeansAdmitted'
  <2>1. m.kind = "drain" => m.c \in Commands /\ attempt[m.c].stage # "none"
    <3>1. SUFFICES ASSUME m.kind = "drain"
                   PROVE  m.c \in Commands /\ attempt[m.c].stage # "none"
      OBVIOUS
    <3>2. m.c \in Commands /\ m.n \in 1 .. Len(outbox[m.c])
      BY <3>1 DEF Backed
    <3>3. outbox[m.c] # << >>
      BY <3>2
    <3> QED
      BY <1>2, <3>2, <3>3 DEF ReceiptsInv, Admitted
  <2>2. m.kind = "ack" /\ m.ack = "received" => attempt[m.c].stage # "none"
    BY DEF Backed, Admitted
  <2> QED
    BY <1>1, <1>2, <1>3, <2>1, <2>2 DEF AcknowledgedMeansAdmitted, HandleEffect, Admitted
<1>13. HostedLogMirrorsOutbox'
  <2>1. SUFFICES ASSUME NEW c \in Commands
                 PROVE  /\ Len(log'[c]) <= Len(outbox[c])
                        /\ \A n \in 1 .. Len(log'[c]) : log'[c][n] = Payload(c, n)
                        /\ \A n \in 1 .. Len(outbox[c]) :
                              outbox[c][n].state = "sent" => n <= Len(log'[c])
    BY <1>3 DEF HostedLogMirrorsOutbox, Payload
  <2>2. /\ log[c] \in Seq(Event) /\ Len(log[c]) \in Nat /\ Len(outbox[c]) \in Nat
        /\ Len(log[c]) <= Len(outbox[c])
        /\ \A n \in 1 .. Len(log[c]) : log[c][n] = Payload(c, n)
        /\ \A n \in 1 .. Len(outbox[c]) : outbox[c][n].state = "sent" => n <= Len(log[c])
    BY <1>2 DEF HostedLogMirrorsOutbox, GatewayTypeOK
  <2>3. CASE log'[c] = log[c]
    BY <2>2, <2>3
  <2>4. CASE log'[c] # log[c]
    <3>1. /\ m.kind = "drain" /\ c = m.c /\ m.n = Len(log[c]) + 1
          /\ log'[c] = Append(log[c], Payload(c, m.n))
      BY <1>1, <2>4 DEF HandleEffect
    <3>2. m.n \in 1 .. Len(outbox[c])
      BY <3>1 DEF Backed
    <3>3. /\ Len(log'[c]) = m.n
          /\ log'[c][m.n] = Payload(c, m.n)
          /\ \A n \in 1 .. Len(log[c]) : log'[c][n] = log[c][n]
      BY <2>2, <3>1
    <3>4. Len(log'[c]) <= Len(outbox[c])
      BY <3>2, <3>3
    <3>5. ASSUME NEW n \in 1 .. Len(log'[c])
          PROVE  log'[c][n] = Payload(c, n)
      <4>1. n = m.n \/ n \in 1 .. Len(log[c])
        BY <2>2, <3>1, <3>3
      <4> QED
        BY <2>2, <3>3, <4>1
    <3>6. \A n \in 1 .. Len(outbox[c]) : outbox[c][n].state = "sent" => n <= Len(log'[c])
      <4>1. SUFFICES ASSUME NEW n \in 1 .. Len(outbox[c]), outbox[c][n].state = "sent"
                     PROVE  n <= Len(log'[c])
        OBVIOUS
      <4>2. n <= Len(log[c])
        BY <2>2, <4>1
      <4> QED
        BY <2>2, <3>1, <3>3, <4>2
    <3> QED
      BY <3>4, <3>5, <3>6
  <2> QED
    BY <2>3, <2>4
<1> QED
  BY <1>4, <1>7, <1>8, <1>9, <1>10, <1>11, <1>12, <1>13 DEF LinkInv

\* The network: a reply to the waiting runner, or a late request handled or lost.
LEMMA NetworkSteps ==
    ASSUME LinkInv,
           \/ \E d \in Commands \cup {NoCommand} : HandleAwaited(d)
           \/ \E m \in late : DropLate(m) \/ \E d \in Commands \cup {NoCommand} : HandleLate(m, d)
    PROVE  LinkInv'
<1>1. GatewayTypeOK /\ RunnerInv /\ LateInv /\ runner \in Runner
  BY DEF LinkInv, GatewayTypeOK
<1>2. ASSUME NEW d \in Commands \cup {NoCommand}, HandleAwaited(d)
      PROVE  LinkInv'
  <2>1. Awaited \in Request /\ Backed(Awaited) /\ Awaited.kind = runner.pc
    BY <1>1, <1>2, AwaitedType DEF HandleAwaited
  <2>2. Handle(Awaited, d)
    BY <1>2 DEF HandleAwaited
  <2>3. PICK m \in Request : m = Awaited
    BY <2>1
  <2>4. Backed(m) /\ Handle(m, d) /\ m.kind = runner.pc
    BY <2>1, <2>2, <2>3
  <2>5. HandleEffect(m) /\ (m.kind = "poll" /\ d # NoCommand => d \in Commands /\ Created(d))
    BY <2>4, HandleEffects
  <2>6. m.g = runner.g /\ m.c = runner.c /\ m.n = runner.n /\ m.ack = runner.ack
    BY <2>3 DEF Awaited
  <2>7. /\ runner' \in Runner /\ runner'.pc = runner.pc /\ runner'.wire = "ok"
        /\ runner'.g = runner.g /\ runner'.n = runner.n /\ runner'.ack = runner.ack
        /\ runner'.c = IF runner.pc = "poll" THEN d ELSE runner.c
    <3>1. CASE runner.pc = "poll"
      BY <1>1, <1>2, <3>1 DEF HandleAwaited, Runner
    <3>2. CASE runner.pc # "poll"
      BY <1>1, <1>2, <3>2 DEF HandleAwaited, Runner
    <3> QED
      BY <3>1, <3>2
  <2>8. /\ UNCHANGED <<lapsed, localVars>> /\ late' = late
        /\ grant' = grant /\ attempt' = attempt /\ outbox' = outbox
    BY <1>2 DEF HandleAwaited, localVars
  <2>9. runner.pc # "admit"
    BY <1>1, <1>2 DEF HandleAwaited, RunnerInv
  <2>10. \A c \in Commands : (command[c].status # "absent") <=> (command'[c].status # "absent")
    BY <2>5 DEF HandleEffect
  <2>11. RunnerInv'
    <3>1. CASE runner.pc = "poll"
      <4>1. d # NoCommand => command'[d].status # "absent"
        BY <2>4, <2>5, <2>10, <3>1 DEF Created
      <4> QED
        BY <2>7, <3>1, <4>1 DEF RunnerInv, Backed, Awaited, Created
    <3>2. CASE runner.pc # "poll"
      <4>1. Awaited' = m
        BY <2>3, <2>7, <3>2 DEF Awaited
      <4>2. Backed(m)'
        BY <2>4, <2>8, <2>10 DEF Backed, Created, Admitted
      <4>3. Backed(Awaited)'
        BY <4>1, <4>2 DEF Backed
      <4>4. runner.pc = "drain" => runner'.n <= Len(log'[runner'.c])
        BY <2>4, <2>5, <2>6, <2>7 DEF HandleEffect
      <4> QED
        BY <2>7, <2>9, <3>2, <4>3, <4>4 DEF RunnerInv
    <3> QED
      BY <3>1, <3>2
  <2> QED
    BY <2>4, <2>7, <2>8, <2>11, HandledStep
<1>3. ASSUME NEW m \in late, NEW d \in Commands \cup {NoCommand}, HandleLate(m, d)
      PROVE  LinkInv'
  <2>1. m \in Request /\ Backed(m)
    BY <1>1 DEF GatewayTypeOK, LateInv
  <2> QED
    BY <1>1, <1>3, <2>1, HandledStep DEF HandleLate
<1>4. ASSUME NEW m \in late, DropLate(m)
      PROVE  LinkInv'
  <2>1. LateFrom
    BY <1>4 DEF DropLate, LateFrom
  <2>2. UNCHANGED <<cloudVars, lapsed, localVars>> /\ runner' = runner
    BY <1>4 DEF DropLate
  <2>3. RunnerInv'
    BY <1>1, <2>2 DEF RunnerInv, Backed, Awaited, Created, Admitted, cloudVars, localVars
  <2> QED
    BY <1>1, <2>1, <2>2, <2>3, RunnerMoves
<1> QED
  BY <1>2, <1>3, <1>4


\* The hosted operator mints a command, a claim lease runs out, a clock passes a
\* grant's expiry.
LEMMA EnvironmentSteps ==
    ASSUME LinkInv,
           \/ \E c \in Commands, g \in Grants : Create(c, g)
           \/ \E c \in Commands : LeaseEnds(c)
           \/ \E g \in Grants, clock \in Clocks : Lapse(g, clock)
    PROVE  LinkInv'
<1>1. GatewayTypeOK /\ RunnerInv /\ LateInv /\ runner \in Runner /\ ClosedInv
  BY DEF LinkInv, GatewayTypeOK
<1>2. GrantsInv /\ ReceiptsInv /\ AcknowledgedMeansAdmitted /\ HostedLogMirrorsOutbox
  BY DEF LinkInv
<1>3. ASSUME UNCHANGED <<log, lapsed, localVars, late, runner>>,
             hosted' \in [Grants -> HostedRow], command' \in [Commands -> HostedCommand],
             \A g \in Grants : hosted'[g].revoked = hosted[g].revoked,
             NEW c \in Commands, \A d \in Commands \ {c} : command'[d] = command[d],
             command'[c].status \notin {"absent", "rejected"},
             command'[c].status = "finished" => command'[c].closed,
             command'[c].grant \in Grants, command'[c].ack # "received",
             Created(c) => command'[c].grant = command[c].grant
      PROVE  LinkInv'
  <2>1. GatewayTypeOK'
    BY <1>1, <1>3 DEF GatewayTypeOK, localVars
  <2>2. \A d \in Commands : Len(log[d]) <= Len(log'[d]) /\ Len(outbox[d]) <= Len(outbox'[d])
    BY <1>1, <1>3 DEF GatewayTypeOK, localVars
  <2>3. Grows
    BY <1>3, <2>2 DEF Grows, localVars
  <2>4. LateFrom
    BY <1>3 DEF LateFrom
  <2>5. RunnerInv' /\ LateInv'
    BY <1>3, <2>1, <2>2, <2>3, <2>4, RunnerWaits, InFlight
  <2>6. GrantsInv'
    BY <1>2, <1>3 DEF GrantsInv, localVars
  <2>7. ReceiptsInv'
    <3>1. ASSUME NEW d \in Commands
          PROVE  /\ command'[d].status # "absent" <=> command'[d].grant # NoGrant
                 /\ Admitted(d) => /\ command'[d].grant \in Grants
                                   /\ grant[command'[d].grant].consumed = d
                 /\ outbox[d] # << >> => Admitted(d)
      <4>1. CASE d = c
        BY <1>2, <1>3, <4>1, NonesAreNew DEF ReceiptsInv
      <4>2. CASE d # c
        BY <1>2, <1>3, <4>2 DEF ReceiptsInv, Created
      <4> QED
        BY <4>1, <4>2
    <3> QED
      BY <1>3, <3>1 DEF ReceiptsInv, Created, Admitted, localVars
  <2>8. ClosedInv'
    BY <1>1, <1>3 DEF ClosedInv
  <2>9. AcknowledgedMeansAdmitted'
    BY <1>2, <1>3 DEF AcknowledgedMeansAdmitted, Admitted, localVars
  <2>10. HostedLogMirrorsOutbox'
    BY <1>2, <1>3 DEF HostedLogMirrorsOutbox, Payload, localVars
  <2> QED
    BY <2>1, <2>5, <2>6, <2>7, <2>8, <2>9, <2>10 DEF LinkInv
<1>4. ASSUME NEW c \in Commands, NEW g \in Grants, Create(c, g)
      PROVE  LinkInv'
  <2> DEFINE row == [Absent EXCEPT !.status = "queued", !.grant = g]
  <2>1. Absent \in HostedCommand /\ Absent.ack = "none"
    BY DEF Absent, HostedCommand
  <2>2. row \in HostedCommand /\ row.status = "queued" /\ row.grant = g /\ row.ack = "none"
    BY <2>1 DEF HostedCommand
  <2>3. ~Created(c) /\ command' = [command EXCEPT ![c] = row]
    BY <1>4 DEF Create, CreateCommand, Created
  <2> HIDE DEF row
  <2>5. /\ hosted' \in [Grants -> HostedRow]
        /\ \A h \in Grants : hosted'[h].revoked = hosted[h].revoked
    BY <1>1, <1>4 DEF Create, CreateCommand, GatewayTypeOK, HostedRow
  <2>6. command' \in [Commands -> HostedCommand] /\ command'[c] = row
        /\ \A d \in Commands \ {c} : command'[d] = command[d]
    BY <1>1, <2>2, <2>3 DEF GatewayTypeOK
  <2>7. UNCHANGED <<log, lapsed, localVars, late, runner>>
    BY <1>4 DEF Create, CreateCommand
  <2> QED
    BY <1>3, <2>2, <2>3, <2>5, <2>6, <2>7
<1>5. ASSUME NEW c \in Commands, LeaseEnds(c)
      PROVE  LinkInv'
  <2> DEFINE row == [command[c] EXCEPT !.leased = FALSE]
  <2>1. command[c] \in HostedCommand
    BY <1>1 DEF GatewayTypeOK
  <2>2. /\ row \in HostedCommand /\ row.status = command[c].status
        /\ row.grant = command[c].grant /\ row.ack = command[c].ack
        /\ row.closed = command[c].closed
    BY <2>1 DEF HostedCommand
  <2>3. /\ command' = [command EXCEPT ![c] = row]
        /\ UNCHANGED <<hosted, log, lapsed, localVars, late, runner>>
    BY <1>1, <1>5 DEF LeaseEnds, LeaseRunsOut, GatewayTypeOK
  <2> HIDE DEF row
  <2>4. /\ command' \in [Commands -> HostedCommand]
        /\ \A d \in Commands : /\ command'[d].status = command[d].status
                               /\ command'[d].grant = command[d].grant
                               /\ command'[d].ack = command[d].ack
                               /\ command'[d].closed = command[d].closed
    BY <1>1, <2>2, <2>3 DEF GatewayTypeOK
  <2>5. GatewayTypeOK'
    BY <1>1, <2>3, <2>4 DEF GatewayTypeOK, localVars
  <2>6. \A d \in Commands : Len(log[d]) <= Len(log'[d]) /\ Len(outbox[d]) <= Len(outbox'[d])
    BY <1>1, <2>3 DEF GatewayTypeOK, localVars
  <2>7. Grows /\ LateFrom
    BY <2>3, <2>4, <2>6 DEF Grows, LateFrom, localVars
  <2>8. RunnerInv' /\ LateInv'
    BY <2>3, <2>5, <2>6, <2>7, RunnerWaits, InFlight
  <2>9. GrantsInv' /\ ReceiptsInv' /\ ClosedInv'
    BY <1>1, <1>2, <2>3, <2>4 DEF GrantsInv, ReceiptsInv, ClosedInv, Created, Admitted, localVars
  <2>10. AcknowledgedMeansAdmitted' /\ HostedLogMirrorsOutbox'
    BY <1>2, <2>3, <2>4 DEF AcknowledgedMeansAdmitted, HostedLogMirrorsOutbox, Admitted, Payload,
                            localVars
  <2> QED
    BY <2>5, <2>8, <2>9, <2>10 DEF LinkInv
<1>6. ASSUME NEW g \in Grants, NEW clock \in Clocks, Lapse(g, clock)
      PROVE  LinkInv'
  <2>1. UNCHANGED <<hosted, command, log, grant, fresh, skipped, attempt, outbox, late, runner>>
    BY <1>6 DEF Lapse, cloudVars, localVars
  <2>2. lapsed' \in [Grants -> SUBSET Clocks]
    BY <1>1, <1>6 DEF Lapse, GatewayTypeOK
  <2>3. GatewayTypeOK'
    BY <1>1, <2>1, <2>2 DEF GatewayTypeOK
  <2>4. RunnerInv' /\ LateInv'
    BY <1>1, <2>1 DEF RunnerInv, LateInv, Backed, Awaited, Created, Admitted
  <2>5. GrantsInv' /\ ReceiptsInv' /\ ClosedInv'
    BY <1>1, <1>2, <2>1 DEF GrantsInv, ReceiptsInv, ClosedInv, Created, Admitted
  <2>6. AcknowledgedMeansAdmitted' /\ HostedLogMirrorsOutbox'
    BY <1>2, <2>1 DEF AcknowledgedMeansAdmitted, HostedLogMirrorsOutbox, Admitted, Payload
  <2> QED
    BY <2>3, <2>4, <2>5, <2>6 DEF LinkInv
<1> QED
  BY <1>4, <1>5, <1>6

-----------------------------------------------------------------------------
\* The two stage rules.  The story of a hosted command and the story its outbox
\* tells are kept apart by the network; LinkInv says that one is a prefix of the
\* other, the invariants of this section say where each may end.

\* A command that is not touched keeps its story.
LEMMA SameStory ==
    ASSUME NEW c, Story(c), command'[c].status = command[c].status,
           command'[c].ack = command[c].ack, command'[c].closed = command[c].closed,
           log'[c] = log[c]
    PROVE  Story(c)' /\ (Delivered(c) => Delivered(c)')
BY DEF Story, Delivered

\* Each handler leaves the story of every command in order, and what a poll hands
\* out counts as delivered.
LEMMA HandleStory ==
    ASSUME LinkInv, StoryInv, NEW m \in Request, NEW d \in Commands \cup {NoCommand},
           Backed(m), Handle(m, d)
    PROVE  /\ StoryInv' /\ \A c \in Commands : Delivered(c) => Delivered(c)'
           /\ m.kind = "poll" /\ d # NoCommand => Delivered(d)'
<1>1. /\ command \in [Commands -> HostedCommand] /\ log \in [Commands -> Seq(Event)]
      /\ \A c \in Commands : command[c] \in HostedCommand
  BY DEF LinkInv, GatewayTypeOK
<1>2. ASSUME UNCHANGED <<command, log>>
      PROVE  StoryInv' /\ \A c \in Commands : Delivered(c) => Delivered(c)'
  BY <1>2 DEF StoryInv, Story, Delivered
<1>3. CASE m.kind = "revoke" /\ ReceiveRevocation(m.g)
  <2>1. ASSUME NEW c \in Commands
        PROVE  Story(c)' /\ (Delivered(c) => Delivered(c)')
    <3>1. Story(c) /\ log'[c] = log[c]
      BY <1>3 DEF ReceiveRevocation, StoryInv
    <3>2. \/ command'[c] = command[c]
          \/ /\ command[c].status \in {"queued", "claimed"}
             /\ command'[c].status = "rejected"
      BY <1>1, <1>3 DEF ReceiveRevocation, Cancelled, HostedCommand
    <3> QED
      BY <3>1, <3>2, SameStory DEF Story, Delivered
  <2> QED
    BY <1>3, <2>1 DEF StoryInv
<1>4. CASE m.kind = "project" /\ ReceiveReviewGrant(m.g)
  BY <1>2, <1>4 DEF ReceiveReviewGrant
<1>5. CASE m.kind = "poll" /\ d # NoCommand /\ PollCommand(d)
  <2>1. d \in Commands /\ Story(d) /\ command[d].status \in {"queued", "claimed"}
    BY <1>5 DEF StoryInv, PollCommand, Deliverable
  <2>2. /\ command'[d].status = "claimed" /\ command'[d].ack = command[d].ack
        /\ command'[d].closed = command[d].closed
        /\ \A c \in Commands \ {d} : command'[c] = command[c]
        /\ log' = log
    BY <1>1, <1>5, <2>1 DEF PollCommand, HostedCommand
  <2>3. Story(d)' /\ Delivered(d)'
    BY <2>1, <2>2 DEF Story, Delivered
  <2>4. \A c \in Commands \ {d} : Story(c)' /\ (Delivered(c) => Delivered(c)')
    BY <2>2, SameStory DEF StoryInv
  <2> QED
    BY <2>1, <2>3, <2>4 DEF StoryInv
<1>6. CASE m.kind = "poll" /\ d = NoCommand /\ UNCHANGED cloudVars
  BY <1>2, <1>6 DEF cloudVars
<1>7. CASE m.kind = "ack" /\ AckAccepted(m.c, m.ack) /\ AcknowledgeCommand(m.c, m.ack)
  <2>1. /\ m.c \in Commands /\ m.ack \in {"received", "rejected"} /\ Story(m.c)
        /\ command[m.c] \in HostedCommand
    BY <1>1, <1>7 DEF Backed, StoryInv
  <2>2. log' = log /\ \A c \in Commands \ {m.c} : command'[c] = command[c]
    BY <1>1, <1>7 DEF AcknowledgeCommand
  <2>3. Story(m.c)' /\ (Delivered(m.c) => Delivered(m.c)')
    <3>1. CASE AckFirst(m.c, m.ack)
      <4>1. /\ command'[m.c].ack = m.ack /\ command'[m.c].closed = (m.ack = "rejected")
            /\ command'[m.c].status = IF m.ack = "received" THEN "acknowledged" ELSE "rejected"
        BY <1>1, <1>7, <2>1, <3>1 DEF AcknowledgeCommand, HostedCommand
      <4>2. command[m.c].status = "claimed" /\ log[m.c] = << >>
        BY <2>1, <3>1 DEF AckFirst, Story
      <4> QED
        BY <2>1, <2>2, <4>1, <4>2 DEF Story, Delivered
    <3>2. CASE ~AckFirst(m.c, m.ack)
      <4>1. /\ command'[m.c].ack = m.ack /\ command'[m.c].closed = command[m.c].closed
            /\ command'[m.c].status = command[m.c].status
        BY <1>1, <1>7, <2>1, <3>2 DEF AcknowledgeCommand, HostedCommand
      <4>2. command[m.c].ack = m.ack \/ command[m.c].status = "rejected"
        BY <1>7, <3>2 DEF AckAccepted, AckDuplicate, AckAfterRevocation
      <4> QED
        BY <2>1, <2>2, <4>1, <4>2 DEF Story, Delivered
    <3> QED
      BY <3>1, <3>2
  <2>4. \A c \in Commands \ {m.c} : Story(c)' /\ (Delivered(c) => Delivered(c)')
    BY <2>2, SameStory DEF StoryInv
  <2> QED
    BY <1>7, <2>1, <2>3, <2>4 DEF StoryInv
<1>8. CASE /\ m.kind = "drain"
           /\ EventAccepted(m.c, m.n, Payload(m.c, m.n))
           /\ ReceiveRunnerEvent(m.c, m.n, Payload(m.c, m.n))
  <2> DEFINE e == Payload(m.c, m.n)
  <2>1. /\ m.c \in Commands /\ Story(m.c) /\ command[m.c] \in HostedCommand
        /\ log[m.c] \in Seq(Event)
    BY <1>1, <1>8 DEF Backed, StoryInv
  <2>2. CASE EventDuplicate(m.c, m.n)
    BY <1>2, <1>8, <2>2 DEF ReceiveRunnerEvent, cloudVars
  <2>3. CASE ~EventDuplicate(m.c, m.n)
    <3>1. e \in Event
      BY <1>8, PayloadType DEF LinkInv, GatewayTypeOK, Backed
    <3>2. EventFresh(m.c, m.n, e)
      BY <1>8, <2>3 DEF EventAccepted
    <3>3. /\ log' = [log EXCEPT ![m.c] = Append(@, e)]
          /\ command' = [command EXCEPT
                            ![m.c].ack = "received",
                            ![m.c].leased = FALSE,
                            ![m.c].status = IF e.stage = "finished" THEN "finished" ELSE "running",
                            ![m.c].closed = @ \/ e.stage = "finished"]
      BY <1>8, <2>3 DEF ReceiveRunnerEvent
    <3> HIDE DEF e
    <3>4. /\ command'[m.c].ack = "received"
          /\ command'[m.c].status = IF e.stage = "finished" THEN "finished" ELSE "running"
          /\ command'[m.c].closed = (command[m.c].closed \/ e.stage = "finished")
          /\ \A c \in Commands \ {m.c} : command'[c] = command[c] /\ log'[c] = log[c]
      BY <1>1, <2>1, <3>3 DEF HostedCommand
    <3>5. log'[m.c] # << >> /\ log'[m.c][Len(log'[m.c])] = e
      <4>1. log'[m.c] = Append(log[m.c], e)
        BY <1>1, <2>1, <3>3
      <4>2. /\ Len(log[m.c]) \in Nat /\ Len(Append(log[m.c], e)) = Len(log[m.c]) + 1
            /\ Append(log[m.c], e)[Len(log[m.c]) + 1] = e /\ Append(log[m.c], e) # << >>
        BY <2>1, <3>1
      <4> QED
        BY <4>1, <4>2
    <3>6. command[m.c].closed => e.stage = "finished"
      BY <3>2 DEF EventFresh, SafeReconciliation
    <3>7. Story(m.c)' /\ Delivered(m.c)'
      BY <3>4, <3>5, <3>6 DEF Story, Delivered
    <3>8. \A c \in Commands \ {m.c} : Story(c)' /\ (Delivered(c) => Delivered(c)')
      BY <3>4, SameStory DEF StoryInv
    <3> QED
      BY <1>8, <2>1, <3>7, <3>8 DEF StoryInv
  <2> QED
    BY <2>2, <2>3
<1> QED
  BY <1>3, <1>4, <1>5, <1>6, <1>7, <1>8 DEF Handle

\* A row is appended in order.
LEMMA AppendFollows ==
    ASSUME NEW s \in Seq(OutboxRow), s # << >>, NEW row, RowFollows(s[Len(s)], row),
           \A n \in 1 .. Len(s) - 1 : RowFollows(s[n], s[n + 1])
    PROVE  LET t == Append(s, row)
           IN  /\ t # << >> /\ t[1] = s[1] /\ t[Len(t)] = row
               /\ \A n \in 1 .. Len(t) - 1 : RowFollows(t[n], t[n + 1])
<1> DEFINE t == Append(s, row)
<1>1. Len(s) \in Nat \ {0} /\ Len(t) = Len(s) + 1
  OBVIOUS
<1>2. t[Len(s) + 1] = row /\ \A n \in 1 .. Len(s) : t[n] = s[n]
  OBVIOUS
<1> HIDE DEF t
<1>3. ASSUME NEW n \in 1 .. Len(t) - 1
      PROVE  RowFollows(t[n], t[n + 1])
  <2>1. CASE n = Len(s)
    BY <1>1, <1>2, <2>1
  <2>2. CASE n < Len(s)
    <3>1. n \in 1 .. Len(s) - 1 /\ n \in 1 .. Len(s) /\ n + 1 \in 1 .. Len(s)
      BY <1>1, <2>2
    <3> QED
      BY <1>2, <3>1
  <2> QED
    BY <1>1, <2>1, <2>2
<1>4. t # << >> /\ t[1] = s[1]
  BY <1>1, <1>2 DEF t
<1> QED
  BY <1>1, <1>2, <1>3, <1>4 DEF t

\* The worker's stage machine never writes a row that receive_runner_event would
\* refuse behind the row before it.
LEMMA MovesFollow ==
    ASSUME NEW c \in Commands, attempt[c] \in Attempt,
           attempt[c].outcome # "none" <=> attempt[c].stage = "finished",
           NEW s, NEW o,
           \/ CanAdvance(attempt[c].stage, s) /\ o = "none"
           \/ s = "finished" /\ o \in Outcomes /\ CanFinish(attempt[c].stage, o)
           \/ attempt[c].stage \in PreCommit \ {"queued"} /\ s = "queued" /\ o = "none"
           \/ /\ attempt[c].outcome = "unknown" /\ s = "finished"
              /\ o \in {"operator_confirmed", "failed_before_commit"}
    PROVE  /\ attempt[c].stage # "none" /\ attempt[c] # SkippedAttempt
           /\ o # "none" <=> s = "finished"
           /\ \A state : RowFollows(attempt[c], [stage |-> s, outcome |-> o, state |-> state])
<1>1. CASE CanAdvance(attempt[c].stage, s) /\ o = "none"
  BY <1>1 DEF CanAdvance, AllowedNextStage, RowFollows, StageOrder, SkippedAttempt
<1>2. CASE s = "finished" /\ o \in Outcomes /\ CanFinish(attempt[c].stage, o)
  BY <1>2 DEF CanFinish, AllowedNextStage, RowFollows, StageOrder, SkippedAttempt, Outcomes
<1>3. CASE attempt[c].stage \in PreCommit \ {"queued"} /\ s = "queued" /\ o = "none"
  BY <1>3 DEF PreCommit, RowFollows, SkippedAttempt
<1>4. CASE /\ attempt[c].outcome = "unknown" /\ s = "finished"
           /\ o \in {"operator_confirmed", "failed_before_commit"}
  BY <1>4 DEF RowFollows, SkippedAttempt
<1> QED
  BY <1>1, <1>2, <1>3, <1>4

\* Only the stage and the outcome of a row matter to the rule.
LEMMA SameRowsFollow ==
    ASSUME NEW p, NEW q, NEW e, p.stage = q.stage, p.outcome = q.outcome, RowFollows(p, e)
    PROVE  RowFollows(q, e)
BY DEF RowFollows

\* A command whose attempt and rows rest tells the story it told.
LEMMA ReportedLasts ==
    ASSUME NEW c, Reported(c), attempt'[c] = attempt[c], outbox'[c] = outbox[c]
    PROVE  Reported(c)'
<1>1. Payload(c, Len(outbox[c]))' = Payload(c, Len(outbox[c]))  BY DEF Payload
<1>2. Admitted(c)' = Admitted(c)  BY DEF Admitted
<1> HIDE DEF Payload
<1> QED  BY <1>1, <1>2 DEF Reported

\* A transition of an admitted attempt is reported behind the rows that are there.
LEMMA TransitionReported ==
    ASSUME LinkInv, OutboxInv, NEW c \in Commands, NEW s \in Stages,
           NEW o \in Outcomes \cup {"none"}, Transition(c, s, o),
           attempt[c].stage # "none", attempt[c] # SkippedAttempt,
           o # "none" <=> s = "finished",
           \A state : RowFollows(attempt[c], [stage |-> s, outcome |-> o, state |-> state])
    PROVE  OutboxInv'
<1> DEFINE row == [stage |-> s, outcome |-> o, state |-> "pending"]
<1>1. /\ attempt \in [Commands -> Attempt] /\ outbox \in [Commands -> Seq(OutboxRow)]
      /\ outbox[c] \in Seq(OutboxRow)
  BY DEF LinkInv, GatewayTypeOK
<1>2. /\ attempt' = [attempt EXCEPT ![c] = [stage |-> s, outcome |-> o]]
      /\ outbox' = [outbox EXCEPT ![c] = Append(outbox[c], row)]
  BY <1>1 DEF Transition, Enqueue
<1>3. /\ outbox[c] # << >> /\ outbox[c][1].stage = "queued"
      /\ Payload(c, Len(outbox[c])) = attempt[c]
      /\ \A n \in 1 .. Len(outbox[c]) - 1 : RowFollows(outbox[c][n], outbox[c][n + 1])
  BY DEF OutboxInv, Reported, Admitted
<1>4. RowFollows(outbox[c][Len(outbox[c])], row)
  <2>1. /\ outbox[c][Len(outbox[c])].stage = attempt[c].stage
        /\ outbox[c][Len(outbox[c])].outcome = attempt[c].outcome
    BY <1>3 DEF Payload
  <2>2. RowFollows(attempt[c], row)
    OBVIOUS
  <2> QED
    BY <2>1, <2>2, SameRowsFollow
<1>5. /\ row.stage = s /\ row.outcome = o
      /\ attempt'[c] = [stage |-> s, outcome |-> o]
      /\ outbox'[c] = Append(outbox[c], row)
      /\ \A d \in Commands \ {c} : attempt'[d] = attempt[d] /\ outbox'[d] = outbox[d]
  BY <1>1, <1>2
<1> HIDE DEF row
<1>6. /\ outbox'[c] # << >> /\ outbox'[c][1] = outbox[c][1]
      /\ outbox'[c][Len(outbox'[c])] = row
      /\ \A n \in 1 .. Len(outbox'[c]) - 1 : RowFollows(outbox'[c][n], outbox'[c][n + 1])
  BY <1>1, <1>3, <1>4, <1>5, AppendFollows
<1>7. Reported(c)'
  BY <1>3, <1>5, <1>6 DEF Reported, Admitted, Payload
<1>8. \A d \in Commands \ {c} : Reported(d)'
  BY <1>5, ReportedLasts DEF OutboxInv
<1> QED
  BY <1>7, <1>8 DEF OutboxInv

\* Every step keeps the outbox in order.
LEMMA OutboxStep ==
    ASSUME LinkInv, OutboxInv, [Next]_vars
    PROVE  OutboxInv'
<1>1. /\ attempt \in [Commands -> Attempt] /\ outbox \in [Commands -> Seq(OutboxRow)]
      /\ \A c \in Commands : /\ attempt[c] \in Attempt /\ outbox[c] \in Seq(OutboxRow)
                             /\ Reported(c)
                             /\ attempt[c].outcome # "none" <=> attempt[c].stage = "finished"
  BY DEF LinkInv, GatewayTypeOK, OutboxInv, Reported
<1>2. "finished" \in Stages /\ "queued" \in Stages
      /\ {"operator_confirmed", "failed_before_commit"} \subseteq Outcomes
  BY DEF Stages, PreCommit, Outcomes
<1>3. CASE UNCHANGED <<attempt, outbox>>
  BY <1>3 DEF OutboxInv, Reported, Admitted, Payload
<1>4. ASSUME NEW c \in Commands,
             \/ \E s \in Stages : Advance(c, s)
             \/ \E o \in Outcomes : Finish(c, o) \/ Reconcile(c, o)
             \/ Redeliver(c)
      PROVE  OutboxInv'
  <2>1. ASSUME NEW s \in Stages, NEW o \in Outcomes \cup {"none"}, Transition(c, s, o),
               \/ CanAdvance(attempt[c].stage, s) /\ o = "none"
               \/ s = "finished" /\ o \in Outcomes /\ CanFinish(attempt[c].stage, o)
               \/ attempt[c].stage \in PreCommit \ {"queued"} /\ s = "queued" /\ o = "none"
               \/ /\ attempt[c].outcome = "unknown" /\ s = "finished"
                  /\ o \in {"operator_confirmed", "failed_before_commit"}
        PROVE  OutboxInv'
    <3>1. /\ attempt[c].stage # "none" /\ attempt[c] # SkippedAttempt
          /\ o # "none" <=> s = "finished"
          /\ \A state : RowFollows(attempt[c], [stage |-> s, outcome |-> o, state |-> state])
      BY <1>1, <2>1, MovesFollow
    <3> QED
      BY <2>1, <3>1, TransitionReported
  <2>2. ASSUME NEW s \in Stages, Advance(c, s) PROVE OutboxInv'
    BY <2>1, <2>2 DEF Advance
  <2>3. ASSUME NEW o \in Outcomes, Finish(c, o) PROVE OutboxInv'
    BY <1>2, <2>1, <2>3 DEF Finish
  <2>4. ASSUME NEW o \in Outcomes, Reconcile(c, o) PROVE OutboxInv'
    BY <1>2, <2>1, <2>4 DEF Reconcile
  <2>5. CASE Redeliver(c)
    BY <1>2, <2>1, <2>5 DEF Redeliver
  <2> QED
    BY <1>4, <2>2, <2>3, <2>4, <2>5
<1>5. CASE Skip
  <2>1. outbox' = outbox /\ \A c \in Commands : attempt'[c] = IF attempt[c].stage \in PreCommit
                                                              THEN SkippedAttempt ELSE attempt[c]
    BY <1>5 DEF Skip, SkippedAttempt
  <2>2. ASSUME NEW c \in Commands PROVE Reported(c)'
    <3>1. CASE attempt[c].stage \in PreCommit
      <4>1. attempt'[c] = SkippedAttempt /\ Admitted(c)
        BY <2>1, <3>1 DEF Admitted, PreCommit
      <4> QED
        BY <1>1, <2>1, <4>1 DEF Reported, SkippedAttempt
    <3>2. CASE attempt[c].stage \notin PreCommit
      BY <1>1, <2>1, <3>2 DEF Reported, Admitted, Payload
    <3> QED
      BY <3>1, <3>2
  <2> QED
    BY <2>2 DEF OutboxInv
<1>6. CASE AdmitNew
  <2> DEFINE first == [stage |-> "queued", outcome |-> "none", state |-> "pending"]
  <2>1. PICK c \in Commands : c = runner.c /\ ~Admitted(c)
    BY <1>6 DEF AdmitNew, LinkInv, RunnerInv
  <2>2. attempt[c].outcome = "none"
    BY <1>1, <2>1 DEF Admitted
  <2>3. /\ attempt' = [attempt EXCEPT ![c].stage = "queued"]
        /\ outbox' = [outbox EXCEPT ![c] = << first >>]
    BY <1>6, <2>1 DEF AdmitNew
  <2>4. /\ attempt'[c] = [stage |-> "queued", outcome |-> "none"] /\ outbox'[c] = << first >>
        /\ \A d \in Commands \ {c} : attempt'[d] = attempt[d] /\ outbox'[d] = outbox[d]
    BY <1>1, <2>1, <2>2, <2>3 DEF Attempt
  <2>5. Reported(c)'
    BY <2>4 DEF Reported, Payload
  <2>6. \A d \in Commands \ {c} : Reported(d)'
    BY <1>1, <2>4, ReportedLasts
  <2> QED
    BY <2>5, <2>6 DEF OutboxInv
<1>7. CASE EventDelivered
  <2>1. PICK c \in Commands, k \in Nat : c = runner.c /\ k = runner.n /\ k \in 1 .. Len(outbox[c])
    BY <1>7 DEF EventDelivered, LinkInv, RunnerInv, Backed, Awaited
  <2>2. attempt' = attempt /\ outbox' = [outbox EXCEPT ![c][k].state = "sent"]
    BY <1>7, <2>1 DEF EventDelivered
  <2>3. /\ Len(outbox'[c]) = Len(outbox[c])
        /\ \A n \in 1 .. Len(outbox[c]) :
              outbox'[c][n].stage = outbox[c][n].stage /\ outbox'[c][n].outcome = outbox[c][n].outcome
        /\ \A d \in Commands \ {c} : outbox'[d] = outbox[d]
    <3>1. outbox[c][k] \in OutboxRow /\ outbox[c] \in Seq(OutboxRow)
      BY <1>1, <2>1
    <3>2. outbox'[c] = [outbox[c] EXCEPT ![k] = [outbox[c][k] EXCEPT !.state = "sent"]]
      BY <1>1, <2>1, <2>2
    <3> QED
      BY <1>1, <2>1, <2>2, <3>1, <3>2 DEF OutboxRow
  <2>4. Len(outbox[c]) \in Nat \ {0}
    BY <1>1, <2>1
  <2>5. Reported(c)'
    <3>1. /\ outbox'[c] # << >> /\ outbox'[c][1].stage = outbox[c][1].stage
          /\ Payload(c, Len(outbox[c]))' = Payload(c, Len(outbox[c]))
      BY <2>3, <2>4 DEF Payload
    <3>2. ASSUME NEW n \in 1 .. Len(outbox[c]) - 1
          PROVE  RowFollows(outbox'[c][n], outbox'[c][n + 1])
      <4>1. n \in 1 .. Len(outbox[c]) /\ n + 1 \in 1 .. Len(outbox[c])
        BY <2>4
      <4>2. RowFollows(outbox[c][n], outbox[c][n + 1])
        BY <1>1, <2>1 DEF Reported
      <4> QED
        BY <2>3, <4>1, <4>2 DEF RowFollows
    <3> QED
      BY <1>1, <2>1, <2>2, <2>3, <3>1, <3>2 DEF Reported, Admitted, Payload
  <2>6. \A d \in Commands \ {c} : Reported(d)'
    BY <1>1, <2>2, <2>3 DEF Reported, Admitted, Payload
  <2> QED
    BY <2>5, <2>6 DEF OutboxInv
<1>8. CASE Network \/ Environment \/ UNCHANGED vars
  BY <1>3, <1>8 DEF Network, HandleAwaited, RefuseAwaited, DropLate, HandleLate, Environment, Create,
     LeaseEnds, Lapse, Crash, vars, localVars
<1>9. CASE Local
  BY <1>3, <1>4, <1>5, <1>9 DEF Local, Mint, Edit
<1>10. CASE RunOnce
  BY <1>3, <1>6, <1>7, <1>10
  DEF RunOnce, ClaimRevocation, ClaimProjection, ProjectionInvalid, RevocationDelivered,
      RevocationFails, NoRevocationDue, ProjectionDelivered, ProjectionFails, NoProjectionDue,
      NoCommandDelivered, VerifyCommand, PollFails, AdmitReplay, AdmitRefused, Acknowledged,
      AckFails, ClaimEvent, NoEventDue, EventFails, localVars
<1> QED
  BY <1>8, <1>9, <1>10 DEF Next

\* A step keeps every story, and what has been delivered stays delivered.
LEMMA StoryStep ==
    ASSUME LinkInv, StoryInv, [Next]_vars
    PROVE  StoryInv' /\ \A c \in Commands : Delivered(c) => Delivered(c)'
<1>1. /\ command \in [Commands -> HostedCommand]
      /\ \A c \in Commands : command[c] \in HostedCommand /\ Story(c)
      /\ \A m \in late : m \in Request /\ Backed(m)
  BY DEF LinkInv, GatewayTypeOK, StoryInv, LateInv
<1>2. CASE UNCHANGED <<command, log>>
  BY <1>2 DEF StoryInv, Story, Delivered
<1>3. CASE Network
  <2>1. ASSUME NEW d \in Commands \cup {NoCommand}, HandleAwaited(d)
        PROVE  StoryInv' /\ \A c \in Commands : Delivered(c) => Delivered(c)'
    <3>1. Backed(Awaited) /\ Awaited \in Request
      BY <2>1, AwaitedType DEF HandleAwaited, LinkInv, RunnerInv, GatewayTypeOK
    <3> QED
      BY <2>1, <3>1, HandleStory DEF HandleAwaited
  <2>2. ASSUME NEW m \in late, NEW d \in Commands \cup {NoCommand}, HandleLate(m, d)
        PROVE  StoryInv' /\ \A c \in Commands : Delivered(c) => Delivered(c)'
    BY <1>1, <2>2, HandleStory DEF HandleLate
  <2>3. CASE RefuseAwaited \/ \E m \in late : DropLate(m)
    BY <1>2, <2>3 DEF RefuseAwaited, DropLate, cloudVars
  <2> QED
    BY <1>3, <2>1, <2>2, <2>3 DEF Network
<1>4. ASSUME NEW c \in Commands, NEW g \in Grants, Create(c, g)
      PROVE  StoryInv' /\ \A d \in Commands : Delivered(d) => Delivered(d)'
  <2>1. /\ ~Delivered(c) /\ log' = log
        /\ command' = [command EXCEPT ![c] = [Absent EXCEPT !.status = "queued", !.grant = g]]
    BY <1>4 DEF Create, CreateCommand, Delivered
  <2>2. /\ command'[c].status = "queued" /\ command'[c].ack = "none" /\ ~command'[c].closed
        /\ \A d \in Commands \ {c} : command'[d] = command[d]
    BY <1>1, <2>1 DEF Absent
  <2>3. log[c] = << >>
    BY <1>1, <1>4 DEF Create, CreateCommand, Story
  <2>4. Story(c)'
    BY <2>1, <2>2, <2>3 DEF Story
  <2>5. \A d \in Commands \ {c} : Story(d)' /\ (Delivered(d) => Delivered(d)')
    BY <1>1, <2>1, <2>2, SameStory
  <2> QED
    BY <2>1, <2>4, <2>5 DEF StoryInv
<1>5. ASSUME NEW c \in Commands, LeaseEnds(c)
      PROVE  StoryInv' /\ \A d \in Commands : Delivered(d) => Delivered(d)'
  <2>1. log' = log /\ command' = [command EXCEPT ![c] = [command[c] EXCEPT !.leased = FALSE]]
    BY <1>1, <1>5 DEF LeaseEnds, LeaseRunsOut
  <2>2. \A d \in Commands : /\ command'[d].status = command[d].status
                            /\ command'[d].ack = command[d].ack
                            /\ command'[d].closed = command[d].closed
    BY <1>1, <2>1 DEF HostedCommand
  <2> QED
    BY <1>1, <2>1, <2>2, SameStory DEF StoryInv
<1>6. CASE Local \/ UNCHANGED vars
  BY <1>2, <1>6 DEF Local, Mint, Edit, Advance, Finish, Reconcile, Redeliver, Skip, Transition,
     cloudVars, vars
<1>7. CASE RunOnce
  BY <1>2, <1>7
  DEF RunOnce, ClaimRevocation, ClaimProjection, ProjectionInvalid, RevocationDelivered,
      RevocationFails, NoRevocationDue, ProjectionDelivered, ProjectionFails, NoProjectionDue,
      NoCommandDelivered, VerifyCommand, PollFails, AdmitNew, AdmitReplay, AdmitRefused,
      Acknowledged, AckFails, ClaimEvent, NoEventDue, EventDelivered, EventFails, cloudVars
<1>8. CASE Environment
  <2>1. ASSUME Crash \/ \E g \in Grants, clock \in Clocks : Lapse(g, clock)
        PROVE  StoryInv' /\ \A c \in Commands : Delivered(c) => Delivered(c)'
    BY <1>2, <2>1 DEF Crash, Lapse, cloudVars
  <2> QED
    BY <1>4, <1>5, <1>8, <2>1 DEF Environment
<1> QED
  BY <1>3, <1>6, <1>7, <1>8 DEF Next

\* The runner admits nothing that was not delivered to it.
LEMMA DeliveredStep ==
    ASSUME LinkInv, StoryInv, DeliveredInv, OutboxInv, [Next]_vars
    PROVE  DeliveredInv'
<1> DEFINE Holds == runner.pc = "admit" \/ (runner.pc = "poll" /\ runner.c # NoCommand)
<1>1. /\ runner \in Runner /\ attempt \in [Commands -> Attempt] /\ RunnerInv
      /\ \A c \in Commands : Delivered(c) => Delivered(c)'
      /\ \A c \in Commands : Reported(c)
  BY StoryStep DEF LinkInv, GatewayTypeOK, OutboxInv
<1>2. Holds => \E c \in Commands : c = runner.c /\ Delivered(c)'
  BY <1>1 DEF RunnerInv, Runner, DeliveredInv
<1>3. ASSUME NEW c \in Commands, Admitted(c)', ~Admitted(c)
      PROVE  Delivered(c)'
  <2>1. CASE AdmitNew
    <3>1. runner.pc = "admit" /\ attempt' = [attempt EXCEPT ![runner.c].stage = "queued"]
      BY <2>1 DEF AdmitNew
    <3>2. c = runner.c
      BY <1>1, <1>2, <1>3, <3>1 DEF Admitted
    <3> QED
      BY <1>2, <3>1, <3>2
  <2>2. CASE UNCHANGED attempt
    BY <1>3, <2>2 DEF Admitted
  <2>3. ASSUME NEW d \in Commands,
               \/ \E s \in Stages : Advance(d, s)
               \/ \E o \in Outcomes : Finish(d, o) \/ Reconcile(d, o)
               \/ Redeliver(d)
        PROVE  FALSE
    <3>1. Admitted(d)
      BY <2>3 DEF Advance, CanAdvance, Finish, CanFinish, AllowedNextStage, Reconcile, Redeliver,
         PreCommit, Admitted
    <3>2. \E row : attempt' = [attempt EXCEPT ![d] = row]
      BY <2>3 DEF Advance, Finish, Reconcile, Redeliver, Transition
    <3> QED
      BY <1>1, <1>3, <3>1, <3>2 DEF Admitted
  <2>4. CASE Skip
    BY <1>1, <1>3, <2>4 DEF Skip, Admitted, PreCommit
  <2>5. CASE Network \/ Environment \/ UNCHANGED vars
    BY <2>2, <2>5 DEF Network, HandleAwaited, RefuseAwaited, DropLate, HandleLate, Environment,
       Create, LeaseEnds, Lapse, Crash, vars, localVars
  <2>6. CASE Local
    BY <2>2, <2>3, <2>4, <2>6 DEF Local, Mint, Edit
  <2>7. CASE RunOnce
    BY <2>1, <2>2, <2>7
    DEF RunOnce, ClaimRevocation, ClaimProjection, ProjectionInvalid, RevocationDelivered,
        RevocationFails, NoRevocationDue, ProjectionDelivered, ProjectionFails, NoProjectionDue,
        NoCommandDelivered, VerifyCommand, PollFails, AdmitReplay, AdmitRefused, Acknowledged,
        AckFails, ClaimEvent, NoEventDue, EventDelivered, EventFails, localVars
  <2> QED
    BY <2>5, <2>6, <2>7 DEF Next
<1>4. ASSUME Holds' PROVE Delivered(runner.c)'
  <2>1. CASE Holds /\ runner'.c = runner.c
    BY <1>2, <2>1 DEF Delivered
  <2>2. ASSUME NEW d \in Commands \cup {NoCommand}, HandleAwaited(d)
        PROVE  Delivered(runner.c)'
    <3>1. /\ Backed(Awaited) /\ Awaited \in Request /\ Awaited.kind = runner.pc
          /\ Handle(Awaited, d) /\ runner.pc # "admit"
      BY <2>2, AwaitedType DEF HandleAwaited, LinkInv, RunnerInv, GatewayTypeOK, Awaited
    <3>2. runner'.pc = runner.pc /\ runner'.c = IF runner.pc = "poll" THEN d ELSE runner.c
      BY <1>1, <2>2 DEF HandleAwaited, Runner
    <3>3. runner.pc = "poll" /\ d # NoCommand
      BY <1>4, <3>1, <3>2
    <3>4. Delivered(d)'
      BY <3>1, <3>3, HandleStory
    <3> QED
      BY <3>2, <3>3, <3>4 DEF Delivered
  <2>3. CASE Network
    <3>1. CASE RefuseAwaited
      BY <1>1, <1>4, <2>1, <3>1 DEF RefuseAwaited, Runner
    <3>2. CASE runner' = runner
      BY <1>4, <2>1, <3>2
    <3> QED
      BY <2>2, <2>3, <3>1, <3>2 DEF Network, DropLate, HandleLate
  <2>4. CASE Local \/ UNCHANGED vars
    BY <1>4, <2>1, <2>4 DEF Local, Mint, Edit, Advance, Finish, Reconcile, Redeliver, Skip,
       Transition, vars
  <2>5. CASE Environment
    BY <1>4, <2>1, <2>5 DEF Environment, Create, LeaseEnds, Lapse, Crash, AtStart
  <2>6. CASE RunOnce
    <3>1. CASE VerifyCommand
      BY <1>1, <1>4, <2>1, <3>1 DEF VerifyCommand, AtStart, Runner
    <3>2. CASE runner' \in {AtStart, Polling, Draining, Acknowledging("received"),
                            Acknowledging("rejected")}
      <4>1. /\ AtStart.pc = "revoke" /\ Polling.pc = "poll" /\ Polling.c = NoCommand
            /\ Draining.pc = "drain"
        BY DEF AtStart, Polling, Draining
      <4>2. \A ack : Acknowledging(ack).pc = "ack"
        BY <1>1 DEF Acknowledging, Runner
      <4> QED
        BY <1>4, <3>2, <4>1, <4>2
    <3>3. CASE /\ runner.pc \in {"revoke", "project", "drain"}
               /\ runner'.pc \in {runner.pc, "project"}
      BY <1>4, <3>3
    <3> QED
      BY <1>1, <2>6, <3>1, <3>2, <3>3
      DEF RunOnce, ClaimRevocation, ClaimProjection, ProjectionInvalid, RevocationDelivered,
          RevocationFails, NoRevocationDue, ProjectionDelivered, ProjectionFails, NoProjectionDue,
          NoCommandDelivered, PollFails, AdmitNew, AdmitReplay, AdmitRefused,
          Acknowledged, AckFails, ClaimEvent, NoEventDue, EventDelivered, EventFails, Runner
  <2> QED
    BY <2>3, <2>4, <2>5, <2>6 DEF Next
<1> QED
  BY <1>1, <1>3, <1>4 DEF DeliveredInv

-----------------------------------------------------------------------------
\* The theorems.

\* Empty databases, an idle runner and an empty network satisfy the invariant.
LEMMA InitInv ==
    Init => LinkInv
<1> SUFFICES ASSUME Init PROVE LinkInv
  OBVIOUS
<1> USE DEF Init, HostedInit
<1>1. GatewayTypeOK
  <2>1. Absent \in HostedCommand
    BY DEF Absent, HostedCommand
  <2>2. AtStart \in Runner
    BY DEF AtStart, Runner
  <2>3. \A c \in Commands : log[c] = << >> /\ outbox[c] = << >>
    OBVIOUS
  <2>4. hosted \in [Grants -> HostedRow] /\ grant \in [Grants -> GrantRow]
    BY DEF HostedRow, GrantRow
  <2>5. command \in [Commands -> HostedCommand] /\ attempt \in [Commands -> Attempt]
    BY <2>1 DEF Attempt
  <2>6. log \in [Commands -> Seq(Event)] /\ outbox \in [Commands -> Seq(OutboxRow)]
    BY <2>3
  <2>7. skipped \in BOOLEAN /\ fresh \in SUBSET Grants
    OBVIOUS
  <2> QED
    BY <2>2, <2>4, <2>5, <2>6, <2>7 DEF GatewayTypeOK
<1>2. RunnerInv /\ LateInv
  BY DEF RunnerInv, LateInv, AtStart
<1>3. \A c \in Commands : /\ command[c].status = "absent" /\ command[c].grant = NoGrant
                          /\ command[c].ack = "none" /\ attempt[c].stage = "none"
                          /\ outbox[c] = << >> /\ log[c] = << >>
  BY DEF Absent
<1>4. GrantsInv /\ ReceiptsInv /\ ClosedInv
  BY <1>3 DEF GrantsInv, ReceiptsInv, ClosedInv, Created, Admitted
<1>5. AcknowledgedMeansAdmitted /\ HostedLogMirrorsOutbox
  BY <1>3 DEF AcknowledgedMeansAdmitted, HostedLogMirrorsOutbox
<1> QED
  BY <1>1, <1>2, <1>4, <1>5 DEF LinkInv

\* Every step of the runner, the control plane, the network, the operator and
\* the clocks preserves the invariant.
LEMMA StepInv ==
    ASSUME LinkInv, [Next]_vars
    PROVE  LinkInv'
<1>1. CASE Local
  BY <1>1, ReviewSteps, AttemptSteps, SkipStep DEF Local
<1>2. CASE Network
  BY <1>2, NetworkSteps, RunnerSteps DEF Network
<1>3. CASE RunOnce
  BY <1>3, RevocationSteps, RunnerSteps, AdmitNewStep, EventDeliveredStep DEF RunOnce
<1>4. CASE Environment
  BY <1>4, EnvironmentSteps, RunnerSteps DEF Environment
<1>5. CASE UNCHANGED vars
  <2>1. GatewayTypeOK'
    BY <1>5 DEF vars, LinkInv, GatewayTypeOK
  <2>2. RunnerInv' /\ LateInv'
    BY <1>5 DEF vars, LinkInv, RunnerInv, LateInv, Backed, Awaited, Created, Admitted
  <2>3. GrantsInv' /\ ReceiptsInv' /\ ClosedInv'
    BY <1>5 DEF vars, LinkInv, GrantsInv, ReceiptsInv, ClosedInv, Created, Admitted
  <2>4. AcknowledgedMeansAdmitted' /\ HostedLogMirrorsOutbox'
    BY <1>5 DEF vars, LinkInv, AcknowledgedMeansAdmitted, HostedLogMirrorsOutbox, Admitted, Payload
  <2> QED
    BY <2>1, <2>2, <2>3, <2>4 DEF LinkInv
<1> QED
  BY <1>1, <1>2, <1>3, <1>4, <1>5 DEF Next

\* GatewayInv holds in every state: whatever the network loses, delays or
\* delivers after the runner gave up, each request in flight is still backed by
\* the runner's database, and what the two sides have written about one attempt
\* obeys the stage rules of both.
THEOREM GatewayInvariant ==
    Spec => []GatewayInv
<1>1. Init => GatewayInv
  <2>1. Init => StoryInv /\ DeliveredInv /\ OutboxInv
    BY DEF Init, HostedInit, Absent, AtStart, StoryInv, Story, DeliveredInv, OutboxInv, Reported,
       Admitted
  <2> QED
    BY <2>1, InitInv DEF GatewayInv
<1>2. GatewayInv /\ [Next]_vars => GatewayInv'
  BY StepInv, StoryStep, DeliveredStep, OutboxStep DEF GatewayInv
<1> QED
  BY <1>1, <1>2, PTL DEF Spec

\* The links between the databases, the network and the runner, by themselves.
LEMMA LinksHold ==
    Spec => []LinkInv
<1>1. GatewayInv => LinkInv
  BY DEF GatewayInv
<1> QED
  BY <1>1, GatewayInvariant, PTL

\* A grant whose tombstone the control plane holds is never spent: the command
\* minted from it is not, and will not be, admitted by accept_control_plane_command.
THEOREM TombstoneIsFinal ==
    Spec => []RevokedNeverAdmitted
<1>1. LinkInv => RevokedNeverAdmitted
  BY NonesAreNew DEF LinkInv, GrantsInv, ReceiptsInv, RevokedNeverAdmitted
<1> QED
  BY <1>1, LinksHold, PTL

\* The control plane believes a command received only when the runner holds its
\* receipt, through acknowledgements and through recovered first events alike.
THEOREM ReceivedMeansAdmitted ==
    Spec => []AcknowledgedMeansAdmitted
<1>1. LinkInv => AcknowledgedMeansAdmitted
  BY DEF LinkInv
<1> QED
  BY <1>1, LinksHold, PTL

\* The event log of receive_runner_event is always a prefix of the runner's
\* outbox and covers every row marked sent.
THEOREM LogIsMirrored ==
    Spec => []HostedLogMirrorsOutbox
<1>1. LinkInv => HostedLogMirrorsOutbox
  BY DEF LinkInv
<1> QED
  BY <1>1, LinksHold, PTL

\* Unless a rejection closed the command, the control plane accepts the first row
\* it has not stored: the stage rules of core/submission_state.py, the sweeper's
\* redelivery, the operator's reconciliation and a skip without an event never
\* write a row that receive_runner_event refuses behind the rows before it.
THEOREM RowsAreAcceptable ==
    Spec => []NextEventAcceptable
<1>1. ASSUME GatewayInv, NEW c \in Commands, Admitted(c), command[c].status # "rejected",
             Len(log[c]) < Len(outbox[c])
      PROVE  EventAccepted(c, Len(log[c]) + 1, Payload(c, Len(log[c]) + 1))
  <2> DEFINE n == Len(log[c]) + 1
             e == Payload(c, n)
  <2>1. /\ command[c] \in HostedCommand /\ log[c] \in Seq(Event) /\ outbox[c] \in Seq(OutboxRow)
        /\ Len(log[c]) \in Nat /\ Len(outbox[c]) \in Nat
        /\ Story(c) /\ Delivered(c) /\ Reported(c)
    BY <1>1 DEF GatewayInv, LinkInv, GatewayTypeOK, StoryInv, DeliveredInv, OutboxInv
  <2>2. \A k \in 1 .. Len(log[c]) : log[c][k] = Payload(c, k)
    BY <1>1 DEF GatewayInv, LinkInv, HostedLogMirrorsOutbox
  <2>3. CASE log[c] = << >>
    <3>1. n = 1 /\ e.stage = "queued"
      BY <1>1, <2>1, <2>3 DEF Reported, Payload
    <3>2. command[c].ack = "received" \/ command[c].status = "claimed"
      BY <1>1, <2>1 DEF Story, Delivered, HostedCommand
    <3>3. ~command[c].closed
      BY <1>1, <2>1, <2>3 DEF Story
    <3> QED
      BY <2>3, <3>1, <3>2, <3>3 DEF EventAccepted, EventFresh, RecoversLostAck, StageFollows
  <2>4. CASE log[c] # << >>
    <3> DEFINE k == Len(log[c])
               last == log[c][k]
    <3>1. k \in 1 .. Len(log[c]) /\ k \in 1 .. Len(outbox[c]) - 1 /\ n = k + 1
      BY <1>1, <2>1, <2>4
    <3>2. RowFollows(outbox[c][k], outbox[c][k + 1])
      BY <2>1, <3>1 DEF Reported
    <3>3. /\ last = Payload(c, k) /\ last.stage = outbox[c][k].stage
          /\ last.outcome = outbox[c][k].outcome
          /\ e.stage = outbox[c][k + 1].stage /\ e.outcome = outbox[c][k + 1].outcome
      BY <2>2, <3>1 DEF Payload
    <3>4. command[c].ack = "received"
      BY <1>1, <2>1, <2>4 DEF Story, HostedCommand
    <3>5. command[c].closed => SafeReconciliation(c, e)
      BY <1>1, <2>1, <2>4, <3>2, <3>3 DEF Story, SafeReconciliation, RowFollows
    <3>6. StageFollows(c, e)
      BY <2>4, <3>2, <3>3 DEF StageFollows, RowFollows, StageOrder
    <3> QED
      BY <3>4, <3>5, <3>6 DEF EventAccepted, EventFresh
  <2> QED
    BY <2>3, <2>4
<1>2. GatewayInv => NextEventAcceptable
  BY <1>1 DEF NextEventAcceptable
<1> QED
  BY <1>2, GatewayInvariant, PTL

\* No step takes a rejected or finished command out of its final status.
THEOREM ClosedIsFinal ==
    Spec => ClosedStaysClosed
<1>1. ASSUME LinkInv, [Next]_vars, NEW c \in Commands,
             command[c].status \in {"rejected", "finished"}
      PROVE  command'[c].status = command[c].status
  <2>1. GatewayTypeOK /\ RunnerInv /\ LateInv
    BY <1>1 DEF LinkInv
  <2>2. ASSUME NEW m \in Request, Backed(m), NEW d \in Commands \cup {NoCommand}, Handle(m, d)
        PROVE  command'[c].status = command[c].status
    BY <1>1, <2>2, HandleEffects DEF HandleEffect
  <2>3. CASE Local
    <3>1. command' = command
      BY <2>3 DEF Local, Mint, Edit, Advance, Finish, Reconcile, Redeliver, Skip, Transition,
                  cloudVars
    <3> QED
      BY <3>1
  <2>4. CASE Network
    <3>1. ASSUME NEW d \in Commands \cup {NoCommand}, HandleAwaited(d)
          PROVE  command'[c].status = command[c].status
      BY <2>1, <2>2, <3>1, AwaitedType DEF HandleAwaited
    <3>2. ASSUME NEW m \in late, NEW d \in Commands \cup {NoCommand}, HandleLate(m, d)
          PROVE  command'[c].status = command[c].status
      BY <2>1, <2>2, <3>2 DEF HandleLate, GatewayTypeOK, LateInv
    <3>3. ASSUME RefuseAwaited \/ \E m \in late : DropLate(m)
          PROVE  command'[c].status = command[c].status
      BY <3>3 DEF RefuseAwaited, DropLate, cloudVars
    <3> QED
      BY <2>4, <3>1, <3>2, <3>3 DEF Network
  <2>5. CASE RunOnce
    <3>1. command' = command
      BY <2>5 DEF RunOnce, ClaimRevocation, ClaimProjection, ProjectionInvalid,
                  RevocationDelivered, RevocationFails, NoRevocationDue, ProjectionDelivered,
                  ProjectionFails, NoProjectionDue, NoCommandDelivered, VerifyCommand, PollFails,
                  AdmitNew, AdmitReplay, AdmitRefused, Acknowledged, AckFails, ClaimEvent,
                  NoEventDue, EventDelivered, EventFails, cloudVars
    <3> QED
      BY <3>1
  <2>6. CASE Environment
    <3>1. ASSUME NEW d \in Commands, NEW g \in Grants, Create(d, g)
          PROVE  command'[c].status = command[c].status
      <4>1. d # c /\ command' = [command EXCEPT ![d] = [Absent EXCEPT !.status = "queued", !.grant = g]]
        BY <1>1, <3>1 DEF Create, CreateCommand
      <4> QED
        BY <2>1, <4>1 DEF GatewayTypeOK
    <3>2. ASSUME NEW d \in Commands, LeaseEnds(d)
          PROVE  command'[c].status = command[c].status
      <4>1. command' = [command EXCEPT ![d] = [command[d] EXCEPT !.leased = FALSE]]
        BY <2>1, <3>2 DEF LeaseEnds, LeaseRunsOut, GatewayTypeOK
      <4>2. command[d] \in HostedCommand
        BY <2>1 DEF GatewayTypeOK
      <4>3. [command[d] EXCEPT !.leased = FALSE].status = command[d].status
        BY <4>2 DEF HostedCommand
      <4> QED
        BY <2>1, <4>1, <4>3 DEF GatewayTypeOK
    <3>3. ASSUME Crash \/ \E g \in Grants, clock \in Clocks : Lapse(g, clock)
          PROVE  command'[c].status = command[c].status
      BY <3>3 DEF Crash, Lapse, cloudVars
    <3> QED
      BY <2>6, <3>1, <3>2, <3>3 DEF Environment
  <2>7. CASE UNCHANGED vars
    BY <2>7 DEF vars
  <2> QED
    BY <1>1, <2>3, <2>4, <2>5, <2>6, <2>7 DEF Next
<1>2. LinkInv /\ [Next]_vars =>
         [\A c \in Commands : command[c].status \in {"rejected", "finished"} =>
             command'[c].status = command[c].status]_vars
  BY <1>1
<1> QED
  BY <1>2, LinksHold, PTL DEF Spec, ClosedStaysClosed

=============================================================================
