---------------------------- MODULE WhatsAppBridge ----------------------------
(***************************************************************************)
(* The WhatsApp bridge (bridge/whatsapp_bridge.js): one Node process whose *)
(* handlers interleave at every await.  A `ready` event scans the watched  *)
(* groups and then starts the heartbeat and the archive rescans            *)
(* (archive_scan_scheduler.js); live messages are handled meanwhile; a     *)
(* disconnect invalidates the rescans but stops no handler that is waiting.*)
(* All of them forward what they find to the agent through one index of    *)
(* what was already forwarded (archive_dedup.js).                          *)
(*                                                                         *)
(* A handler is modelled from one await to the next.  An item is a URL or  *)
(* a text post that the filters let pass; a group holds one item.          *)
(***************************************************************************)
EXTENDS Naturals, FiniteSets

CONSTANTS
    Items,         \* what messages carry
    Tasks,         \* handlers that can be waiting at one time
    Nothing,
    Attempts,      \* archiveRescanAttempts
    Interval,      \* archiveRescanIntervalMs; 0 for none
    MaxReady,      \* bound: ready events
    MaxLive,       \* bound: live messages
    MaxForgets     \* bound: entries the index forgets

VARIABLES
    connected,     \* between ready and disconnected
    heartbeat,     \* _heartbeatTimer is set
    generation,    \* _archiveSchedulerGeneration
    current,       \* generation of _archiveRescanScheduler, 0 for null
    sched,         \* every scheduler ever made, by its generation
    shown,         \* _archiveScanState, which the heartbeat reports
    handler,       \* the handlers
    seen,          \* seenArchiveItems
    begun,         \* history: forwards begun since the index forgot the item
    spent          \* how much of the bounds is used

bridgeVars == <<connected, heartbeat, generation, current, sched, shown, handler, seen,
                begun, spent>>

\* Every ready handler makes a scheduler; so every generation a disconnect skips
\* and every one a handler makes.
Generations == 1 .. 2 * MaxReady

Unmade == [active |-> FALSE, running |-> FALSE, timer |-> FALSE, left |-> 0]

Free == [kind |-> "free", gen |-> 0, todo |-> {}, waiting |-> Nothing]

Init ==
    /\ connected = FALSE /\ heartbeat = FALSE /\ generation = 0 /\ current = 0
    /\ sched = [g \in Generations |-> Unmade]
    /\ shown = [active |-> FALSE, running |-> FALSE]
    /\ handler = [t \in Tasks |-> Free]
    /\ seen = {} /\ begun = [i \in Items |-> 0]
    /\ spent = [ready |-> 0, live |-> 0, forgets |-> 0]

-----------------------------------------------------------------------------
(***************************************************************************)
(* The scheduler.                                                          *)
(***************************************************************************)

\* Mutant: a scheduler shows its state whether or not it is the bridge's own.
Fault_Publish(g, gen, s, old) == [active |-> s.active, running |-> s.running]

\* onState: a scheduler of an earlier generation is not heard.
Publish(g, gen, s, old) ==
    IF g = gen THEN [active |-> s.active, running |-> s.running] ELSE old

\* scheduleNext: one timer at a time; with no delay left the scheduler retires.
ScheduleNext(s) ==
    IF ~s.active \/ s.timer THEN s
    ELSE IF s.left > 0 \/ Interval > 0 THEN [s EXCEPT !.timer = TRUE]
    ELSE [s EXCEPT !.active = FALSE]

\* stop: the timer is cancelled; a pass that is running is left to finish.
Stop(s) == [s EXCEPT !.active = FALSE, !.timer = FALSE]

\* Mutant: the scheduler is forgotten and not stopped.
Fault_Invalidated == sched

\* invalidateArchiveRescans: the schedulers afterwards.
Invalidated == IF current = 0 THEN sched ELSE [sched EXCEPT ![current] = Stop(@)]

\* scheduleArchiveRescans: a new generation, its scheduler started.
ScheduleArchiveRescans ==
    LET g == generation + 1
        s == ScheduleNext([Unmade EXCEPT !.active = TRUE, !.left = Attempts])
    IN  /\ generation' = g /\ current' = g
        /\ sched' = [Invalidated EXCEPT ![g] = s]
        /\ shown' = Publish(g, g, s, shown)

\* The timer fires: runPass, up to its first await.
PassStarts(g, t) ==
    LET s == [sched[g] EXCEPT !.timer = FALSE, !.running = TRUE,
                              !.left = IF @ > 0 THEN @ - 1 ELSE 0]
    IN  /\ sched[g].timer /\ sched[g].active /\ ~sched[g].running /\ handler[t] = Free
        /\ sched' = [sched EXCEPT ![g] = s]
        /\ shown' = Publish(g, generation, s, shown)
        /\ \E todo \in SUBSET Items :
               handler' = [handler EXCEPT ![t] = [Free EXCEPT !.kind = "pass", !.gen = g,
                                                              !.todo = todo]]
        /\ UNCHANGED <<connected, heartbeat, generation, current, seen, begun, spent>>

\* The next group, unless the scheduler was stopped while the pass waited.
GoesOn(h) == h.kind = "pass" => sched[h.gen].active

\* runPass ends, its listing or a group having failed or not.
PassEnds(t) ==
    LET h == handler[t]
        s == ScheduleNext([sched[h.gen] EXCEPT !.running = FALSE])
    IN  /\ h.kind = "pass" /\ h.waiting = Nothing /\ (h.todo = {} \/ ~GoesOn(h))
        /\ sched' = [sched EXCEPT ![h.gen] = s]
        /\ shown' = Publish(h.gen, generation, s, shown)
        /\ handler' = [handler EXCEPT ![t] = Free]
        /\ UNCHANGED <<connected, heartbeat, generation, current, seen, begun, spent>>

-----------------------------------------------------------------------------
(***************************************************************************)
(* Forwarding: processMessage and processArchiveMessage.                   *)
(***************************************************************************)

\* Mutant: an item is forwarded without being marked first.
Fault_Consider(t, i) ==
    LET h == handler[t]
    IN  /\ h.waiting = Nothing /\ i \in h.todo /\ GoesOn(h)
        /\ handler' = [handler EXCEPT ![t].todo = @ \ {i},
                                      ![t].waiting = IF i \in seen THEN Nothing ELSE i]
        /\ begun' = IF i \in seen THEN begun ELSE [begun EXCEPT ![i] = @ + 1]
        /\ UNCHANGED <<connected, heartbeat, generation, current, sched, shown, seen, spent>>

\* The item is looked up, marked and sent on before the handler waits again.
Consider(t, i) ==
    LET h == handler[t]
    IN  /\ h.waiting = Nothing /\ i \in h.todo /\ GoesOn(h)
        /\ handler' = [handler EXCEPT ![t].todo = @ \ {i},
                                      ![t].waiting = IF i \in seen THEN Nothing ELSE i]
        /\ begun' = IF i \in seen THEN begun ELSE [begun EXCEPT ![i] = @ + 1]
        /\ seen' = seen \cup {i}
        /\ UNCHANGED <<connected, heartbeat, generation, current, sched, shown, spent>>

\* forwardUrl or forwardTextPost returns: accepted, rejected or timed out, the
\* item stays marked.
Forwarded(t) ==
    /\ handler[t].waiting # Nothing
    /\ handler' = [handler EXCEPT ![t].waiting = Nothing]
    /\ UNCHANGED <<connected, heartbeat, generation, current, sched, shown, seen, begun, spent>>

\* prune: an entry's day is over, or it is the oldest of too many.  A request
\* times out long before.
Forget(i) ==
    /\ i \in seen /\ spent.forgets < MaxForgets
    /\ \A t \in Tasks : handler[t].waiting # i
    /\ seen' = seen \ {i} /\ begun' = [begun EXCEPT ![i] = 0]
    /\ spent' = [spent EXCEPT !.forgets = @ + 1]
    /\ UNCHANGED <<connected, heartbeat, generation, current, sched, shown, handler>>

\* processMessage of a live message that carries `todo`.
LiveMessage(t) ==
    /\ connected /\ handler[t] = Free /\ spent.live < MaxLive
    /\ \E todo \in (SUBSET Items) \ {{}} :
           handler' = [handler EXCEPT ![t] = [Free EXCEPT !.kind = "live", !.todo = todo]]
    /\ spent' = [spent EXCEPT !.live = @ + 1]
    /\ UNCHANGED <<connected, heartbeat, generation, current, sched, shown, seen, begun>>

LiveEnds(t) ==
    /\ handler[t].kind = "live" /\ handler[t].waiting = Nothing /\ handler[t].todo = {}
    /\ handler' = [handler EXCEPT ![t] = Free]
    /\ UNCHANGED <<connected, heartbeat, generation, current, sched, shown, seen, begun, spent>>

-----------------------------------------------------------------------------
(***************************************************************************)
(* The life of the connection.                                             *)
(***************************************************************************)

\* The ready handler begins to scan the watched groups, through the normal
\* adapter or the metadata fallback; both may fail and leave nothing to do.
Ready(t) ==
    /\ ~connected /\ handler[t] = Free /\ spent.ready < MaxReady
    /\ connected' = TRUE
    /\ \E todo \in SUBSET Items :
           handler' = [handler EXCEPT ![t] = [Free EXCEPT !.kind = "ready", !.todo = todo]]
    /\ spent' = [spent EXCEPT !.ready = @ + 1]
    /\ UNCHANGED <<heartbeat, generation, current, sched, shown, seen, begun>>

\* It ends, whether or not its session still lives.
ReadyEnds(t) ==
    /\ handler[t].kind = "ready" /\ handler[t].waiting = Nothing /\ handler[t].todo = {}
    /\ handler' = [handler EXCEPT ![t] = Free]
    /\ heartbeat' = TRUE
    /\ ScheduleArchiveRescans
    /\ UNCHANGED <<connected, seen, begun, spent>>

Disconnected ==
    /\ connected /\ connected' = FALSE
    /\ heartbeat' = FALSE
    /\ generation' = generation + 1 /\ current' = 0
    /\ sched' = Invalidated
    /\ shown' = [active |-> FALSE, running |-> FALSE]
    /\ UNCHANGED <<handler, seen, begun, spent>>

Next ==
    \/ \E t \in Tasks :
          \/ Ready(t) \/ ReadyEnds(t) \/ LiveMessage(t) \/ LiveEnds(t)
          \/ Forwarded(t) \/ PassEnds(t)
          \/ \E i \in Items : Consider(t, i)
          \/ \E g \in Generations : PassStarts(g, t)
    \/ \E i \in Items : Forget(i)
    \/ Disconnected

Spec == Init /\ [][Next]_bridgeVars

-----------------------------------------------------------------------------
(***************************************************************************)
(* Properties.                                                             *)
(***************************************************************************)

\* A startup scan, a rescan pass left over from an earlier session and a live
\* message that meet the same item forward it once, until the index forgets it.
ForwardedOnce == \A i \in Items : begun[i] <= 1

\* However ready handlers, disconnects and slow passes overlap, only the
\* scheduler the bridge holds is active or armed: no earlier one comes back.
OneScheduler == \A g \in Generations : sched[g].active \/ sched[g].timer => g = current

\* What the heartbeat reports about rescans is what the bridge's own scheduler
\* does, whatever an earlier session's pass publishes when it ends late.
ShownIsCurrent ==
    shown = IF current = 0 THEN [active |-> FALSE, running |-> FALSE]
            ELSE [active |-> sched[current].active, running |-> sched[current].running]

BridgeStaysSingle == ForwardedOnce /\ OneScheduler /\ ShownIsCurrent

Schedulers == [active : BOOLEAN, running : BOOLEAN, timer : BOOLEAN, left : Nat]
Handlers == [kind : {"free", "pass", "live", "ready"}, gen : Nat, todo : SUBSET Items,
             waiting : Items \cup {Nothing}]

BridgeTypeOK ==
    /\ connected \in BOOLEAN /\ generation \in Nat /\ current \in {0, generation}
    /\ sched \in [Generations -> Schedulers]
    /\ handler \in [Tasks -> Handlers]
    /\ seen \subseteq Items /\ begun \in [Items -> Nat]
    /\ spent \in [ready : 0 .. MaxReady, live : Nat, forgets : Nat]

\* A pass belongs to a scheduler that was made; if no later session began and none
\* ended since, it is the bridge's own.
PassesAreKnown ==
    \A t \in Tasks : handler[t].kind = "pass" =>
        /\ handler[t].gen \in Generations /\ handler[t].gen <= generation
        /\ handler[t].gen = generation => current = generation

\* A ready event moves the generation twice: when its handler ends and when its
\* session does.
GenerationsCounted ==
    generation + Cardinality({t \in Tasks : handler[t].kind = "ready"})
        + (IF connected THEN 1 ELSE 0) <= 2 * spent.ready

\* What the index forgot, or never saw, nobody has begun to forward since.
ForwardedIsSeen == \A i \in Items : i \notin seen => begun[i] = 0

\* The inductive invariant of the bridge.
BridgeInv ==
    /\ BridgeTypeOK /\ PassesAreKnown /\ GenerationsCounted /\ ForwardedIsSeen
    /\ BridgeStaysSingle

=============================================================================
