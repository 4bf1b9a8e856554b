-------------------------- MODULE InferenceRuntime --------------------------
(***************************************************************************)
(* llm/ollama_runtime.py and the typed entry of llm/client.py: one local   *)
(* model serves every process of the host.  A call takes the lock of its   *)
(* process, then the Redis lease, whose TTL is all that ends it when its   *)
(* holder dies or its release is lost; a circuit in Redis, opened by       *)
(* failures in a row, keeps callers away for a while.                      *)
(*                                                                         *)
(* Time is in ticks.  asyncio.wait_for bounds every step of a call by its  *)
(* deadline, so time does not pass a call whose deadline has come.  Redis  *)
(* may fail at any step, before or after it did what was asked.  Whether   *)
(* the model answers, and is still the qualified one, is an oracle.        *)
(***************************************************************************)
EXTENDS Naturals, FiniteSets

CONSTANTS
    Processes,
    Calls,         \* one slot per concurrent call
    ProcessOf,     \* the process of a slot
    Nobody,
    Horizon,       \* llm_generation_max_horizon_seconds
    LeaseTTLs,     \* what ollama_lease_ttl_seconds may be set to
    Threshold,     \* ollama_circuit_failure_threshold
    Reset,         \* ollama_circuit_reset_seconds
    MaxStarts,     \* bound: calls started
    MaxCrashes     \* bound: process deaths

VARIABLES
    call,          \* where each call is, its ticks left, its attempt, whether it took the lease
    lock,          \* _LOCAL_INFERENCE_LOCK of each process
    lease,         \* the Redis lease: owner and ticks left
    circuit,       \* failures in a row, their TTL, and ticks the circuit stays open
    ttl,           \* ollama_lease_ttl_seconds of this deployment
    starts, crashes

vars == <<call, ttl, lock, lease, circuit, starts, crashes>>

Idle == [at |-> "idle", left |-> 0, attempt |-> 0, acquired |-> FALSE]

Init ==
    /\ call = [c \in Calls |-> Idle]
    /\ lock = [p \in Processes |-> Nobody]
    /\ lease = [owner |-> Nobody, left |-> 0]
    /\ circuit = [failures |-> 0, ttl |-> 0, open |-> 0]
    /\ ttl \in LeaseTTLs /\ starts = 0 /\ crashes = 0

Go(c, at) == call' = [call EXCEPT ![c].at = at]
In(c, at) == call[c].at = at
Expired(c) == call[c].left = 0
Stop(c) == call' = [call EXCEPT ![c] = Idle]

\* validate_local_configuration: the lease must outlive the longest call.
Fault_ConfigurationValid == TRUE
ConfigurationValid == ttl > Horizon

\* generate_typed and _chat: a deadline within the horizon.
Begin(c, left) ==
    /\ In(c, "idle") /\ starts < MaxStarts /\ left \in 1 .. Horizon
    /\ starts' = starts + 1
    /\ call' = [call EXCEPT ![c] = [Idle EXCEPT !.at = "chat", !.left = left, !.attempt = 1]]
    /\ UNCHANGED <<lock, lease, circuit, crashes>>

\* _ensure_circuit_closed_async: an unreachable Redis refuses.
CircuitClosed(c) == ~Expired(c) /\ circuit.open = 0
Fault_StillClosed(c) == ~Expired(c)
StillClosed(c) == CircuitClosed(c)

\* chat, to the lease.
Enter(c) ==
    /\ In(c, "chat")
    /\ \/ ConfigurationValid /\ CircuitClosed(c) /\ Go(c, "local")
       \/ Stop(c)
    /\ UNCHANGED <<lock, lease, circuit, starts, crashes>>

\* _InferenceLease.__aenter__: the lock of the process, or give up.
TakeLocal(c) ==
    /\ In(c, "local")
    /\ \/ /\ lock[ProcessOf[c]] = Nobody /\ ~Expired(c)
          /\ lock' = [lock EXCEPT ![ProcessOf[c]] = c] /\ Go(c, "redis")
       \/ (lock[ProcessOf[c]] # Nobody \/ Expired(c)) /\ Stop(c) /\ UNCHANGED lock
    /\ UNCHANGED <<lease, circuit, starts, crashes>>

\* SET NX PX: taken; or busy, and tried again until the wait is over; or the
\* answer was lost, with or without the key, and the call does not own it.
Unlocked(c) == [lock EXCEPT ![ProcessOf[c]] = Nobody]
Fault_GivesBack(c) == lock
GivesBack(c) == Unlocked(c)
SetLease(c) == lease' = [owner |-> c, left |-> ttl]

TakeLease(c) ==
    /\ In(c, "redis")
    /\ \/ /\ lease.owner = Nobody /\ ~Expired(c) /\ SetLease(c)
          /\ call' = [call EXCEPT ![c].at = "held", ![c].acquired = TRUE]
          /\ UNCHANGED lock
       \/ /\ UNCHANGED lease \/ (lease.owner = Nobody /\ SetLease(c))
          /\ lock' = GivesBack(c) /\ Stop(c)
    /\ UNCHANGED <<circuit, starts, crashes>>

----------------------------------------------------------------------------
\* _CIRCUIT_FAILURE_SCRIPT and _CIRCUIT_SUCCESS_SCRIPT.
CounterTTL == Threshold * Horizon + Reset
AfterFailure ==
    IF circuit.open > 0 THEN circuit
    ELSE IF circuit.failures + 1 >= Threshold THEN [failures |-> 0, ttl |-> 0, open |-> Reset]
    ELSE [failures |-> circuit.failures + 1, ttl |-> CounterTTL, open |-> 0]
AfterSuccess == [circuit EXCEPT !.failures = 0, !.ttl = 0]

\* _record_failure_async: the script, unless Redis failed.
RecordFailure == circuit' \in {circuit, AfterFailure}

\* readiness under the lease: the circuit again, then the live identity and
\* its qualification.  A model that is not ready counts as a failure.
Ready(c) ==
    /\ In(c, "held")
    /\ \/ StillClosed(c) /\ Go(c, "post") /\ UNCHANGED circuit
       \/ Go(c, "release") /\ UNCHANGED circuit
       \/ StillClosed(c) /\ RecordFailure /\ Go(c, "release")
    /\ UNCHANGED <<lock, lease, starts, crashes>>

\* The request: a body, or a timeout or a transport error, which is recorded.
Post(c) ==
    /\ In(c, "post")
    /\ \/ ~Expired(c) /\ Go(c, "final") /\ UNCHANGED circuit
       \/ RecordFailure /\ Go(c, "release")
    /\ UNCHANGED <<lock, lease, starts, crashes>>

\* The second readiness: the same identity, within the deadline, and the
\* success recorded in a circuit that is closed; otherwise no content.
Final(c) ==
    /\ In(c, "final")
    /\ \/ /\ StillClosed(c)
          /\ circuit' = AfterSuccess /\ Go(c, "content")
       \/ RecordFailure /\ Go(c, "release")
    /\ UNCHANGED <<lock, lease, starts, crashes>>

\* _release: delete the lease if the token still matches; it may not arrive.
LeaseAfterRelease(c) ==
    IF call[c].acquired /\ lease.owner = c THEN [owner |-> Nobody, left |-> 0] ELSE lease

Release(c) ==
    /\ In(c, "release") \/ In(c, "content")
    /\ lease' \in {lease, LeaseAfterRelease(c)}
    /\ lock' = Unlocked(c)
    /\ IF In(c, "content")
       THEN call' = [call EXCEPT ![c].at = "parse", ![c].acquired = FALSE]
       ELSE Stop(c)
    /\ UNCHANGED <<circuit, starts, crashes>>

\* generate_typed: the schema holds; or not, and there is one more attempt
\* before the same deadline.
Parse(c) ==
    /\ In(c, "parse")
    /\ \/ Stop(c)
       \/ call[c].attempt = 1 /\ call' = [call EXCEPT ![c].at = "chat", ![c].attempt = 2]
    /\ UNCHANGED <<lock, lease, circuit, starts, crashes>>

\* A process dies with its calls and its lock; the lease stays.
Crash(p) ==
    /\ crashes < MaxCrashes /\ \E c \in Calls : ProcessOf[c] = p /\ call[c].at # "idle"
    /\ crashes' = crashes + 1
    /\ call' = [c \in Calls |-> IF ProcessOf[c] = p THEN Idle ELSE call[c]]
    /\ lock' = [lock EXCEPT ![p] = Nobody]
    /\ UNCHANGED <<lease, circuit, starts>>

Less(n) == IF n = 0 THEN 0 ELSE n - 1
Bounded == {"local", "redis", "held", "post", "final"}

Tick ==
    /\ \A c \in Calls : call[c].at \in Bounded => ~Expired(c)
    /\ \E c \in Calls : call[c].left > 0
       \/ lease.left + circuit.open + circuit.ttl > 0
    /\ call' = [c \in Calls |-> [call[c] EXCEPT !.left = Less(@)]]
    /\ lease' = IF lease.left = 1 THEN [owner |-> Nobody, left |-> 0]
                ELSE [lease EXCEPT !.left = Less(@)]
    /\ circuit' = [failures |-> IF circuit.ttl > 1 THEN circuit.failures ELSE 0,
                   ttl |-> Less(circuit.ttl), open |-> Less(circuit.open)]
    /\ UNCHANGED <<lock, starts, crashes>>

Step(c) ==
    \/ Enter(c) \/ TakeLocal(c) \/ TakeLease(c) \/ Ready(c) \/ Post(c) \/ Final(c)
    \/ Release(c) \/ Parse(c)

Next ==
    /\ UNCHANGED ttl
    /\ \/ Tick
       \/ \E c \in Calls : Step(c) \/ \E left \in 1 .. Horizon : Begin(c, left)
       \/ \E p \in Processes : Crash(p)

Spec == Init /\ [][Next]_vars

----------------------------------------------------------------------------
Under == {"held", "post", "final"}

\* Two generations never run at once on the host: not when a process dies, a
\* release or the answer to an acquisition is lost, or a generation takes as
\* long as it may (_InferenceLease, validate_local_configuration).
OneInference ==
    \A c, d \in Calls : call[c].at \in Under /\ call[d].at \in Under => c = d

\* While the circuit is open no request is at the model, although callers
\* passed the check before it opened and waited for the lease
\* (OllamaRuntime.chat).
OpenCircuitIsQuiet == circuit.open > 0 => \A c \in Calls : call[c].at # "post"

\* Whatever fails, a process lock that is taken belongs to a call that will
\* give it back (_InferenceLease._release).
NoLeakedLock ==
    \A p \in Processes : lock[p] # Nobody =>
        /\ ProcessOf[lock[p]] = p
        /\ call[lock[p]].at \in Under \cup {"redis", "release", "content"}

\* The shape of the state; a deadline is never beyond the horizon, and what the
\* configuration check let through is configured as it demands.
Positions == Under \cup {"idle", "chat", "local", "redis", "release", "content", "parse"}
CallRecord == [at : Positions, left : 0 .. Horizon, attempt : 0 .. 2, acquired : BOOLEAN]

InferenceTypeOK ==
    /\ call \in [Calls -> CallRecord]
    /\ lock \in [Processes -> Calls \cup {Nobody}]
    /\ lease \in [owner : Calls \cup {Nobody}, left : Nat]
    /\ circuit \in [failures : Nat, ttl : Nat, open : Nat]
    /\ ttl \in Nat
    /\ \A c \in Calls : call[c].at \in {"local", "redis"} => ConfigurationValid

\* What keeps generations apart: a call that is at the model owns the lease, and
\* its deadline comes before the lease ends.
LeaseOutlivesCall ==
    \A c \in Calls : call[c].at \in Under =>
        call[c].acquired /\ lease.owner = c /\ lease.left > call[c].left

\* The inductive invariant of the runtime: with it, one generation at a time on
\* the host, a quiet open circuit and no process lock left behind
\* (_InferenceLease, validate_local_configuration, OllamaRuntime.chat).
InferenceInv ==
    /\ InferenceTypeOK /\ LeaseOutlivesCall
    /\ OneInference /\ OpenCircuitIsQuiet /\ NoLeakedLock

=============================================================================
