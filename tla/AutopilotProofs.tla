--------------------------- MODULE AutopilotProofs ---------------------------
(***************************************************************************)
(* What is proved of qualified autopilot: its leased inspection runs, the  *)
(* policy and what authority it hands out, and the quarantine of a         *)
(* restored backup.  The parts come first, each an instance of its module; *)
(* what the runs check of all of them follows at the end, for every value  *)
(* of the constants that AutopilotAssumption allows.                       *)
(***************************************************************************)
EXTENDS Autopilot, FiniteSetTheorems, TLAPS

----------------------------------------------------------------------------
(* The leased inspection runs (AutopilotInspection).                       *)

\* A worker goes on with its run, or puts it down.
LEMMA WorkerGoes ==
    ASSUME Inspection!InspectionShape, NEW w \in Workers,
           NEW at \in Inspection!Places, NEW result \in Inspection!Results,
           Inspection!To(w, at, result)
    PROVE  /\ worker' \in [Workers -> Inspection!WorkerStates]
           /\ worker'[w].at = at /\ worker'[w].result = result
           /\ worker'[w].run = worker[w].run /\ worker'[w].token = worker[w].token
           /\ \A v \in Workers \ {w} : worker'[v] = worker[v]
<1>1. worker \in [Workers -> Inspection!WorkerStates]  BY DEF Inspection!InspectionShape
<1>2. worker' = [worker EXCEPT ![w] = [worker[w] EXCEPT !.at = at, !.result = result]]
  BY <1>1 DEF Inspection!To
<1>3. worker[w] \in Inspection!WorkerStates  BY <1>1
<1>4. [worker[w] EXCEPT !.at = at, !.result = result] \in Inspection!WorkerStates
  BY <1>3 DEF Inspection!WorkerStates
<1> QED  BY <1>1, <1>2, <1>3, <1>4 DEF Inspection!WorkerStates

LEMMA WorkerRests ==
    ASSUME Inspection!InspectionShape, NEW w \in Workers,
           worker' = [worker EXCEPT ![w] = Inspection!Idle]
    PROVE  /\ worker' \in [Workers -> Inspection!WorkerStates]
           /\ worker'[w].at = "idle" /\ worker'[w].result = "none"
           /\ \A v \in Workers \ {w} : worker'[v] = worker[v]
  BY DEF Inspection!InspectionShape, Inspection!Idle, Inspection!WorkerStates,
     Inspection!Places, Inspection!Results

\* A renewal leaves all but the time that is left.
LEMMA RunRenewed ==
    ASSUME InspectionSettings, Inspection!InspectionShape, NEW w \in Workers,
           worker[w].run \in Inspection!Keys, runs' = Inspection!Renewed(w)
    PROVE  /\ runs' \in [Inspection!Keys -> Inspection!RunRows]
           /\ \A k \in Inspection!Keys :
                 /\ runs'[k].state = runs[k].state /\ runs'[k].token = runs[k].token
                 /\ runs'[k].reason = runs[k].reason
<1>1. runs \in [Inspection!Keys -> Inspection!RunRows]  BY DEF Inspection!InspectionShape
<1>2. PICK r \in Inspection!Keys : r = worker[w].run  OBVIOUS
<1> DEFINE row == [runs[r] EXCEPT !.left = Lease]
<1>3. runs' = [runs EXCEPT ![r] = row]  BY <1>1, <1>2 DEF Inspection!Renewed
<1>4. runs[r] \in Inspection!RunRows /\ Lease \in 0 .. Lease  BY <1>1 DEF InspectionSettings
<1>5. /\ row \in Inspection!RunRows /\ row.state = runs[r].state
      /\ row.token = runs[r].token /\ row.reason = runs[r].reason
  BY <1>4 DEF Inspection!RunRows
<1> HIDE DEF row
<1> QED  BY <1>1, <1>3, <1>5

LEMMA SettledRow ==
    ASSUME NEW s, NEW r, NEW row, row = Inspection!Settled(s, r)
    PROVE  row = [state |-> s, token |-> 0, left |-> 0, reason |-> r]
  BY DEF Inspection!Settled, Inspection!NoRun

\* A row that is settled has no claim.
LEMMA RunSettled ==
    ASSUME InspectionSettings, Inspection!InspectionShape, NEW k \in Inspection!Keys,
           NEW state \in {"queued", "finished"}, NEW reason \in Inspection!Results \cup {"refused"},
           runs' = [runs EXCEPT ![k] = Inspection!Settled(state, reason)]
    PROVE  /\ runs' \in [Inspection!Keys -> Inspection!RunRows]
           /\ runs'[k].state = state /\ runs'[k].token = 0 /\ runs'[k].reason = reason
           /\ \A o \in Inspection!Keys \ {k} : runs'[o] = runs[o]
<1>1. 0 \in 0 .. Lease  BY DEF InspectionSettings
<1>2. PICK row : row = Inspection!Settled(state, reason)  OBVIOUS
<1>4. row = [state |-> state, token |-> 0, left |-> 0, reason |-> reason]
  BY <1>2, SettledRow
<1>3. [state |-> state, token |-> 0, left |-> 0, reason |-> reason] \in Inspection!RunRows
  BY <1>1 DEF Inspection!RunRows
<1> QED  BY <1>2, <1>3, <1>4 DEF Inspection!InspectionShape

\* What may happen to claims without touching the tokens' order.
ClaimsLast ==
    /\ claims' = claims
    /\ \A k \in Inspection!Keys :
          IF runs'[k].state = "running"
          THEN runs[k].state = "running" /\ runs'[k].token = runs[k].token
          ELSE runs'[k].token = 0
    /\ \A w \in Workers : worker'[w].at # "idle" =>
          /\ worker[w].at # "idle"
          /\ worker'[w].run = worker[w].run /\ worker'[w].token = worker[w].token

TokensOf(row, n, does) ==
    /\ \A k \in Inspection!Keys :
          row[k].token <= n /\ (row[k].token > 0 <=> row[k].state = "running")
    /\ \A w \in Workers : does[w].at # "idle" =>
          /\ does[w].run \in Inspection!Keys /\ does[w].token \in 1 .. n
          /\ row[does[w].run].state = "running" => does[w].token <= row[does[w].run].token
    /\ \A v, w \in Workers : v # w /\ does[v].at # "idle" /\ does[w].at # "idle" =>
          does[v].token # does[w].token

LEMMA TokensParts ==
    /\ Inspection!TokensFollow <=> TokensOf(runs, claims, worker)
    /\ Inspection!TokensFollow' <=> TokensOf(runs', claims', worker')
<1>1. Inspection!TokensFollow <=> TokensOf(runs, claims, worker)
  BY DEF Inspection!TokensFollow, TokensOf
<1>2. Inspection!TokensFollow' <=> TokensOf(runs', claims', worker')
  BY DEF Inspection!TokensFollow, TokensOf
<1> QED  BY <1>1, <1>2

LEMMA TokensLast ==
    ASSUME Inspection!InspectionShape, Inspection!TokensFollow, ClaimsLast
    PROVE  Inspection!TokensFollow'
<1>1. claims \in Nat /\ \A k \in Inspection!Keys : runs[k].token \in Nat
  BY DEF Inspection!InspectionShape, Inspection!RunRows
<1>2. \A k \in Inspection!Keys :
         runs'[k].token <= claims' /\ (runs'[k].token > 0 <=> runs'[k].state = "running")
  BY <1>1 DEF Inspection!TokensFollow, ClaimsLast
<1>3. ASSUME NEW w \in Workers, worker'[w].at # "idle"
      PROVE  /\ worker'[w].run \in Inspection!Keys /\ worker'[w].token \in 1 .. claims'
             /\ runs'[worker'[w].run].state = "running" =>
                   worker'[w].token <= runs'[worker'[w].run].token
  BY <1>3 DEF Inspection!TokensFollow, ClaimsLast
<1>4. \A v, w \in Workers : v # w /\ worker'[v].at # "idle" /\ worker'[w].at # "idle" =>
         worker'[v].token # worker'[w].token
  BY DEF Inspection!TokensFollow, ClaimsLast
<1> QED  BY <1>2, <1>3, <1>4, TokensParts DEF TokensOf

LEMMA PlanLasts ==
    ASSUME Inspection!PlanIsNewest, plan' = plan,
           \A w \in Workers : worker'[w].at = "dispatch" =>
              /\ worker[w].at = "dispatch"
              /\ worker'[w].run = worker[w].run /\ worker'[w].token = worker[w].token
    PROVE  Inspection!PlanIsNewest'
  BY DEF Inspection!PlanIsNewest

LEMMA QueuedLasts ==
    ASSUME Inspection!QueuedOnce, app.commands = 1 => app'.commands = 1,
           \A k \in Inspection!Keys : runs'[k].reason = "queued" =>
              runs[k].reason = "queued" \/ app'.commands = 1,
           \A w \in Workers : worker'[w].result = "queued" =>
              worker[w].result = "queued" \/ app'.commands = 1
    PROVE  Inspection!QueuedOnce'
  BY DEF Inspection!QueuedOnce, Inspection!Keys

\* A claim gets a token nobody has.
LEMMA ClaimStep ==
    ASSUME InspectionSettings, Inspection!InspectionInv, NEW w \in Workers,
           NEW k \in Inspection!Keys, NEW verdict \in Inspection!Verdicts,
           Inspection!Claim(w, k, verdict)
    PROVE  Inspection!InspectionInv'
<1> USE DEF Inspection!InspectionInv
<1>1. /\ worker[w].at = "idle" /\ runs[k].state \in {"queued", "running"}
      /\ UNCHANGED <<app, active, plan>>
  BY DEF Inspection!Claim, Inspection!Claimable
<1>2. ASSUME NEW state \in {"queued", "finished"}, NEW reason \in {"none", "refused"},
             runs' = [runs EXCEPT ![k] = Inspection!Settled(state, reason)],
             UNCHANGED <<claims, worker>>
      PROVE  Inspection!InspectionInv'
  <2>1. /\ runs' \in [Inspection!Keys -> Inspection!RunRows]
        /\ runs'[k].state = state /\ runs'[k].token = 0 /\ runs'[k].reason = reason
        /\ \A o \in Inspection!Keys \ {k} : runs'[o] = runs[o]
    BY <1>2, RunSettled DEF Inspection!Results
  <2>2. Inspection!InspectionShape'
    BY <1>1, <1>2, <2>1 DEF Inspection!InspectionShape, Inspection!Keys
  <2>3. ClaimsLast
    <3>1. \A o \in Inspection!Keys : runs[o].token \in Nat
            /\ (runs[o].token > 0 <=> runs[o].state = "running")
      BY DEF Inspection!InspectionShape, Inspection!RunRows, Inspection!TokensFollow
    <3> QED  BY <1>2, <2>1, <3>1 DEF ClaimsLast
  <2>4. Inspection!TokensFollow'  BY <2>3, TokensLast
  <2>5. Inspection!PlanIsNewest'  BY <1>1, <1>2, PlanLasts
  <2>6. Inspection!QueuedOnce'  BY <1>1, <1>2, <2>1, QueuedLasts
  <2> QED  BY <2>2, <2>4, <2>5, <2>6
<1>3. ASSUME claims' = claims + 1,
             runs' = [runs EXCEPT ![k] = [state |-> "running", token |-> claims',
                                          left |-> Lease, reason |-> "none"]],
             worker' = [worker EXCEPT ![w] =
                          [at |-> "begin", run |-> k, token |-> claims', result |-> "none"]]
      PROVE  Inspection!InspectionInv'
  <2>1. /\ claims \in Nat /\ claims' \in Nat /\ plan.token \in Nat /\ plan.token <= claims
        /\ runs \in [Inspection!Keys -> Inspection!RunRows]
        /\ worker \in [Workers -> Inspection!WorkerStates]
    BY <1>3 DEF Inspection!InspectionShape
  <2>2. /\ runs' \in [Inspection!Keys -> Inspection!RunRows]
        /\ runs'[k].state = "running" /\ runs'[k].token = claims' /\ runs'[k].reason = "none"
        /\ \A o \in Inspection!Keys \ {k} : runs'[o] = runs[o]
    <3>1. Lease \in 0 .. Lease  BY DEF InspectionSettings
    <3>2. [state |-> "running", token |-> claims', left |-> Lease, reason |-> "none"]
            \in Inspection!RunRows
      BY <2>1, <3>1 DEF Inspection!RunRows, Inspection!Results
    <3> QED  BY <1>3, <2>1, <3>2
  <2>3. /\ worker' \in [Workers -> Inspection!WorkerStates]
        /\ worker'[w].at = "begin" /\ worker'[w].run = k
        /\ worker'[w].token = claims' /\ worker'[w].result = "none"
        /\ \A v \in Workers \ {w} : worker'[v] = worker[v]
    <3>1. [at |-> "begin", run |-> k, token |-> claims', result |-> "none"]
            \in Inspection!WorkerStates
      BY <2>1 DEF Inspection!WorkerStates, Inspection!Places, Inspection!Results
    <3> QED  BY <1>3, <2>1, <3>1
  <2>4. Inspection!InspectionShape'
    <3>1. plan'.token \in Nat /\ plan'.token <= claims'  BY <1>1, <1>3, <2>1
    <3> QED  BY <1>1, <2>1, <2>2, <2>3, <3>1 DEF Inspection!InspectionShape, Inspection!Keys
  <2>5. \A o \in Inspection!Keys : runs[o].token \in Nat /\ runs[o].token <= claims
          /\ (runs[o].token > 0 <=> runs[o].state = "running")
    BY <2>1 DEF Inspection!RunRows, Inspection!TokensFollow
  <2>6. \A v \in Workers : worker[v].at # "idle" =>
          /\ worker[v].run \in Inspection!Keys /\ worker[v].token \in 1 .. claims
          /\ runs[worker[v].run].state = "running" =>
                worker[v].token <= runs[worker[v].run].token
    BY DEF Inspection!TokensFollow
  <2>7. \A v, u \in Workers : v # u /\ worker[v].at # "idle" /\ worker[u].at # "idle" =>
          worker[v].token # worker[u].token
    BY DEF Inspection!TokensFollow
  <2>8. Inspection!TokensFollow'
    <3>1. \A o \in Inspection!Keys :
            runs'[o].token <= claims' /\ (runs'[o].token > 0 <=> runs'[o].state = "running")
      BY <1>3, <2>1, <2>2, <2>5
    <3>2. ASSUME NEW v \in Workers, worker'[v].at # "idle"
          PROVE  /\ worker'[v].run \in Inspection!Keys /\ worker'[v].token \in 1 .. claims'
                 /\ runs'[worker'[v].run].state = "running" =>
                       worker'[v].token <= runs'[worker'[v].run].token
      <4>1. CASE v = w  BY <1>3, <2>1, <2>2, <2>3, <4>1
      <4>2. CASE v # w
        <5>1. worker'[v] = worker[v] /\ worker[v].at # "idle"  BY <2>3, <3>2, <4>2
        <5>2. PICK r \in Inspection!Keys : r = worker[v].run  BY <2>6, <5>1
        <5>3. worker[v].token \in 1 .. claims /\ worker[v].token \in 1 .. claims'
          BY <1>3, <2>1, <2>6, <5>1
        <5>4. CASE r = k  BY <2>1, <2>2, <5>1, <5>2, <5>3, <5>4
        <5>5. CASE r # k  BY <2>2, <2>6, <5>1, <5>2, <5>3, <5>5
        <5> QED  BY <5>4, <5>5
      <4> QED  BY <4>1, <4>2
    <3>3. ASSUME NEW v \in Workers, NEW u \in Workers, v # u,
                 worker'[v].at # "idle", worker'[u].at # "idle"
          PROVE  worker'[v].token # worker'[u].token
      <4>1. \A x \in Workers \ {w} : worker[x].at # "idle" => worker[x].token < claims'
        BY <1>3, <2>1, <2>6
      <4> QED  BY <1>3, <2>1, <2>3, <2>7, <3>3, <4>1
    <3> QED  BY <3>1, <3>2, <3>3, TokensParts DEF TokensOf
  <2>9. Inspection!PlanIsNewest'
    <3>1. \A v \in Workers : worker'[v].at = "dispatch" => v # w  BY <2>3
    <3> QED  BY <1>1, <2>3, <3>1, PlanLasts
  <2>10. Inspection!QueuedOnce'
    <3>1. \A v \in Workers : worker'[v].result = "queued" => worker[v].result = "queued"
      BY <2>3
    <3>2. \A o \in Inspection!Keys : runs'[o].reason = "queued" => runs[o].reason = "queued"
      BY <2>2
    <3> QED  BY <1>1, <3>1, <3>2, QueuedLasts
  <2> QED  BY <2>4, <2>8, <2>9, <2>10
<1>4. CASE verdict = "retryable"  BY <1>2, <1>4 DEF Inspection!Claim
<1>5. CASE verdict # "retryable"
           /\ (verdict = "denied" \/ ~(k = <<app.revision, active>> /\ Inspection!CandidateRow))
  BY <1>2, <1>5 DEF Inspection!Claim
<1>6. CASE verdict # "retryable"
           /\ ~(verdict = "denied" \/ ~(k = <<app.revision, active>> /\ Inspection!CandidateRow))
  BY <1>3, <1>6 DEF Inspection!Claim
<1> QED  BY <1>4, <1>5, <1>6

\* What a worker that has a claim does to the rows.
RowsKept ==
    /\ runs' \in [Inspection!Keys -> Inspection!RunRows]
    /\ \A k \in Inspection!Keys :
          /\ IF runs'[k].state = "running"
             THEN runs[k].state = "running" /\ runs'[k].token = runs[k].token
             ELSE runs'[k].token = 0
          /\ runs'[k].reason = "queued" => runs[k].reason = "queued" \/ app'.commands = 1

LEMMA RowsAreKept ==
    ASSUME InspectionSettings, Inspection!InspectionInv, NEW w \in Workers,
           worker[w].at # "idle",
           \/ UNCHANGED runs
           \/ runs' = Inspection!Renewed(w)
           \/ \E state \in {"queued", "finished"}, reason \in Inspection!Results :
                 /\ runs' = [runs EXCEPT ![worker[w].run] = Inspection!Settled(state, reason)]
                 /\ reason = "queued" => app'.commands = 1
    PROVE  RowsKept
<1>1. /\ Inspection!InspectionShape /\ worker[w].run \in Inspection!Keys
      /\ runs \in [Inspection!Keys -> Inspection!RunRows]
      /\ \A k \in Inspection!Keys : runs[k].token \in Nat
            /\ (runs[k].token > 0 <=> runs[k].state = "running")
  BY DEF Inspection!InspectionInv, Inspection!InspectionShape, Inspection!TokensFollow,
     Inspection!RunRows
<1>2. CASE UNCHANGED runs  BY <1>1, <1>2 DEF RowsKept
<1>3. CASE runs' = Inspection!Renewed(w)
  <2>1. /\ runs' \in [Inspection!Keys -> Inspection!RunRows]
        /\ \A k \in Inspection!Keys :
              /\ runs'[k].state = runs[k].state /\ runs'[k].token = runs[k].token
              /\ runs'[k].reason = runs[k].reason
    BY <1>1, <1>3, RunRenewed
  <2> QED  BY <1>1, <2>1 DEF RowsKept
<1>4. ASSUME NEW state \in {"queued", "finished"}, NEW reason \in Inspection!Results,
             runs' = [runs EXCEPT ![worker[w].run] = Inspection!Settled(state, reason)],
             reason = "queued" => app'.commands = 1
      PROVE  RowsKept
  <2>1. PICK k \in Inspection!Keys : k = worker[w].run  BY <1>1
  <2>2. /\ runs' \in [Inspection!Keys -> Inspection!RunRows]
        /\ runs'[k].state = state /\ runs'[k].token = 0 /\ runs'[k].reason = reason
        /\ \A o \in Inspection!Keys \ {k} : runs'[o] = runs[o]
    <3>1. runs' = [runs EXCEPT ![k] = Inspection!Settled(state, reason)]  BY <1>4, <2>1
    <3> QED  BY <1>1, <3>1, RunSettled
  <2> QED  BY <1>1, <1>4, <2>2 DEF RowsKept
<1> QED  BY <1>2, <1>3, <1>4

\* A worker with a claim goes on, or puts it down; it writes no plan.
LEMMA WorkerStepKeeps ==
    ASSUME InspectionSettings, Inspection!InspectionInv, NEW w \in Workers,
           worker[w].at # "idle", RowsKept, UNCHANGED <<active, plan, claims>>,
           app' \in [revision : 1 .. MaxRevisions, review : BOOLEAN, commands : {0, 1}],
           app.commands = 1 => app'.commands = 1,
           \/ worker' = [worker EXCEPT ![w] = Inspection!Idle]
           \/ \E at \in Inspection!Places \ {"dispatch"}, result \in Inspection!Results :
                 /\ Inspection!To(w, at, result)
                 /\ result = "queued" => app'.commands = 1
    PROVE  Inspection!InspectionInv'
<1> USE DEF Inspection!InspectionInv
<1>1. /\ worker' \in [Workers -> Inspection!WorkerStates]
      /\ \A v \in Workers \ {w} : worker'[v] = worker[v]
      /\ worker'[w].at # "dispatch"
      /\ worker'[w].at # "idle" =>
            worker'[w].run = worker[w].run /\ worker'[w].token = worker[w].token
      /\ worker'[w].result = "queued" => app'.commands = 1
  <2>1. CASE worker' = [worker EXCEPT ![w] = Inspection!Idle]  BY <2>1, WorkerRests
  <2>2. ASSUME NEW at \in Inspection!Places \ {"dispatch"}, NEW result \in Inspection!Results,
               Inspection!To(w, at, result), result = "queued" => app'.commands = 1
        PROVE  <1>1!:
    BY <2>2, WorkerGoes
  <2> QED  BY <2>1, <2>2
<1>2. Inspection!InspectionShape'
  BY <1>1 DEF Inspection!InspectionShape, RowsKept, Inspection!Keys
<1>3. Inspection!TokensFollow'
  <2>1. ClaimsLast  BY <1>1 DEF ClaimsLast, RowsKept
  <2> QED  BY <2>1, TokensLast
<1>4. Inspection!PlanIsNewest'
  <2>1. \A v \in Workers : worker'[v].at = "dispatch" => worker'[v] = worker[v]  BY <1>1
  <2> QED  BY <2>1, PlanLasts
<1>5. Inspection!QueuedOnce'
  <2>1. \A k \in Inspection!Keys : runs'[k].reason = "queued" =>
           runs[k].reason = "queued" \/ app'.commands = 1
    BY DEF RowsKept
  <2>2. \A v \in Workers : worker'[v].result = "queued" =>
           worker[v].result = "queued" \/ app'.commands = 1
    BY <1>1
  <2> QED  BY <2>1, <2>2, QueuedLasts
<1> QED  BY <1>2, <1>3, <1>4, <1>5

\* A worker that holds its lease writes the newest plan of its run.
LEMMA PersistKeeps ==
    ASSUME InspectionSettings, Inspection!InspectionInv, NEW w \in Workers,
           worker[w].at # "idle", Inspection!Holds(w), UNCHANGED <<app, active, claims>>,
           runs' = Inspection!Renewed(w),
           plan' = [run |-> worker[w].run, token |-> worker[w].token],
           Inspection!To(w, "dispatch", "none")
    PROVE  Inspection!InspectionInv'
<1> USE DEF Inspection!InspectionInv
<1>1. RowsKept  BY RowsAreKept
<1>2. /\ worker' \in [Workers -> Inspection!WorkerStates]
      /\ worker'[w].at = "dispatch" /\ worker'[w].result = "none"
      /\ worker'[w].run = worker[w].run /\ worker'[w].token = worker[w].token
      /\ \A v \in Workers \ {w} : worker'[v] = worker[v]
  <2>1. "dispatch" \in Inspection!Places /\ "none" \in Inspection!Results
    BY DEF Inspection!Places, Inspection!Results
  <2> QED  BY <2>1, WorkerGoes
<1>3. /\ runs[worker[w].run].state = "running" /\ runs[worker[w].run].token = worker[w].token
      /\ worker[w].token \in 1 .. claims /\ claims \in Nat
  BY DEF Inspection!Holds, Inspection!TokensFollow, Inspection!InspectionShape
<1>4. Inspection!InspectionShape'
  <2>1. plan'.token \in Nat /\ plan'.token <= claims'  BY <1>3
  <2> QED  BY <1>1, <1>2, <2>1 DEF Inspection!InspectionShape, RowsKept, Inspection!Keys
<1>5. Inspection!TokensFollow'
  <2>1. ClaimsLast  BY <1>1, <1>2 DEF ClaimsLast, RowsKept
  <2> QED  BY <2>1, TokensLast
<1>6. Inspection!PlanIsNewest'
  <2>1. ASSUME NEW v \in Workers, worker'[v].at = "dispatch", plan'.run = worker'[v].run
        PROVE  plan'.token >= worker'[v].token
    <3>1. CASE v = w  BY <1>2, <1>3, <3>1
    <3>2. CASE v # w
      <4>1. worker'[v] = worker[v] /\ worker[v].at # "idle" /\ worker[v].run = worker[w].run
        BY <1>2, <2>1, <3>2
      <4>2. worker[v].token <= runs[worker[w].run].token
        BY <1>3, <4>1 DEF Inspection!TokensFollow
      <4>3. worker[v].token \in Nat  BY <4>1, <1>3 DEF Inspection!TokensFollow
      <4> QED  BY <1>3, <4>1, <4>2, <4>3
    <3> QED  BY <3>1, <3>2
  <2> QED  BY <2>1 DEF Inspection!PlanIsNewest
<1>7. Inspection!QueuedOnce'
  <2>1. \A k \in Inspection!Keys : runs'[k].reason = "queued" =>
           runs[k].reason = "queued" \/ app'.commands = 1
    BY <1>1 DEF RowsKept
  <2>2. \A v \in Workers : worker'[v].result = "queued" => worker[v].result = "queued"
    BY <1>2
  <2> QED  BY <2>1, <2>2, QueuedLasts
<1> QED  BY <1>4, <1>5, <1>6, <1>7

LEMMA InspectionPlaces ==
    /\ {"begin", "persist", "finalize", "mark", "finish"} \subseteq Inspection!Places
    /\ \A p \in {"begin", "persist", "finalize", "mark", "finish"} : p # "dispatch"
    /\ Inspection!Results = {"none", "blocked", "retryable", "denied", "failed",
                             "not_claimed", "queued", "quarantined"}
  BY DEF Inspection!Places, Inspection!Results

\* One step of a worker that has a claim.
LEMMA WorkerStepInv ==
    ASSUME InspectionSettings, Inspection!InspectionInv, NEW w \in Workers,
           Inspection!WorkerStep(w) \/ Inspection!Crash(w)
    PROVE  Inspection!InspectionInv'
<1>0. /\ app \in [revision : 1 .. MaxRevisions, review : BOOLEAN, commands : {0, 1}]
      /\ worker \in [Workers -> Inspection!WorkerStates]
      /\ worker[w].result = "queued" => app.commands = 1
      /\ worker[w].result \in Inspection!Results
  BY DEF Inspection!InspectionInv, Inspection!InspectionShape, Inspection!QueuedOnce,
     Inspection!WorkerStates
<1> DEFINE Rests == worker' = [worker EXCEPT ![w] = Inspection!Idle]
           Goes(at, result) == /\ at \in Inspection!Places \ {"dispatch"}
                               /\ result \in Inspection!Results \ {"queued"}
                               /\ Inspection!To(w, at, result)
           SameRows == UNCHANGED runs \/ runs' = Inspection!Renewed(w)
           AppRow == /\ app' \in [revision : 1 .. MaxRevisions, review : BOOLEAN,
                                   commands : {0, 1}]
                     /\ app'.commands = app.commands
           Kept == worker[w].at # "idle" /\ UNCHANGED <<active, plan, claims>>
\* The shapes most steps have.
<1>1. ASSUME Kept, SameRows, AppRow, Rests \/ \E at, result : Goes(at, result)
      PROVE  Inspection!InspectionInv'
  <2>1. RowsKept  BY <1>1, RowsAreKept
  <2>2. CASE Rests  BY <1>1, <2>1, <2>2, WorkerStepKeeps
  <2>3. ASSUME NEW at, NEW result, Goes(at, result)  PROVE Inspection!InspectionInv'
    BY <1>1, <2>1, <2>3, WorkerStepKeeps
  <2> QED  BY <1>1, <2>2, <2>3
<1>2. ASSUME Kept, UNCHANGED app, Rests,
             NEW state \in {"queued", "finished"}, NEW reason \in Inspection!Results,
             reason = "queued" => app.commands = 1,
             runs' = [runs EXCEPT ![worker[w].run] = Inspection!Settled(state, reason)]
      PROVE  Inspection!InspectionInv'
  <2>1. RowsKept  BY <1>0, <1>2, RowsAreKept
  <2> QED  BY <1>0, <1>2, <2>1, WorkerStepKeeps
<1>3. UNCHANGED app => AppRow  BY <1>0
<1>4. CASE Inspection!Crash(w)
  <2>1. Kept /\ SameRows /\ UNCHANGED app /\ Rests  BY <1>4 DEF Inspection!Crash
  <2> HIDE DEF Kept, SameRows, Rests, AppRow, Goes
  <2> QED  BY <1>1, <1>3, <2>1
<1>5. CASE Inspection!Begin(w)
  <2>1. Kept /\ SameRows /\ UNCHANGED app /\ \E at, result : Goes(at, result)
    BY <1>5, InspectionPlaces DEF Inspection!Begin
  <2> HIDE DEF Kept, SameRows, Rests, AppRow, Goes
  <2> QED  BY <1>1, <1>3, <2>1
<1>6. Inspection!LeaseLost(w) => SameRows /\ \E at, result : Goes(at, result)
  BY InspectionPlaces DEF Inspection!LeaseLost
<1>7. CASE Inspection!Persist(w)
  <2>1. worker[w].at # "idle" /\ UNCHANGED <<app, active, claims>>
    BY <1>7 DEF Inspection!Persist
  <2>2. \/ Inspection!To(w, "finalize", "denied") /\ UNCHANGED <<runs, plan>>
        \/ Inspection!LeaseLost(w) /\ UNCHANGED plan
        \/ /\ Inspection!Holds(w) /\ runs' = Inspection!Renewed(w)
           /\ plan' = [run |-> worker[w].run, token |-> worker[w].token]
           /\ Inspection!To(w, "dispatch", "none")
    BY <1>7 DEF Inspection!Persist
  <2>3. Inspection!To(w, "finalize", "denied") => Goes("finalize", "denied")
    BY InspectionPlaces
  <2>4. CASE Inspection!To(w, "finalize", "denied") /\ UNCHANGED <<runs, plan>>
    <3>1. Kept /\ SameRows /\ UNCHANGED app  BY <2>1, <2>4
    <3> HIDE DEF Kept, SameRows, Rests, AppRow, Goes
    <3> QED  BY <1>1, <1>3, <2>3, <2>4, <3>1
  <2>5. CASE Inspection!LeaseLost(w) /\ UNCHANGED plan
    <3>1. Kept /\ UNCHANGED app  BY <2>1, <2>5
    <3> HIDE DEF Kept, SameRows, Rests, AppRow, Goes
    <3> QED  BY <1>1, <1>3, <1>6, <2>5, <3>1
  <2> QED  BY <2>1, <2>2, <2>4, <2>5, PersistKeeps
<1>8. ASSUME NEW verdict \in Inspection!Verdicts, Inspection!Dispatch(w, verdict)
      PROVE  Inspection!InspectionInv'
  <2>1. Kept  BY <1>8 DEF Inspection!Dispatch
  <2>2. \/ Inspection!LeaseLost(w) /\ UNCHANGED app
        \/ /\ runs' = Inspection!Renewed(w) /\ app.commands = 0
           /\ app' = [app EXCEPT !.commands = @ + 1]
           /\ Inspection!To(w, "finish", "queued")
        \/ /\ runs' = Inspection!Renewed(w) /\ verdict # "allowed"
           /\ app' = [app EXCEPT !.review = verdict = "denied"]
           /\ Inspection!To(w, "finalize", verdict)
        \/ /\ runs' = Inspection!Renewed(w) /\ UNCHANGED app
           /\ Inspection!To(w, "finalize", "denied") \/ Inspection!To(w, "mark", "failed")
    BY <1>0, <1>8 DEF Inspection!Dispatch, Inspection!Admits, Inspection!MutationBlocked
  <2>3. CASE Inspection!LeaseLost(w) /\ UNCHANGED app
    <3> HIDE DEF Kept, SameRows, Rests, AppRow, Goes
    <3> QED  BY <1>1, <1>3, <1>6, <2>1, <2>3
  <2>4. CASE /\ runs' = Inspection!Renewed(w) /\ app.commands = 0
             /\ app' = [app EXCEPT !.commands = @ + 1]
             /\ Inspection!To(w, "finish", "queued")
    <3>1. RowsKept  BY <2>1, <2>4, RowsAreKept
    <3>2. /\ app' \in [revision : 1 .. MaxRevisions, review : BOOLEAN, commands : {0, 1}]
          /\ app'.commands = 1
      BY <1>0, <2>4
    <3>3. "finish" \in Inspection!Places \ {"dispatch"} /\ "queued" \in Inspection!Results
      BY InspectionPlaces
    <3> QED  BY <2>1, <2>4, <3>1, <3>2, <3>3, WorkerStepKeeps
  <2>5. CASE /\ runs' = Inspection!Renewed(w) /\ verdict # "allowed"
             /\ app' = [app EXCEPT !.review = verdict = "denied"]
             /\ Inspection!To(w, "finalize", verdict)
    <3>1. AppRow
      <4>1. (verdict = "denied") \in BOOLEAN  OBVIOUS
      <4> QED  BY <1>0, <2>5, <4>1
    <3>2. SameRows /\ Goes("finalize", verdict)
      BY <2>5, InspectionPlaces DEF Inspection!Verdicts
    <3> HIDE DEF Kept, SameRows, Rests, AppRow, Goes
    <3> QED  BY <1>1, <2>1, <3>1, <3>2
  <2>6. CASE /\ runs' = Inspection!Renewed(w) /\ UNCHANGED app
             /\ Inspection!To(w, "finalize", "denied") \/ Inspection!To(w, "mark", "failed")
    <3>1. SameRows /\ (Goes("finalize", "denied") \/ Goes("mark", "failed"))
      BY <2>6, InspectionPlaces
    <3> HIDE DEF Kept, SameRows, Rests, AppRow, Goes
    <3> QED  BY <1>1, <1>3, <2>1, <2>6, <3>1
  <2> QED  BY <2>2, <2>3, <2>4, <2>5, <2>6
<1>9. Inspection!Quarantine(w) => SameRows /\ AppRow
  BY <1>0 DEF Inspection!Quarantine
<1>10. Inspection!To(w, "finish", "quarantined") => Goes("finish", "quarantined")
  BY InspectionPlaces
<1>11. CASE Inspection!Finalize(w)
  <2>1. Kept  BY <1>11 DEF Inspection!Finalize
  <2>2. \/ Inspection!LeaseLost(w) /\ UNCHANGED app
        \/ /\ runs' = [runs EXCEPT ![worker[w].run] = Inspection!Settled("queued", "none")]
           /\ Rests /\ UNCHANGED app
        \/ Inspection!Quarantine(w) /\ Inspection!To(w, "finish", "quarantined")
    BY <1>11 DEF Inspection!Finalize
  <2>3. "none" \in Inspection!Results  BY InspectionPlaces
  <2> HIDE DEF Kept, SameRows, Rests, AppRow, Goes
  <2> QED  BY <1>1, <1>2, <1>3, <1>6, <1>9, <1>10, <2>1, <2>2, <2>3
<1>12. CASE Inspection!Mark(w)
  <2>1. Kept  BY <1>12 DEF Inspection!Mark
  <2>2. \/ Inspection!LeaseLost(w) /\ UNCHANGED app
        \/ Inspection!Quarantine(w) /\ Inspection!To(w, "finish", "quarantined")
        \/ Rests /\ SameRows /\ UNCHANGED app
    BY <1>12 DEF Inspection!Mark
  <2> HIDE DEF Kept, SameRows, Rests, AppRow, Goes
  <2> QED  BY <1>1, <1>3, <1>6, <1>9, <1>10, <2>1, <2>2
<1>13. CASE Inspection!Finish(w)
  <2>1. Kept /\ Rests /\ UNCHANGED app  BY <1>13 DEF Inspection!Finish
  <2>2. \/ UNCHANGED runs
        \/ runs' = [runs EXCEPT ![worker[w].run] =
                        Inspection!Settled("finished", worker[w].result)]
    BY <1>13 DEF Inspection!Finish
  <2>3. UNCHANGED runs => SameRows  OBVIOUS
  <2> HIDE DEF Kept, SameRows, Rests, AppRow, Goes
  <2> QED  BY <1>0, <1>1, <1>2, <1>3, <2>1, <2>2, <2>3
<1> QED
  BY <1>4, <1>5, <1>7, <1>8, <1>11, <1>12, <1>13 DEF Inspection!WorkerStep

\* The rest of the world: time, edits, policies and wakeups.
LEMMA OthersKeep ==
    ASSUME InspectionSettings, Inspection!InspectionInv, UNCHANGED <<plan, claims, worker>>,
           runs' \in [Inspection!Keys -> Inspection!RunRows],
           \A k \in Inspection!Keys :
              /\ IF runs'[k].state = "running"
                 THEN runs[k].state = "running" /\ runs'[k].token = runs[k].token
                 ELSE runs'[k].token = 0
              /\ runs'[k].reason = "queued" => runs[k].reason = "queued",
           app' \in [revision : 1 .. MaxRevisions, review : BOOLEAN, commands : {0, 1}],
           app'.commands = app.commands, active' \in 1 .. MaxSwitches
    PROVE  Inspection!InspectionInv'
<1> USE DEF Inspection!InspectionInv
<1>1. Inspection!InspectionShape'
  BY DEF Inspection!InspectionShape, Inspection!Keys
<1>2. Inspection!TokensFollow'
  <2>1. ClaimsLast  BY DEF ClaimsLast
  <2> QED  BY <2>1, TokensLast
<1>3. Inspection!PlanIsNewest'  BY PlanLasts
<1>4. Inspection!QueuedOnce'  BY QueuedLasts
<1> QED  BY <1>1, <1>2, <1>3, <1>4

LEMMA OthersStep ==
    ASSUME InspectionSettings, Inspection!InspectionInv,
           \/ Inspection!Enqueue \/ Inspection!Tick \/ Inspection!Edit
           \/ Inspection!Activate \/ UNCHANGED Inspection!vars
    PROVE  Inspection!InspectionInv'
<1>0. /\ app \in [revision : 1 .. MaxRevisions, review : BOOLEAN, commands : {0, 1}]
      /\ active \in 1 .. MaxSwitches
      /\ runs \in [Inspection!Keys -> Inspection!RunRows]
      /\ Inspection!InspectionShape
      /\ \A k \in Inspection!Keys :
            runs[k].token \in Nat /\ (runs[k].token > 0 <=> runs[k].state = "running")
  BY DEF Inspection!InspectionInv, Inspection!InspectionShape, Inspection!TokensFollow,
     Inspection!RunRows
<1>1. \A k \in Inspection!Keys : runs[k].state # "running" => runs[k].token = 0
  BY <1>0
<1>2. CASE Inspection!Enqueue
  <2>1. UNCHANGED <<app, active, plan, claims, worker>>  BY <1>2 DEF Inspection!Enqueue
  <2>2. PICK k \in Inspection!Keys :
           runs' = [runs EXCEPT ![k] = Inspection!Settled("queued", "none")]
    <3>1. <<app.revision, active>> \in Inspection!Keys  BY <1>0 DEF Inspection!Keys
    <3> QED  BY <1>2, <3>1 DEF Inspection!Enqueue
  <2>3. /\ runs' \in [Inspection!Keys -> Inspection!RunRows]
        /\ runs'[k].state = "queued" /\ runs'[k].token = 0 /\ runs'[k].reason = "none"
        /\ \A o \in Inspection!Keys \ {k} : runs'[o] = runs[o]
    <3>1. "none" \in Inspection!Results \cup {"refused"}  BY DEF Inspection!Results
    <3> QED  BY <1>0, <2>2, <3>1, RunSettled
  <2> QED  BY <1>0, <1>1, <2>1, <2>3, OthersKeep
<1>3. CASE Inspection!Tick
  <2>1. UNCHANGED <<app, active, plan, claims, worker>>
        /\ runs' = [k \in Inspection!Keys |->
                      [runs[k] EXCEPT !.left = IF @ = 0 THEN 0 ELSE @ - 1]]
    BY <1>3 DEF Inspection!Tick
  <2>2. ASSUME NEW k \in Inspection!Keys
        PROVE  /\ runs'[k] \in Inspection!RunRows
               /\ runs'[k].state = runs[k].state /\ runs'[k].token = runs[k].token
               /\ runs'[k].reason = runs[k].reason
    <3>1. PICK n : n = IF runs[k].left = 0 THEN 0 ELSE runs[k].left - 1  OBVIOUS
    <3>2. n \in 0 .. Lease
      <4>1. runs[k].left \in 0 .. Lease  BY <1>0 DEF Inspection!RunRows
      <4> QED  BY <3>1, <4>1 DEF InspectionSettings
    <3>3. runs'[k] = [runs[k] EXCEPT !.left = n]  BY <2>1, <3>1
    <3>4. runs[k] \in Inspection!RunRows  BY <1>0
    <3> QED  BY <3>2, <3>3, <3>4 DEF Inspection!RunRows
  <2>3. runs' \in [Inspection!Keys -> Inspection!RunRows]  BY <2>1, <2>2
  <2> QED  BY <1>0, <1>1, <2>1, <2>2, <2>3, OthersKeep
<1>4. CASE Inspection!Edit
  <2>1. /\ UNCHANGED <<active, runs, plan, claims, worker>> /\ app.revision < MaxRevisions
        /\ app' = [app EXCEPT !.revision = @ + 1, !.review = FALSE]
    BY <1>4 DEF Inspection!Edit
  <2>2. /\ app' \in [revision : 1 .. MaxRevisions, review : BOOLEAN, commands : {0, 1}]
        /\ app'.commands = app.commands
    <3>1. app.revision + 1 \in 1 .. MaxRevisions  BY <1>0, <2>1 DEF InspectionSettings
    <3> QED  BY <1>0, <2>1, <3>1
  <2> QED  BY <1>0, <1>1, <2>1, <2>2, OthersKeep
<1>5. CASE Inspection!Activate
  <2>1. /\ UNCHANGED <<app, runs, plan, claims, worker>>
        /\ active < MaxSwitches /\ active' = active + 1
    BY <1>5 DEF Inspection!Activate
  <2>2. active' \in 1 .. MaxSwitches  BY <1>0, <2>1 DEF InspectionSettings
  <2> QED  BY <1>0, <1>1, <2>1, <2>2, OthersKeep
<1>6. CASE UNCHANGED Inspection!vars
  BY <1>0, <1>1, <1>6, OthersKeep DEF Inspection!vars
<1> QED  BY <1>2, <1>3, <1>4, <1>5, <1>6

\* However many workers inspect an application, late, twice, after their lease went to
\* a successor or with a crash in between: never two of them hold a run, a plan about to
\* be dispatched was not written over by an older claim of the run, the autopilot
\* queues the application once, and a run that says so is right.
THEOREM InspectionIsFenced ==
    ASSUME InspectionSettings
    PROVE  Inspection!Spec => []Inspection!SuccessorPrevails
<1>1. Inspection!Init => Inspection!InspectionInv
  <2> SUFFICES ASSUME Inspection!Init  PROVE Inspection!InspectionInv
    OBVIOUS
  <2>1. /\ app = [revision |-> 1, review |-> FALSE, commands |-> 0] /\ active = 1
        /\ runs = [k \in Inspection!Keys |-> Inspection!NoRun]
        /\ plan.token = 0 /\ claims = 0
        /\ worker = [w \in Workers |-> Inspection!Idle]
    BY DEF Inspection!Init
  <2>2. Inspection!NoRun \in Inspection!RunRows /\ Inspection!NoRun.token = 0
        /\ Inspection!NoRun.state = "none" /\ Inspection!NoRun.reason = "none"
    <3>1. 0 \in 0 .. Lease  BY DEF InspectionSettings
    <3> QED  BY <3>1 DEF Inspection!NoRun, Inspection!RunRows, Inspection!Results
  <2>3. Inspection!Idle \in Inspection!WorkerStates /\ Inspection!Idle.at = "idle"
        /\ Inspection!Idle.result = "none"
    BY DEF Inspection!Idle, Inspection!WorkerStates, Inspection!Places, Inspection!Results
  <2>4. 1 \in 1 .. MaxRevisions /\ 1 \in 1 .. MaxSwitches  BY DEF InspectionSettings
  <2>5. Inspection!InspectionShape
    BY <2>1, <2>2, <2>3, <2>4 DEF Inspection!InspectionShape
  <2>6. Inspection!TokensFollow
    BY <2>1, <2>2, <2>3, TokensParts DEF TokensOf
  <2>7. Inspection!PlanIsNewest /\ Inspection!QueuedOnce
    BY <2>1, <2>2, <2>3 DEF Inspection!PlanIsNewest, Inspection!QueuedOnce
  <2> QED  BY <2>5, <2>6, <2>7 DEF Inspection!InspectionInv
<1>2. Inspection!InspectionInv /\ [Inspection!Next]_Inspection!vars
        => Inspection!InspectionInv'
  BY ClaimStep, WorkerStepInv, OthersStep DEF Inspection!Next
<1>3. Inspection!InspectionInv => Inspection!SuccessorPrevails
  <2> SUFFICES ASSUME Inspection!InspectionInv  PROVE Inspection!SuccessorPrevails
    OBVIOUS
  <2> USE DEF Inspection!InspectionInv
  <2>1. Inspection!InspectionTypeOK
    BY DEF Inspection!InspectionShape, Inspection!TokensFollow, Inspection!InspectionTypeOK,
       Inspection!RunRows
  <2>2. Inspection!SuccessorKeepsRun
    BY DEF Inspection!TokensFollow, Inspection!PlanIsNewest, Inspection!SuccessorKeepsRun,
       Inspection!Holds
  <2>3. Inspection!OneAutopilotCommand
    BY DEF Inspection!InspectionShape, Inspection!OneAutopilotCommand
  <2>4. Inspection!QueuedIsTrue  BY DEF Inspection!QueuedOnce, Inspection!QueuedIsTrue
  <2> QED  BY <2>1, <2>2, <2>3, <2>4 DEF Inspection!SuccessorPrevails
<1> QED  BY <1>1, <1>2, <1>3, PTL DEF Inspection!Spec

----------------------------------------------------------------------------
(* The restored backup (RestoreQuarantine).                                *)

RestoreRows == [policy : BOOLEAN, inspection : BOOLEAN, plan : BOOLEAN,
                command : BOOLEAN, permit : BOOLEAN]
RestoreGrants == [made : BOOLEAN, revoked : BOOLEAN, consumed : BOOLEAN, until : Nat,
                  tombstone : {"none", "pending", "leased", "delivered", "expired"}]

\* The quarantine leaves an attempt that the code could have written, and finished.
LEMMA AttemptDisarmed ==
    ASSUME attempt \in Restore!Attempts, NEW a, a = Restore!AttemptAfter
    PROVE  /\ a \in Restore!Attempts /\ a.stage \in {"none", "finished"}
           /\ a.acted => a.outcome \in {"unknown", "confirmed_submitted"}
<1> DEFINE Shapes == [stage : {"none", "ready", "committing", "finished"},
                      outcome : {"none", "failed_before_commit", "unknown",
                                 "confirmed_submitted"},
                      acted : BOOLEAN, proof : BOOLEAN]
           Possible(x) == /\ x.stage # "finished" <=> x.outcome = "none"
                          /\ x.proof => x.outcome = "confirmed_submitted"
                          /\ x.acted <=> x.stage = "committing"
                                         \/ x.outcome \in {"unknown", "confirmed_submitted"}
<1>1. \A x : x \in Restore!Attempts <=> x \in Shapes /\ Possible(x)
  BY DEF Restore!Attempts
<1>2. attempt \in Shapes /\ Possible(attempt)  BY <1>1
<1>3. CASE ~Restore!Unfinished
  <2>1. a = attempt  BY <1>3 DEF Restore!AttemptAfter
  <2>2. attempt.stage \in {"none", "finished"}
    BY <1>2, <1>3 DEF Restore!Unfinished, Restore!Verified
  <2> QED  BY <1>1, <1>2, <2>1, <2>2
<1>4. CASE Restore!Unfinished
  <2>1. PICK o \in {"unknown", "failed_before_commit"} :
           /\ a = [attempt EXCEPT !.stage = "finished", !.outcome = o]
           /\ o = "unknown" <=> Restore!Crossed
    BY <1>4 DEF Restore!AttemptAfter
  <2>2. /\ a \in Shapes /\ a.stage = "finished" /\ a.outcome = o
        /\ a.acted = attempt.acted /\ a.proof = attempt.proof
    BY <1>2, <2>1
  <2>3. ~attempt.proof  BY <1>4 DEF Restore!Unfinished, Restore!Verified
  <2>4. attempt.stage \in {"ready", "committing"} /\ attempt.outcome = "none"
    BY <1>2, <1>4 DEF Restore!Unfinished
  <2>5. attempt.acted <=> o = "unknown"
    BY <1>2, <2>1, <2>4 DEF Restore!Crossed, Restore!Postcommit
  <2> QED  BY <1>1, <2>1, <2>2, <2>3, <2>5
<1> QED  BY <1>3, <1>4

\* After the quarantine of any backup nothing in the restored database can act or be
\* delivered as authority, and every unfinished attempt that may have been sent is
\* unknown, whichever rows the backup held, however late it runs and however often.
THEOREM BackupIsDisarmed == Restore!Spec => []Restore!RestoredAuthorityGone
<1>1. Restore!Init => Restore!RestoreInv
  <2> SUFFICES ASSUME Restore!Init  PROVE Restore!RestoreInv
    OBVIOUS
  <2>1. grant \in RestoreGrants
    BY DEF Restore!Init, RestoreGrants
  <2> QED
    BY <2>1 DEF Restore!Init, Restore!RestoreInv, RestoreGrants, Restore!RestoredAuthorityGone
<1>2. Restore!RestoreInv /\ [Restore!Next]_Restore!vars => Restore!RestoreInv'
  <2> SUFFICES ASSUME Restore!RestoreInv, [Restore!Next]_Restore!vars
               PROVE  Restore!RestoreInv'
    OBVIOUS
  <2>1. /\ attempt \in Restore!Attempts /\ rows \in RestoreRows /\ grant \in RestoreGrants
        /\ passes \in Nat /\ Restore!RestoredAuthorityGone
    BY DEF Restore!RestoreInv, RestoreRows, RestoreGrants
  <2>2. CASE UNCHANGED <<rows, grant, attempt, passes>>
    BY <2>1, <2>2 DEF Restore!RestoreInv, RestoreRows, RestoreGrants,
       Restore!RestoredAuthorityGone, Restore!Attempts
  <2>3. CASE Restore!Quarantine
    <3>1. /\ attempt' \in Restore!Attempts /\ attempt'.stage \in {"none", "finished"}
          /\ attempt'.acted => attempt'.outcome \in {"unknown", "confirmed_submitted"}
      <4>1. attempt' = Restore!AttemptAfter  BY <2>3 DEF Restore!Quarantine
      <4> QED  BY <2>1, <4>1, AttemptDisarmed
    <3>2. rows' \in RestoreRows /\ \A r \in DOMAIN rows' : ~rows'[r]
      <4>1. rows' = [rows EXCEPT !.policy = FALSE, !.inspection = FALSE, !.plan = FALSE,
                                 !.command = FALSE, !.permit = FALSE]
        BY <2>3 DEF Restore!Quarantine, Restore!Disarmed
      <4>2. rows' = [policy |-> FALSE, inspection |-> FALSE, plan |-> FALSE,
                     command |-> FALSE, permit |-> FALSE]
        BY <2>1, <4>1 DEF RestoreRows
      <4> QED  BY <4>2 DEF RestoreRows
    <3>3. grant' \in RestoreGrants /\ (grant'.made => grant'.consumed \/ grant'.revoked)
      <4>1. CASE ~grant.made \/ grant.consumed
        BY <2>1, <2>3, <4>1 DEF Restore!Quarantine, Restore!GrantAfter, RestoreGrants
      <4>2. CASE ~(~grant.made \/ grant.consumed)
        <5>1. PICK t \in {"none", "pending", "leased", "delivered", "expired"} :
                 grant' = [grant EXCEPT !.revoked = TRUE, !.tombstone = t]
          <6>1. grant.tombstone \in {"none", "pending", "leased", "delivered", "expired"}
            BY <2>1 DEF RestoreGrants
          <6>2. Restore!DesiredTombstone \in {"expired", "pending"}
            BY DEF Restore!DesiredTombstone
          <6> QED  BY <2>3, <4>2, <6>1, <6>2 DEF Restore!Quarantine, Restore!GrantAfter
        <5> QED  BY <2>1, <5>1 DEF RestoreGrants
      <4> QED  BY <4>1, <4>2
    <3>4. passes' \in Nat  BY <2>1, <2>3 DEF Restore!Quarantine
    <3> QED
      BY <3>1, <3>2, <3>3, <3>4 DEF Restore!RestoreInv, RestoreRows, RestoreGrants,
         Restore!RestoredAuthorityGone, Restore!Attempts
  <2> QED  BY <2>2, <2>3 DEF Restore!Next, Restore!Tick, Restore!vars
<1>3. Restore!RestoreInv => Restore!RestoredAuthorityGone  BY DEF Restore!RestoreInv
<1> QED  BY <1>1, <1>2, <1>3, PTL DEF Restore!Spec

----------------------------------------------------------------------------
(* The policy and what it authorises (AutomationPolicy).                   *)

\* A quotient that is at least one makes a product at least the divisor.
LEMMA AtLeastOnce ==
    ASSUME NEW d \in Nat \ {0}, NEW x \in Int, x >= 1  PROVE d * x >= d
  OBVIOUS

LEMMA ProductsSubtract ==
    ASSUME NEW d \in Nat \ {0}, NEW x \in Int, NEW y \in Int
    PROVE  d * (x - y) = d * x - d * y /\ d * x \in Int /\ d * y \in Int
  OBVIOUS

\* Of two ways to divide, the one with a remainder has the smaller rest.
LEMMA RemainderIsLeast ==
    ASSUME NEW d \in Nat \ {0}, NEW q \in Int, NEW p \in Int,
           NEW r \in 0 .. d - 1, NEW s \in Nat, d * q + r = d * p + s, s <= d
    PROVE  r <= s
<1>1. CASE p = q
  <2>1. d * p \in Int /\ d * q = d * p  BY <1>1
  <2>2. r = s  BY <2>1
  <2> QED  BY <2>2
<1>2. CASE p > q
  <2>1. d * (p - q) >= d  BY <1>2, AtLeastOnce
  <2>2. d * (p - q) = d * p - d * q /\ d * p \in Int /\ d * q \in Int  BY ProductsSubtract
  <2>3. r - s >= d  BY <2>1, <2>2
  <2> QED  BY <2>3
<1>3. CASE q > p
  <2>1. d * (q - p) >= d  BY <1>3, AtLeastOnce
  <2>2. d * (q - p) = d * q - d * p /\ d * p \in Int /\ d * q \in Int  BY ProductsSubtract
  <2>3. s - r >= d  BY <2>1, <2>2
  <2> QED  BY <2>3
<1> QED  BY <1>1, <1>2, <1>3

LEMMA Division ==
    ASSUME NEW n \in Nat, NEW d \in Nat \ {0}
    PROVE  n = d * (n \div d) + (n % d) /\ (n \div d) \in Int
  OBVIOUS

\* The hour of the day grows by at most one.
LEMMA RemainderGrows ==
    ASSUME NEW n \in Nat, NEW d \in Nat \ {0}  PROVE (n + 1) % d <= (n % d) + 1
<1> DEFINE q == (n + 1) \div d
           p == n \div d
           r == (n + 1) % d
           s == (n % d) + 1
<1>1. n = d * p + (n % d) /\ p \in Int  BY Division
<1>2. n + 1 = d * q + r /\ q \in Int
  <2>1. n + 1 \in Nat  OBVIOUS
  <2> QED  BY <2>1, Division
<1>3. r \in 0 .. d - 1 /\ s \in Nat /\ s <= d  OBVIOUS
<1>4. d * q + r = d * p + s
  <2>1. d * p \in Int /\ n % d \in Int  BY <1>1
  <2> HIDE DEF p, q, r
  <2> QED  BY <1>1, <1>2, <2>1
<1> HIDE DEF p, q, r, s
<1>5. r <= s  BY <1>1, <1>2, <1>3, <1>4, RemainderIsLeast
<1> QED  BY <1>5 DEF r, s

\* A day begins before now, and never earlier than it did.
LEMMA DayMoves ==
    ASSUME PolicySettings, now \in Nat
    PROVE  /\ Policy!DayStart \in Nat /\ Policy!DayStart <= now
           /\ now' = now => Policy!DayStart' = Policy!DayStart
           /\ now' = now + 1 => Policy!DayStart' \in Nat /\ Policy!DayStart <= Policy!DayStart'
<1> USE DEF PolicySettings, Policy!DayStart
<1>1. now % DayLength \in Nat /\ now % DayLength <= now  OBVIOUS
<1>2. CASE now' = now + 1
  <2>1. (now + 1) % DayLength <= (now % DayLength) + 1  BY RemainderGrows
  <2>2. (now + 1) % DayLength \in Nat /\ (now + 1) % DayLength <= now + 1  OBVIOUS
  <2> QED  BY <1>1, <1>2, <2>1, <2>2
<1> QED  BY <1>1, <1>2

DecisionRows == [allowed : BOOLEAN, policy : Nat, onPlan : BOOLEAN, answers : Nat,
                 until : Nat, at : Nat]

\* The instance counts as everybody counts.
LEMMA PolicyCounts == \A S : Policy!Cardinality(S) = Cardinality(S)
  BY DEF Policy!Cardinality, Cardinality

\* Re-inspections and revocations leave what was decided as it was.
LEMMA DecisionsLast ==
    ASSUME PolicySettings, Policy!DecisionsHold, now \in Nat, now' = now,
           policy'.revision = policy.revision, policy'.until = policy.until,
           policy'.limits = policy.limits, policy'.answers = policy.answers,
           decision' \in [Apps -> DecisionRows],
           \A a \in Apps :
              /\ decision'[a].allowed = decision[a].allowed
              /\ decision'[a].policy = decision[a].policy
              /\ decision'[a].answers = decision[a].answers
              /\ decision'[a].until = decision[a].until /\ decision'[a].at = decision[a].at
    PROVE  Policy!DecisionsHold'
<1>1. Policy!DayStart' = Policy!DayStart  BY DayMoves
<1>2. Policy!Counted' = Policy!Counted /\ \A a \in Policy!Counted : a \in Apps
  BY DEF Policy!Counted
<1>3. Policy!Daily' = Policy!Daily
  <2>1. {a \in Policy!Counted' : decision'[a].at >= Policy!DayStart'}
          = {a \in Policy!Counted : decision[a].at >= Policy!DayStart}
    BY <1>1, <1>2
  <2> QED  BY <2>1, PolicyCounts DEF Policy!Daily
<1>4. Policy!Hourly' = Policy!Hourly
  <2>1. {a \in Policy!Counted' : decision'[a].at + Hour > now'}
          = {a \in Policy!Counted : decision[a].at + Hour > now}
    BY <1>2
  <2> QED  BY <2>1, PolicyCounts DEF Policy!Hourly
<1>5. \A k : Policy!OfCompany(k)' = Policy!OfCompany(k)
  <2>1. \A k : {a \in Policy!Counted' : Company[a] = k /\ decision'[a].at + Window > now'}
          = {a \in Policy!Counted : Company[a] = k /\ decision[a].at + Window > now}
    BY <1>2
  <2> QED  BY <2>1, PolicyCounts DEF Policy!OfCompany
<1>6. Policy!LimitsHold'
  <2>1. Policy!LimitsHold  BY DEF Policy!DecisionsHold
  <2> QED  BY <1>3, <1>4, <1>5, <2>1 DEF Policy!LimitsHold
<1> QED  BY <1>1, <1>6 DEF Policy!DecisionsHold, DecisionRows

\* As time passes authority ends, and no decision is of this moment.
LEMMA DecisionsAge ==
    ASSUME PolicySettings, Policy!DecisionsHold, now \in Nat, now' = now + 1,
           UNCHANGED <<policy, decision>>
    PROVE  Policy!DecisionsHold'
<1>1. Policy!DayStart \in Nat /\ Policy!DayStart' \in Nat
      /\ Policy!DayStart <= Policy!DayStart'
  BY DayMoves
<1>2. \A a \in Apps : /\ decision[a].at \in Nat /\ decision[a].at <= now
                      /\ decision[a].until \in Nat
  BY DEF Policy!DecisionsHold
<1>3. Policy!LimitsHold'  BY <1>2 DEF Policy!LimitsHold
<1>4. ASSUME NEW a \in Apps, now' < decision[a].until
      PROVE  decision[a].until <= Policy!DayStart' + ActiveTicks
  <2>1. decision[a].until <= Policy!DayStart + ActiveTicks
    BY <1>2, <1>4 DEF Policy!DecisionsHold
  <2> QED  BY <1>1, <1>2, <2>1 DEF PolicySettings
<1>5. ASSUME NEW a \in Apps, now' < decision[a].until, decision[a].policy = policy.revision
      PROVE  decision[a].until <= policy.until
  BY <1>2, <1>5 DEF Policy!DecisionsHold
<1>6. \A a \in Apps : decision[a].at <= now'  BY <1>2
<1> QED  BY <1>3, <1>4, <1>5, <1>6 DEF Policy!DecisionsHold

\* No decision is of a policy that was just signed.
LEMMA DecisionsSuperseded ==
    ASSUME PolicySettings, Policy!DecisionsHold, now \in Nat, UNCHANGED <<now, decision>>,
           policy.revision \in Nat, policy'.revision = policy.revision + 1
    PROVE  Policy!DecisionsHold'
<1>1. \A a \in Apps : /\ decision[a].policy \in Nat
                      /\ decision[a].policy <= policy.revision
  BY DEF Policy!DecisionsHold
<1>2. \A a \in Apps : /\ decision[a].policy <= policy'.revision
                      /\ decision[a].policy # policy'.revision
  BY <1>1
<1>3. Policy!LimitsHold'  BY <1>2 DEF Policy!LimitsHold
<1>4. Policy!DayStart' = Policy!DayStart  BY DayMoves
<1> QED  BY <1>2, <1>3, <1>4 DEF Policy!DecisionsHold

\* One element more makes a count grow by at most one.
LEMMA CountGrows ==
    ASSUME NEW S, NEW T, NEW x, IsFiniteSet(S), T \subseteq S \cup {x},
           NEW n \in Nat, ~(Cardinality(S) >= n)
    PROVE  Cardinality(T) <= n
<1>1. IsFiniteSet(S \cup {x}) /\ Cardinality(S \cup {x}) <= Cardinality(S) + 1
      /\ Cardinality(S) \in Nat
  <2>1. PICK k \in Nat : k = Cardinality(S)  BY FS_CardinalityType
  <2>2. /\ IsFiniteSet(S \cup {x})
        /\ Cardinality(S \cup {x}) = Cardinality(S) \/ Cardinality(S \cup {x}) = Cardinality(S) + 1
    BY FS_AddElement
  <2> QED  BY <2>1, <2>2
<1>2. Cardinality(T) <= Cardinality(S \cup {x}) /\ Cardinality(T) \in Nat
      /\ Cardinality(S \cup {x}) \in Nat
  BY <1>1, FS_Subset, FS_CardinalityType
<1> QED  BY <1>1, <1>2

LEMMA CountShrinks ==
    ASSUME NEW S, NEW T, IsFiniteSet(S), T \subseteq S, NEW n \in Nat, Cardinality(S) <= n
    PROVE  Cardinality(T) <= n
<1>1. Cardinality(T) <= Cardinality(S) /\ Cardinality(T) \in Nat /\ Cardinality(S) \in Nat
  BY FS_Subset, FS_CardinalityType
<1> QED  BY <1>1

\* Authority lasts no longer than the policy, nor than the active hours.
LEMMA AuthorityEnds ==
    ASSUME PolicySettings, now \in Nat, policy.until \in Nat
    PROVE  /\ Policy!AuthorityDeadline \in Nat
           /\ Policy!AuthorityDeadline <= policy.until
           /\ Policy!AuthorityDeadline <= Policy!DayStart + ActiveTicks
<1>1. \A x, y \in Nat : /\ Policy!Sooner(x, y) \in Nat
                        /\ Policy!Sooner(x, y) <= x /\ Policy!Sooner(x, y) <= y
  BY DEF Policy!Sooner
<1>2. Policy!DayStart + ActiveTicks \in Nat /\ now + AuthorityTTL \in Nat
  BY DayMoves DEF PolicySettings
<1>3. PICK x \in Nat : x = Policy!Sooner(policy.until, now + AuthorityTTL) /\ x <= policy.until
  BY <1>1, <1>2
<1>4. Policy!AuthorityDeadline = Policy!Sooner(x, Policy!DayStart + ActiveTicks)
  BY <1>3 DEF Policy!AuthorityDeadline
<1>5. PICK y \in Nat : y = Policy!DayStart + ActiveTicks  BY <1>2
<1>6. PICK z \in Nat : z = Policy!AuthorityDeadline /\ z <= x /\ z <= y  BY <1>1, <1>4, <1>5
<1> QED  BY <1>3, <1>5, <1>6

\* What is decided anew stays within the limits, in every window.
LEMMA DecisionMade ==
    ASSUME PolicySettings, Policy!DecisionsHold, Policy!PolicyHolds, now \in Nat,
           UNCHANGED <<now, policy>>, world.answers \in Nat,
           NEW a \in Apps, Policy!Evaluable(a), ~Policy!RetryableReason(a),
           ~Policy!ReviewReason(a), decision' = [decision EXCEPT ![a] = Policy!Allowed]
    PROVE  Policy!DecisionsHold'
<1>1. /\ policy.active /\ policy.limits \in LimitChoices /\ policy.limits.daily \in Nat
      /\ policy.limits.hourly \in Nat /\ policy.limits.company \in Nat
      /\ policy.revision \in Nat /\ policy.until \in Nat
  BY DEF Policy!PolicyHolds, Policy!Evaluable, Policy!PolicyCurrent, PolicySettings
<1>2. decision \in [Apps -> DecisionRows]  BY DEF Policy!DecisionsHold, DecisionRows
<1>3. Policy!DayStart' = Policy!DayStart /\ Policy!DayStart \in Nat  BY DayMoves
<1>4. /\ ~decision[a].allowed /\ world.answers = policy.answers
      /\ ~Policy!LimitReached(a)
  BY DEF Policy!Evaluable, Policy!ReviewReason, Policy!RetryableReason
<1>5. PICK until \in Nat : /\ until = Policy!AuthorityDeadline
                          /\ until <= policy.until /\ until <= Policy!DayStart + ActiveTicks
  BY <1>1, AuthorityEnds
<1>6. PICK row \in DecisionRows :
         /\ row = Policy!Allowed /\ row.allowed /\ row.policy = policy.revision
         /\ row.answers = policy.answers /\ row.until = until /\ row.at = now
  <2>1. PICK row : row = Policy!Allowed  OBVIOUS
  <2>2. row = [allowed |-> TRUE, policy |-> policy.revision, onPlan |-> TRUE,
               answers |-> world.answers, until |-> until, at |-> now]
    BY <1>5, <2>1 DEF Policy!Allowed
  <2>3. row \in DecisionRows
    <3>1. world.answers \in Nat /\ policy.revision \in Nat /\ now \in Nat  BY <1>1
    <3> QED  BY <2>2, <3>1 DEF DecisionRows
  <2>4. /\ row.allowed /\ row.policy = policy.revision
        /\ row.answers = policy.answers /\ row.until = until /\ row.at = now
    BY <1>4, <2>2
  <2> QED  BY <2>1, <2>3, <2>4
<1>7. decision' \in [Apps -> DecisionRows] /\ decision'[a] = row
      /\ \A b \in Apps \ {a} : decision'[b] = decision[b]
  BY <1>2, <1>6
<1>8. IsFiniteSet(Policy!Counted) /\ Policy!Counted \subseteq Apps
  BY FS_Subset DEF Policy!Counted, PolicySettings
<1>9. Policy!Daily' <= policy.limits.daily
  <2> DEFINE S == {b \in Policy!Counted : decision[b].at >= Policy!DayStart}
             T == {b \in Policy!Counted' : decision'[b].at >= Policy!DayStart'}
  <2>1. IsFiniteSet(S)  BY <1>8, FS_Subset
  <2>2. T \subseteq S \cup {a}  BY <1>3, <1>7 DEF Policy!Counted
  <2>3. ~(Cardinality(S) >= policy.limits.daily)
    BY <1>4, PolicyCounts DEF Policy!LimitReached, Policy!Daily
  <2>4. Policy!Daily' = Cardinality(T)  BY PolicyCounts DEF Policy!Daily
  <2> HIDE DEF S, T
  <2> QED  BY <1>1, <2>1, <2>2, <2>3, <2>4, CountGrows
<1>10. Policy!Hourly' <= policy.limits.hourly
  <2> DEFINE S == {b \in Policy!Counted : decision[b].at + Hour > now}
             T == {b \in Policy!Counted' : decision'[b].at + Hour > now'}
  <2>1. IsFiniteSet(S)  BY <1>8, FS_Subset
  <2>2. T \subseteq S \cup {a}  BY <1>7 DEF Policy!Counted
  <2>3. ~(Cardinality(S) >= policy.limits.hourly)
    BY <1>4, PolicyCounts DEF Policy!LimitReached, Policy!Hourly
  <2>4. Policy!Hourly' = Cardinality(T)  BY PolicyCounts DEF Policy!Hourly
  <2> HIDE DEF S, T
  <2> QED  BY <1>1, <2>1, <2>2, <2>3, <2>4, CountGrows
<1>11. ASSUME NEW b \in Apps, decision'[b].allowed, decision'[b].at = now',
              decision'[b].policy = policy'.revision
       PROVE  Policy!OfCompany(Company[b])' <= policy.limits.company
  <2> DEFINE S == {c \in Policy!Counted :
                     Company[c] = Company[b] /\ decision[c].at + Window > now}
             T == {c \in Policy!Counted' :
                     Company[c] = Company[b] /\ decision'[c].at + Window > now'}
  <2>1. IsFiniteSet(S)  BY <1>8, FS_Subset
  <2>2. Policy!OfCompany(Company[b])' = Cardinality(T)
        /\ Policy!OfCompany(Company[b]) = Cardinality(S)
    BY PolicyCounts DEF Policy!OfCompany
  <2>3. CASE Company[b] = Company[a]
    <3>1. T \subseteq S \cup {a}  BY <1>7 DEF Policy!Counted
    <3>2. ~(Cardinality(S) >= policy.limits.company)
      BY <1>4, <2>2, <2>3 DEF Policy!LimitReached
    <3> HIDE DEF S, T
    <3> QED  BY <1>1, <2>1, <2>2, <3>1, <3>2, CountGrows
  <2>4. CASE Company[b] # Company[a]
    <3>1. T \subseteq S  BY <1>7, <2>4 DEF Policy!Counted
    <3>2. b # a /\ decision'[b] = decision[b]  BY <1>7, <2>4
    <3>3. Cardinality(S) <= policy.limits.company
      BY <1>11, <2>2, <3>2 DEF Policy!DecisionsHold, Policy!LimitsHold
    <3> HIDE DEF S, T
    <3> QED  BY <1>1, <2>1, <2>2, <3>1, <3>3, CountShrinks
  <2> QED  BY <2>3, <2>4
<1>12. Policy!LimitsHold'  BY <1>9, <1>10, <1>11 DEF Policy!LimitsHold
<1>13. ASSUME NEW b \in Apps
       PROVE  /\ decision'[b].policy <= policy'.revision /\ decision'[b].at <= now'
              /\ now' < decision'[b].until =>
                    /\ decision'[b].until <= Policy!DayStart' + ActiveTicks
                    /\ decision'[b].policy = policy'.revision =>
                          decision'[b].until <= policy'.until
              /\ decision'[b].allowed /\ decision'[b].policy = policy'.revision =>
                    decision'[b].answers = policy'.answers
  <2>1. CASE b = a  BY <1>1, <1>3, <1>5, <1>6, <1>7, <2>1
  <2>2. CASE b # a
    BY <1>3, <1>7, <2>2 DEF Policy!DecisionsHold
  <2> QED  BY <2>1, <2>2
<1> QED  BY <1>7, <1>12, <1>13 DEF Policy!DecisionsHold, DecisionRows

LEMMA DecisionsSame ==
    ASSUME PolicySettings, Policy!DecisionsHold, now \in Nat, UNCHANGED <<now, policy, decision>>
    PROVE  Policy!DecisionsHold'
<1>1. decision' \in [Apps -> DecisionRows]  BY DEF Policy!DecisionsHold, DecisionRows
<1> QED  BY <1>1, DecisionsLast

ApplicationRows == [revision : Nat, draft : BOOLEAN, prepared : BOOLEAN, profile : Nat,
                    artifacts : Nat, sameJob : BOOLEAN]
PlanRows == [made : BOOLEAN, valid : BOOLEAN, revision : Nat, profile : Nat,
             contract : Contracts \cup {"none"}, until : Nat]
AttemptRows == [stage : {"none", "queued", "committing", "finished"},
                kind : {"none", "canary", "autopilot"}, release : Nat,
                outcome : {"none", "failed", "confirmed", "unknown"}]
CanaryRows == [minted : BOOLEAN, release : Nat, until : Nat]

\* What stays true of an attempt, of its plan, its decision and its canary.
AttemptOf(row, newest, made, auth, release) ==
    /\ row.stage = "none" => row.kind = "none"
    /\ row.stage # "none" => newest.made
    /\ row.stage = "committing" => row.release = release
    /\ made.allowed <=> row.kind = "autopilot"
    /\ auth.minted <=> row.kind = "canary"

LEMMA AttemptParts ==
    /\ Policy!AttemptsHold <=>
          /\ attempt \in [Apps -> AttemptRows] /\ canary \in [Apps -> CanaryRows]
          /\ \A a \in Apps : AttemptOf(attempt[a], plan[a], decision[a], canary[a], running)
    /\ Policy!AttemptsHold' <=>
          /\ attempt' \in [Apps -> AttemptRows] /\ canary' \in [Apps -> CanaryRows]
          /\ \A a \in Apps :
                AttemptOf(attempt'[a], plan'[a], decision'[a], canary'[a], running')
<1>1. Policy!AttemptsHold <=>
          /\ attempt \in [Apps -> AttemptRows] /\ canary \in [Apps -> CanaryRows]
          /\ \A a \in Apps : AttemptOf(attempt[a], plan[a], decision[a], canary[a], running)
  BY DEF Policy!AttemptsHold, AttemptRows, CanaryRows, AttemptOf
<1>2. Policy!AttemptsHold' <=>
          /\ attempt' \in [Apps -> AttemptRows] /\ canary' \in [Apps -> CanaryRows]
          /\ \A a \in Apps :
                AttemptOf(attempt'[a], plan'[a], decision'[a], canary'[a], running')
  BY DEF Policy!AttemptsHold, AttemptRows, CanaryRows, AttemptOf
<1> QED  BY <1>1, <1>2

\* One attempt moves, and no other; what its rows were made for they stay.
LEMMA AttemptMoves ==
    ASSUME Policy!AttemptsHold, NEW a \in Apps, NEW row \in AttemptRows,
           attempt' = [attempt EXCEPT ![a] = row], UNCHANGED running,
           canary' \in [Apps -> CanaryRows],
           \A b \in Apps : plan'[b].made = plan[b].made,
           \A b \in Apps \ {a} : /\ decision'[b].allowed = decision[b].allowed
                                /\ canary'[b].minted = canary[b].minted,
           AttemptOf(row, plan'[a], decision'[a], canary'[a], running)
    PROVE  Policy!AttemptsHold'
<1>1. attempt \in [Apps -> AttemptRows]
      /\ \A b \in Apps : AttemptOf(attempt[b], plan[b], decision[b], canary[b], running)
  BY AttemptParts
<1>2. attempt' \in [Apps -> AttemptRows] /\ attempt'[a] = row
      /\ \A b \in Apps \ {a} : attempt'[b] = attempt[b]
  BY <1>1
<1>3. ASSUME NEW b \in Apps
      PROVE  AttemptOf(attempt'[b], plan'[b], decision'[b], canary'[b], running')
  <2>1. CASE b = a  BY <1>2, <2>1
  <2>2. CASE b # a  BY <1>1, <1>2, <2>2 DEF AttemptOf
  <2> QED  BY <2>1, <2>2
<1> QED  BY <1>2, <1>3, AttemptParts

LEMMA AttemptsLast ==
    ASSUME Policy!AttemptsHold, UNCHANGED <<attempt, canary, running>>,
           \A a \in Apps : /\ plan[a].made => plan'[a].made
                          /\ decision'[a].allowed = decision[a].allowed
    PROVE  Policy!AttemptsHold'
  BY AttemptParts DEF AttemptOf

\* The application's row changes, and none of its plan.
LEMMA ApplicationMoves ==
    ASSUME Policy!PlansHold, UNCHANGED <<now, plan>>, NEW a \in Apps,
           NEW row \in ApplicationRows, application' = [application EXCEPT ![a] = row]
    PROVE  Policy!PlansHold'
  BY DEF Policy!PlansHold, ApplicationRows

LEMMA PlanMoves ==
    ASSUME Policy!PlansHold, UNCHANGED now, application' \in [Apps -> ApplicationRows],
           NEW a \in Apps, NEW row \in PlanRows, plan' = [plan EXCEPT ![a] = row],
           row.made => row.contract \in Contracts, row.until <= now + PlanTTL
    PROVE  Policy!PlansHold'
<1>1. plan \in [Apps -> PlanRows]  BY DEF Policy!PlansHold, PlanRows
<1>2. plan' \in [Apps -> PlanRows] /\ plan'[a] = row
      /\ \A b \in Apps \ {a} : plan'[b] = plan[b]
  BY <1>1
<1>3. ASSUME NEW b \in Apps
      PROVE  /\ plan'[b].made => plan'[b].contract \in Contracts
             /\ plan'[b].until <= now' + PlanTTL
  <2>1. CASE b = a  BY <1>2, <2>1
  <2>2. CASE b # a  BY <1>2, <2>2 DEF Policy!PlansHold
  <2> QED  BY <2>1, <2>2
<1> QED  BY <1>2, <1>3 DEF Policy!PlansHold, ApplicationRows, PlanRows

\* Time passes.
LEMMA TickStep ==
    ASSUME PolicySettings, Policy!PolicyInv, Policy!Tick  PROVE Policy!PolicyInv'
<1> USE DEF Policy!PolicyInv, Policy!Tick, Policy!policyVars, Policy!qualificationVars,
            Policy!rowVars
<1>1. now \in Nat /\ now' = now + 1 /\ now' \in 0 .. Horizon
  BY DEF Policy!WorldHolds, PolicySettings
<1>2. Policy!WorldHolds'  BY <1>1 DEF Policy!WorldHolds
<1>3. Policy!PolicyHolds'  BY DEF Policy!PolicyHolds
<1>4. Policy!DecisionsHold'  BY <1>1, DecisionsAge
<1>5. Policy!PlansHold'
  <2>1. ASSUME NEW a \in Apps  PROVE plan[a].until <= now' + PlanTTL
    BY <1>1 DEF Policy!PlansHold, PolicySettings
  <2> QED  BY <2>1 DEF Policy!PlansHold
<1>6. Policy!AttemptsHold'  BY AttemptsLast
<1>7. Policy!QualificationHolds'  BY DEF Policy!QualificationHolds
<1> QED  BY <1>2, <1>3, <1>4, <1>5, <1>6, <1>7

\* The runner's processes are replaced: nothing of the old ones is in flight.
LEMMA RestartStep ==
    ASSUME PolicySettings, Policy!PolicyInv, Policy!Restart  PROVE Policy!PolicyInv'
<1> USE DEF Policy!PolicyInv
<1>0. /\ UNCHANGED <<now, world, drifts, policy, kill, decision, dryRun, live, canary, proved,
                     application, plan, sends>>
      /\ running' = world.release
      /\ attempt' = [a \in Apps |->
            IF attempt[a].stage = "committing"
              THEN [attempt[a] EXCEPT !.stage = "finished", !.outcome = "unknown"]
              ELSE attempt[a]]
  BY DEF Policy!Restart, Policy!policyVars, Policy!qualificationVars
<1>1. now \in Nat  BY DEF Policy!WorldHolds, PolicySettings
<1>2. Policy!WorldHolds'
  <2>1. world.release \in 0 .. world.release  BY DEF Policy!WorldHolds
  <2> QED  BY <1>0, <2>1 DEF Policy!WorldHolds
<1>3. Policy!PolicyHolds'  BY <1>0 DEF Policy!PolicyHolds
<1>4. Policy!DecisionsHold'  BY <1>0, <1>1, DecisionsSame
<1>5. Policy!PlansHold'  BY <1>0 DEF Policy!PlansHold
<1>6. Policy!AttemptsHold'
  <2>1. attempt \in [Apps -> AttemptRows] /\ canary' \in [Apps -> CanaryRows]
        /\ \A a \in Apps : AttemptOf(attempt[a], plan[a], decision[a], canary[a], running)
    BY <1>0, AttemptParts
  <2>2. ASSUME NEW a \in Apps
        PROVE  /\ attempt'[a] \in AttemptRows
               /\ AttemptOf(attempt'[a], plan'[a], decision'[a], canary'[a], running')
    <3>1. CASE attempt[a].stage = "committing"
      <4>1. attempt'[a] = [attempt[a] EXCEPT !.stage = "finished", !.outcome = "unknown"]
        BY <1>0, <3>1
      <4>2. PICK row \in AttemptRows : row = attempt[a]  BY <2>1
      <4>3. /\ attempt'[a] \in AttemptRows /\ attempt'[a].stage = "finished"
            /\ attempt'[a].kind = row.kind
        BY <4>1, <4>2 DEF AttemptRows
      <4> QED  BY <1>0, <2>1, <3>1, <4>2, <4>3 DEF AttemptOf
    <3>2. CASE attempt[a].stage # "committing"
      <4>1. attempt'[a] = attempt[a]  BY <1>0, <3>2
      <4> QED  BY <1>0, <2>1, <3>2, <4>1 DEF AttemptOf
    <3> QED  BY <3>1, <3>2
  <2>3. attempt' \in [Apps -> AttemptRows]  BY <1>0, <2>2
  <2> QED  BY <2>1, <2>2, <2>3, AttemptParts
<1>7. Policy!QualificationHolds'  BY <1>0 DEF Policy!QualificationHolds
<1> QED  BY <1>2, <1>3, <1>4, <1>5, <1>6, <1>7

LEMMA RevokeStep ==
    ASSUME PolicySettings, Policy!PolicyInv, Policy!Revoke  PROVE Policy!PolicyInv'
<1> USE DEF Policy!PolicyInv, Policy!Revoke, Policy!clockVars, Policy!qualificationVars,
            Policy!rowVars
<1>1. now \in Nat  BY DEF Policy!WorldHolds
<1>2. Policy!WorldHolds'  BY DEF Policy!WorldHolds
<1>3. Policy!PolicyHolds'  BY DEF Policy!PolicyHolds
<1>4. Policy!DecisionsHold'
  <2>1. decision' \in [Apps -> DecisionRows]  BY DEF Policy!DecisionsHold, DecisionRows
  <2>2. /\ policy'.revision = policy.revision /\ policy'.until = policy.until
        /\ policy'.limits = policy.limits /\ policy'.answers = policy.answers
    BY DEF Policy!PolicyHolds
  <2> QED  BY <1>1, <2>1, <2>2, DecisionsLast
<1>5. Policy!PlansHold'  BY DEF Policy!PlansHold
<1>6. Policy!AttemptsHold'  BY AttemptsLast
<1>7. Policy!QualificationHolds'  BY DEF Policy!QualificationHolds
<1> QED  BY <1>2, <1>3, <1>4, <1>5, <1>6, <1>7

\* A kill switch, or a change of what policies are bound to.
LEMMA WorldStep ==
    ASSUME PolicySettings, Policy!PolicyInv,
           Policy!SwitchKill \/ Policy!RemoteKill
             \/ (\E b \in DOMAIN world : Policy!WorldChanges(b))
    PROVE  Policy!PolicyInv'
<1> USE DEF Policy!PolicyInv, Policy!Drift
<1>1. now \in Nat  BY DEF Policy!WorldHolds
<1>2. UNCHANGED <<now, running, policy, decision, Policy!qualificationVars, Policy!rowVars>>
  BY DEF Policy!SwitchKill, Policy!RemoteKill, Policy!WorldChanges, Policy!policyVars,
     Policy!clockVars
<1> USE <1>2 DEF Policy!qualificationVars, Policy!rowVars
<1>3. Policy!WorldHolds'
  <2>1. CASE Policy!SwitchKill  BY <2>1 DEF Policy!SwitchKill, Policy!WorldHolds, PolicySettings
  <2>2. CASE Policy!RemoteKill  BY <2>2 DEF Policy!RemoteKill, Policy!WorldHolds, Policy!clockVars
  <2>3. ASSUME NEW b \in DOMAIN world, Policy!WorldChanges(b)  PROVE Policy!WorldHolds'
    <3>1. b \in {"profile", "artifacts", "answers", "release"}
          /\ world \in [profile : Nat, artifacts : Nat, answers : Nat, release : Nat]
          /\ drifts \in Nat /\ drifts < MaxDrifts /\ drifts' = drifts + 1
          /\ world.release <= drifts
      BY <2>3 DEF Policy!WorldHolds, Policy!WorldChanges
    <3>2. /\ world' \in [profile : Nat, artifacts : Nat, answers : Nat, release : Nat]
          /\ world'.release = world.release \/ world'.release = world.release + 1
      BY <2>3, <3>1 DEF Policy!WorldChanges
    <3>3. running \in 0 .. world.release /\ now \in 0 .. Horizon  BY DEF Policy!WorldHolds
    <3>4. world.release \in Nat /\ MaxDrifts \in Nat  BY <3>1 DEF PolicySettings
    <3> QED  BY <3>1, <3>2, <3>3, <3>4 DEF Policy!WorldHolds
  <2> QED  BY <2>1, <2>2, <2>3
<1>4. Policy!PolicyHolds'  BY DEF Policy!PolicyHolds
<1>5. Policy!DecisionsHold'  BY <1>1, DecisionsSame
<1>6. Policy!PlansHold'  BY DEF Policy!PlansHold
<1>7. Policy!AttemptsHold'  BY AttemptsLast
<1>8. Policy!QualificationHolds'  BY DEF Policy!QualificationHolds
<1> QED  BY <1>3, <1>4, <1>5, <1>6, <1>7, <1>8

LEMMA ActivateStep ==
    ASSUME PolicySettings, Policy!PolicyInv, NEW scope \in SUBSET Contracts,
           NEW limits \in LimitChoices, Policy!Activate(scope, limits)
    PROVE  Policy!PolicyInv'
<1> USE DEF Policy!PolicyInv, Policy!clockVars, Policy!qualificationVars, Policy!rowVars
<1>1. /\ now \in Nat /\ policy.revision \in Nat
      /\ world.profile \in Nat /\ world.artifacts \in Nat /\ world.answers \in Nat
  BY DEF Policy!WorldHolds, Policy!PolicyHolds
<1>2. /\ UNCHANGED <<now, world, running, drifts, kill, decision, dryRun, live, canary, proved,
                     application, plan, attempt, sends>>
      /\ policy' = [revision |-> policy.revision + 1, active |-> TRUE, scope |-> scope,
                    limits |-> limits, profile |-> world.profile,
                    artifacts |-> world.artifacts, answers |-> world.answers,
                    until |-> now + PolicyTTL]
  BY DEF Policy!Activate
<1>3. Policy!WorldHolds'  BY <1>2 DEF Policy!WorldHolds
<1>4. Policy!PolicyHolds'
  <2>1. policy.revision + 1 \in Nat /\ now + PolicyTTL \in Nat  BY <1>1 DEF PolicySettings
  <2> QED  BY <1>1, <1>2, <2>1 DEF Policy!PolicyHolds
<1>5. Policy!DecisionsHold'  BY <1>1, <1>2, DecisionsSuperseded
<1>6. Policy!PlansHold'  BY <1>2 DEF Policy!PlansHold
<1>7. Policy!AttemptsHold'  BY <1>2, AttemptsLast
<1>8. Policy!QualificationHolds'  BY <1>2 DEF Policy!QualificationHolds
<1> QED  BY <1>3, <1>4, <1>5, <1>6, <1>7, <1>8

LEMMA DriftCounts ==
    ASSUME PolicySettings, Policy!WorldHolds, UNCHANGED <<now, world, running>>,
           Policy!Drift \/ UNCHANGED drifts
    PROVE  Policy!WorldHolds'
<1>1. drifts \in Nat /\ MaxDrifts \in Nat /\ world.release \in Nat /\ world.release <= drifts
  BY DEF Policy!WorldHolds, PolicySettings
<1>2. drifts' \in 0 .. MaxDrifts /\ world.release <= drifts'
  BY <1>1 DEF Policy!WorldHolds, Policy!Drift
<1> QED  BY <1>2 DEF Policy!WorldHolds

\* Edits, a changed posting, a new fit decision and the approval.
LEMMA ApplicationStep ==
    ASSUME PolicySettings, Policy!PolicyInv, NEW a \in Apps,
           \/ Policy!EditApplication(a) \/ Policy!JobChanges(a)
           \/ Policy!DecideFit(a) \/ Policy!Approve(a)
    PROVE  Policy!PolicyInv'
<1> USE DEF Policy!PolicyInv
<1>1. /\ UNCHANGED <<now, world, running, policy, decision, live, canary, proved, attempt, sends>>
      /\ Policy!Drift \/ UNCHANGED drifts
  BY DEF Policy!EditApplication, Policy!JobChanges, Policy!DecideFit, Policy!Approve,
     Policy!policyVars, Policy!qualificationVars, Policy!clockVars
<1>2. now \in Nat  BY DEF Policy!WorldHolds, PolicySettings
<1>3. Policy!WorldHolds'  BY <1>1, DriftCounts
<1>4. Policy!PolicyHolds'  BY <1>1 DEF Policy!PolicyHolds
<1>5. Policy!DecisionsHold'  BY <1>1, <1>2, DecisionsSame
<1>6. /\ application \in [Apps -> ApplicationRows] /\ application[a] \in ApplicationRows
      /\ plan \in [Apps -> PlanRows] /\ plan[a] \in PlanRows
  BY DEF Policy!PlansHold, ApplicationRows, PlanRows
<1>7. Policy!PlansHold' /\ \A b \in Apps : plan[b].made => plan'[b].made
  <2>1. CASE Policy!EditApplication(a)
    <3>1. application' \in [Apps -> ApplicationRows]
      <4>1. application[a].revision + 1 \in Nat  BY <1>6 DEF ApplicationRows
      <4>2. [application[a] EXCEPT !.revision = application[a].revision + 1,
                                   !.prepared = FALSE] \in ApplicationRows
        BY <1>6, <4>1 DEF ApplicationRows
      <4> QED  BY <1>6, <2>1, <4>2 DEF Policy!EditApplication
    <3>2. PICK row : row = [plan[a] EXCEPT !.valid = FALSE]  OBVIOUS
    <3>3. row \in PlanRows /\ row.made = plan[a].made /\ row.contract = plan[a].contract
          /\ row.until = plan[a].until
      BY <1>6, <3>2 DEF PlanRows
    <3>4. plan' = [plan EXCEPT ![a] = row]  BY <1>6, <2>1, <3>2 DEF Policy!EditApplication
    <3>5. (row.made => row.contract \in Contracts) /\ row.until <= now + PlanTTL
      BY <3>3 DEF Policy!PlansHold
    <3>6. Policy!PlansHold'  BY <1>1, <3>1, <3>3, <3>4, <3>5, PlanMoves
    <3> QED  BY <1>6, <3>3, <3>4, <3>6
  <2>2. CASE Policy!JobChanges(a)
    <3>1. PICK row : row = [application[a] EXCEPT !.sameJob = FALSE]  OBVIOUS
    <3>2. row \in ApplicationRows  BY <1>6, <3>1 DEF ApplicationRows
    <3>3. application' = [application EXCEPT ![a] = row] /\ UNCHANGED plan
      BY <1>6, <2>2, <3>1 DEF Policy!JobChanges
    <3> QED  BY <1>1, <3>2, <3>3, ApplicationMoves
  <2>3. CASE Policy!DecideFit(a)
    <3>1. PICK row : row = [application[a] EXCEPT !.profile = world.profile,
                              !.artifacts = world.artifacts, !.sameJob = TRUE]
      OBVIOUS
    <3>2. row \in ApplicationRows
      BY <1>6, <3>1 DEF ApplicationRows, Policy!WorldHolds
    <3>3. application' = [application EXCEPT ![a] = row] /\ UNCHANGED plan
      BY <1>6, <2>3, <3>1 DEF Policy!DecideFit
    <3> QED  BY <1>1, <3>2, <3>3, ApplicationMoves
  <2>4. CASE Policy!Approve(a)
    <3>1. PICK row : row = [application[a] EXCEPT !.prepared = TRUE]  OBVIOUS
    <3>2. row \in ApplicationRows  BY <1>6, <3>1 DEF ApplicationRows
    <3>3. application' = [application EXCEPT ![a] = row] /\ UNCHANGED plan
      BY <1>6, <2>4, <3>1 DEF Policy!Approve
    <3> QED  BY <1>1, <3>2, <3>3, ApplicationMoves
  <2> QED  BY <2>1, <2>2, <2>3, <2>4
<1>8. Policy!AttemptsHold'  BY <1>1, <1>7, AttemptsLast
<1>9. Policy!QualificationHolds'  BY <1>1 DEF Policy!QualificationHolds
<1> QED  BY <1>3, <1>4, <1>5, <1>7, <1>8, <1>9

\* An inspection, whoever asked for it: what was decided is no longer on the plan.
LEMMA InspectStep ==
    ASSUME PolicySettings, Policy!PolicyInv, NEW a \in Apps, NEW c \in Contracts,
           \/ Policy!RecordDryRun(a, c) \/ Policy!OperatorInspect(a, c)
           \/ Policy!AutopilotInspect(a, c)
    PROVE  Policy!PolicyInv'
<1> USE DEF Policy!PolicyInv
<1>1. /\ UNCHANGED <<now, world, running, policy, live, canary, proved, application, attempt,
                     sends>>
      /\ Policy!Drift \/ UNCHANGED drifts
      /\ plan' = [plan EXCEPT ![a] =
            [made |-> TRUE, valid |-> TRUE, revision |-> application[a].revision,
             profile |-> application[a].profile, contract |-> c, until |-> now + PlanTTL]]
      /\ decision' = [decision EXCEPT ![a].onPlan = FALSE]
  BY DEF Policy!RecordDryRun, Policy!OperatorInspect, Policy!AutopilotInspect, Policy!PersistPlan
<1>2. now \in Nat  BY DEF Policy!WorldHolds, PolicySettings
<1>3. Policy!WorldHolds'  BY <1>1, DriftCounts
<1>4. Policy!PolicyHolds'  BY <1>1 DEF Policy!PolicyHolds
<1>5. decision \in [Apps -> DecisionRows]  BY DEF Policy!DecisionsHold, DecisionRows
<1>6. PICK made : made = [decision[a] EXCEPT !.onPlan = FALSE]  OBVIOUS
<1>7. /\ made \in DecisionRows /\ made.allowed = decision[a].allowed
      /\ made.policy = decision[a].policy /\ made.answers = decision[a].answers
      /\ made.until = decision[a].until /\ made.at = decision[a].at
  BY <1>5, <1>6 DEF DecisionRows
<1>8. decision' = [decision EXCEPT ![a] = made]  BY <1>1, <1>5, <1>6
<1>9. decision' \in [Apps -> DecisionRows] /\ decision'[a] = made
      /\ \A b \in Apps \ {a} : decision'[b] = decision[b]
  BY <1>5, <1>7, <1>8
<1>10. \A b \in Apps :
          /\ decision'[b].allowed = decision[b].allowed
          /\ decision'[b].policy = decision[b].policy
          /\ decision'[b].answers = decision[b].answers
          /\ decision'[b].until = decision[b].until /\ decision'[b].at = decision[b].at
  BY <1>7, <1>9
<1>11. Policy!DecisionsHold'  BY <1>1, <1>2, <1>9, <1>10, DecisionsLast
<1>12. PICK row : row = [made |-> TRUE, valid |-> TRUE, revision |-> application[a].revision,
                         profile |-> application[a].profile, contract |-> c,
                         until |-> now + PlanTTL]
  OBVIOUS
<1>13. application \in [Apps -> ApplicationRows] /\ plan \in [Apps -> PlanRows]
  BY DEF Policy!PlansHold, ApplicationRows, PlanRows
<1>14. row \in PlanRows /\ row.made /\ row.contract = c /\ row.until = now + PlanTTL
  <2>1. /\ application[a].revision \in Nat /\ application[a].profile \in Nat
        /\ now + PlanTTL \in Nat
    BY <1>2, <1>13 DEF ApplicationRows, PolicySettings
  <2> QED  BY <1>12, <2>1 DEF PlanRows
<1>15. plan' = [plan EXCEPT ![a] = row]  BY <1>1, <1>12
<1>16. row.until <= now + PlanTTL  BY <1>2, <1>14 DEF PolicySettings
<1>17. Policy!PlansHold'  BY <1>1, <1>13, <1>14, <1>15, <1>16, PlanMoves
<1>18. \A b \in Apps : plan[b].made => plan'[b].made  BY <1>13, <1>14, <1>15
<1>19. Policy!AttemptsHold'  BY <1>1, <1>10, <1>18, AttemptsLast
<1>20. Policy!QualificationHolds'  BY <1>1 DEF Policy!QualificationHolds
<1> QED  BY <1>3, <1>4, <1>11, <1>17, <1>19, <1>20

\* What is queued is new, of the running release.
LEMMA QueuedRow ==
    ASSUME NEW kind \in {"canary", "autopilot"}, running \in Nat,
           NEW row, row = Policy!Queued(kind)
    PROVE  row \in AttemptRows /\ row.stage = "queued" /\ row.kind = kind
<1>1. row = [stage |-> "queued", kind |-> kind, release |-> running, outcome |-> "none"]
  BY DEF Policy!Queued
<1> QED  BY <1>1 DEF AttemptRows

LEMMA ReleaseCounts ==
    ASSUME PolicySettings, Policy!WorldHolds
    PROVE  /\ now \in Nat /\ running \in Nat /\ running \in 0 .. MaxDrifts
           /\ world.answers \in Nat
<1>1. /\ world.release \in Nat /\ world.release <= drifts /\ drifts \in 0 .. MaxDrifts
      /\ running \in 0 .. world.release /\ now \in 0 .. Horizon /\ world.answers \in Nat
  BY DEF Policy!WorldHolds
<1> QED  BY <1>1 DEF PolicySettings

LEMMA CanaryStep ==
    ASSUME PolicySettings, Policy!PolicyInv, NEW a \in Apps, Policy!AuthoriseCanary(a)
    PROVE  Policy!PolicyInv'
<1> USE DEF Policy!PolicyInv
<1>1. /\ UNCHANGED <<now, world, running, drifts, policy, decision, live, proved, application,
                     plan, sends>>
      /\ attempt[a].stage = "none" /\ plan[a].made
      /\ canary' = [canary EXCEPT ![a] =
            [minted |-> TRUE, release |-> running,
             until |-> Policy!Sooner(plan[a].until, now + CanaryTTL)]]
      /\ attempt' = [attempt EXCEPT ![a] = Policy!Queued("canary")]
  BY DEF Policy!AuthoriseCanary, Policy!Admissible, Policy!PlanReady, Policy!clockVars,
     Policy!policyVars
<1>2. now \in Nat /\ running \in Nat  BY ReleaseCounts
<1>3. /\ attempt \in [Apps -> AttemptRows] /\ canary \in [Apps -> CanaryRows]
      /\ AttemptOf(attempt[a], plan[a], decision[a], canary[a], running)
  BY AttemptParts
<1>4. plan[a].until \in Nat  BY DEF Policy!PlansHold
<1>5. PICK until \in Nat : until = Policy!Sooner(plan[a].until, now + CanaryTTL)
  BY <1>2, <1>4 DEF Policy!Sooner, PolicySettings
<1>6. canary' \in [Apps -> CanaryRows] /\ canary'[a].minted
      /\ \A b \in Apps \ {a} : canary'[b] = canary[b]
  <2>1. canary' = [canary EXCEPT ![a] = [minted |-> TRUE, release |-> running, until |-> until]]
    BY <1>1, <1>5
  <2>2. [minted |-> TRUE, release |-> running, until |-> until] \in CanaryRows
    BY <1>2 DEF CanaryRows
  <2> QED  BY <1>3, <2>1, <2>2
<1>7. PICK row : row = Policy!Queued("canary")  OBVIOUS
<1>8. row \in AttemptRows /\ row.stage = "queued" /\ row.kind = "canary"
  BY <1>2, <1>7, QueuedRow
<1>9. Policy!AttemptsHold'
  <2>1. AttemptOf(row, plan'[a], decision'[a], canary'[a], running)
    BY <1>1, <1>3, <1>6, <1>8 DEF AttemptOf
  <2>2. attempt' = [attempt EXCEPT ![a] = row]  BY <1>1, <1>7
  <2> QED  BY <1>1, <1>6, <1>8, <2>1, <2>2, AttemptMoves
<1>10. Policy!WorldHolds'  BY <1>1 DEF Policy!WorldHolds
<1>11. Policy!PolicyHolds'  BY <1>1 DEF Policy!PolicyHolds
<1>12. Policy!DecisionsHold'  BY <1>1, <1>2, DecisionsSame
<1>13. Policy!PlansHold'  BY <1>1 DEF Policy!PlansHold
<1>14. Policy!QualificationHolds'  BY <1>1 DEF Policy!QualificationHolds
<1> QED  BY <1>9, <1>10, <1>11, <1>12, <1>13, <1>14

LEMMA DispatchStep ==
    ASSUME PolicySettings, Policy!PolicyInv, NEW a \in Apps, Policy!Dispatch(a)
    PROVE  Policy!PolicyInv'
<1> USE DEF Policy!PolicyInv
<1>1. /\ UNCHANGED <<now, world, running, drifts, policy, kill, live, canary, proved, plan,
                     sends>>
      /\ attempt[a].stage = "none" /\ plan[a].made
      /\ Policy!Evaluable(a) /\ ~Policy!RetryableReason(a) /\ ~Policy!ReviewReason(a)
      /\ decision' = [decision EXCEPT ![a] = Policy!Allowed]
      /\ application' = [application EXCEPT ![a].prepared = TRUE]
      /\ attempt' = [attempt EXCEPT ![a] = Policy!Queued("autopilot")]
  BY DEF Policy!Dispatch, Policy!Admissible, Policy!PlanReady, Policy!clockVars,
     Policy!qualificationVars
<1>2. now \in Nat /\ running \in Nat /\ world.answers \in Nat  BY ReleaseCounts
<1>3. /\ attempt \in [Apps -> AttemptRows] /\ canary \in [Apps -> CanaryRows]
      /\ AttemptOf(attempt[a], plan[a], decision[a], canary[a], running)
  BY AttemptParts
<1>4. Policy!DecisionsHold'  BY <1>1, <1>2, DecisionMade
<1>5. decision'[a].allowed /\ \A b \in Apps \ {a} : decision'[b] = decision[b]
  <2>1. decision \in [Apps -> DecisionRows]  BY DEF Policy!DecisionsHold, DecisionRows
  <2>2. Policy!Allowed.allowed  BY DEF Policy!Allowed
  <2> QED  BY <1>1, <2>1, <2>2
<1>6. PICK row : row = Policy!Queued("autopilot")  OBVIOUS
<1>7. row \in AttemptRows /\ row.stage = "queued" /\ row.kind = "autopilot"
  BY <1>2, <1>6, QueuedRow
<1>8. Policy!AttemptsHold'
  <2>1. AttemptOf(row, plan'[a], decision'[a], canary'[a], running)
    BY <1>1, <1>3, <1>5, <1>7 DEF AttemptOf
  <2>2. attempt' = [attempt EXCEPT ![a] = row]  BY <1>1, <1>6
  <2>3. canary' \in [Apps -> CanaryRows] /\ UNCHANGED <<running, canary, plan>>
    BY <1>1, <1>3
  <2>4. \A b \in Apps \ {a} : decision'[b].allowed = decision[b].allowed  BY <1>5
  <2> QED  BY <1>7, <2>1, <2>2, <2>3, <2>4, AttemptMoves
<1>9. Policy!PlansHold'
  <2>1. application \in [Apps -> ApplicationRows] /\ application[a] \in ApplicationRows
    BY DEF Policy!PlansHold, ApplicationRows
  <2>2. PICK after : after = [application[a] EXCEPT !.prepared = TRUE]  OBVIOUS
  <2>3. after \in ApplicationRows  BY <2>1, <2>2 DEF ApplicationRows
  <2>4. application' = [application EXCEPT ![a] = after]  BY <1>1, <2>1, <2>2
  <2> QED  BY <1>1, <2>3, <2>4, ApplicationMoves
<1>10. Policy!WorldHolds'  BY <1>1 DEF Policy!WorldHolds
<1>11. Policy!PolicyHolds'  BY <1>1 DEF Policy!PolicyHolds
<1>12. Policy!QualificationHolds'  BY <1>1 DEF Policy!QualificationHolds
<1> QED  BY <1>4, <1>8, <1>9, <1>10, <1>11, <1>12

\* A final action of the autopilot is on what an employer confirmed.
LEMMA BoundaryStep ==
    ASSUME PolicySettings, Policy!PolicyInv, NEW a \in Apps,
           Policy!CrossBoundary(a) \/ Policy!RefuseBoundary(a)
    PROVE  Policy!PolicyInv'
<1> USE DEF Policy!PolicyInv
<1>1. /\ UNCHANGED <<now, world, running, drifts, policy, decision, live, canary, proved, plan>>
      /\ attempt[a].stage = "queued"
  BY DEF Policy!CrossBoundary, Policy!RefuseBoundary, Policy!clockVars, Policy!policyVars,
     Policy!qualificationVars
<1>2. now \in Nat  BY ReleaseCounts
<1>3. /\ attempt \in [Apps -> AttemptRows] /\ canary \in [Apps -> CanaryRows]
      /\ AttemptOf(attempt[a], plan[a], decision[a], canary[a], running)
  BY AttemptParts
<1>4. PICK old \in AttemptRows : old = attempt[a]  BY <1>3
<1>5. Policy!AttemptsHold' /\ Policy!PlansHold' /\ sends' \subseteq proved
  <2>1. CASE Policy!CrossBoundary(a)
    <3>1. Policy!Authorised(a) /\ UNCHANGED application  BY <2>1 DEF Policy!CrossBoundary
    <3>2. PICK row : row = [old EXCEPT !.stage = "committing"]  OBVIOUS
    <3>3. /\ row \in AttemptRows /\ row.stage = "committing" /\ row.kind = old.kind
          /\ row.release = old.release
      BY <3>2 DEF AttemptRows
    <3>4. attempt' = [attempt EXCEPT ![a] = row]
      BY <1>3, <1>4, <2>1, <3>2 DEF Policy!CrossBoundary
    <3>5. old.release = running  BY <1>4, <3>1 DEF Policy!Authorised
    <3>6. AttemptOf(row, plan'[a], decision'[a], canary'[a], running)
      BY <1>1, <1>3, <1>4, <3>3, <3>5 DEF AttemptOf
    <3>7. canary' \in [Apps -> CanaryRows]  BY <1>1, <1>3
    <3>8. Policy!AttemptsHold'  BY <1>1, <3>3, <3>4, <3>6, <3>7, AttemptMoves
    <3>9. Policy!PlansHold'  BY <1>1, <3>1 DEF Policy!PlansHold
    <3>10. attempt[a].kind = "autopilot" => <<plan[a].contract, running>> \in live
      BY <3>1 DEF Policy!Authorised, Policy!DecisionValid, Policy!ScopeQualified
    <3>11. sends' \subseteq proved
      BY <2>1, <3>10 DEF Policy!CrossBoundary, Policy!QualificationHolds
    <3> QED  BY <3>8, <3>9, <3>11
  <2>2. CASE Policy!RefuseBoundary(a)
    <3>1. PICK row : row = [old EXCEPT !.stage = "finished", !.outcome = "failed"]  OBVIOUS
    <3>2. row \in AttemptRows /\ row.stage = "finished" /\ row.kind = old.kind
      BY <3>1 DEF AttemptRows
    <3>3. attempt' = [attempt EXCEPT ![a] = row]
      BY <1>3, <1>4, <2>2, <3>1 DEF Policy!RefuseBoundary
    <3>4. AttemptOf(row, plan'[a], decision'[a], canary'[a], running)
      BY <1>1, <1>3, <1>4, <3>2 DEF AttemptOf
    <3>5. canary' \in [Apps -> CanaryRows]  BY <1>1, <1>3
    <3>6. Policy!AttemptsHold'  BY <1>1, <3>2, <3>3, <3>4, <3>5, AttemptMoves
    <3>7. application \in [Apps -> ApplicationRows] /\ application[a] \in ApplicationRows
      BY DEF Policy!PlansHold, ApplicationRows
    <3>8. PICK after : after = [application[a] EXCEPT !.draft = FALSE]  OBVIOUS
    <3>9. after \in ApplicationRows  BY <3>7, <3>8 DEF ApplicationRows
    <3>10. application' = [application EXCEPT ![a] = after]
      BY <2>2, <3>7, <3>8 DEF Policy!RefuseBoundary
    <3>11. Policy!PlansHold'  BY <1>1, <3>9, <3>10, ApplicationMoves
    <3>12. sends' \subseteq proved
      BY <2>2 DEF Policy!RefuseBoundary, Policy!QualificationHolds
    <3> QED  BY <3>6, <3>11, <3>12
  <2> QED  BY <2>1, <2>2
<1>6. Policy!WorldHolds'  BY <1>1 DEF Policy!WorldHolds
<1>7. Policy!PolicyHolds'  BY <1>1 DEF Policy!PolicyHolds
<1>8. Policy!DecisionsHold'  BY <1>1, <1>2, DecisionsSame
<1>9. Policy!QualificationHolds'  BY <1>1, <1>5 DEF Policy!QualificationHolds
<1> QED  BY <1>5, <1>6, <1>7, <1>8, <1>9

\* A confirmed canary qualifies its contract, for the release that sent it.
LEMMA FinishStep ==
    ASSUME PolicySettings, Policy!PolicyInv, NEW a \in Apps,
           NEW outcome \in {"confirmed", "unknown"}, Policy!Finish(a, outcome)
    PROVE  Policy!PolicyInv'
<1> USE DEF Policy!PolicyInv
<1>1. /\ UNCHANGED <<now, world, running, drifts, policy, decision, canary, plan, sends>>
      /\ attempt[a].stage = "committing"
      /\ attempt' = [attempt EXCEPT ![a].stage = "finished", ![a].outcome = outcome]
      /\ application' = [application EXCEPT ![a].draft = FALSE]
  BY DEF Policy!Finish, Policy!clockVars, Policy!policyVars
<1>2. now \in Nat /\ running \in 0 .. MaxDrifts  BY ReleaseCounts
<1>3. /\ attempt \in [Apps -> AttemptRows] /\ canary \in [Apps -> CanaryRows]
      /\ AttemptOf(attempt[a], plan[a], decision[a], canary[a], running)
  BY AttemptParts
<1>4. PICK old \in AttemptRows : old = attempt[a]  BY <1>3
<1>5. PICK row : row = [old EXCEPT !.stage = "finished", !.outcome = outcome]  OBVIOUS
<1>6. row \in AttemptRows /\ row.stage = "finished" /\ row.kind = old.kind
  BY <1>5 DEF AttemptRows
<1>7. Policy!AttemptsHold'
  <2>1. attempt' = [attempt EXCEPT ![a] = row]  BY <1>1, <1>3, <1>4, <1>5
  <2>2. AttemptOf(row, plan'[a], decision'[a], canary'[a], running)
    BY <1>1, <1>3, <1>4, <1>6 DEF AttemptOf
  <2>3. canary' \in [Apps -> CanaryRows]  BY <1>1, <1>3
  <2> QED  BY <1>1, <1>6, <2>1, <2>2, <2>3, AttemptMoves
<1>8. Policy!PlansHold'
  <2>1. application \in [Apps -> ApplicationRows] /\ application[a] \in ApplicationRows
    BY DEF Policy!PlansHold, ApplicationRows
  <2>2. PICK after : after = [application[a] EXCEPT !.draft = FALSE]  OBVIOUS
  <2>3. after \in ApplicationRows  BY <2>1, <2>2 DEF ApplicationRows
  <2>4. application' = [application EXCEPT ![a] = after]  BY <1>1, <2>1, <2>2
  <2> QED  BY <1>1, <2>3, <2>4, ApplicationMoves
<1>9. Policy!QualificationHolds'
  <2>1. /\ plan[a].contract \in Contracts /\ attempt[a].release = running
    BY <1>1, <1>3 DEF AttemptOf, Policy!PlansHold
  <2>2. /\ live' \subseteq live \cup {<<plan[a].contract, running>>}
        /\ Policy!Promotes(a, outcome) \/ live' = live
        /\ proved \subseteq proved'
        /\ attempt[a].kind = "canary" /\ outcome = "confirmed" =>
              <<plan[a].contract, running>> \in proved'
    BY <2>1 DEF Policy!Finish
  <2>3. live' \subseteq proved'
    BY <2>2 DEF Policy!Promotes, Policy!QualificationHolds
  <2>4. live' \subseteq Contracts \X (0 .. MaxDrifts)
    BY <1>2, <2>1, <2>2 DEF Policy!QualificationHolds
  <2> QED  BY <1>1, <2>2, <2>3, <2>4 DEF Policy!QualificationHolds
<1>10. Policy!WorldHolds'  BY <1>1 DEF Policy!WorldHolds
<1>11. Policy!PolicyHolds'  BY <1>1 DEF Policy!PolicyHolds
<1>12. Policy!DecisionsHold'  BY <1>1, <1>2, DecisionsSame
<1> QED  BY <1>7, <1>8, <1>9, <1>10, <1>11, <1>12

\* Every step keeps the invariant, stuttering included.
LEMMA PolicyStep ==
    ASSUME PolicySettings, Policy!PolicyInv, [Policy!Next]_Policy!vars
    PROVE  Policy!PolicyInv'
<1>1. CASE UNCHANGED Policy!vars
  <2>1. UNCHANGED <<now, world, running, drifts, policy, kill, decision, dryRun, live, canary,
                    proved, application, plan, attempt, sends>>
    BY <1>1 DEF Policy!vars, Policy!clockVars, Policy!policyVars, Policy!qualificationVars,
       Policy!rowVars
  <2>2. now \in Nat  BY ReleaseCounts DEF Policy!PolicyInv
  <2>3. Policy!DecisionsHold'  BY <2>1, <2>2, DecisionsSame DEF Policy!PolicyInv
  <2>4. Policy!AttemptsHold'  BY <2>1, AttemptsLast DEF Policy!PolicyInv
  <2> QED
    BY <2>1, <2>3, <2>4 DEF Policy!PolicyInv, Policy!WorldHolds, Policy!PolicyHolds,
       Policy!PlansHold, Policy!QualificationHolds
<1>2. CASE Policy!Tick  BY <1>2, TickStep
<1>3. CASE Policy!Restart  BY <1>3, RestartStep
<1>4. CASE Policy!Revoke  BY <1>4, RevokeStep
<1>5. CASE Policy!SwitchKill \/ Policy!RemoteKill
             \/ \E b \in DOMAIN world : Policy!WorldChanges(b)
  BY <1>5, WorldStep
<1>6. CASE \E scope \in SUBSET Contracts, limits \in LimitChoices :
             Policy!Activate(scope, limits)
  BY <1>6, ActivateStep
<1>7. ASSUME NEW a \in Apps,
             \/ Policy!EditApplication(a) \/ Policy!JobChanges(a)
             \/ Policy!DecideFit(a) \/ Policy!Approve(a)
      PROVE  Policy!PolicyInv'
  BY <1>7, ApplicationStep
<1>8. ASSUME NEW a \in Apps, Policy!AuthoriseCanary(a) \/ Policy!Dispatch(a)
      PROVE  Policy!PolicyInv'
  BY <1>8, CanaryStep, DispatchStep
<1>9. ASSUME NEW a \in Apps, Policy!CrossBoundary(a) \/ Policy!RefuseBoundary(a)
      PROVE  Policy!PolicyInv'
  BY <1>9, BoundaryStep
<1>10. ASSUME NEW a \in Apps, NEW o \in {"confirmed", "unknown"}, Policy!Finish(a, o)
       PROVE  Policy!PolicyInv'
  BY <1>10, FinishStep
<1>11. ASSUME NEW a \in Apps, NEW c \in Contracts,
              \/ Policy!RecordDryRun(a, c) \/ Policy!OperatorInspect(a, c)
              \/ Policy!AutopilotInspect(a, c)
       PROVE  Policy!PolicyInv'
  BY <1>11, InspectStep
<1> QED
  BY <1>1, <1>2, <1>3, <1>4, <1>5, <1>6, <1>7, <1>8, <1>9, <1>10, <1>11 DEF Policy!Next

LEMMA PolicyBegins ==
    ASSUME PolicySettings, Policy!Init  PROVE Policy!PolicyInv
<1>1. /\ now = 0 /\ drifts \in 0 .. MaxDrifts /\ running = 0
      /\ world = [profile |-> 0, artifacts |-> 0, answers |-> 0, release |-> 0]
      /\ policy = Policy!NoPolicy
      /\ live \subseteq Contracts \X {0} /\ proved = live /\ sends = {}
      /\ application = [a \in Apps |->
            [revision |-> 1, draft |-> TRUE, prepared |-> FALSE, profile |-> 0, artifacts |-> 0,
             sameJob |-> TRUE]]
      /\ plan = [a \in Apps |-> Policy!NoPlan]
      /\ decision = [a \in Apps |-> Policy!NoDecision]
      /\ canary = [a \in Apps |-> Policy!NoCanary]
      /\ attempt = [a \in Apps |-> Policy!NoAttempt]
  <2>1. PICK s \in Starts : live = s.qualified \X {0} /\ drifts = s.drifts
    BY DEF Policy!Init, Policy!StateInit
  <2>2. s.qualified \subseteq Contracts /\ s.drifts \in 0 .. MaxDrifts
    BY <2>1 DEF PolicySettings
  <2>3. live \subseteq Contracts \X {0}
    <3>1. ASSUME NEW x \in live  PROVE x \in Contracts \X {0}  BY <2>1, <2>2
    <3> QED  BY <3>1
  <2> QED  BY <2>1, <2>2, <2>3 DEF Policy!Init, Policy!StateInit
<1>2. Policy!WorldHolds
  BY <1>1 DEF Policy!WorldHolds, PolicySettings
<1>3. Policy!PolicyHolds  BY <1>1 DEF Policy!PolicyHolds, Policy!NoPolicy
<1>4. /\ decision \in [Apps -> DecisionRows]
      /\ \A a \in Apps : /\ ~decision[a].allowed /\ decision[a].policy = 0
                        /\ decision[a].until = 0 /\ decision[a].at = 0
  <2>1. /\ Policy!NoDecision \in DecisionRows /\ ~Policy!NoDecision.allowed
        /\ Policy!NoDecision.policy = 0 /\ Policy!NoDecision.until = 0
        /\ Policy!NoDecision.at = 0
    BY DEF Policy!NoDecision, DecisionRows
  <2> QED  BY <1>1, <2>1
<1>5. Policy!DecisionsHold
  <2>1. policy.revision = 0  BY <1>1 DEF Policy!NoPolicy
  <2>2. Policy!LimitsHold  BY <1>4 DEF Policy!LimitsHold
  <2> QED  BY <1>1, <1>4, <2>1, <2>2 DEF Policy!DecisionsHold, DecisionRows
<1>6. /\ plan \in [Apps -> PlanRows]
      /\ \A a \in Apps : ~plan[a].made /\ plan[a].until = 0
  <2>1. Policy!NoPlan \in PlanRows /\ ~Policy!NoPlan.made /\ Policy!NoPlan.until = 0
    BY DEF Policy!NoPlan, PlanRows
  <2> QED  BY <1>1, <2>1
<1>7. Policy!PlansHold
  <2>1. 0 <= now + PlanTTL  BY <1>1 DEF PolicySettings
  <2>2. application \in [Apps -> ApplicationRows]  BY <1>1 DEF ApplicationRows
  <2> QED  BY <1>6, <2>1, <2>2 DEF Policy!PlansHold, PlanRows, ApplicationRows
<1>8. Policy!AttemptsHold
  <2>1. /\ attempt \in [Apps -> AttemptRows]
        /\ \A a \in Apps : attempt[a].stage = "none" /\ attempt[a].kind = "none"
    <3>1. /\ Policy!NoAttempt \in AttemptRows /\ Policy!NoAttempt.stage = "none"
          /\ Policy!NoAttempt.kind = "none"
      BY DEF Policy!NoAttempt, AttemptRows
    <3> QED  BY <1>1, <3>1
  <2>2. canary \in [Apps -> CanaryRows] /\ \A a \in Apps : ~canary[a].minted
    <3>1. Policy!NoCanary \in CanaryRows /\ ~Policy!NoCanary.minted
      BY DEF Policy!NoCanary, CanaryRows
    <3> QED  BY <1>1, <3>1
  <2>3. ASSUME NEW a \in Apps
        PROVE  AttemptOf(attempt[a], plan[a], decision[a], canary[a], running)
    BY <1>4, <2>1, <2>2 DEF AttemptOf
  <2> QED  BY <2>1, <2>2, <2>3, AttemptParts
<1>9. Policy!QualificationHolds
  <2>1. 0 \in 0 .. MaxDrifts  BY DEF PolicySettings
  <2> QED  BY <1>1, <2>1 DEF Policy!QualificationHolds, PolicySettings
<1> QED  BY <1>2, <1>3, <1>5, <1>7, <1>8, <1>9 DEF Policy!PolicyInv

LEMMA AuthorityFollows ==
    ASSUME PolicySettings, Policy!PolicyInv  PROVE Policy!AuthorityIsEarned
<1> USE DEF Policy!PolicyInv
<1>1. Policy!PolicyTypeOK
  <2>1. live \subseteq Contracts \X (0 .. MaxDrifts)  BY DEF Policy!QualificationHolds
  <2>2. /\ now \in 0 .. Horizon /\ running \in 0 .. world.release
        /\ policy.scope \subseteq Contracts
        /\ policy.active => policy.limits \in LimitChoices
    BY DEF Policy!WorldHolds, Policy!PolicyHolds
  <2>3. ASSUME NEW a \in Apps
        PROVE  /\ decision[a].policy <= policy.revision /\ decision[a].at <= now
               /\ decision[a].allowed <=> attempt[a].kind = "autopilot"
               /\ canary[a].minted <=> attempt[a].kind = "canary"
               /\ plan[a].until <= now + PlanTTL
    <3>1. /\ decision[a].policy <= policy.revision /\ decision[a].at <= now
          /\ plan[a].until <= now + PlanTTL
      BY DEF Policy!DecisionsHold, Policy!PlansHold
    <3>2. decision[a].allowed <=> attempt[a].kind = "autopilot"
      BY AttemptParts DEF AttemptOf
    <3>3. canary[a].minted <=> attempt[a].kind = "canary"
      BY AttemptParts DEF AttemptOf
    <3> QED  BY <3>1, <3>2, <3>3
  <2> QED  BY <2>1, <2>2, <2>3 DEF Policy!PolicyTypeOK
<1>2. Policy!LimitsHold  BY DEF Policy!DecisionsHold
<1>3. Policy!AuthorityInsideHours
  <2>1. now \in Nat /\ Policy!DayStart \in Nat /\ ActiveTicks \in Nat
    BY ReleaseCounts, DayMoves DEF PolicySettings
  <2>2. ASSUME NEW a \in Apps, now < decision[a].until
        PROVE  /\ Policy!InActiveHours
               /\ decision[a].policy = policy.revision => decision[a].until <= policy.until
    <3>1. /\ decision[a].until \in Nat /\ decision[a].until <= Policy!DayStart + ActiveTicks
          /\ decision[a].policy = policy.revision => decision[a].until <= policy.until
      BY <2>2 DEF Policy!DecisionsHold
    <3> QED  BY <2>1, <2>2, <3>1 DEF Policy!InActiveHours
  <2> QED  BY <2>2 DEF Policy!AuthorityInsideHours
<1>4. Policy!QualifiedByEmployer  BY DEF Policy!QualificationHolds, Policy!QualifiedByEmployer
<1> QED  BY <1>1, <1>2, <1>3, <1>4 DEF Policy!AuthorityIsEarned

\* Limits hold over every window at the moment of each decision, under whatever policies
\* decisions were made; authority ends with the active hours and with its policy; and the
\* autopilot acts only on what an employer confirmed to this release (AutomationPolicy:
\* evaluate_auto_submit_policy, record_live_canary_confirmation).
THEOREM PolicyIsBounded ==
    ASSUME PolicySettings
    PROVE  Policy!Spec => []Policy!AuthorityIsEarned
<1>1. Policy!Init => Policy!PolicyInv  BY PolicyBegins
<1>2. Policy!PolicyInv /\ [Policy!Next]_Policy!vars => Policy!PolicyInv'  BY PolicyStep
<1>3. Policy!PolicyInv => Policy!AuthorityIsEarned  BY AuthorityFollows
<1> QED  BY <1>1, <1>2, <1>3, PTL DEF Policy!Spec

\* Only the boundary check brings an attempt from the queue to its final action.
LEMMA BoundaryOnly ==
    ASSUME PolicySettings, Policy!PolicyInv, [Policy!Next]_Policy!vars, NEW a \in Apps,
           attempt[a].stage = "queued", attempt'[a].stage = "committing"
    PROVE  Policy!CrossBoundary(a)
<1>1. attempt \in [Apps -> AttemptRows]  BY AttemptParts DEF Policy!PolicyInv
<1>2. attempt' # attempt  OBVIOUS
<1>3. ~Policy!Restart
  <2>1. Policy!Restart => attempt'[a] = attempt[a]  BY DEF Policy!Restart
  <2> QED  BY <2>1
<1>4. ASSUME NEW b \in Apps, NEW kind, attempt' = [attempt EXCEPT ![b] = Policy!Queued(kind)]
      PROVE  FALSE
  <2>1. Policy!Queued(kind).stage = "queued"  BY DEF Policy!Queued
  <2>2. CASE b = a  BY <1>1, <1>4, <2>1, <2>2
  <2>3. CASE b # a  BY <1>1, <1>4, <2>3
  <2> QED  BY <2>2, <2>3
<1>5. ASSUME NEW b \in Apps, NEW o,
             attempt' = [attempt EXCEPT ![b].stage = "finished", ![b].outcome = o]
      PROVE  FALSE
  <2>1. CASE b = a  BY <1>1, <1>5, <2>1 DEF AttemptRows
  <2>2. CASE b # a  BY <1>1, <1>5, <2>2
  <2> QED  BY <2>1, <2>2
<1>6. ASSUME NEW b \in Apps, Policy!CrossBoundary(b)  PROVE b = a
  <2>1. attempt' = [attempt EXCEPT ![b].stage = "committing"]  BY <1>6 DEF Policy!CrossBoundary
  <2> QED  BY <1>1, <2>1
<1>7. ~UNCHANGED attempt  BY <1>2
<1>8. PICK b \in Apps : \/ Policy!AuthoriseCanary(b) \/ Policy!Dispatch(b)
                       \/ Policy!CrossBoundary(b) \/ Policy!RefuseBoundary(b)
                       \/ \E o \in {"confirmed", "unknown"} : Policy!Finish(b, o)
  <2>1. ~UNCHANGED Policy!vars /\ ~UNCHANGED Policy!rowVars
    BY <1>7 DEF Policy!vars, Policy!rowVars
  <2>2. ~Policy!Tick /\ ~Policy!Revoke /\ ~Policy!SwitchKill /\ ~Policy!RemoteKill
    BY <2>1 DEF Policy!Tick, Policy!Revoke, Policy!SwitchKill, Policy!RemoteKill
  <2>3. \A b \in DOMAIN world : ~Policy!WorldChanges(b)  BY <2>1 DEF Policy!WorldChanges
  <2>4. \A scope \in SUBSET Contracts, limits \in LimitChoices :
          ~Policy!Activate(scope, limits)
    BY <2>1 DEF Policy!Activate
  <2>5. \A b \in Apps : /\ ~Policy!EditApplication(b) /\ ~Policy!JobChanges(b)
                       /\ ~Policy!DecideFit(b) /\ ~Policy!Approve(b)
    BY <1>7 DEF Policy!EditApplication, Policy!JobChanges, Policy!DecideFit, Policy!Approve
  <2>6. \A b \in Apps, c \in Contracts :
          /\ ~Policy!RecordDryRun(b, c) /\ ~Policy!OperatorInspect(b, c)
          /\ ~Policy!AutopilotInspect(b, c)
    BY <1>7 DEF Policy!RecordDryRun, Policy!OperatorInspect, Policy!AutopilotInspect
  <2> QED  BY <1>3, <2>1, <2>2, <2>3, <2>4, <2>5, <2>6 DEF Policy!Next
<1>9. CASE Policy!AuthoriseCanary(b) \/ Policy!Dispatch(b)
  BY <1>4, <1>9 DEF Policy!AuthoriseCanary, Policy!Dispatch
<1>10. CASE Policy!RefuseBoundary(b)  BY <1>5, <1>10 DEF Policy!RefuseBoundary
<1>11. CASE \E o \in {"confirmed", "unknown"} : Policy!Finish(b, o)
  BY <1>5, <1>11 DEF Policy!Finish
<1>12. CASE Policy!CrossBoundary(b)  BY <1>6, <1>12
<1> QED  BY <1>8, <1>9, <1>10, <1>11, <1>12

\* Nothing crosses the boundary for the autopilot under a kill switch, for a policy that is
\* no longer the signed one, or for answers, CVs or a profile it was not signed for
\* (AutomationPolicy: validate_current_automation_decision).
THEOREM BoundaryRefuses ==
    ASSUME PolicySettings
    PROVE  Policy!Spec => Policy!StopsReachTheBoundary
<1>1. Policy!Init => Policy!PolicyInv  BY PolicyBegins
<1>2. Policy!PolicyInv /\ [Policy!Next]_Policy!vars => Policy!PolicyInv'  BY PolicyStep
<1>3. Policy!PolicyInv /\ [Policy!Next]_Policy!vars => [Policy!StoppedSendRefused]_Policy!vars
  <2> SUFFICES ASSUME Policy!PolicyInv, [Policy!Next]_Policy!vars, NEW a \in Apps,
                      attempt[a].kind = "autopilot", attempt[a].stage = "queued",
                      attempt'[a].stage = "committing"
               PROVE  /\ ~kill.active
                      /\ policy.active /\ decision[a].policy = policy.revision
                      /\ <<world.profile, world.artifacts, world.answers>>
                           = <<policy.profile, policy.artifacts, policy.answers>>
    BY DEF Policy!StoppedSendRefused
  <2>1. Policy!CrossBoundary(a)  BY BoundaryOnly
  <2>2. Policy!DecisionValid(a)  BY <2>1 DEF Policy!CrossBoundary, Policy!Authorised
  <2>3. decision[a].answers = policy.answers
    BY <2>2 DEF Policy!DecisionValid, Policy!PolicyInv, Policy!DecisionsHold
  <2> QED  BY <2>2, <2>3 DEF Policy!DecisionValid, Policy!PolicyCurrent, Policy!BindingsCurrent
<1> QED  BY <1>1, <1>2, <1>3, PTL DEF Policy!Spec, Policy!StopsReachTheBoundary

----------------------------------------------------------------------------
(* The private copies of a policy's artifacts (ArtifactSnapshot).          *)

MakerRows == [at : {"idle", "copy", "ready", "refused"}, staging : [Files -> Nat]]

\* One process goes on; it is ready only with a snapshot that is there.
LEMMA MakerMoves ==
    ASSUME Snapshot!SnapshotInv, NEW m \in Makers, NEW row \in MakerRows,
           maker' = [maker EXCEPT ![m] = row], original' = original, signed' = signed,
           snapshot' = snapshot, row.at = "ready" => snapshot.present
    PROVE  Snapshot!SnapshotInv'
  BY DEF Snapshot!SnapshotInv, Snapshot!SnapshotIsSigned, MakerRows

LEMMA NothingStaged == Snapshot!Missing \in [Files -> Nat] /\ Snapshot!Resting \in MakerRows
                       /\ Snapshot!Resting.at = "idle"
  BY DEF Snapshot!Missing, Snapshot!Resting, MakerRows

LEMMA PublishStep ==
    ASSUME Snapshot!SnapshotInv, NEW m \in Makers, Snapshot!Publish(m)
    PROVE  Snapshot!SnapshotInv'
<1>1. maker \in [Makers -> MakerRows] /\ snapshot.present \in BOOLEAN
      /\ UNCHANGED <<original, signed>> /\ Snapshot!Missing \in [Files -> Nat]
  BY NothingStaged DEF Snapshot!SnapshotInv, MakerRows, Snapshot!Publish
<1>2. CASE ~Snapshot!Exact(maker[m].staging)
  <2>1. [at |-> "refused", staging |-> Snapshot!Missing] \in MakerRows  BY <1>1 DEF MakerRows
  <2>2. /\ maker' = [maker EXCEPT ![m] = [at |-> "refused", staging |-> Snapshot!Missing]]
        /\ snapshot' = snapshot
    BY <1>2 DEF Snapshot!Publish
  <2> QED  BY <1>1, <2>1, <2>2, MakerMoves
<1>3. CASE Snapshot!Exact(maker[m].staging)
  <2>1. /\ snapshot' = IF snapshot.present THEN snapshot
                      ELSE [present |-> TRUE, files |-> maker[m].staging]
        /\ maker' = [maker EXCEPT ![m] =
              [at |-> IF Snapshot!Exact(snapshot'.files) THEN "ready" ELSE "refused",
               staging |-> Snapshot!Missing]]
    BY <1>3 DEF Snapshot!Publish, Snapshot!Exact
  <2>2. snapshot'.present /\ snapshot'.files = signed'
    BY <1>1, <1>3, <2>1 DEF Snapshot!SnapshotInv, Snapshot!SnapshotIsSigned, Snapshot!Exact
  <2>3. PICK row \in MakerRows : maker' = [maker EXCEPT ![m] = row]
    <3>1. PICK at \in {"ready", "refused"} :
             at = IF Snapshot!Exact(snapshot'.files) THEN "ready" ELSE "refused"
      OBVIOUS
    <3>2. [at |-> at, staging |-> Snapshot!Missing] \in MakerRows  BY <1>1 DEF MakerRows
    <3> QED  BY <2>1, <3>1, <3>2
  <2>4. maker' \in [Makers -> MakerRows]  BY <1>1, <2>3
  <2>5. snapshot'.present \in BOOLEAN  BY <1>1, <2>1
  <2> QED
    BY <1>1, <2>2, <2>4, <2>5 DEF Snapshot!SnapshotInv, Snapshot!SnapshotIsSigned, MakerRows
<1> QED  BY <1>2, <1>3

\* From the rename on the copy is whole and exactly what was signed, whatever was replaced
\* or whoever died while it was made (ArtifactSnapshot: materialize_policy_artifact_snapshot).
THEOREM SnapshotIsExact == Snapshot!Spec => []Snapshot!SnapshotIsSigned
<1>1. Snapshot!Init => Snapshot!SnapshotInv
  <2> SUFFICES ASSUME Snapshot!Init PROVE Snapshot!SnapshotInv  OBVIOUS
  <2>1. /\ original = [f \in Files |-> 1] /\ snapshot.present = FALSE
        /\ maker = [m \in Makers |-> Snapshot!Resting]
    BY DEF Snapshot!Init
  <2>2. maker \in [Makers -> MakerRows] /\ \A m \in Makers : maker[m].at = "idle"
    BY <2>1, NothingStaged
  <2> QED  BY <2>1, <2>2 DEF Snapshot!SnapshotInv, Snapshot!SnapshotIsSigned, MakerRows
<1>2. Snapshot!SnapshotInv /\ [Snapshot!Next]_Snapshot!vars => Snapshot!SnapshotInv'
  <2> SUFFICES ASSUME Snapshot!SnapshotInv, [Snapshot!Next]_Snapshot!vars
               PROVE  Snapshot!SnapshotInv'
    OBVIOUS
  <2>1. original \in [Files -> Nat] /\ maker \in [Makers -> MakerRows]
    BY DEF Snapshot!SnapshotInv, MakerRows
  <2>2. CASE UNCHANGED Snapshot!vars
    BY <2>2 DEF Snapshot!vars, Snapshot!SnapshotInv, Snapshot!SnapshotIsSigned
  <2>3. ASSUME NEW f \in Files, Snapshot!Replace(f)  PROVE Snapshot!SnapshotInv'
    <3>1. original[f] + 1 \in Nat  BY <2>1
    <3>2. original' \in [Files -> Nat] /\ UNCHANGED <<signed, snapshot, maker>>
      BY <2>1, <2>3, <3>1 DEF Snapshot!Replace
    <3> QED  BY <3>2 DEF Snapshot!SnapshotInv, Snapshot!SnapshotIsSigned
  <2>4. ASSUME NEW m \in Makers, Snapshot!Begin(m)  PROVE Snapshot!SnapshotInv'
    <3>1. PICK at \in {"copy", "ready", "refused"} :
             /\ maker' = [maker EXCEPT ![m].at = at]
             /\ at = "ready" => snapshot.present
      BY <2>4 DEF Snapshot!Begin
    <3>2. PICK row : row = [maker[m] EXCEPT !.at = at]  OBVIOUS
    <3>3. row \in MakerRows /\ row.at = at  BY <2>1, <3>2 DEF MakerRows
    <3>4. maker' = [maker EXCEPT ![m] = row]  BY <2>1, <3>1, <3>2
    <3> QED  BY <2>4, <3>1, <3>3, <3>4, MakerMoves DEF Snapshot!Begin
  <2>5. ASSUME NEW m \in Makers, NEW f \in Files, Snapshot!Copy(m, f)
        PROVE  Snapshot!SnapshotInv'
    <3>1. PICK staging \in [Files -> Nat] :
             staging = [maker[m].staging EXCEPT ![f] = original[f]]
      BY <2>1 DEF MakerRows
    <3>2. PICK row \in MakerRows : /\ maker' = [maker EXCEPT ![m] = row]
                                  /\ row.at \in {"refused", "copy"}
      <4>1. CASE f \in CVs /\ original[f] # signed[f]
        <5>1. PICK row : row = [at |-> "refused", staging |-> Snapshot!Missing]  OBVIOUS
        <5>2. row \in MakerRows /\ row.at = "refused"  BY <5>1, NothingStaged DEF MakerRows
        <5> QED  BY <2>5, <4>1, <5>1, <5>2 DEF Snapshot!Copy
      <4>2. CASE ~(f \in CVs /\ original[f] # signed[f])
        <5>1. PICK row : row = [maker[m] EXCEPT !.staging[f] = original[f]]  OBVIOUS
        <5>2. row = [maker[m] EXCEPT !.staging = staging]  BY <2>1, <3>1, <5>1 DEF MakerRows
        <5>3. row \in MakerRows /\ row.at = "copy"
          BY <2>1, <2>5, <5>2 DEF MakerRows, Snapshot!Copy
        <5>4. maker' = [maker EXCEPT ![m] = row]
          BY <2>1, <2>5, <4>2, <5>1 DEF Snapshot!Copy
        <5> QED  BY <5>3, <5>4
      <4> QED  BY <4>1, <4>2
    <3> QED  BY <2>5, <3>2, MakerMoves DEF Snapshot!Copy
  <2>6. ASSUME NEW m \in Makers, Snapshot!Crash(m) \/ Snapshot!Retry(m)
                                   \/ \E f \in Files : Snapshot!Resolve(m, f)
        PROVE  Snapshot!SnapshotInv'
    <3>1. maker' = [maker EXCEPT ![m] = Snapshot!Resting]
          /\ UNCHANGED <<original, signed, snapshot>>
      BY <2>6 DEF Snapshot!Crash, Snapshot!Retry, Snapshot!Resolve
    <3> QED  BY <3>1, NothingStaged, MakerMoves
  <2>7. ASSUME NEW m \in Makers, Snapshot!Publish(m)  PROVE Snapshot!SnapshotInv'
    BY <2>7, PublishStep
  <2> QED  BY <2>2, <2>3, <2>4, <2>5, <2>6, <2>7 DEF Snapshot!Next
<1>3. Snapshot!SnapshotInv => Snapshot!SnapshotIsSigned  BY DEF Snapshot!SnapshotInv
<1> QED  BY <1>1, <1>2, <1>3, PTL DEF Snapshot!Spec

----------------------------------------------------------------------------
(* What the runs check of the whole (Autopilot).                           *)

\* A behaviour stays with the part it is about.
LEMMA FocusStays == [Next]_vars => UNCHANGED focus
  BY DEF Next, vars

\* A worker whose lease went to a successor writes nothing over it, and the autopilot
\* queues an application once, however inspections overlap (AutopilotInspection).
THEOREM SuccessorsPrevail == Spec => []SuccessorPrevails
<1>1. InspectionSettings  BY AutopilotAssumption
<1>2. Init /\ focus = "inspection" => Inspection!Init  BY DEF Init
<1>3. [Next]_vars /\ focus = "inspection" => [Inspection!Next]_Inspection!vars
  BY DEF Next, vars, inspectionOnly, Inspection!vars
<1>4. [Next]_vars => (focus = "inspection" <=> (focus = "inspection")')  BY FocusStays
<1>5. Inspection!Spec => []Inspection!SuccessorPrevails  BY <1>1, InspectionIsFenced
<1> QED  BY <1>2, <1>3, <1>4, <1>5, PTL DEF Spec, Inspection!Spec, SuccessorPrevails
\* What an authorised action reads is what the policy was signed for
\* (ArtifactSnapshot).
THEOREM CopiesAreSigned == Spec => []SnapshotIsSigned
<1>1. Init /\ focus = "snapshot" => Snapshot!Init  BY DEF Init
<1>2. [Next]_vars /\ focus = "snapshot" => [Snapshot!Next]_Snapshot!vars
  BY DEF Next, vars, snapshotOnly, Snapshot!vars
<1>3. [Next]_vars => (focus = "snapshot" <=> (focus = "snapshot")')  BY FocusStays
<1>4. Snapshot!Spec => []Snapshot!SnapshotIsSigned  BY SnapshotIsExact
<1> QED  BY <1>1, <1>2, <1>3, <1>4, PTL DEF Spec, Snapshot!Spec, SnapshotIsSigned

\* After the quarantine nothing in a restored database can act, and every unfinished
\* attempt that may have been sent is unknown (RestoreQuarantine).
THEOREM RestoreDisarms == Spec => []RestoredAuthorityGone
<1>1. Init /\ focus = "restore" => Restore!Init  BY DEF Init
<1>2. [Next]_vars /\ focus = "restore" => [Restore!Next]_Restore!vars
  BY DEF Next, vars, restoreOnly, Restore!vars
<1>3. [Next]_vars => (focus = "restore" <=> (focus = "restore")')  BY FocusStays
<1>4. Restore!Spec => []Restore!RestoredAuthorityGone  BY BackupIsDisarmed
<1> QED  BY <1>1, <1>2, <1>3, <1>4, PTL DEF Spec, Restore!Spec, RestoredAuthorityGone

LEMMA PolicyPart ==
    /\ Init /\ focus = "policy" => Policy!Init
    /\ [Next]_vars /\ focus = "policy" => [Policy!Next]_Policy!vars
    /\ [Next]_vars => (focus = "policy" <=> (focus = "policy")')
<1>1. Init /\ focus = "policy" => Policy!Init  BY DEF Init
<1>2. [Next]_vars /\ focus = "policy" => [Policy!Next]_Policy!vars
  BY DEF Next, vars, policyOnly, Policy!vars, Policy!clockVars, Policy!policyVars,
     Policy!qualificationVars, Policy!rowVars
<1> QED  BY <1>1, <1>2, FocusStays

\* What the autopilot may do was earned and is bounded: the limits hold over every window,
\* authority ends with the hours and with its policy, and it acts only on what an employer
\* confirmed to this release (AutomationPolicy); and what it reads are the signed copies.
THEOREM AuthorityEarned == Spec => []AuthorityIsEarned
<1>1. Policy!Spec => []Policy!AuthorityIsEarned  BY AutopilotAssumption, PolicyIsBounded
<1>2. Spec => []SnapshotIsSigned  BY CopiesAreSigned
<1> QED  BY <1>1, <1>2, PolicyPart, PTL DEF Spec, Policy!Spec, AuthorityIsEarned

\* Nothing crosses the commit boundary for the autopilot while the kill switch is on, for a
\* policy that was revoked or superseded since the decision, or for answers, CVs or a
\* profile the policy was not signed for (AutomationPolicy and the submission worker).
THEOREM BoundaryIsStopped == Spec => StopsReachTheBoundary
<1>1. Policy!Spec => [][Policy!StoppedSendRefused]_Policy!vars
  BY AutopilotAssumption, BoundaryRefuses DEF Policy!StopsReachTheBoundary
<1>2. [Policy!StoppedSendRefused]_Policy!vars => Policy!StoppedSendRefused
  BY DEF Policy!StoppedSendRefused, Policy!vars, Policy!rowVars
<1>3. (focus = "policy" => [Policy!StoppedSendRefused]_Policy!vars)
        => [focus = "policy" => Policy!StoppedSendRefused]_vars
  BY <1>2
<1> QED
  BY <1>1, <1>3, PolicyPart, PTL DEF Spec, Policy!Spec, StopsReachTheBoundary

=============================================================================
