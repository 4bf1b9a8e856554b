------------------------- MODULE SubmissionInvariant -------------------------
(***************************************************************************)
(* The inductive invariant of the submission kernel.  The safety properties*)
(* of SubmissionKernel do not prove themselves: each needs what the rows of*)
(* one attempt say about each other, and what a worker may still believe   *)
(* about rows that others have written since.  Last, what it promises.     *)
(***************************************************************************)
EXTENDS SubmissionKernel

\* The program counters at which a worker drives an open browser.
Driving == {"preflight", "ready", "boundary", "clicking", "clicked"}

Clicking(w) == worker[w].pc \in {"clicking", "clicked"}

\* A worker that is not idle works on a command.
BusyWorkers == \A w \in Workers : worker[w].pc # "idle" => worker[w].cmd \in Attempts

\* The attempt and its command tell one story.  VERIFYING is entered and left in
\* one transaction.
RowsAgree(a) ==
    LET row == attempt[a]
        cmd == command[a]
    IN  /\ row.stage = "absent" <=> row.app = NoApp
        /\ row.stage = "absent" <=> cmd.state = "absent"
        /\ row.stage = "queued" <=> cmd.state = "pending"
        /\ row.stage \in {"inspecting", "preparing", "ready", "committing"}
               <=> cmd.state = "claimed"
        /\ row.stage # "verifying"
        /\ row.stage = "finished" <=> row.outcome # "none"
        /\ cmd.state = "claimed" <=> cmd.token # NoToken

\* Spent authority is never silently forgotten, and nothing clicks without it.
AuthorityAccounted(a) ==
    LET row == attempt[a]
    IN  /\ row.stage \in PreCommit \cup {"absent"} => ~row.consumed
        /\ row.stage = "committing" => row.consumed
        /\ row.consumed /\ ~row.reconciled =>
               row.stage = "committing" \/ row.outcome \in {"confirmed_submitted", "unknown"}
        /\ row.reconciled => row.outcome \in {"operator_confirmed", "failed_before_commit"}
        /\ row.outcome = "confirmed_submitted" => clicks[a] = 1
        /\ clicks[a] > 0 => row.consumed
        /\ clicks[a] <= 1

\* A worker that still owns its command finds the stage it left behind; inside
\* the irreversible call it always does.
WorkerOnTrack(w) ==
    LET me == worker[w]
    IN  /\ me.pc \in {"idle", "claimed"} <=> me.token = NoToken
        /\ me.pc = "preflight" /\ Owns(w) => attempt[me.cmd].stage = "preparing"
        /\ me.pc = "ready" /\ Owns(w) => attempt[me.cmd].stage = "ready"
        /\ me.pc = "boundary" /\ Owns(w) => attempt[me.cmd].stage = "committing"
        /\ me.pc \in {"boundary", "clicking"} /\ Owns(w) => clicks[me.cmd] = 0
        /\ Clicking(w) => Owns(w) /\ attempt[me.cmd].stage = "committing"
        /\ me.pc = "clicked" => clicks[me.cmd] = 1

\* Several workers may hold the token of one claim (a stalled worker adopts its
\* successor's), but only one of them ever drives the browser under it.
OneDriver ==
    \A v, w \in Workers :
        v # w /\ worker[v].pc \in Driving /\ worker[w].pc \in Driving =>
            /\ worker[v].cmd = worker[w].cmd => ~(Owns(v) /\ Owns(w))
            /\ Clicking(v) /\ Clicking(w) =>
                   attempt[worker[v].cmd].app # attempt[worker[w].cmd].app

ClaimInv ==
    /\ \A a \in Attempts : RowsAgree(a) /\ AuthorityAccounted(a)
    /\ \A w \in Workers : WorkerOnTrack(w)
    /\ OneDriver

\* Attempts are numbered without gaps, and the one in progress is the newest of
\* its application.
HistoryInv ==
    /\ \A a, b \in Attempts :
           a < b /\ attempt[a].stage = "absent" => attempt[b].stage = "absent"
    /\ \A a, b \in Attempts :
           Unfinished(a) /\ attempt[b].app = attempt[a].app => b <= a
    /\ OneLiveAttempt
    /\ KeysAreUnique

\* A claim's age and its permit's remaining life share one clock, and a command
\* that was not admitted yet was not redelivered either.
PermitAges ==
    \A a \in Attempts :
        /\ command[a].state = "claimed" =>
               attempt[a].permitLeft = 0 \/ attempt[a].permitLeft + command[a].age <= PermitTTL
        /\ command[a].state = "absent" => ~command[a].redelivered

\* The inductive invariant.
KernelInv ==
    /\ TypeOK /\ BusyWorkers /\ ClaimInv /\ HistoryInv
    /\ NoSecondApplication /\ ReviewedContentFrozen /\ PermitWithinPlan
    /\ PermitAges /\ RedeliveredNeverActs

-----------------------------------------------------------------------------
(* The kernel implements FinalAction: the phase of an application is what  *)
(* its attempt rows say, the sent flag what the employer saw of an attempt *)
(* nobody has ruled out.                                                   *)

OutcomesOf(p) == {attempt[a].outcome : a \in History(p)}

PhaseOf(p) ==
    IF \E a \in History(p) : attempt[a].stage \in PostCommit THEN "acting"
    ELSE IF "unknown" \in OutcomesOf(p) THEN "uncertain"
    ELSE IF OutcomesOf(p) \cap ImmutableOutcomes # {} THEN "closed"
    ELSE "open"

SentOf(p) ==
    \E a \in History(p) : clicks[a] > 0 /\ attempt[a].outcome # "failed_before_commit"

Promise == INSTANCE FinalAction WITH
    phase <- [p \in Apps |-> PhaseOf(p)],
    sent  <- [p \in Apps |-> SentOf(p)]

\* Every step of the API, of the workers and of the sweeper is a step of
\* FinalAction or leaves the application's phase alone: no interleaving of
\* crashes, redeliveries and operator calls authorises a final action over an
\* outstanding one, sends twice, or reopens a closed application.
ImplementsFinalAction == Promise!Spec

=============================================================================
