----------------------------- MODULE FinalAction -----------------------------
(***************************************************************************)
(* What the submission kernel promises about one application, said without *)
(* attempts, commands, permits, leases or workers: a final action is       *)
(* authorised while nothing is outstanding, reaches the employer at most   *)
(* once per authorisation, and is never authorised again until it is known *)
(* not to have happened.  README "Evidence and reconciliation".            *)
(***************************************************************************)
CONSTANT Apps

VARIABLES
    phase,   \* "open", "acting", "uncertain" or "closed"
    sent     \* the employer has received the outstanding or final application

vars == <<phase, sent>>

Init == phase = [p \in Apps |-> "open"] /\ sent = [p \in Apps |-> FALSE]

Move(p, from, to) == phase[p] = from /\ phase' = [phase EXCEPT ![p] = to]

\* Authority for one final action is spent.
Authorize(p) == Move(p, "open", "acting") /\ UNCHANGED sent

\* The employer receives the application.
Send(p) ==
    /\ phase[p] = "acting" /\ ~sent[p]
    /\ sent' = [sent EXCEPT ![p] = TRUE]
    /\ UNCHANGED phase

\* Evidence bound to the attempt proves the application was received.
Verify(p) == sent[p] /\ Move(p, "acting", "closed") /\ UNCHANGED sent

\* Nobody can tell whether it was.
Quarantine(p) == Move(p, "acting", "uncertain") /\ UNCHANGED sent

\* A human says it was, or was not.
ResolveSubmitted(p) == Move(p, "uncertain", "closed") /\ UNCHANGED sent

ResolveNotSubmitted(p) ==
    Move(p, "uncertain", "open") /\ sent' = [sent EXCEPT ![p] = FALSE]

\* The employer's portal already lists an application.
FoundApplied(p) == Move(p, "open", "closed") /\ UNCHANGED sent

Next ==
    \E p \in Apps :
        \/ Authorize(p) \/ Send(p) \/ Verify(p) \/ Quarantine(p)
        \/ ResolveSubmitted(p) \/ ResolveNotSubmitted(p) \/ FoundApplied(p)

Spec == Init /\ [][Next]_vars

=============================================================================
