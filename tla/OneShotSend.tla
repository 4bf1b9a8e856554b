----------------------------- MODULE OneShotSend -----------------------------
(***************************************************************************)
(* What every browser adapter promises the submission worker about one     *)
(* prepared final action: one request of its own at most reaches the       *)
(* employer, and the outcome the adapter returns never hides it.           *)
(* "not_sent" (the needs review and failed-before-commit outcomes) is the  *)
(* adapter's word that it submitted nothing, now and later.  Of a          *)
(* preflight the worker acts on it and may try again; of a commit it       *)
(* records every outcome but Confirmed and Unknown as UnknownOutcome       *)
(* (worker/submission_commands.py:1339-1340).  "confirmed" asserts a       *)
(* request; "unclear" (unknown, already applied) promises nothing.         *)
(*                                                                         *)
(* A stray is a request that the employer's page submits by itself.  The   *)
(* adapters that cannot tell it from their own let it out as well, so what *)
(* leaves is bounded by the strays and the adapter's one.                  *)
(***************************************************************************)
EXTENDS Naturals

VARIABLES
    sent,     \* requests that left the browser with the application in them
    strays,   \* requests of the page itself that may be among them
    lost,     \* the outcome hides a request: the one exception, see LostPage
    report    \* the outcome returned for the prepared action

Init == sent = 0 /\ strays = 0 /\ lost = FALSE /\ report = "none"

\* The requests that are the adapter's own.
Own == IF report = "not_sent" THEN 0 ELSE 1

Stray ==
    /\ strays' = strays + 1
    /\ UNCHANGED <<sent, lost, report>>

Leave ==
    /\ sent < strays + Own
    /\ sent' = sent + 1
    /\ UNCHANGED <<strays, lost, report>>

Report ==
    /\ report = "none"
    /\ \/ sent <= strays /\ report' = "not_sent"
       \/ report' = "unclear"
       \/ sent >= 1 /\ report' = "confirmed"
    /\ UNCHANGED <<sent, strays, lost>>

\* The page lost its address after the request had left, and the outcome says
\* that it failed before the commit.
LostPage ==
    /\ report = "none" /\ sent = 1
    /\ report' = "not_sent" /\ lost' = TRUE
    /\ UNCHANGED <<sent, strays>>

Next == Stray \/ Leave \/ Report \/ LostPage

Spec == Init /\ [][Next]_<<sent, strays, lost, report>>

=============================================================================
