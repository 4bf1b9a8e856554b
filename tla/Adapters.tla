------------------------------ MODULE Adapters ------------------------------
(***************************************************************************)
(* The five browser adapters.  A job's address selects one of them         *)
(* (adapter_for_url); that one runs and the state the others would add     *)
(* stays Unused.  A behaviour says whether the employer's page posts by    *)
(* itself.  The worker calls commit once, inside its row lock; a further   *)
(* call with the same action is answered by the flag that four adapters    *)
(* test and set without an await between, and Workday's is tested two      *)
(* awaits before it is set, so Workday is taken with the one call.         *)
(***************************************************************************)
EXTENDS Naturals, Sequences, FiniteSets

CONSTANTS
    Selectable,       \* the adapters a behaviour may select
    Troubles,         \* what may be the matter: see trouble
    Unused,
    Callers,          \* coroutines that call commit with one prepared action
    TheWorker,        \* the one of them that holds the row lock
    MaxChanges, MaxPosts,                       \* bounds, see CandidatePage
    Looks, FieldSets, Actions,                  \* of Lever, SmartRecruiters
    AshbyForms, Controls, MaxPasses,            \* of Ashby
    WorkdayLooks, MaxSteps,                     \* of Workday
    GreenhouseLooks, Fields, Resume, Abstained, Shapes, Targets, Nobody, MaxRounds

VARIABLES
    adapter,   \* the selected adapter
    trouble,   \* "none", "second_commit" or "page_posts"
    page, changes, posts, requests, sent, window, plan, session, pc, prepared, commit,
    local, reason, gate, seenGate, walk, gates, current

common == <<page, changes, posts, requests, sent, window, plan, session, pc, prepared, commit>>
vars == <<adapter, trouble, common, local, reason, gate, seenGate, walk, gates, current>>

Greenhouse == INSTANCE GreenhouseAdapter WITH Looks <- GreenhouseLooks
Lever == INSTANCE LeverAdapter
SmartRecruiters == INSTANCE SmartRecruitersAdapter
Ashby == INSTANCE AshbyAdapter WITH FieldSets <- AshbyForms
Workday == INSTANCE WorkdayAdapter WITH Looks <- WorkdayLooks, Callers <- {TheWorker}

AdaptersAssumption ==
    /\ TheWorker \in Callers /\ Nobody \notin Callers
    /\ "none" \notin FieldSets /\ "none" \notin AshbyForms /\ "none" \notin Actions
    /\ MaxPosts \in Nat /\ MaxChanges \in Nat /\ MaxRounds \in Nat \ {0}
    /\ MaxPasses \in Nat /\ MaxSteps \in Nat
ASSUME AdaptersAssumption

----------------------------------------------------------------------------
greenhouseRest == <<reason, seenGate, walk, gates, current>>
leverRest == <<local, gate, seenGate, walk, gates, current>>
smartRecruitersRest == <<local, walk, gates, current>>
ashbyRest == <<local, seenGate, walk, gates, current>>
workdayRest == <<local, gate>>

Init ==
    /\ trouble \in Troubles /\ adapter \in Selectable
    /\ \/ /\ adapter = "greenhouse" /\ Greenhouse!Init
          /\ reason = Unused /\ seenGate = Unused /\ walk = Unused /\ gates = Unused
          /\ current = Unused
       \/ /\ adapter = "lever" /\ Lever!Init
          /\ local = Unused /\ gate = Unused /\ seenGate = Unused /\ walk = Unused
          /\ gates = Unused /\ current = Unused
       \/ /\ adapter = "smartrecruiters" /\ SmartRecruiters!Init
          /\ local = Unused /\ walk = Unused /\ gates = Unused /\ current = Unused
       \/ /\ adapter = "ashby" /\ Ashby!Init
          /\ local = Unused /\ seenGate = Unused /\ walk = Unused /\ gates = Unused
          /\ current = Unused
       \/ /\ adapter = "workday" /\ Workday!Init
          /\ local = Unused /\ gate = Unused

Selected ==
    /\ posts' > 0 => trouble = "page_posts"
    /\ UNCHANGED <<adapter, trouble>>

Next ==
    \/ adapter = "greenhouse" /\ Greenhouse!Next /\ UNCHANGED greenhouseRest /\ Selected
    \/ adapter = "lever" /\ Lever!Next /\ UNCHANGED leverRest /\ Selected
    \/ adapter = "smartrecruiters" /\ SmartRecruiters!Next /\ UNCHANGED smartRecruitersRest /\ Selected
    \/ adapter = "ashby" /\ Ashby!Next /\ UNCHANGED ashbyRest /\ Selected
    \/ adapter = "workday" /\ Workday!Next /\ UNCHANGED workdayRest /\ Selected

Spec == Init /\ [][Next]_vars

\* What the coroutines of the selected adapter do next.
AdapterStep ==
    \/ adapter = "greenhouse" /\ Greenhouse!AdapterStep /\ UNCHANGED greenhouseRest /\ Selected
    \/ adapter = "lever" /\ Lever!AdapterStep /\ UNCHANGED leverRest /\ Selected
    \/ adapter = "smartrecruiters" /\ SmartRecruiters!AdapterStep /\ UNCHANGED smartRecruitersRest /\ Selected
    \/ adapter = "ashby" /\ Ashby!AdapterStep /\ UNCHANGED ashbyRest /\ Selected
    \/ adapter = "workday" /\ Workday!AdapterStep /\ UNCHANGED workdayRest /\ Selected

\* Every state of a run is a state of the selected adapter's code.
AdaptersTypeOK ==
    CASE adapter = "greenhouse" -> Greenhouse!TypeOK
      [] adapter = "lever" -> Lever!LeverTypeOK
      [] adapter = "smartrecruiters" -> SmartRecruiters!SmartRecruitersTypeOK
      [] adapter = "ashby" -> Ashby!AshbyTypeOK
      [] adapter = "workday" -> Workday!WorkdayTypeOK

\* Whatever the page changes or posts between review and submit, what leaves
\* is the form, the answers and the CV the operator reviewed, of a plan
\* without blockers.  A page that tried to post before the commit spoils the
\* prepared action of the Lever adapter, and the SmartRecruiters gate's verdict
\* is what happened: possibly sent means one request left, any other verdict
\* none.
SendsReviewed ==
    CASE adapter = "greenhouse" -> Greenhouse!SendsReviewedOnly /\ Greenhouse!LeavesOnlyCommitted
      [] adapter = "lever" ->
             Lever!SendsProvedOnce /\ Lever!BlockedNeverSends /\ Lever!SpoiledNeverSends
      [] adapter = "smartrecruiters" ->
             SmartRecruiters!SendsReviewedOnce /\ SmartRecruiters!GateTellsSent
      [] adapter = "ashby" -> Ashby!SendsReviewed
      [] adapter = "workday" -> Workday!SendsReviewed

Report ==
    CASE adapter = "greenhouse" -> Greenhouse!Report
      [] adapter = "lever" -> Lever!Report
      [] adapter = "smartrecruiters" -> SmartRecruiters!Report
      [] adapter = "ashby" -> Ashby!Report
      [] adapter = "workday" -> Workday!Report

\* The Lever and SmartRecruiters gates let no request out but the one they were
\* armed for.  Those of Ashby and Greenhouse are tested before the awaits of the
\* route handler and not after (ashby_playwright.py:693, the awaits at 718-734,
\* the gate set at 765), so a second submission with the reviewed payload that
\* the page posts meanwhile leaves too; Workday's lets one out, whoever posted it.
\* With all three the page's own may leave although the call reports that it was
\* withheld.  SmartRecruiters alone may take a page that lost its address after
\* the request left for a withheld click.
Promise == INSTANCE OneShotSend WITH
    sent <- Len(sent),
    strays <- IF adapter \in {"lever", "smartrecruiters"} THEN 0 ELSE posts,
    lost <- adapter = "smartrecruiters" /\ SmartRecruiters!LostPage,
    report <- Report

\* commit, whoever calls it: beside what the page posts by itself at most one
\* request reaches the employer, and the outcome never hides it but for the
\* page that SmartRecruiters lost.
KeepsPromise == Promise!Spec

\* An outcome that commit takes from click_final_action as failed before the
\* commit is returned only when nothing was sent (smartrecruiters_playwright.py:
\* 1426-1428, "no longer safe to classify the outcome as pre-send or
\* retryable").
FailedMeansUnsent == adapter = "smartrecruiters" => SmartRecruiters!FailedMeansUnsent

\* An inspection or a preflight that is refused half way gives its browser back,
\* and with it the lease of the profile: while one is open, some coroutine of the
\* adapter still has a step to take.  An Ashby plan ready for a permit was
\* settled: the pass before it answered every field the form had.
AdaptersInv ==
    /\ AdaptersTypeOK
    /\ adapter = "ashby" => Ashby!ReadyPlanSettled
    /\ session.open => ENABLED AdapterStep

=============================================================================
