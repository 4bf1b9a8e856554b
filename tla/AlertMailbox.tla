----------------------------- MODULE AlertMailbox -----------------------------
(***************************************************************************)
(* The Gmail label the discovery mesh reads: pages of messages, newest     *)
(* first, under one durable cursor.  A message is its internal date; they  *)
(* arrive in the order of their dates, also while a scan is under way.     *)
(* The listing with its page tokens is Gmail's, modelled from the request  *)
(* fetch_gmail_alert_page sends: a token continues below the oldest        *)
(* message already listed.                                                 *)
(***************************************************************************)
EXTENDS Integers, FiniteSets

CONSTANTS
    MaxMessages,    \* bound on messages that arrive under the label
    PageLen,        \* messages in one page
    PageBudget,     \* pages one run may read (gmail_alert_max_messages)
    MaxFaults       \* bound on failed requests and crashes

VARIABLES
    arrived,        \* messages 1 .. arrived carry the label
    mark,           \* stored cursor: [last, max, token]
    scan,           \* the run: [pc, cur, page, left]
    parsed,         \* messages whose postings were committed
    token,          \* the cached access token: "none", "good", "revoked"
    mailFaults      \* failed requests and crashes so far

mailVars == <<arrived, mark, scan, parsed, token, mailFaults>>

NoToken == 0
Fresh == [last |-> 0, max |-> 0, token |-> NoToken]
Resting == [pc |-> "rest", cur |-> Fresh, page |-> {}, failed |-> {}, left |-> 0]

Init ==
    /\ arrived \in 0 .. MaxMessages
    /\ mark = Fresh
    /\ scan = Resting
    /\ parsed = {}
    /\ token = "none"
    /\ mailFaults = 0

MaxOf(S, floor) == IF S = {} THEN floor
                   ELSE LET m == CHOOSE x \in S : \A y \in S : y <= x
                        IN IF m > floor THEN m ELSE floor

\* The listing after the query's date, below the page token.
Listing(cur) == {m \in 1 .. arrived : m >= cur.last
                                      /\ (cur.token = NoToken \/ m < cur.token)}

\* The newest PageLen messages of the listing.
NewestOf(S) == {m \in S : Cardinality({n \in S : n > m}) < PageLen}

\* A message arrives, or Google revokes the access token.
MessageArrives ==
    /\ arrived < MaxMessages
    /\ arrived' = arrived + 1
    /\ UNCHANGED <<mark, scan, parsed, token, mailFaults>>

TokenRevoked ==
    /\ token = "good" /\ mailFaults < MaxFaults
    /\ token' = "revoked"
    /\ mailFaults' = mailFaults + 1
    /\ UNCHANGED <<arrived, mark, scan, parsed>>

\* _run_singleton_source for gmail_alert: the cursor is read once.
StartScan ==
    /\ scan.pc = "rest"
    /\ scan' = [Resting EXCEPT !.pc = "list", !.cur = mark, !.left = PageBudget]
    /\ UNCHANGED <<arrived, mark, parsed, token, mailFaults>>

\* The list request: a cached token is used as it is, 401 drops it from the
\* cache and fails the run.
ListPage ==
    /\ scan.pc = "list"
    /\ IF token = "revoked"
       THEN token' = "none" /\ scan' = Resting
       ELSE /\ token' = "good"
            /\ scan' = [scan EXCEPT !.pc = "read", !.page = NewestOf(Listing(scan.cur))]
    /\ UNCHANGED <<arrived, mark, parsed, mailFaults>>

\* A message whose detail request fails.  The page is given up whole.
PageGivenUp(failing) == failing # {}

\* The detail requests of one page.  The messages the cursor already covers
\* are read but not parsed again.
ReadMessages ==
    /\ scan.pc = "read"
    /\ \E failing \in SUBSET scan.page :
         /\ failing # {} => mailFaults < MaxFaults
         /\ mailFaults' = mailFaults + IF failing = {} THEN 0 ELSE 1
         /\ scan' = IF PageGivenUp(failing) THEN Resting
                    ELSE [scan EXCEPT !.pc = "commit", !.failed = failing]
    /\ UNCHANGED <<arrived, mark, parsed, token>>

\* _learn_alert_catalog and ingest_discovered_postings.
CommitPostings ==
    /\ scan.pc = "commit"
    /\ parsed' = parsed \cup {m \in scan.page \ scan.failed : m > scan.cur.last}
    /\ scan' = [scan EXCEPT !.pc = "save"]
    /\ UNCHANGED <<arrived, mark, token, mailFaults>>

\* The cursor after a page: the lower bound moves only with the last page.
Fault_Advanced(cur, page, more) ==
    [last |-> MaxOf(page, cur.max), max |-> MaxOf(page, cur.max), token |-> more]

Advanced(cur, page, more) ==
    LET max == MaxOf(page, cur.max) IN
    [last |-> IF more = NoToken THEN max ELSE cur.last, max |-> max, token |-> more]

\* save_cursor, and the loop's end: the budget or the last page.
SaveMark ==
    /\ scan.pc = "save"
    /\ LET older == {m \in 1 .. arrived : m >= scan.cur.last
                                          /\ \A n \in scan.page : m < n}
           more == IF older = {} \/ scan.page = {} THEN NoToken
                   ELSE CHOOSE n \in scan.page : \A k \in scan.page : n <= k
           next == Advanced(scan.cur, scan.page \ scan.failed, more)
       IN /\ mark' = next
          /\ scan' = IF scan.left > 1 /\ next.token # NoToken
                     THEN [scan EXCEPT !.pc = "list", !.cur = next, !.left = @ - 1,
                                       !.page = {}, !.failed = {}]
                     ELSE Resting
    /\ UNCHANGED <<arrived, parsed, token, mailFaults>>

ScanCrashes ==
    /\ scan.pc # "rest" /\ mailFaults < MaxFaults
    /\ mailFaults' = mailFaults + 1
    /\ scan' = Resting
    /\ token' = "none"
    /\ UNCHANGED <<arrived, mark, parsed>>

Next ==
    \/ MessageArrives \/ TokenRevoked \/ StartScan \/ ListPage \/ ReadMessages
    \/ CommitPostings \/ SaveMark \/ ScanCrashes

Spec == Init /\ [][Next]_mailVars

\* No alert is lost: every message at or before the stored cursor's date had
\* its postings committed.  Pages, messages that arrive between two pages, a
\* spent budget, a request that fails in the middle of a page and a crash
\* between the commit of the postings and of the cursor leave no gap below
\* last_internal_date_ms.
NoAlertSkipped == \A m \in 1 .. mark.last : m \in parsed

\* The oldest message the query of a cursor lists.
Low(cur) == IF cur.last = 0 THEN 1 ELSE cur.last

\* A cursor claims what was committed: everything up to its lower bound, and while
\* it continues a listing, everything from its page token up to its maximum.
CursorTrue(cur) ==
    /\ cur \in [last : Nat, max : Nat, token : Nat]
    /\ cur.last <= cur.max /\ cur.max <= arrived
    /\ 1 .. cur.last \subseteq parsed
    /\ cur.token = NoToken => cur.max = cur.last
    /\ cur.token # NoToken =>
          Low(cur) < cur.token /\ cur.token <= cur.max /\ cur.token .. cur.max \subseteq parsed

\* A page is the newest part of what its cursor listed when it was asked for; what
\* arrived since is above it.
PageAt(cur, page, top) ==
    /\ IF cur.token = NoToken THEN cur.max <= top /\ top <= arrived ELSE top = cur.token - 1
    /\ page = {m \in Low(cur) .. top : top - m < PageLen}

\* The inductive invariant of the scan (fetch_gmail_alert_page, save_cursor).
MailboxInv ==
    /\ arrived \in Nat /\ parsed \subseteq Nat
    /\ CursorTrue(mark) /\ CursorTrue(scan.cur)
    /\ scan \in [pc : {"rest", "list", "read", "commit", "save"},
                 cur : [last : Nat, max : Nat, token : Nat],
                 page : SUBSET Nat, failed : SUBSET Nat, left : Int]
    /\ scan.failed = {}
    /\ scan.pc \in {"read", "commit", "save"} =>
          \E top \in 0 .. arrived : PageAt(scan.cur, scan.page, top)
    /\ scan.pc = "save" => {m \in scan.page : m > scan.cur.last} \subseteq parsed

=============================================================================
