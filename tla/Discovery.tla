------------------------------ MODULE Discovery ------------------------------
(***************************************************************************)
(* One employer's job board polled by the discovery mesh: the advisory     *)
(* lock, the run log, the durable cursor with its snapshot watermark, the  *)
(* page loop, the upsert of source occurrences and canonical jobs, and the *)
(* reconciliation that closes the postings a complete scan did not meet.   *)
(*                                                                         *)
(* Every step is one commit of the code, so that a crash falls between two *)
(* commits.  Time is a counter that moves when a snapshot starts: an       *)
(* observation carries the current value, a watermark the next one.  A     *)
(* forced poll (force=True) ignores next_poll_at, so dueness never         *)
(* restricts the polls and is left out.                                    *)
(***************************************************************************)
EXTENDS Integers, Sequences, FiniteSets

CONSTANTS
    Postings,       \* external ids the board may list
    Workers,        \* processes that may run discover_jobs_task
    Nobody,         \* holder of the free advisory lock
    Kinds,          \* \subseteq {"board", "feed", "lever", "smart"}
    Scopes,         \* sequence of sets: the postings each intent revision matches
    PageSize,       \* public_discovery_max_jobs
    MaxPages,       \* discovery_max_pages_per_run
    MaxRuns,        \* bound on DiscoveryRun rows
    MaxChanges,     \* bound on changes of the board's listing
    MaxEdits,       \* bound on edits of the local catalog file
    MaxFaults       \* bound on crashes and failed fetches

VARIABLES
    kind,           \* which adapter the entry uses
    feed,           \* [rows, rev, version]: what the board lists now
    occ,            \* JobSourceOccurrenceRecord of each posting
    job,            \* canonical Job of each posting
    elsewhere,      \* postings with an active occurrence of another source
    cursor,         \* DiscoveryCursorState of the source
    source,         \* DiscoverySourceState: [enabled, digest]
    catalog,        \* what the local catalog file says: [enabled, digest]
    scope,          \* version of the active SearchIntentRevision
    lock,           \* holder of the advisory lock
    rows,           \* status of each DiscoveryRun row
    w,              \* what each worker is doing
    clock,          \* number of snapshots started
    absent,         \* last clock at which each posting was not listed
    caveats,        \* circumstances the properties except by name
    used            \* [changes, edits, faults]: what the bounds count

discoveryVars == <<kind, feed, occ, job, elsewhere, cursor, source, catalog,
                   scope, lock, rows, w, clock, absent, caveats, used>>

NoEtag == 0
NoMark == 0
NoRow  == 0

\* DiscoveryCursor() with no stored payload.
Origin == [stored |-> FALSE, offset |-> 0, etag |-> NoEtag,
           started |-> NoMark, pending |-> FALSE]

NoPage == [at |-> <<>>, revs |-> <<>>, complete |-> FALSE, notModified |-> FALSE,
           next |-> Origin]

Idle == [pc |-> "idle", row |-> NoRow, cur |-> Origin, started |-> NoMark,
         page |-> NoPage, left |-> 0, scope |-> 0, queue |-> {}]

\* Adapters that compare validators between pages, and those that send them.
Validated(k) == k \in {"board", "feed"}
Conditional(k) == k = "board"

Listed == {feed.rows[i] : i \in DOMAIN feed.rows}
RowIds == 1 .. MaxRuns

\* Statuses discovery may still change: EXTRACTED, SCORED, SKIPPED with
\* neither an application nor a terminal skip ("applied").
Mutable(s) == s \in {"extracted", "scored", "skipped"}

-----------------------------------------------------------------------------
(* The board.  Every change of the listing changes its validator.  The     *)
(* jobs may already be known, from an alert or with an application, and    *)
(* the cursor may be one written before watermarks were stored, with jobs  *)
(* scored since.                                                           *)

Arrangements == {s \in UNION {[1 .. n -> Postings] : n \in 0 .. Cardinality(Postings)} :
                    \A i, j \in DOMAIN s : s[i] = s[j] => i = j}

Init ==
    /\ kind \in Kinds
    /\ feed \in [rows : {s \in Arrangements : Len(s) = Cardinality(Postings)},
                 rev : {[p \in Postings |-> 1]}, version : {1}]
    /\ occ = [p \in Postings |-> [known |-> FALSE, seen |-> NoMark,
                                  active |-> FALSE, rev |-> 0]]
    /\ \E s \in {"none", "scored", "applied"} : job = [p \in Postings |-> s]
    /\ elsewhere = {p \in Postings : job[p] = "scored"}
    /\ \/ cursor = Origin
       \/ /\ cursor = [Origin EXCEPT !.stored = TRUE, !.offset = PageSize]
          /\ \A p \in Postings : job[p] = "scored"
    /\ source = [enabled |-> TRUE, digest |-> 1]
    /\ catalog = source
    /\ scope = 1
    /\ lock = Nobody
    /\ rows = [r \in RowIds |-> "none"]
    /\ w = [x \in Workers |-> Idle]
    /\ clock = 0
    /\ absent = [p \in Postings |-> NoMark]
    /\ caveats = IF cursor.stored THEN {"legacy"} ELSE {}
    /\ used = [changes |-> 0, edits |-> 0, faults |-> 0]

\* The employer publishes, withdraws or revises a posting.  Only a fetch reads
\* the listing, so a change at another point of a run is one before the next
\* fetch.
FeedChanges ==
    /\ used.changes < MaxChanges
    /\ \A x \in Workers : w[x].pc \in {"idle", "fetch"}
    /\ \E s \in Arrangements, v \in [Postings -> {1, 2}] :
          /\ \/ v = feed.rev /\ \E p \in Postings :
                   \/ p \in Listed /\ s = SelectSeq(feed.rows, LAMBDA q : q # p)
                   \/ p \notin Listed /\ s = Append(feed.rows, p)
             \/ s = feed.rows /\ \E p \in Listed :
                   feed.rev[p] = 1 /\ v = [feed.rev EXCEPT ![p] = 2]
          /\ feed' = [rows |-> s, rev |-> v, version |-> feed.version + 1]
          /\ absent' = [p \in Postings |->
                          IF \E i \in DOMAIN s : s[i] = p THEN absent[p] ELSE clock]
    /\ used' = [used EXCEPT !.changes = @ + 1]
    /\ UNCHANGED <<kind, occ, job, elsewhere, cursor, source, catalog, scope,
                   lock, rows, w, clock, caveats>>

\* The operator edits the local employer catalog, which only the start of a
\* run reads.
CatalogEdited ==
    /\ used.edits < MaxEdits
    /\ \A x \in Workers : w[x].pc = "idle"
    /\ \/ catalog' = [catalog EXCEPT !.enabled = ~@]
       \/ catalog' = [catalog EXCEPT !.digest = 3 - @]
    /\ used' = [used EXCEPT !.edits = @ + 1]
    /\ UNCHANGED <<kind, feed, occ, job, elsewhere, cursor, source, scope, lock,
                   rows, w, clock, absent, caveats>>

-----------------------------------------------------------------------------
(* Search intents.                                                         *)

\* What the activation leaves of the cursor.
Fault_CursorAfterActivation == cursor

CursorAfterActivation == Origin

\* activate_search_intents: the new revision drops every cursor, so that the
\* unchanged board is read again.  Nothing stops it while a run is under way.
ActivateIntents ==
    /\ scope < Len(Scopes)
    /\ scope' = scope + 1
    /\ cursor' = CursorAfterActivation
    /\ caveats' = caveats \cup IF \E x \in Workers : w[x].pc # "idle"
                               THEN {"overlap"} ELSE {}
    /\ UNCHANGED <<kind, feed, occ, job, elsewhere, source, catalog, lock, rows,
                   w, clock, absent, used>>

-----------------------------------------------------------------------------
(* The mesh run: lock, stale runs, configuration, source row.              *)

Goto(x, pc) == w' = [w EXCEPT ![x].pc = pc]

\* try_discovery_lock: an occupied lock ends the run (skipped_overlap).
Fault_LockFree == TRUE

LockFree == lock = Nobody

TakeLock(x) ==
    /\ w[x].pc = "idle"
    /\ LockFree
    /\ \E r \in RowIds : rows[r] = "none"
    /\ lock' = x
    /\ Goto(x, "stale")
    /\ UNCHANGED <<kind, feed, occ, job, elsewhere, cursor, source, catalog,
                   scope, rows, clock, absent, caveats, used>>

\* reconcile_stale_discovery_runs: any running row may be older than the
\* cutoff, the row of a run of several minutes included.
ReconcileStaleRuns(x) ==
    /\ w[x].pc = "stale"
    /\ \E old \in SUBSET {r \in RowIds : rows[r] = "running"} :
          rows' = [r \in RowIds |-> IF r \in old THEN "stale" ELSE rows[r]]
    /\ Goto(x, "sync")
    /\ UNCHANGED <<kind, feed, occ, job, elsewhere, cursor, source, catalog,
                   scope, lock, clock, absent, caveats, used>>

\* upsert_source_state: a changed descriptor, or a source enabled again, loses
\* its cursor.
ResetCursor == \/ source.digest # catalog.digest
               \/ ~source.enabled /\ catalog.enabled

\* synchronize_discovery_configuration, active_search_intents, _source_due and
\* start_discovery_run.
Synchronize(x) ==
    /\ w[x].pc = "sync"
    /\ source' = catalog
    /\ cursor' = IF ResetCursor THEN Origin ELSE cursor
    /\ IF catalog.enabled
       THEN \E r \in RowIds :
              /\ rows[r] = "none" /\ \A q \in 1 .. r - 1 : rows[q] # "none"
              /\ rows' = [rows EXCEPT ![r] = "running"]
              /\ w' = [w EXCEPT ![x] = [Idle EXCEPT !.pc = "load", !.row = r,
                                                    !.scope = scope,
                                                    !.left = MaxPages]]
              /\ lock' = lock
       ELSE /\ rows' = rows
            /\ w' = [w EXCEPT ![x] = Idle]
            /\ lock' = Nobody
    /\ UNCHANGED <<kind, feed, occ, job, elsewhere, catalog, scope, clock,
                   absent, caveats, used>>

-----------------------------------------------------------------------------
(* Closing what a complete snapshot did not meet.                          *)

\* The watermark test of reconcile_source_snapshot.

Unseen(p, started) == occ[p].active /\ occ[p].seen < started

\* reconcile_source_snapshot: a job no source lists any more is skipped
\* unless it has an application.
Reconcile(started) ==
    LET gone == {p \in Postings : Unseen(p, started)} IN
    /\ occ' = [p \in Postings |-> IF p \in gone THEN [occ[p] EXCEPT !.active = FALSE]
                                               ELSE occ[p]]
    /\ job' = [p \in Postings |->
                 IF p \in gone \ elsewhere /\ Mutable(job[p]) THEN "skipped" ELSE job[p]]

\* load_cursor, and the reconciliation an interrupted run still owes.
LoadCursor(x) ==
    /\ w[x].pc = "load"
    /\ IF cursor.pending
       THEN /\ IF cursor.started # NoMark THEN Reconcile(cursor.started)
                                          ELSE UNCHANGED <<occ, job>>
            /\ w' = [w EXCEPT ![x].pc = "owed", ![x].cur = cursor]
       ELSE /\ w' = [w EXCEPT ![x].pc = "open", ![x].cur = cursor,
                              ![x].started = cursor.started]
            /\ UNCHANGED <<occ, job>>
    /\ UNCHANGED <<kind, feed, elsewhere, cursor, source, catalog, scope, lock,
                   rows, clock, absent, caveats, used>>

WithoutSnapshot(c) == [c EXCEPT !.started = NoMark, !.pending = FALSE]

\* The owed reconciliation is crossed off the cursor loaded before it.
CrossOff(x) ==
    /\ w[x].pc = "owed"
    /\ LET c == WithoutSnapshot([w[x].cur EXCEPT !.stored = TRUE]) IN
       /\ cursor' = c
       /\ w' = [w EXCEPT ![x].pc = "open", ![x].cur = c, ![x].started = NoMark]
    /\ UNCHANGED <<kind, feed, occ, job, elsewhere, source, catalog, scope, lock,
                   rows, clock, absent, caveats, used>>

\* A scan from the origin takes its watermark before the first request.
OpenSnapshot(x) ==
    /\ w[x].pc = "open"
    /\ IF w[x].cur.offset = 0 /\ w[x].started = NoMark
       THEN /\ clock' = clock + 1
            /\ w' = [w EXCEPT ![x].pc = "fetch", ![x].started = clock + 1]
            /\ absent' = [p \in Postings |-> IF p \in Listed THEN absent[p] ELSE clock + 1]
       ELSE Goto(x, "fetch") /\ UNCHANGED <<clock, absent>>
    /\ UNCHANGED <<kind, feed, occ, job, elsewhere, cursor, source, catalog,
                   scope, lock, rows, caveats, used>>

-----------------------------------------------------------------------------
(* One page.                                                               *)

\* _snapshot_changed: the listing a later page comes from is another one.

SnapshotChanged(c) ==
    Validated(kind) /\ c.offset > 0 /\ c.etag # NoEtag /\ c.etag # feed.version

Window(offset) ==
    SubSeq(feed.rows, offset + 1,
           IF offset + PageSize < Len(feed.rows) THEN offset + PageSize ELSE Len(feed.rows))

\* Whether the page is the last: by position for the boards that answer with
\* the whole listing or its total, by a short page for Lever.
LastPage(offset) ==
    IF kind = "lever" THEN Len(Window(offset)) < PageSize
                      ELSE offset + Len(Window(offset)) >= Len(feed.rows)

\* _next_cursor: page validators are kept only where they name the listing.
PageCursor(c) ==
    [c EXCEPT !.stored = TRUE,
              !.offset = IF LastPage(c.offset) THEN 0
                         ELSE c.offset + (IF Validated(kind) THEN Len(Window(c.offset))
                                                             ELSE PageSize),
              !.etag = IF Validated(kind) THEN feed.version ELSE NoEtag]

NotModified(c) ==
    Conditional(kind) /\ c.offset = 0 /\ c.etag = feed.version

\* fetch_greenhouse_page, fetch_lever_page, fetch_ashby_page,
\* fetch_smartrecruiters_page and fetch_generic_page.
FetchPage(x) ==
    LET c == w[x].cur IN
    /\ w[x].pc = "fetch"
    /\ w[x].left > 0
    /\ ~SnapshotChanged(c)
    /\ w' = [w EXCEPT ![x].pc = "ingest", ![x].left = @ - 1, ![x].page =
               IF NotModified(c)
               THEN [NoPage EXCEPT !.complete = TRUE, !.notModified = TRUE,
                                   !.next = [c EXCEPT !.stored = TRUE]]
               ELSE [at |-> Window(c.offset),
                     revs |-> [i \in DOMAIN Window(c.offset) |->
                                 feed.rev[Window(c.offset)[i]]],
                     complete |-> LastPage(c.offset),
                     notModified |-> FALSE,
                     next |-> PageCursor(c)]]
    /\ UNCHANGED <<kind, feed, occ, job, elsewhere, cursor, source, catalog,
                   scope, lock, rows, clock, absent, caveats, used>>

\* _restart_page: a new watermark, an empty cursor, and the scan begins again.
RestartSnapshot(x) ==
    /\ w[x].pc = "fetch"
    /\ w[x].left > 0
    /\ SnapshotChanged(w[x].cur)
    /\ clock' = clock + 1
    /\ LET c == [Origin EXCEPT !.stored = TRUE, !.started = clock + 1] IN
       /\ cursor' = c
       /\ w' = [w EXCEPT ![x].left = @ - 1, ![x].cur = c, ![x].started = clock + 1]
    /\ absent' = [p \in Postings |-> IF p \in Listed THEN absent[p] ELSE clock + 1]
    /\ UNCHANGED <<kind, feed, occ, job, elsewhere, source, catalog, scope, lock,
                   rows, caveats, used>>

\* A known occurrence: changed or reopened, its job is rewritten and queued
\* while it may be; an unscored job is queued again in any case.
Rewrites(p, rev) == /\ occ[p].rev # rev \/ ~occ[p].active
                    /\ Mutable(job[p])

\* A posting without an occurrence joins the job its URL names.  `richer` is
\* the comparison of _job_content_quality.
Adopts(p, richer) == Mutable(job[p]) /\ (richer \/ job[p] = "skipped")

\* The job a posting ends with, and whether scoring is queued for it.
JobAfter(p, rev, richer) ==
    CASE occ[p].known /\ Rewrites(p, rev)  -> "extracted"
      [] ~occ[p].known /\ job[p] = "none"  -> "extracted"
      [] ~occ[p].known /\ Adopts(p, richer) -> "extracted"
      [] OTHER                             -> job[p]

\* ingest_discovered_postings up to its commit: the postings of the page that
\* match the run's intents.
IngestPage(x) ==
    LET page == w[x].page
        keep == {i \in DOMAIN page.at : page.at[i] \in Scopes[w[x].scope]}
        kept == {page.at[i] : i \in keep}
        revOf == [p \in kept |-> page.revs[CHOOSE i \in keep : page.at[i] = p]]
    IN /\ w[x].pc = "ingest"
       /\ \E richer \in BOOLEAN :
            /\ job' = [p \in Postings |->
                         IF p \in kept THEN JobAfter(p, revOf[p], richer) ELSE job[p]]
            /\ w' = [w EXCEPT ![x].pc = "queue",
                              ![x].queue = {p \in kept :
                                  JobAfter(p, revOf[p], richer) = "extracted"}]
       /\ occ' = [p \in Postings |->
                    IF p \in kept
                    THEN [known |-> TRUE, seen |-> clock, active |-> TRUE, rev |-> revOf[p]]
                    ELSE occ[p]]
       /\ UNCHANGED <<kind, feed, elsewhere, cursor, source, catalog, scope, lock,
                      rows, clock, absent, caveats, used>>

\* score_job_task.delay for every queued id.  The task scores the job; a job
\* the queue lost to a crash stays EXTRACTED.
QueueScoring(x) ==
    /\ w[x].pc = "queue"
    /\ job' = [p \in Postings |-> IF p \in w[x].queue /\ job[p] = "extracted"
                                  THEN "scored" ELSE job[p]]
    /\ w' = [w EXCEPT ![x].pc = "mark", ![x].queue = {}]
    /\ UNCHANGED <<kind, feed, occ, elsewhere, cursor, source, catalog, scope,
                   lock, rows, clock, absent, caveats, used>>

\* mark_snapshot_occurrences_seen: presence of every row of the page, the ones
\* the intents filtered out included.
Fault_Present(x) == {w[x].page.at[i] : i \in DOMAIN w[x].page.at}
                       \cap Scopes[w[x].scope]

Present(x) == {w[x].page.at[i] : i \in DOMAIN w[x].page.at}

MarkSeen(x) ==
    /\ w[x].pc = "mark"
    /\ occ' = [p \in Postings |->
                 IF p \in Present(x) /\ occ[p].known
                 THEN [occ[p] EXCEPT !.seen = clock, !.active = TRUE] ELSE occ[p]]
    /\ Goto(x, "save")
    /\ UNCHANGED <<kind, feed, job, elsewhere, cursor, source, catalog, scope,
                   lock, rows, clock, absent, caveats, used>>

\* The cursor the page leaves: with the watermark, and the debt of a
\* reconciliation when the snapshot is complete.
SavedCursor(x) ==
    LET page == w[x].page IN
    IF page.notModified \/ w[x].started = NoMark
    THEN WithoutSnapshot(page.next)
    ELSE [page.next EXCEPT !.started = w[x].started, !.pending = page.complete]

\* The page loop stops at a complete or unmodified page or at MaxPages.
SaveCursor(x) ==
    LET page == w[x].page
        owes == page.complete /\ ~page.notModified /\ w[x].started # NoMark
    IN /\ w[x].pc = "save"
       /\ cursor' = SavedCursor(x)
       /\ w' = [w EXCEPT ![x].cur = SavedCursor(x),
                         ![x].pc = IF owes THEN "close"
                                   ELSE IF page.complete THEN "finish" ELSE "fetch"]
       /\ UNCHANGED <<kind, feed, occ, job, elsewhere, source, catalog, scope,
                      lock, rows, clock, absent, caveats, used>>

\* The closing reconciliation of a complete scan, then its cursor.
CloseMissing(x) ==
    /\ w[x].pc = "close"
    /\ Reconcile(w[x].started)
    /\ Goto(x, "settle")
    /\ UNCHANGED <<kind, feed, elsewhere, cursor, source, catalog, scope, lock,
                   rows, clock, absent, caveats, used>>

SettleCursor(x) ==
    /\ w[x].pc = "settle"
    /\ cursor' = WithoutSnapshot(w[x].cur)
    /\ Goto(x, "finish")
    /\ UNCHANGED <<kind, feed, occ, job, elsewhere, source, catalog, scope, lock,
                   rows, clock, absent, caveats, used>>

\* finish_discovery_run, mark_source_result and the release of the lock.
FinishRun(x) ==
    /\ \/ w[x].pc = "finish"
       \/ w[x].pc = "fetch" /\ w[x].left = 0
    /\ rows' = [rows EXCEPT ![w[x].row] = "success"]
    /\ w' = [w EXCEPT ![x] = Idle]
    /\ lock' = IF lock = x THEN Nobody ELSE lock
    /\ UNCHANGED <<kind, feed, occ, job, elsewhere, cursor, source, catalog,
                   scope, clock, absent, caveats, used>>

-----------------------------------------------------------------------------
(* Failures.                                                               *)

\* DiscoveryFetchError and the other exceptions of a page: rollback, and the
\* run is logged as failed.
FetchFails(x) ==
    /\ w[x].pc = "fetch"
    /\ w[x].left > 0
    /\ used.faults < MaxFaults
    /\ used' = [used EXCEPT !.faults = @ + 1]
    /\ rows' = [rows EXCEPT ![w[x].row] = "failed"]
    /\ w' = [w EXCEPT ![x] = Idle]
    /\ lock' = IF lock = x THEN Nobody ELSE lock
    /\ UNCHANGED <<kind, feed, occ, job, elsewhere, cursor, source, catalog,
                   scope, clock, absent, caveats>>

\* The worker committed postings of the first page after a restart, and their
\* observations are as late as the watermark the restart stored, which the next
\* run takes over with that cursor.
FirstPageRepeats(x) ==
    /\ w[x].pc \in {"queue", "mark", "save"}
    /\ cursor.offset = 0 /\ cursor.started # NoMark /\ ~cursor.pending

\* The process dies between two commits; its connection, and the advisory
\* lock with it, are gone.
Crash(x) ==
    /\ w[x].pc # "idle"
    /\ used.faults < MaxFaults
    /\ used' = [used EXCEPT !.faults = @ + 1]
    /\ w' = [w EXCEPT ![x] = Idle]
    /\ lock' = IF lock = x THEN Nobody ELSE lock
    /\ caveats' = caveats \cup IF FirstPageRepeats(x) THEN {"restarted"} ELSE {}
    /\ UNCHANGED <<kind, feed, occ, job, elsewhere, cursor, source, catalog,
                   scope, rows, clock, absent>>

Next ==
    \/ FeedChanges \/ CatalogEdited \/ ActivateIntents
    \/ \E x \in Workers :
          \/ TakeLock(x) \/ ReconcileStaleRuns(x) \/ Synchronize(x)
          \/ LoadCursor(x) \/ CrossOff(x) \/ OpenSnapshot(x)
          \/ FetchPage(x) \/ RestartSnapshot(x) \/ IngestPage(x)
          \/ QueueScoring(x) \/ MarkSeen(x) \/ SaveCursor(x)
          \/ CloseMissing(x) \/ SettleCursor(x) \/ FinishRun(x)
          \/ FetchFails(x) \/ Crash(x)

-----------------------------------------------------------------------------
(* Properties.                                                             *)

\* A posting is closed only when the board really did not list it at some
\* moment since the scan that missed it began: on boards whose validator
\* names the listing, no change between two pages, crash, restart or resumed
\* scan makes reconcile_source_snapshot close a posting that was there all
\* along.  (Lever and SmartRecruiters page without a validator: a withdrawal
\* between two pages shifts a listed posting past the offset.)
ClosedMeansGone ==
    \A p \in Postings :
        Validated(kind) /\ occ[p].active /\ ~occ'[p].active =>
            \/ p \notin Listed
            \/ \E x \in Workers :
                  \/ w[x].pc = "close" /\ absent[p] >= w[x].started
                  \/ w[x].pc = "load" /\ absent[p] >= cursor.started

\* A poll the board will answer with 304 has nothing left to do: whenever the
\* stored cursor carries the validator of the listing as it is, every posting
\* of the active scope has an active occurrence of the listed revision and a
\* job that was handed to scoring, and no withdrawn posting is still open.
\* Excepted are a scan resumed from a cursor without a watermark, which stores
\* the validator without closing anything; for the first half an activation of
\* new intents during a run, whose cursor the run writes back over the reset
\* (the new scope then waits for the next change of the board); and for the
\* second a crash over the first page after a restart, since the scan is
\* repeated under the watermark that page's observations already reach, and
\* one of them that is withdrawn before then is never closed.
NotModifiedIsSafe ==
    (/\ Conditional(kind) /\ lock = Nobody /\ \A x \in Workers : w[x].pc = "idle"
     /\ cursor.etag = feed.version /\ cursor.offset = 0 /\ ~cursor.pending)
    => /\ caveats \cap {"legacy", "overlap"} = {} =>
            \A p \in Listed \cap Scopes[scope] :
               /\ occ[p].active /\ occ[p].rev = feed.rev[p]
               /\ job[p] \notin {"none", "extracted"}
       /\ caveats \cap {"legacy", "restarted"} = {} =>
            \A p \in Postings : occ[p].active => p \in Listed

\* A run row is written off as stale only when nobody is working on it:
\* reconcile_stale_discovery_runs looks at age alone, and it is the advisory
\* lock that keeps a long run from being failed under its worker.
StaleIsAbandoned ==
    \A r \in RowIds : rows[r] = "running" /\ rows'[r] = "stale" =>
        \A x \in Workers : w[x].row # r

=============================================================================
