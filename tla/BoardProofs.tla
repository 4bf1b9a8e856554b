----------------------------- MODULE BoardProofs -----------------------------
(***************************************************************************)
(* What is proved of one employer's board polled by the discovery mesh     *)
(* (Discovery), which Host puts beside the other parts of the operator's   *)
(* machine: for every board, every page size and every number of workers,  *)
(* whatever the employer does with the listing, the index of postings      *)
(* follows it.  The invariant says what a stored cursor, a page in a       *)
(* worker's hands and a watermark tell of the listing as it is now.  The   *)
(* lemmas speak of the variables by the names of their module.             *)
(***************************************************************************)
EXTENDS Host, FiniteSetTheorems, SequenceTheorems, TLAPS

kind == x1
feed == x2
occ == x3
posted == x4
elsewhere == x5
cursor == x6
source == x7
catalog == x8
scope == x9
lock == x10
rows == x11
crew == x12
clock == x13
absent == x14
caveats == x15
USE DEF kind, feed, occ, posted, elsewhere, cursor, source, catalog, scope, lock, rows,
    crew, clock, absent, caveats

CursorRows == [stored : BOOLEAN, offset : Nat, etag : Nat, started : Nat, pending : BOOLEAN]
PageRows ==
    {page \in [at : Seq(Postings), revs : Seq(0 .. 2), complete : BOOLEAN,
               notModified : BOOLEAN, next : CursorRows] : DOMAIN page.revs = DOMAIN page.at}
Phases == {"idle", "stale", "sync", "load", "owed", "open", "fetch", "ingest", "queue", "mark",
           "save", "close", "settle", "finish"}
CrewRows == [pc : Phases, row : Nat, cur : CursorRows, started : Nat, page : PageRows,
             left : Int, scope : Nat, queue : SUBSET Postings]
FeedRows == [rows : Seq(Postings), rev : [Postings -> 0 .. 2], version : Nat \ {0}]
OccRows == [known : BOOLEAN, seen : Nat, active : BOOLEAN, rev : 0 .. 2]

Statuses == {"none", "extracted", "scored", "skipped", "applied"}

BoardShape ==
    /\ feed \in FeedRows /\ occ \in [Postings -> OccRows]
    /\ posted \in [Postings -> Statuses] /\ cursor \in CursorRows
    /\ scope \in Nat /\ lock \in Workers \cup {Nobody}
    /\ crew \in [Workers -> CrewRows] /\ clock \in Nat /\ absent \in [Postings -> Nat]

\* Who works holds the lock, and only who has begun a run has a row of it.
Early == {"idle", "stale", "sync"}
LockHolds ==
    \A x \in Workers : /\ crew[x].pc # "idle" <=> lock = x
                       /\ crew[x].pc \in Early => crew[x].row = 0

\* What is known of a posting, and since when it may have been missing.
PostingsHold ==
    \A p \in Postings :
        /\ occ[p].active => occ[p].known
        /\ occ[p].known => posted[p] # "none"
        /\ occ[p].seen <= clock /\ absent[p] <= clock
        /\ p \notin Board!Listed => absent[p] = clock

\* Observed since a watermark, if it is open at all; done with, at the listed revision;
\* and nothing that is not listed was observed since.
Seen(p, mark) == occ[p].active => occ[p].seen >= mark
Done(p) == p \in SearchScopes[scope] =>
              /\ occ[p].active /\ occ[p].rev = feed.rev[p]
              /\ posted[p] \notin {"none", "extracted"}
NoGhost(mark) == \A p \in Postings \ Board!Listed : occ[p].active => occ[p].seen < mark
Unobserved(mark) == \A p \in Postings : occ[p].active => occ[p].seen < mark
AllListed == \A p \in Postings : occ[p].active => p \in Board!Listed

InScope == Board!Conditional(kind) /\ caveats \cap {"legacy", "overlap"} = {}
OnTrack == Board!Conditional(kind) /\ caveats \cap {"legacy", "restarted"} = {}

\* What a cursor says of the board: of the rows before its offset, all of them at zero.
Behind(c) == {i \in DOMAIN feed.rows : c.offset = 0 \/ i <= c.offset}
CursorHolds(c) ==
    /\ c \in CursorRows
    /\ c.etag <= feed.version /\ c.started <= clock
    /\ c.pending => c.offset = 0 /\ c.started # 0
    /\ c.offset > 0 /\ c.etag = 0 => c.started = 0
    /\ c.offset > 0 /\ "legacy" \notin caveats => c.started # 0
    /\ c.offset = 0 /\ c.started # 0 /\ ~c.pending => c.etag = 0
    /\ c.pending =>
          \A p \in Postings : occ[p].active => occ[p].seen >= c.started \/ absent[p] >= c.started
    /\ c.etag = feed.version =>
          /\ \A i \in Behind(c) : Seen(feed.rows[i], c.started)
          /\ InScope => \A i \in Behind(c) : Done(feed.rows[i])
          /\ OnTrack /\ c.started # 0 => NoGhost(c.started)
          /\ OnTrack /\ c.offset = 0 /\ ~c.pending => AllListed

\* The page a worker holds is one of the listing as it is.
PageHolds(v) ==
    IF v.page.notModified
    THEN /\ v.page.at = <<>> /\ v.page.complete
         /\ v.cur.offset = 0 /\ v.cur.etag = feed.version
         /\ v.page.next = [v.cur EXCEPT !.stored = TRUE]
    ELSE /\ v.page.at = Board!Window(v.cur.offset)
         /\ v.page.revs = [i \in DOMAIN v.page.at |-> feed.rev[v.page.at[i]]]
         /\ v.page.complete = Board!LastPage(v.cur.offset)
         /\ v.page.next = Board!PageCursor(v.cur)
         /\ ~Board!SnapshotChanged(v.cur)
         /\ OnTrack => NoGhost(v.started)

Reading == {"open", "fetch", "ingest", "queue", "mark", "save"}
Holding == {"ingest", "queue", "mark", "save"}
\* A worker that reads the board: its cursor and its watermark.
CrewReads(v) ==
    /\ v.pc \notin Early \cup {"load", "finish"} => CursorHolds(v.cur)
    /\ v.pc \notin Early /\ "overlap" \notin caveats => v.scope = scope
    /\ v.pc \in {"owed", "close", "settle"} => v.cur.pending
    /\ v.pc \in {"owed", "settle"} /\ OnTrack /\ v.cur.etag = feed.version => AllListed
    /\ v.pc \in {"close", "settle"} => v.started = v.cur.started /\ v.cur.etag = feed.version
    /\ v.pc \in Reading =>
          /\ ~v.cur.pending /\ v.started <= clock
          /\ v.started = v.cur.started \/ (v.cur.offset = 0 /\ v.cur.started = 0)
    /\ v.pc \in Reading \ {"open"} => v.started # 0 \/ v.cur.offset > 0
    /\ v.pc \in {"open", "fetch"} /\ v.cur.offset = 0 /\ v.started # 0 /\ OnTrack
          => Unobserved(v.started)
\* A worker that holds a page: what was done of it.
CrewWorks(v) ==
    /\ v.pc \in Holding => PageHolds(v)
    /\ v.pc = "queue" /\ InScope =>
          \A i \in DOMAIN v.page.at :
             v.page.at[i] \in SearchScopes[scope] =>
                /\ occ[v.page.at[i]].active /\ occ[v.page.at[i]].rev = feed.rev[v.page.at[i]]
                /\ posted[v.page.at[i]] # "none"
                /\ posted[v.page.at[i]] = "extracted" => v.page.at[i] \in v.queue
    /\ v.pc \in {"mark", "save"} /\ InScope =>
          \A i \in DOMAIN v.page.at : Done(v.page.at[i])
    /\ v.pc = "save" => \A i \in DOMAIN v.page.at : Seen(v.page.at[i], v.started)
CrewHolds(v) == CrewReads(v) /\ CrewWorks(v)

\* After a restart nothing was observed under the stored watermark, unless a worker is
\* about to store the page it did observe.
RestartHolds ==
    cursor.offset = 0 /\ cursor.started # 0 /\ ~cursor.pending /\ OnTrack
       => \/ Unobserved(cursor.started)
          \/ \E x \in Workers : crew[x].pc \in {"queue", "mark", "save"}

BoardHolds ==
    /\ BoardShape /\ LockHolds
    /\ Board!Validated(kind) =>
          /\ PostingsHold /\ CursorHolds(cursor) /\ RestartHolds
          /\ \A x \in Workers : CrewHolds(crew[x])

LEMMA BoardStart == ASSUME BoardSettings, Board!Init  PROVE BoardHolds
<1>1. Board!Origin \in CursorRows  BY DEF Board!Origin, CursorRows, Board!NoEtag, Board!NoMark
<1>2. Board!NoPage \in PageRows
  BY <1>1 DEF Board!NoPage, PageRows
<1>3. Board!Idle \in CrewRows /\ Board!Idle.pc = "idle" /\ Board!Idle.row = 0
  BY <1>1, <1>2 DEF Board!Idle, CrewRows, Phases, Board!NoRow, Board!NoMark
<1>4. crew = [x \in Workers |-> Board!Idle] /\ lock = Nobody  BY DEF Board!Init
<1>5. feed \in FeedRows /\ feed.version = 1
  <2>1. Cardinality(Postings) \in Nat  BY FS_CardinalityType DEF BoardSettings
  <2>2. Board!Arrangements \subseteq Seq(Postings)  BY <2>1 DEF Board!Arrangements
  <2> QED  BY <2>2 DEF Board!Init, FeedRows
<1>6. /\ occ = [p \in Postings |-> [known |-> FALSE, seen |-> 0, active |-> FALSE, rev |-> 0]]
      /\ clock = 0 /\ absent = [p \in Postings |-> 0]
  BY DEF Board!Init, Board!NoMark
<1>7. /\ cursor \in CursorRows /\ cursor.etag = 0 /\ cursor.started = 0 /\ ~cursor.pending
      /\ cursor.offset > 0 => "legacy" \in caveats
  <2>1. PICK o : o = Board!Origin /\ o \in CursorRows /\ o.etag = 0 /\ o.started = 0
                 /\ ~o.pending /\ o.offset = 0
    BY <1>1 DEF Board!Origin, Board!NoEtag, Board!NoMark
  <2>2. /\ cursor = o \/ cursor = [o EXCEPT !.stored = TRUE, !.offset = PageSize]
        /\ caveats = IF cursor.stored THEN {"legacy"} ELSE {}
    BY <2>1 DEF Board!Init
  <2>3. PageSize \in Nat  BY DEF BoardSettings
  <2>4. CASE cursor = o  BY <2>1, <2>4
  <2>5. CASE cursor = [o EXCEPT !.stored = TRUE, !.offset = PageSize]
    <3>1. /\ cursor \in CursorRows /\ cursor.etag = 0 /\ cursor.started = 0
          /\ ~cursor.pending /\ cursor.stored
      BY <2>1, <2>3, <2>5 DEF CursorRows
    <3> QED  BY <2>2, <3>1
  <2> QED  BY <2>2, <2>4, <2>5
<1>8. BoardShape
  BY <1>3, <1>4, <1>5, <1>6, <1>7 DEF BoardShape, Board!Init, OccRows, Statuses
<1>9. LockHolds  BY <1>3, <1>4 DEF LockHolds, BoardSettings
<1>10. PostingsHold  BY <1>6 DEF PostingsHold
<1>11. CursorHolds(cursor) /\ RestartHolds
  BY <1>5, <1>6, <1>7 DEF CursorHolds, RestartHolds
<1>12. \A x \in Workers : CrewHolds(crew[x])
  BY <1>3, <1>4 DEF CrewHolds, CrewReads, CrewWorks, Early, Reading, Holding
<1> QED  BY <1>8, <1>9, <1>10, <1>11, <1>12 DEF BoardHolds

\* Who has not begun a run has nothing to keep.
LEMMA NobodyReads == ASSUME NEW v, v.pc \in Early  PROVE CrewHolds(v)'
  BY DEF CrewHolds, CrewReads, CrewWorks, Early, Reading, Holding

LEMMA IdleRow ==
    /\ Board!Idle \in CrewRows /\ Board!Idle.pc = "idle" /\ Board!Idle.row = 0
    /\ Board!Origin \in CursorRows /\ Board!Origin.etag = 0 /\ Board!Origin.started = 0
    /\ Board!Origin.offset = 0 /\ ~Board!Origin.pending
<1>1. Board!Origin \in CursorRows  BY DEF Board!Origin, CursorRows, Board!NoEtag, Board!NoMark
<1>2. Board!NoPage \in PageRows  BY <1>1 DEF Board!NoPage, PageRows
<1> QED
  BY <1>1, <1>2
  DEF Board!Origin, Board!Idle, CrewRows, Phases, Board!NoRow, Board!NoMark, Board!NoEtag

\* A worker that works goes on.
LEMMA WorkGoesOn ==
    ASSUME BoardShape, LockHolds, NEW x \in Workers, NEW r \in CrewRows,
           crew[x].pc # "idle", r.pc # "idle", r.pc \in Early => r.row = 0,
           crew' = [crew EXCEPT ![x] = r], lock' = lock
    PROVE  /\ LockHolds' /\ crew' \in [Workers -> CrewRows]
           /\ crew'[x] = r /\ \A y \in Workers \ {x} : crew'[y].pc = "idle"
           /\ CrewHolds(r)' => \A y \in Workers : CrewHolds(crew[y])'
<1>1. /\ crew \in [Workers -> CrewRows] /\ crew' \in [Workers -> CrewRows] /\ crew'[x] = r
      /\ \A y \in Workers \ {x} : crew'[y] = crew[y]
  BY DEF BoardShape
<1>2. lock = x /\ \A y \in Workers \ {x} : crew[y].pc = "idle"  BY DEF LockHolds
<1>3. LockHolds'  BY <1>1, <1>2 DEF LockHolds
<1>4. \A y \in Workers \ {x} : CrewHolds(crew[y])'
  BY <1>1, <1>2, NobodyReads DEF Early
<1> QED  BY <1>1, <1>2, <1>3, <1>4

\* A worker that stops leaves the lock.
LEMMA WorkEnds ==
    ASSUME BoardSettings, BoardShape, LockHolds, NEW x \in Workers, crew[x].pc # "idle",
           crew' = [crew EXCEPT ![x] = Board!Idle],
           lock' = IF lock = x THEN Nobody ELSE lock
    PROVE  /\ LockHolds' /\ crew' \in [Workers -> CrewRows] /\ lock' = Nobody
           /\ \A y \in Workers : crew'[y].pc = "idle" /\ CrewHolds(crew[y])'
<1>1. /\ crew \in [Workers -> CrewRows] /\ crew' \in [Workers -> CrewRows]
      /\ crew'[x] = Board!Idle
      /\ \A y \in Workers \ {x} : crew'[y] = crew[y]
  BY IdleRow DEF BoardShape
<1>2. lock = x /\ \A y \in Workers \ {x} : crew[y].pc = "idle"  BY DEF LockHolds
<1>3. \A y \in Workers : crew'[y].pc = "idle" /\ crew'[y].row = 0
  BY <1>1, <1>2, IdleRow DEF LockHolds, Early
<1>4. LockHolds'  BY <1>2, <1>3 DEF LockHolds, BoardSettings
<1>5. \A y \in Workers : CrewHolds(crew[y])'  BY <1>3, NobodyReads DEF Early
<1> QED  BY <1>1, <1>2, <1>3, <1>4, <1>5

\* What a step leaves of what a cursor says.
Onward ==
    /\ kind' = kind /\ clock' >= clock /\ caveats \subseteq caveats'
    /\ \A p \in Postings :
          /\ absent'[p] >= absent[p]
          /\ occ'[p].active => \/ occ[p].active /\ occ'[p].seen >= occ[p].seen
                               \/ occ'[p].seen >= clock
    /\ feed' = feed \/ feed'.version > feed.version
    /\ feed' = feed => \A p \in Postings \ Board!Listed :
                          occ'[p].active => occ[p].active /\ occ'[p].seen = occ[p].seen
KeepsDone == InScope' => \A p \in Board!Listed : Done(p) => Done(p)'

LEMMA CursorKept ==
    ASSUME BoardShape, BoardShape', NEW c, CursorHolds(c), Onward,
           feed' = feed /\ c.etag = feed.version => KeepsDone
    PROVE  CursorHolds(c)'
<1> USE DEF BoardShape
<1>1. /\ c \in CursorRows /\ c.etag \in Nat /\ c.started \in Nat
      /\ c.etag <= feed.version /\ c.started <= clock
      /\ feed.version \in Nat /\ feed'.version \in Nat /\ clock \in Nat /\ clock' \in Nat
  BY DEF CursorHolds, CursorRows, FeedRows
<1>2. \A p \in Postings : /\ occ[p].seen \in Nat /\ occ'[p].seen \in Nat
                          /\ absent[p] \in Nat /\ absent'[p] \in Nat
  BY DEF OccRows
<1>3. /\ c.etag <= feed'.version /\ c.started <= clock'
      /\ c.etag = feed'.version => feed' = feed
  BY <1>1 DEF Onward
<1>4. ASSUME NEW p \in Postings, occ[p].active => occ[p].seen >= c.started
      PROVE  occ'[p].active => occ'[p].seen >= c.started
  BY <1>1, <1>2, <1>4 DEF Onward
<1>5. ASSUME NEW p \in Postings, occ[p].active => occ[p].seen >= c.started \/ absent[p] >= c.started
      PROVE  occ'[p].active => occ'[p].seen >= c.started \/ absent'[p] >= c.started
  BY <1>1, <1>2, <1>5 DEF Onward
<1>6. ASSUME c.etag = feed'.version
      PROVE  /\ \A i \in Behind(c)' : Seen(feed.rows[i], c.started)'
             /\ InScope' => \A i \in Behind(c)' : Done(feed.rows[i])'
             /\ OnTrack' /\ c.started # 0 => NoGhost(c.started)'
             /\ OnTrack' /\ c.offset = 0 /\ ~c.pending => AllListed'
  <2>1. feed' = feed /\ c.etag = feed.version  BY <1>3, <1>6
  <2>2. /\ Behind(c)' = Behind(c) /\ Board!Listed' = Board!Listed
        /\ \A i \in Behind(c) : feed.rows[i] \in Postings /\ feed.rows[i] \in Board!Listed
        /\ Board!Listed \subseteq Postings
    BY <2>1 DEF Behind, Board!Listed, FeedRows
  <2>3. InScope' => InScope  BY DEF InScope, Onward, Board!Conditional
  <2>4. OnTrack' => OnTrack  BY DEF OnTrack, Onward, Board!Conditional
  <2>5. \A i \in Behind(c) : Seen(feed.rows[i], c.started)'
    BY <2>1, <2>2, <1>4 DEF CursorHolds, Seen
  <2>6. InScope' => \A i \in Behind(c) : Done(feed.rows[i])'
    BY <2>1, <2>2, <2>3 DEF CursorHolds, KeepsDone
  <2>7. OnTrack' /\ c.started # 0 => NoGhost(c.started)'
    BY <2>1, <2>2, <2>4 DEF CursorHolds, NoGhost, Onward
  <2>8. OnTrack' /\ c.offset = 0 /\ ~c.pending => AllListed'
    BY <2>1, <2>2, <2>4 DEF CursorHolds, AllListed, Onward
  <2> QED  BY <2>1, <2>2, <2>5, <2>6, <2>7, <2>8
<1>7. "legacy" \notin caveats' => "legacy" \notin caveats  BY DEF Onward
<1> QED  BY <1>1, <1>3, <1>5, <1>6, <1>7 DEF CursorHolds

\* Most steps leave the board, the postings and the intents alone.
Resting == /\ UNCHANGED <<kind, feed, occ, posted, scope>> /\ clock' >= clock
           /\ caveats \subseteq caveats'
           /\ \A p \in Postings : absent'[p] >= absent[p]

LEMMA RestingKeeps ==
    ASSUME BoardShape, BoardShape', Resting
    PROVE  /\ Onward /\ KeepsDone
           /\ \A c : CursorHolds(c) => CursorHolds(c)'
<1>1. \A p \in Postings : occ[p].seen \in Nat  BY DEF BoardShape, OccRows
<1>2. Onward  BY <1>1 DEF Onward, Resting
<1>3. KeepsDone  BY DEF KeepsDone, Done, Resting
<1> QED  BY <1>2, <1>3, CursorKept

LEMMA PostingsRest ==
    ASSUME PostingsHold, UNCHANGED <<feed, occ, posted, clock, absent>>  PROVE PostingsHold'
  BY DEF PostingsHold, Board!Listed

\* A worker that moves on without changing anything else but its row and the cursor.
LEMMA RestartRests ==
    ASSUME RestartHolds, Resting, UNCHANGED cursor,
           \A x \in Workers : crew[x].pc \in {"queue", "mark", "save"}
                                 => \/ crew'[x].pc \in {"queue", "mark", "save"}
                                    \/ "restarted" \in caveats'
                                    \/ cursor.offset # 0 \/ cursor.started = 0 \/ cursor.pending
    PROVE  RestartHolds'
<1>1. OnTrack' => OnTrack  BY DEF OnTrack, Resting, Board!Conditional
<1>2. OnTrack' => "restarted" \notin caveats'  BY DEF OnTrack
<1>3. Unobserved(cursor.started) => Unobserved(cursor.started)'
  BY DEF Unobserved, Resting
<1> QED  BY <1>1, <1>2, <1>3 DEF RestartHolds

Everything == <<kind, feed, occ, posted, elsewhere, scope, clock, absent>>

LEMMA TakeLockStep ==
    ASSUME BoardSettings, BoardHolds, NEW x \in Workers, Board!TakeLock(x)
    PROVE  BoardHolds'
<1> USE DEF BoardHolds
<1>1. PICK r : r = [crew[x] EXCEPT !.pc = "stale"]  OBVIOUS
<1>2. /\ crew[x].pc = "idle" /\ lock = Nobody /\ lock' = x
      /\ crew' = [crew EXCEPT ![x] = r] /\ UNCHANGED <<cursor, caveats>> /\ UNCHANGED Everything
  BY <1>1 DEF Board!TakeLock, Board!Goto, Board!LockFree, Everything, BoardShape
<1>3. r \in CrewRows /\ r.pc = "stale" /\ r.row = 0
  BY <1>1, <1>2 DEF BoardShape, CrewRows, Phases, LockHolds, Early
<1>4. BoardShape'  BY <1>2, <1>3 DEF BoardShape, Everything
<1>5. \A y \in Workers : crew[y].pc = "idle"
  BY <1>2 DEF LockHolds, BoardSettings
<1>6. \A y \in Workers : crew'[y].pc \in Early /\ crew'[y].row = 0
  BY <1>2, <1>3, <1>5 DEF Early, LockHolds, BoardShape
<1>7. LockHolds'
  BY <1>2, <1>3, <1>5, <1>6 DEF LockHolds, BoardShape, BoardSettings
<1>8. Resting  BY <1>2 DEF Resting, Everything, BoardShape
<1>9. \A y \in Workers : CrewHolds(crew[y])'  BY <1>6, NobodyReads
<1>10. RestartHolds => RestartHolds'
  BY <1>2, <1>5, <1>8, RestartRests
<1>11. CursorHolds(cursor) => CursorHolds(cursor)'
  BY <1>2, <1>4, <1>8, RestingKeeps
<1>12. PostingsHold => PostingsHold'  BY <1>2, PostingsRest DEF Everything
<1> QED  BY <1>2, <1>4, <1>7, <1>9, <1>10, <1>11, <1>12 DEF Board!Validated, Everything

LEMMA WorkerStep ==
    ASSUME BoardHolds, NEW x \in Workers, NEW r \in CrewRows,
           crew[x].pc # "idle", r.pc # "idle", r.pc \in Early => r.row = 0,
           crew' = [crew EXCEPT ![x] = r], UNCHANGED <<lock, kind>>,
           crew' \in [Workers -> CrewRows] => BoardShape',
           Board!Validated(kind) /\ BoardShape' /\ LockHolds'
              => PostingsHold' /\ CursorHolds(cursor)' /\ RestartHolds' /\ CrewHolds(r)'
    PROVE  BoardHolds'
<1>1. /\ LockHolds' /\ crew' \in [Workers -> CrewRows]
      /\ CrewHolds(r)' => \A y \in Workers : CrewHolds(crew[y])'
  BY WorkGoesOn DEF BoardHolds
<1> QED  BY <1>1 DEF BoardHolds, Board!Validated

\* The others are idle while a worker works.
LEMMA Alone ==
    ASSUME LockHolds, NEW x \in Workers, crew[x].pc # "idle"
    PROVE  lock = x /\ \A y \in Workers \ {x} : crew[y].pc = "idle"
  BY DEF LockHolds

LEMMA OriginHolds ==
    ASSUME BoardShape'  PROVE CursorHolds(Board!Origin)'
<1>1. PICK o : o = Board!Origin  OBVIOUS
<1>2. o \in CursorRows /\ o.etag = 0 /\ o.started = 0 /\ o.offset = 0 /\ ~o.pending
  BY <1>1, IdleRow
<1>3. feed'.version \in Nat \ {0} /\ clock' \in Nat  BY DEF BoardShape, FeedRows
<1>4. CursorHolds(o)'  BY <1>2, <1>3 DEF CursorHolds
<1> QED  BY <1>1, <1>4

LEMMA ReconcileStaleRunsStep ==
    ASSUME BoardHolds, NEW x \in Workers, Board!ReconcileStaleRuns(x)
    PROVE  BoardHolds'
<1> USE DEF BoardHolds
<1>1. PICK r : r = [crew[x] EXCEPT !.pc = "sync"]  OBVIOUS
<1>2. /\ crew[x].pc = "stale" /\ crew' = [crew EXCEPT ![x] = r]
      /\ UNCHANGED <<lock, cursor, caveats>> /\ UNCHANGED Everything
  BY <1>1 DEF Board!ReconcileStaleRuns, Board!Goto, Everything, BoardShape
<1>3. r \in CrewRows /\ r.pc = "sync" /\ r.row = 0
  BY <1>1, <1>2 DEF BoardShape, CrewRows, Phases, LockHolds, Early
<1>4. crew' \in [Workers -> CrewRows] => BoardShape'
  BY <1>2 DEF BoardShape, Everything
<1>5. Resting  BY <1>2 DEF Resting, Everything, BoardShape
<1>6. CrewHolds(r)'  BY <1>3, NobodyReads DEF Early
<1>7. RestartHolds => RestartHolds'
  BY <1>2, <1>3, <1>5, Alone, RestartRests
<1>8. CursorHolds(cursor) /\ BoardShape' => CursorHolds(cursor)'
  BY <1>2, <1>5, RestingKeeps
<1>9. PostingsHold => PostingsHold'  BY <1>2, PostingsRest DEF Everything
<1> QED  BY <1>2, <1>3, <1>4, <1>6, <1>7, <1>8, <1>9, WorkerStep DEF Everything

LEMMA SynchronizeStep ==
    ASSUME BoardSettings, BoardHolds, NEW x \in Workers, Board!Synchronize(x)
    PROVE  BoardHolds'
<1> USE DEF BoardHolds
<1>1. /\ crew[x].pc = "sync" /\ UNCHANGED caveats /\ UNCHANGED Everything
      /\ cursor' = Board!Origin \/ UNCHANGED cursor
  BY DEF Board!Synchronize, Everything
<1>2. cursor' \in CursorRows  BY <1>1, IdleRow DEF BoardShape
<1>3. Resting  BY <1>1 DEF Resting, Everything, BoardShape
<1>4. CursorHolds(cursor) /\ BoardShape' => CursorHolds(cursor)'
  BY <1>1, <1>3, RestingKeeps, OriginHolds
<1>5. PostingsHold => PostingsHold'  BY <1>1, PostingsRest DEF Everything
<1>6. RestartHolds => RestartHolds'
  <2>1. CASE UNCHANGED cursor
    BY <1>1, <1>3, <2>1, Alone, RestartRests
  <2>2. CASE cursor' = Board!Origin  BY <2>2, IdleRow DEF RestartHolds
  <2> QED  BY <1>1, <2>1, <2>2
<1>7. ASSUME NEW q \in Board!RowIds, lock' = lock,
             crew' = [crew EXCEPT ![x] = [Board!Idle EXCEPT !.pc = "load", !.row = q,
                                                    !.scope = scope, !.left = MaxPages]]
      PROVE  BoardHolds'
  <2>1. PICK i : i = Board!Idle  OBVIOUS
  <2>2. PICK r : r = [i EXCEPT !.pc = "load", !.row = q, !.scope = scope, !.left = MaxPages]
    OBVIOUS
  <2>3. i \in CrewRows /\ q \in Nat /\ MaxPages \in Int /\ scope \in Nat
    BY <2>1, IdleRow DEF Board!RowIds, BoardSettings, BoardShape
  <2>4. r \in CrewRows /\ r.pc = "load" /\ r.scope = scope
    BY <2>2, <2>3 DEF CrewRows, Phases
  <2>5. crew' = [crew EXCEPT ![x] = r]  BY <1>7, <2>1, <2>2
  <2>6. crew' \in [Workers -> CrewRows] => BoardShape'
    BY <1>1, <1>2, <1>7 DEF BoardShape, Everything
  <2>7. CrewHolds(r)'
    BY <1>1, <2>4 DEF CrewHolds, CrewReads, CrewWorks, Early, Reading, Holding, Everything
  <2>8. UNCHANGED <<lock, kind>>  BY <1>1, <1>7 DEF Everything
  <2>9. r.pc # "idle" /\ (r.pc \in Early => r.row = 0)  BY <2>4 DEF Early
  <2> QED
    BY <1>1, <1>4, <1>5, <1>6, <2>4, <2>5, <2>6, <2>7, <2>8, <2>9, WorkerStep
<1>8. ASSUME crew' = [crew EXCEPT ![x] = Board!Idle], lock' = Nobody  PROVE BoardHolds'
  <2>1. lock' = IF lock = x THEN Nobody ELSE lock  BY <1>1, <1>8, Alone
  <2>2. /\ LockHolds' /\ crew' \in [Workers -> CrewRows]
        /\ \A y \in Workers : CrewHolds(crew[y])'
    BY <1>1, <1>8, <2>1, WorkEnds
  <2>3. BoardShape'  BY <1>1, <1>2, <1>8, <2>2 DEF BoardShape, Everything
  <2> QED  BY <1>1, <1>4, <1>5, <1>6, <2>2, <2>3 DEF Board!Validated, Everything
<1> QED  BY <1>7, <1>8 DEF Board!Synchronize

\* A worker that stops, and leaves everything else as it is.
LEMMA StopStep ==
    ASSUME BoardSettings, BoardHolds, NEW x \in Workers, crew[x].pc # "idle",
           crew' = [crew EXCEPT ![x] = Board!Idle],
           lock' = IF lock = x THEN Nobody ELSE lock,
           UNCHANGED Everything, UNCHANGED cursor, caveats \subseteq caveats',
           crew[x].pc \in {"queue", "mark", "save"} =>
              \/ "restarted" \in caveats'
              \/ cursor.offset # 0 \/ cursor.started = 0 \/ cursor.pending
    PROVE  BoardHolds'
<1> USE DEF BoardHolds
<1>1. /\ LockHolds' /\ crew' \in [Workers -> CrewRows] /\ lock' = Nobody
      /\ \A y \in Workers : CrewHolds(crew[y])'
  BY WorkEnds
<1>2. BoardShape'  BY <1>1 DEF BoardShape, Everything
<1>3. Resting  BY DEF Resting, Everything, BoardShape
<1>4. CursorHolds(cursor) => CursorHolds(cursor)'  BY <1>2, <1>3, RestingKeeps
<1>5. PostingsHold => PostingsHold'  BY PostingsRest DEF Everything
<1>6. RestartHolds => RestartHolds'  BY <1>3, Alone, RestartRests
<1> QED  BY <1>1, <1>2, <1>4, <1>5, <1>6 DEF Board!Validated, Everything

LEMMA StopsStep ==
    ASSUME BoardSettings, BoardHolds, NEW x \in Workers,
           Board!FinishRun(x) \/ Board!FetchFails(x) \/ Board!Crash(x)
    PROVE  BoardHolds'
<1>1. /\ crew[x].pc # "idle" /\ crew' = [crew EXCEPT ![x] = Board!Idle]
      /\ lock' = IF lock = x THEN Nobody ELSE lock
      /\ UNCHANGED Everything /\ UNCHANGED cursor /\ caveats \subseteq caveats'
  BY DEF Board!FinishRun, Board!FetchFails, Board!Crash, Everything
<1>2. crew[x].pc \in {"queue", "mark", "save"} =>
              \/ "restarted" \in caveats'
              \/ cursor.offset # 0 \/ cursor.started = 0 \/ cursor.pending
  BY DEF Board!FinishRun, Board!FetchFails, Board!Crash, Board!FirstPageRepeats, Board!NoMark
<1> QED  BY <1>1, <1>2, StopStep

LEMMA FeedChangesStep ==
    ASSUME BoardSettings, BoardHolds, Board!FeedChanges  PROVE BoardHolds'
<1> USE DEF BoardHolds
<1>1. /\ \A x \in Workers : crew[x].pc \in {"idle", "fetch"}
      /\ UNCHANGED <<kind, occ, posted, cursor, scope, lock, crew, clock, caveats>>
  BY DEF Board!FeedChanges
<1>2. /\ feed' \in FeedRows /\ feed'.version = feed.version + 1
      /\ absent' = [p \in Postings |-> IF p \in Board!Listed' THEN absent[p] ELSE clock]
  <2>1. PICK s \in Board!Arrangements, v \in [Postings -> {1, 2}] \cup {feed.rev} :
          /\ feed' = [rows |-> s, rev |-> v, version |-> feed.version + 1]
          /\ absent' = [p \in Postings |->
                          IF \E i \in DOMAIN s : s[i] = p THEN absent[p] ELSE clock]
    BY DEF Board!FeedChanges
  <2>2. Cardinality(Postings) \in Nat  BY FS_CardinalityType DEF BoardSettings
  <2>3. s \in Seq(Postings)  BY <2>2 DEF Board!Arrangements
  <2>4. feed.version \in Nat \ {0} /\ v \in [Postings -> 0 .. 2]
    BY DEF BoardShape, FeedRows
  <2>5. feed' \in FeedRows /\ feed'.version = feed.version + 1 /\ feed'.rows = s
    BY <2>1, <2>3, <2>4 DEF FeedRows
  <2> QED  BY <2>1, <2>5 DEF Board!Listed
<1>3. BoardShape'  BY <1>1, <1>2 DEF BoardShape
<1>4. LockHolds'  BY <1>1 DEF LockHolds
<1>5. SUFFICES ASSUME Board!Validated(kind)
               PROVE  /\ PostingsHold' /\ CursorHolds(cursor)' /\ RestartHolds'
                      /\ \A x \in Workers : CrewHolds(crew[x])'
  BY <1>1, <1>3, <1>4 DEF Board!Validated
<1>6. \A p \in Postings : /\ absent[p] <= clock /\ absent'[p] >= absent[p]
                          /\ absent'[p] <= clock /\ (p \notin Board!Listed' => absent'[p] = clock)
                          /\ occ[p].seen \in Nat
  BY <1>2, <1>5 DEF PostingsHold, BoardShape, OccRows
<1>7. Onward
  <2>1. feed'.version > feed.version /\ feed' # feed
    BY <1>2 DEF BoardShape, FeedRows
  <2>2. clock' >= clock  BY <1>1 DEF BoardShape
  <2> QED  BY <1>1, <1>6, <2>1, <2>2 DEF Onward
<1>8. feed' # feed  BY <1>2 DEF BoardShape, FeedRows
<1>9. \A c : CursorHolds(c) => CursorHolds(c)'  BY <1>3, <1>7, <1>8, CursorKept
<1>10. PostingsHold'  BY <1>1, <1>5, <1>6 DEF PostingsHold
<1>11. OnTrack' <=> OnTrack  BY <1>1 DEF OnTrack, Board!Conditional
<1>12. RestartHolds'  BY <1>1, <1>5, <1>11 DEF RestartHolds, Unobserved
<1>13. ASSUME NEW x \in Workers  PROVE CrewHolds(crew[x])'
  <2>1. CASE crew[x].pc = "idle"  BY <1>1, <2>1, NobodyReads DEF Early
  <2>2. CASE crew[x].pc = "fetch"
    BY <1>1, <1>5, <1>9, <1>11, <2>2
    DEF CrewHolds, CrewReads, CrewWorks, Early, Reading, Holding, Unobserved
  <2> QED  BY <1>1, <2>1, <2>2
<1>14. CursorHolds(cursor)'  BY <1>1, <1>5, <1>9
<1> QED  BY <1>10, <1>12, <1>13, <1>14

LEMMA PageRests ==
    ASSUME NEW v, PageHolds(v), UNCHANGED <<kind, feed>>,
           NoGhost(v.started) => NoGhost(v.started)', OnTrack' => OnTrack
    PROVE  PageHolds(v)'
  BY DEF PageHolds, Board!Window, Board!LastPage, Board!PageCursor, Board!SnapshotChanged,
         Board!Validated

LEMMA CatalogEditedStep ==
    ASSUME BoardHolds, UNCHANGED Everything, UNCHANGED <<cursor, lock, crew, caveats>>
    PROVE  BoardHolds'
<1> USE DEF BoardHolds
<1>1. BoardShape' /\ LockHolds'  BY DEF BoardShape, LockHolds, Everything
<1>2. Resting  BY DEF Resting, Everything, BoardShape
<1>3. \A c : CursorHolds(c) => CursorHolds(c)'  BY <1>1, <1>2, RestingKeeps
<1>4. PostingsHold => PostingsHold'  BY PostingsRest DEF Everything
<1>5. RestartHolds => RestartHolds'  BY <1>2, RestartRests
<1>6. /\ OnTrack' <=> OnTrack
      /\ InScope' <=> InScope
  BY DEF OnTrack, InScope, Board!Conditional, Everything
<1>7. ASSUME NEW v, CrewHolds(v)  PROVE CrewHolds(v)'
  <2>1. PageHolds(v) => PageHolds(v)'
    BY <1>6, PageRests DEF Everything, NoGhost, Board!Listed
  <2>2. CrewReads(v)'
    BY <1>3, <1>6, <1>7
    DEF CrewHolds, CrewReads, Everything, AllListed, Unobserved, Done, Board!Listed
  <2>3. CrewWorks(v)'
    BY <1>6, <1>7, <2>1
    DEF CrewHolds, CrewWorks, Everything, Done, Seen, Board!Listed
  <2> QED  BY <2>2, <2>3 DEF CrewHolds
<1> QED  BY <1>1, <1>3, <1>4, <1>5, <1>7 DEF Board!Validated, Everything

LEMMA ActivateIntentsStep ==
    ASSUME BoardHolds, Board!ActivateIntents  PROVE BoardHolds'
<1> USE DEF BoardHolds
<1>1. /\ scope' = scope + 1 /\ cursor' = Board!Origin /\ caveats \subseteq caveats'
      /\ \A x \in Workers : crew[x].pc # "idle" => "overlap" \in caveats'
      /\ caveats' \subseteq caveats \cup {"overlap"}
      /\ UNCHANGED <<kind, feed, occ, posted, lock, crew, clock, absent>>
  BY DEF Board!ActivateIntents, Board!CursorAfterActivation
<1>2. BoardShape'  BY <1>1, IdleRow DEF BoardShape
<1>3. LockHolds'  BY <1>1 DEF LockHolds
<1>4. PostingsHold => PostingsHold'  BY <1>1, PostingsRest
<1>5. CursorHolds(cursor)'  BY <1>1, <1>2, OriginHolds
<1>6. RestartHolds'  BY <1>1, IdleRow DEF RestartHolds
<1>7. OnTrack' <=> OnTrack  BY <1>1 DEF OnTrack, Board!Conditional
<1>8. ASSUME NEW x \in Workers, CrewHolds(crew[x])  PROVE CrewHolds(crew[x])'
  <2>1. CASE crew[x].pc = "idle"  BY <1>1, <2>1, NobodyReads DEF Early
  <2>2. CASE crew[x].pc # "idle"
    <3>1. ~InScope' /\ "overlap" \in caveats'  BY <1>1, <2>2 DEF InScope
    <3>2. Onward  BY <1>1 DEF Onward, BoardShape, OccRows
    <3>3. \A c : CursorHolds(c) => CursorHolds(c)'
      BY <1>2, <3>1, <3>2, CursorKept DEF KeepsDone
    <3>4. PICK v : v = crew[x]  OBVIOUS
    <3>5. PageHolds(v) => PageHolds(v)'
      <4>1. NoGhost(v.started) => NoGhost(v.started)'  BY <1>1 DEF NoGhost, Board!Listed
      <4> QED  BY <1>1, <1>7, <4>1, PageRests
    <3>6. CrewReads(v)'
      BY <1>1, <1>7, <1>8, <3>1, <3>3, <3>4
      DEF CrewHolds, CrewReads, AllListed, Unobserved, Board!Listed
    <3>7. CrewWorks(v)'
      BY <1>1, <1>8, <3>1, <3>4, <3>5
      DEF CrewHolds, CrewWorks, Seen, Board!Listed
    <3> QED  BY <1>1, <3>4, <3>6, <3>7 DEF CrewHolds
  <2> QED  BY <2>1, <2>2
<1> QED  BY <1>1, <1>2, <1>3, <1>4, <1>5, <1>6, <1>8 DEF Board!Validated

\* What a reconciliation leaves open.
LEMMA ReconcileLeaves ==
    ASSUME BoardShape, NEW mark \in Nat, Board!Reconcile(mark)
    PROVE  /\ occ' \in [Postings -> OccRows] /\ posted' \in [Postings -> Statuses]
           /\ \A p \in Postings :
                 /\ occ'[p].active <=> occ[p].active /\ occ[p].seen >= mark
                 /\ occ'[p].seen = occ[p].seen /\ occ'[p].known = occ[p].known
                 /\ occ'[p].rev = occ[p].rev
                 /\ posted'[p] # posted[p] =>
                       posted'[p] = "skipped" /\ occ[p].active /\ occ[p].seen < mark
<1>1. occ \in [Postings -> OccRows] /\ posted \in [Postings -> Statuses]  BY DEF BoardShape
<1>2. ASSUME NEW p \in Postings
      PROVE  /\ occ'[p] = IF occ[p].active /\ occ[p].seen < mark
                          THEN [occ[p] EXCEPT !.active = FALSE] ELSE occ[p]
             /\ posted'[p] # posted[p] =>
                   posted'[p] = "skipped" /\ occ[p].active /\ occ[p].seen < mark
             /\ posted'[p] \in Statuses
  BY <1>1 DEF Board!Reconcile, Board!Unseen, Statuses
<1>3. ASSUME NEW p \in Postings
      PROVE  /\ occ'[p] \in OccRows
             /\ occ'[p].active <=> occ[p].active /\ occ[p].seen >= mark
             /\ occ'[p].seen = occ[p].seen /\ occ'[p].known = occ[p].known
             /\ occ'[p].rev = occ[p].rev
  <2>1. PICK o : o = occ[p]  OBVIOUS
  <2>2. o \in OccRows  BY <1>1, <2>1
  <2>3. occ'[p] = IF o.active /\ o.seen < mark THEN [o EXCEPT !.active = FALSE] ELSE o
    BY <1>2, <2>1
  <2>4. CASE o.active /\ o.seen < mark
    <3>1. PICK q : q = [o EXCEPT !.active = FALSE]  OBVIOUS
    <3>2. q \in OccRows /\ ~q.active /\ q.seen = o.seen /\ q.known = o.known /\ q.rev = o.rev
      BY <2>2, <3>1 DEF OccRows
    <3>3. occ'[p] = q  BY <2>3, <2>4, <3>1
    <3>4. ~(o.seen >= mark)  BY <2>2, <2>4 DEF OccRows
    <3> QED  BY <2>1, <3>2, <3>3, <3>4
  <2>5. CASE ~(o.active /\ o.seen < mark)  BY <2>1, <2>2, <2>3, <2>5 DEF OccRows
  <2> QED  BY <2>4, <2>5
<1>4. /\ occ' = [p \in Postings |-> occ'[p]] /\ posted' = [p \in Postings |-> posted'[p]]
  BY DEF Board!Reconcile
<1> QED  BY <1>2, <1>3, <1>4

\* It keeps what a cursor says if what it closes is not what the cursor has read.
LEMMA ReconcileKeeps ==
    ASSUME BoardShape, BoardShape', PostingsHold, NEW mark \in Nat, Board!Reconcile(mark),
           UNCHANGED <<kind, feed, scope, clock, absent, caveats>>
    PROVE  /\ Onward /\ PostingsHold'
           /\ (\A p \in Board!Listed : Seen(p, mark)) => KeepsDone
           /\ NoGhost(mark) => AllListed'
           /\ \A m \in Nat : /\ NoGhost(m) => NoGhost(m)'
                             /\ Unobserved(m) => Unobserved(m)'
<1>1. \A p \in Postings :
         /\ occ'[p].active <=> occ[p].active /\ occ[p].seen >= mark
         /\ occ'[p].seen = occ[p].seen /\ occ'[p].known = occ[p].known
         /\ occ'[p].rev = occ[p].rev /\ occ[p].seen \in Nat
         /\ posted'[p] # posted[p] => posted'[p] = "skipped" /\ occ[p].active /\ occ[p].seen < mark
  BY ReconcileLeaves DEF BoardShape, OccRows
<1>2. Board!Listed \subseteq Postings /\ Board!Listed' = Board!Listed
  BY DEF Board!Listed, BoardShape, FeedRows
<1>3. Onward  BY <1>1 DEF Onward, BoardShape
<1>4. PostingsHold'
  BY <1>1, <1>2 DEF PostingsHold, BoardShape
<1>5. (\A p \in Board!Listed : Seen(p, mark)) => KeepsDone
  BY <1>1, <1>2 DEF Seen, KeepsDone, Done
<1>6. NoGhost(mark) => AllListed'  BY <1>1, <1>2 DEF NoGhost, AllListed
<1>7. \A m \in Nat : /\ NoGhost(m) => NoGhost(m)'
                     /\ Unobserved(m) => Unobserved(m)'
  BY <1>1, <1>2 DEF NoGhost, Unobserved
<1> QED  BY <1>3, <1>4, <1>5, <1>6, <1>7

\* What a complete scan says of the rows.
LEMMA AllBehind ==
    ASSUME BoardShape, NEW c, c.offset = 0, NEW mark, \A i \in Behind(c) : Seen(feed.rows[i], mark)
    PROVE  \A p \in Board!Listed : Seen(p, mark)
  BY DEF Behind, Board!Listed

\* The reconciliation an interrupted run owes, or the cursor as it is.
LEMMA LoadCursorStep ==
    ASSUME BoardHolds, NEW x \in Workers, Board!LoadCursor(x)  PROVE BoardHolds'
<1> USE DEF BoardHolds
<1>1. crew[x].pc = "load" /\ UNCHANGED <<kind, feed, cursor, scope, lock, clock, absent, caveats>>
  BY DEF Board!LoadCursor
<1>2. PICK v : v = crew[x]  OBVIOUS
<1>3. v \in CrewRows /\ v.pc = "load" /\ cursor \in CursorRows /\ cursor.started \in Nat
  BY <1>1, <1>2 DEF BoardShape, CursorRows
<1>4. OnTrack' <=> OnTrack  BY <1>1 DEF OnTrack, Board!Conditional
<1>5. CASE ~cursor.pending
  <2>1. PICK r : r = [v EXCEPT !.pc = "open", !.cur = cursor, !.started = cursor.started]
    OBVIOUS
  <2>2. crew' = [crew EXCEPT ![x] = r] /\ UNCHANGED <<occ, posted>>
    BY <1>2, <1>5, <2>1 DEF Board!LoadCursor, BoardShape
  <2>3. /\ r \in CrewRows /\ r.pc = "open" /\ r.cur = cursor /\ r.started = cursor.started
        /\ r.scope = v.scope
    BY <1>3, <2>1 DEF CrewRows, Phases
  <2>4. crew' \in [Workers -> CrewRows] => BoardShape'  BY <1>1, <2>2 DEF BoardShape
  <2>5. Resting  BY <1>1, <2>2 DEF Resting, BoardShape
  <2>6. RestartHolds => RestartHolds'
    BY <1>1, <2>2, <2>5, Alone, RestartRests
  <2>7. CursorHolds(cursor) /\ BoardShape' => CursorHolds(cursor)'
    BY <1>1, <2>5, RestingKeeps
  <2>8. PostingsHold => PostingsHold'  BY <1>1, <2>2, PostingsRest
  <2>9. CrewHolds(v) => ("overlap" \notin caveats' => r.scope = scope')
    BY <1>1, <1>3, <2>3 DEF CrewHolds, CrewReads, CrewWorks, Early
  <2>10. RestartHolds /\ OnTrack' /\ r.cur.offset = 0 /\ r.started # 0
           => Unobserved(r.started)'
    <3>1. \A y \in Workers : crew[y].pc \notin {"queue", "mark", "save"}
      BY <1>1, Alone
    <3> QED  BY <1>1, <1>4, <1>5, <2>2, <2>3, <3>1 DEF RestartHolds, Unobserved
  <2>11. CursorHolds(cursor)' /\ RestartHolds /\ CrewHolds(v) => CrewHolds(r)'
    <3>1. CursorHolds(cursor)' => CursorHolds(r.cur)' /\ r.started <= clock'
      BY <1>1, <2>3 DEF CursorHolds
    <3> QED
      BY <1>5, <2>3, <2>9, <2>10, <3>1
      DEF CrewHolds, CrewReads, CrewWorks, Early, Reading, Holding
  <2>12. r.pc # "idle" /\ (r.pc \in Early => r.row = 0)  BY <2>3 DEF Early
  <2> QED
    BY <1>1, <1>2, <2>2, <2>3, <2>4, <2>6, <2>7, <2>8, <2>11, <2>12, WorkerStep
<1>6. CASE cursor.pending
  <2>1. PICK r : r = [v EXCEPT !.pc = "owed", !.cur = cursor]  OBVIOUS
  <2>2. /\ crew' = [crew EXCEPT ![x] = r]
        /\ \/ cursor.started # 0 /\ Board!Reconcile(cursor.started)
           \/ cursor.started = 0 /\ UNCHANGED <<occ, posted>>
    BY <1>2, <1>6, <2>1 DEF Board!LoadCursor, BoardShape, Board!NoMark
  <2>3. /\ r \in CrewRows /\ r.pc = "owed" /\ r.cur = cursor /\ r.scope = v.scope
    BY <1>3, <2>1 DEF CrewRows, Phases
  <2>4. crew' \in [Workers -> CrewRows] => BoardShape'
    <3>1. occ' \in [Postings -> OccRows] /\ posted' \in [Postings -> Statuses]
      BY <1>3, <2>2, ReconcileLeaves DEF BoardShape
    <3> QED  BY <1>1, <3>1 DEF BoardShape
  <2>5. SUFFICES ASSUME Board!Validated(kind), BoardShape', LockHolds'
                 PROVE  PostingsHold' /\ CursorHolds(cursor)' /\ RestartHolds' /\ CrewHolds(r)'
    <3>1. r.pc # "idle" /\ (r.pc \in Early => r.row = 0)  BY <2>3 DEF Early
    <3> QED  BY <1>1, <1>2, <2>2, <2>3, <2>4, <3>1, WorkerStep
  <2>6. /\ PostingsHold /\ CursorHolds(cursor) /\ CrewHolds(v)
        /\ cursor.offset = 0 /\ Board!Reconcile(cursor.started)
    BY <1>2, <1>6, <2>2, <2>5 DEF CursorHolds
  <2>7. /\ Onward /\ PostingsHold'
        /\ (\A p \in Board!Listed : Seen(p, cursor.started)) => KeepsDone
        /\ NoGhost(cursor.started) => AllListed'
    BY <1>1, <1>3, <2>5, <2>6, ReconcileKeeps
  <2>8. cursor.etag = feed.version => KeepsDone
    BY <2>6, <2>7, AllBehind DEF CursorHolds
  <2>9. CursorHolds(cursor)'
    <3>1. PICK c : c = cursor  OBVIOUS
    <3>2. CursorHolds(c)'  BY <2>5, <2>6, <2>7, <2>8, <3>1, CursorKept
    <3> QED  BY <1>1, <3>1, <3>2
  <2>10. RestartHolds'  BY <1>1, <1>6 DEF RestartHolds
  <2>11. OnTrack' /\ cursor.etag = feed.version => AllListed'
    BY <1>4, <1>6, <2>6, <2>7 DEF CursorHolds
  <2>12. CursorHolds(r.cur)'  BY <1>1, <2>3, <2>9
  <2>13. "overlap" \notin caveats' => r.scope = scope'
    BY <1>1, <1>3, <2>3, <2>6 DEF CrewHolds, CrewReads, CrewWorks, Early
  <2>14. CrewHolds(r)'
    BY <1>1, <1>6, <2>3, <2>11, <2>12, <2>13
    DEF CrewHolds, CrewReads, CrewWorks, Early, Reading, Holding
  <2> QED  BY <2>7, <2>9, <2>10, <2>14
<1> QED  BY <1>5, <1>6

\* A scan that owes nothing and is at the origin: the board was read whole.
LEMMA CrossedOff ==
    ASSUME BoardShape, NEW c, CursorHolds(c), c.offset = 0,
           OnTrack /\ c.etag = feed.version => AllListed,
           NEW d \in CursorRows, d.etag = c.etag, d.offset = 0, d.started = 0, ~d.pending
    PROVE  CursorHolds(d)
<1>1. Behind(d) = Behind(c) /\ d.started <= clock  BY DEF Behind, BoardShape
<1>2. \A i \in Behind(d) : feed.rows[i] \in Postings
  BY DEF Behind, BoardShape, FeedRows
<1>3. \A i \in Behind(d) : Seen(feed.rows[i], d.started)
  BY <1>2 DEF Seen, BoardShape, OccRows
<1> QED  BY <1>1, <1>3 DEF CursorHolds

LEMMA WithoutSnapshotIs ==
    ASSUME NEW c \in CursorRows, NEW d, d = Board!WithoutSnapshot(c)
    PROVE  /\ d \in CursorRows /\ d.etag = c.etag /\ d.offset = c.offset
           /\ d.started = 0 /\ ~d.pending
  BY DEF Board!WithoutSnapshot, CursorRows, Board!NoMark

LEMMA CrossOffStep ==
    ASSUME BoardHolds, NEW x \in Workers, Board!CrossOff(x)  PROVE BoardHolds'
<1> USE DEF BoardHolds
<1>1. /\ crew[x].pc = "owed" /\ UNCHANGED Everything /\ UNCHANGED <<lock, caveats>>
  BY DEF Board!CrossOff, Everything
<1>2. PICK v : v = crew[x]  OBVIOUS
<1>3. v \in CrewRows /\ v.pc = "owed" /\ v.cur \in CursorRows
  BY <1>1, <1>2 DEF BoardShape, CrewRows
<1>4. PICK e : e = [v.cur EXCEPT !.stored = TRUE]  OBVIOUS
<1>5. /\ e \in CursorRows /\ e.etag = v.cur.etag /\ e.offset = v.cur.offset
  BY <1>3, <1>4 DEF CursorRows
<1>6. PICK d : d = Board!WithoutSnapshot(e)  OBVIOUS
<1>7. /\ d \in CursorRows /\ d.etag = v.cur.etag /\ d.offset = v.cur.offset
      /\ d.started = 0 /\ ~d.pending
  BY <1>5, <1>6, WithoutSnapshotIs
<1>8. PICK r : r = [v EXCEPT !.pc = "open", !.cur = d, !.started = 0]  OBVIOUS
<1>9. cursor' = d /\ crew' = [crew EXCEPT ![x] = r]
  BY <1>2, <1>4, <1>6, <1>8 DEF Board!CrossOff, BoardShape, Board!NoMark
<1>10. /\ r \in CrewRows /\ r.pc = "open" /\ r.cur = d /\ r.started = 0 /\ r.scope = v.scope
  BY <1>3, <1>7, <1>8 DEF CrewRows, Phases
<1>11. crew' \in [Workers -> CrewRows] => BoardShape'
  BY <1>1, <1>7, <1>9 DEF BoardShape, Everything
<1>12. SUFFICES ASSUME Board!Validated(kind), BoardShape', LockHolds'
                PROVE  PostingsHold' /\ CursorHolds(cursor)' /\ RestartHolds' /\ CrewHolds(r)'
  <2>1. r.pc # "idle" /\ (r.pc \in Early => r.row = 0)  BY <1>10 DEF Early
  <2> QED  BY <1>1, <1>2, <1>9, <1>10, <1>11, <2>1, WorkerStep DEF Everything
<1>13. PostingsHold'  BY <1>1, <1>12, PostingsRest DEF Everything
<1>14. CrewHolds(v) /\ v.cur.pending /\ v.cur.offset = 0
  BY <1>2, <1>3, <1>12 DEF CrewHolds, CrewReads, CrewWorks, CursorHolds, Early
<1>15. CursorHolds(d)
  BY <1>3, <1>7, <1>14, CrossedOff DEF CrewHolds, CrewReads, CrewWorks, Early
<1>16. Resting  BY <1>1 DEF Resting, Everything, BoardShape
<1>17. CursorHolds(d)'  BY <1>12, <1>15, <1>16, RestingKeeps
<1>18. RestartHolds'  BY <1>7, <1>9 DEF RestartHolds
<1>19. "overlap" \notin caveats' => r.scope = scope'
  BY <1>1, <1>3, <1>10, <1>14 DEF CrewHolds, CrewReads, CrewWorks, Early, Everything
<1>20. CrewHolds(r)'
  <2>1. r.started <= clock'  BY <1>10, <1>12 DEF BoardShape
  <2> QED
    BY <1>7, <1>10, <1>17, <1>19, <2>1
    DEF CrewHolds, CrewReads, CrewWorks, Early, Reading, Holding
<1> QED  BY <1>9, <1>13, <1>17, <1>18, <1>20

\* A snapshot that starts now is later than every observation.
LEMMA StartsNow ==
    ASSUME BoardShape, BoardShape', PostingsHold, UNCHANGED <<kind, feed, occ, posted, scope>>,
           clock' = clock + 1, caveats \subseteq caveats',
           absent' = [p \in Postings |-> IF p \in Board!Listed THEN absent[p] ELSE clock + 1]
    PROVE  /\ Resting /\ PostingsHold'
           /\ \A m \in Nat : m = clock + 1 => Unobserved(m)'
<1>1. \A p \in Postings : /\ occ[p].seen \in Nat /\ occ[p].seen <= clock
                          /\ absent[p] \in Nat /\ absent[p] <= clock
                          /\ absent'[p] = IF p \in Board!Listed THEN absent[p] ELSE clock + 1
  BY DEF BoardShape, OccRows, PostingsHold
<1>2. clock \in Nat  BY DEF BoardShape
<1>3. Resting  BY <1>1, <1>2 DEF Resting
<1>4. Board!Listed' = Board!Listed  BY DEF Board!Listed
<1>5. PostingsHold'  BY <1>1, <1>2, <1>4 DEF PostingsHold
<1>6. ASSUME NEW m \in Nat, m = clock + 1  PROVE Unobserved(m)'
  BY <1>1, <1>2, <1>6 DEF Unobserved
<1> QED  BY <1>3, <1>5, <1>6

LEMMA OpenSnapshotStep ==
    ASSUME BoardHolds, NEW x \in Workers, Board!OpenSnapshot(x)  PROVE BoardHolds'
<1> USE DEF BoardHolds
<1>1. /\ crew[x].pc = "open"
      /\ UNCHANGED <<kind, feed, occ, posted, cursor, scope, lock, caveats>>
  BY DEF Board!OpenSnapshot
<1>2. PICK v : v = crew[x]  OBVIOUS
<1>3. v \in CrewRows /\ v.pc = "open" /\ clock \in Nat
  BY <1>1, <1>2 DEF BoardShape
<1>4. OnTrack' <=> OnTrack  BY <1>1 DEF OnTrack, Board!Conditional
<1>5. CASE v.cur.offset = 0 /\ v.started = 0
  <2> PICK m \in Nat \ {0} : m = clock + 1  BY <1>3
  <2>1. PICK r : r = [v EXCEPT !.pc = "fetch", !.started = m]  OBVIOUS
  <2>2. /\ crew' = [crew EXCEPT ![x] = r] /\ clock' = m
        /\ absent' = [p \in Postings |-> IF p \in Board!Listed THEN absent[p] ELSE m]
    BY <1>2, <1>5, <2>1 DEF Board!OpenSnapshot, BoardShape, Board!NoMark
  <2>3. /\ r \in CrewRows /\ r.pc = "fetch" /\ r.started = m /\ r.cur = v.cur
        /\ r.scope = v.scope /\ r.started # 0
    BY <1>3, <2>1, <2>2 DEF CrewRows, Phases
  <2>4. crew' \in [Workers -> CrewRows] => BoardShape'
    BY <1>1, <1>3, <2>2 DEF BoardShape
  <2>5. SUFFICES ASSUME Board!Validated(kind), BoardShape', LockHolds'
                 PROVE  PostingsHold' /\ CursorHolds(cursor)' /\ RestartHolds' /\ CrewHolds(r)'
    <3>1. r.pc # "idle" /\ (r.pc \in Early => r.row = 0)  BY <2>3 DEF Early
    <3> QED  BY <1>1, <1>2, <2>2, <2>3, <2>4, <3>1, WorkerStep
  <2>6. PostingsHold /\ CursorHolds(cursor) /\ CrewHolds(v) /\ RestartHolds
    BY <1>2, <2>5
  <2>7. Resting /\ PostingsHold' /\ Unobserved(m)'
    BY <1>1, <2>2, <2>5, <2>6, StartsNow
  <2>8. CursorHolds(cursor)' /\ CursorHolds(v.cur)'
    <3>1. CursorHolds(v.cur)  BY <1>3, <2>6 DEF CrewHolds, CrewReads, CrewWorks, Early
    <3>2. PICK c : c = cursor  OBVIOUS
    <3>3. CursorHolds(c)' /\ CursorHolds(v.cur)'  BY <2>5, <2>6, <2>7, <3>1, <3>2, RestingKeeps
    <3> QED  BY <1>1, <3>2, <3>3
  <2>9. RestartHolds'
    BY <1>1, <1>2, <1>3, <2>6, <2>7, Alone, RestartRests
  <2>10. v.scope = scope \/ "overlap" \in caveats
    BY <1>3, <2>6 DEF CrewHolds, CrewReads, CrewWorks, Early
  <2>11. Unobserved(r.started)'  BY <2>3, <2>7
  <2>12. ~v.cur.pending /\ v.cur.started = 0
    BY <1>3, <1>5, <2>6 DEF CrewHolds, CrewReads, CrewWorks, Reading
  <2>13. CrewHolds(r)'
    <3>1. r.started <= clock'  BY <2>2, <2>3
    <3> QED
      BY <1>1, <1>5, <2>3, <2>8, <2>10, <2>11, <2>12, <3>1
      DEF CrewHolds, CrewReads, CrewWorks, Early, Reading, Holding
  <2> QED  BY <2>7, <2>8, <2>9, <2>13
<1>6. CASE ~(v.cur.offset = 0 /\ v.started = 0)
  <2>1. PICK r : r = [v EXCEPT !.pc = "fetch"]  OBVIOUS
  <2>2. crew' = [crew EXCEPT ![x] = r] /\ UNCHANGED <<clock, absent>>
    BY <1>2, <1>6, <2>1 DEF Board!OpenSnapshot, Board!Goto, BoardShape, Board!NoMark
  <2>3. /\ r \in CrewRows /\ r.pc = "fetch" /\ r.started = v.started /\ r.cur = v.cur
        /\ r.scope = v.scope /\ r.started \in Nat /\ r.cur.offset \in Nat
    BY <1>3, <2>1 DEF CrewRows, CursorRows, Phases
  <2>4. crew' \in [Workers -> CrewRows] => BoardShape'
    BY <1>1, <1>3, <2>2 DEF BoardShape
  <2>5. SUFFICES ASSUME Board!Validated(kind), BoardShape', LockHolds'
                 PROVE  PostingsHold' /\ CursorHolds(cursor)' /\ RestartHolds' /\ CrewHolds(r)'
    <3>1. r.pc # "idle" /\ (r.pc \in Early => r.row = 0)  BY <2>3 DEF Early
    <3> QED  BY <1>1, <1>2, <2>2, <2>3, <2>4, <3>1, WorkerStep
  <2>6. PostingsHold /\ CursorHolds(cursor) /\ CrewHolds(v) /\ RestartHolds
    BY <1>2, <2>5
  <2>7. Resting  BY <1>1, <2>2 DEF Resting, BoardShape
  <2>8. PostingsHold'  BY <1>1, <2>2, <2>6, PostingsRest
  <2>9. CursorHolds(cursor)' /\ CursorHolds(v.cur)'
    <3>1. CursorHolds(v.cur)  BY <1>3, <2>6 DEF CrewHolds, CrewReads, CrewWorks, Early
    <3>2. PICK c : c = cursor  OBVIOUS
    <3>3. CursorHolds(c)' /\ CursorHolds(v.cur)'  BY <2>5, <2>6, <2>7, <3>1, <3>2, RestingKeeps
    <3> QED  BY <1>1, <3>2, <3>3
  <2>10. RestartHolds'
    BY <1>1, <1>2, <1>3, <2>6, <2>7, Alone, RestartRests
  <2>11. v.scope = scope \/ "overlap" \in caveats
    BY <1>3, <2>6 DEF CrewHolds, CrewReads, CrewWorks, Early
  <2>12. r.cur.offset = 0 /\ r.started # 0 /\ OnTrack' => Unobserved(r.started)'
    BY <1>1, <1>3, <1>4, <2>3, <2>6 DEF CrewHolds, CrewReads, CrewWorks, Unobserved
  <2>13. /\ ~v.cur.pending /\ v.started <= clock
         /\ v.started = v.cur.started \/ (v.cur.offset = 0 /\ v.cur.started = 0)
    BY <1>3, <2>6 DEF CrewHolds, CrewReads, CrewWorks, Reading
  <2>14. CrewReads(r)'
    BY <1>1, <1>6, <2>2, <2>3, <2>9, <2>11, <2>12, <2>13 DEF CrewReads, Early, Reading
  <2>15. CrewWorks(r)'  BY <2>3 DEF CrewWorks, Holding
  <2> QED  BY <2>8, <2>9, <2>10, <2>14, <2>15 DEF CrewHolds
<1> QED  BY <1>5, <1>6

LEMMA RestartSnapshotStep ==
    ASSUME BoardHolds, NEW x \in Workers, Board!RestartSnapshot(x)  PROVE BoardHolds'
<1> USE DEF BoardHolds
<1>1. /\ crew[x].pc = "fetch" /\ UNCHANGED <<kind, feed, occ, posted, scope, lock, caveats>>
      /\ clock' = clock + 1
      /\ absent' = [p \in Postings |-> IF p \in Board!Listed THEN absent[p] ELSE clock + 1]
  BY DEF Board!RestartSnapshot
<1> PICK m \in Nat \ {0} : m = clock + 1  BY DEF BoardShape
<1>2. PICK v : v = crew[x]  OBVIOUS
<1>3. v \in CrewRows /\ v.pc = "fetch" /\ clock \in Nat
  BY <1>1, <1>2 DEF BoardShape
<1>4. PICK o : o = Board!Origin  OBVIOUS
<1>5. PICK c : c = [o EXCEPT !.stored = TRUE, !.started = m]  OBVIOUS
<1>6. /\ c \in CursorRows /\ c.etag = 0 /\ c.offset = 0 /\ c.started = m /\ ~c.pending
  <2>1. o \in CursorRows /\ o.etag = 0 /\ o.started = 0 /\ o.offset = 0 /\ ~o.pending
    BY <1>4, IdleRow
  <2> QED  BY <1>3, <1>5, <2>1 DEF CursorRows
<1> PICK k \in Int : k = v.left - 1  BY <1>3 DEF CrewRows
<1>7. PICK r : r = [v EXCEPT !.left = k, !.cur = c, !.started = m]  OBVIOUS
<1>8. crew' = [crew EXCEPT ![x] = r] /\ cursor' = c
  BY <1>2, <1>4, <1>5, <1>7 DEF Board!RestartSnapshot, BoardShape
<1>9. /\ r \in CrewRows /\ r.pc = "fetch" /\ r.started = m /\ r.cur = c
      /\ r.scope = v.scope
  BY <1>1, <1>3, <1>6, <1>7 DEF CrewRows
<1>10. crew' \in [Workers -> CrewRows] => BoardShape'
  BY <1>1, <1>3, <1>6, <1>8 DEF BoardShape
<1>11. SUFFICES ASSUME Board!Validated(kind), BoardShape', LockHolds'
                PROVE  PostingsHold' /\ CursorHolds(cursor)' /\ RestartHolds' /\ CrewHolds(r)'
  <2>1. r.pc # "idle" /\ (r.pc \in Early => r.row = 0)  BY <1>9 DEF Early
  <2> QED  BY <1>1, <1>2, <1>8, <1>9, <1>10, <2>1, WorkerStep
<1>12. PostingsHold /\ CrewHolds(v)  BY <1>2, <1>11
<1>13. Resting /\ PostingsHold' /\ Unobserved(m)'
  BY <1>1, <1>11, <1>12, StartsNow
<1>14. c.started = clock' /\ feed'.version \in Nat \ {0}
  BY <1>1, <1>3, <1>6, <1>11 DEF BoardShape, FeedRows
<1>15. CursorHolds(c)'  BY <1>6, <1>14 DEF CursorHolds
<1>16. Unobserved(c.started)'  BY <1>6, <1>13
<1>17. RestartHolds'  BY <1>8, <1>16 DEF RestartHolds
<1>18. v.scope = scope \/ "overlap" \in caveats
  BY <1>3, <1>12
  DEF CrewHolds, CrewReads, CrewWorks, Early
<1>19. CrewReads(r)'
  BY <1>1, <1>6, <1>9, <1>14, <1>15, <1>16, <1>18 DEF CrewReads, Early, Reading
<1>20. CrewWorks(r)'  BY <1>6, <1>9 DEF CrewWorks, Holding
<1> QED  BY <1>8, <1>13, <1>15, <1>17, <1>19, <1>20 DEF CrewHolds

\* The rows of a page.
LEMMA WindowIs ==
    ASSUME BoardSettings, BoardShape, NEW o \in Nat
    PROVE  LET at == Board!Window(o) IN
           /\ at \in Seq(Postings) /\ Len(at) \in Nat /\ DOMAIN at = 1 .. Len(at)
           /\ Len(feed.rows) \in Nat /\ DOMAIN feed.rows = 1 .. Len(feed.rows)
           /\ \A i \in DOMAIN at : o + i \in DOMAIN feed.rows /\ at[i] = feed.rows[o + i]
           /\ \A j \in DOMAIN feed.rows :
                 o < j /\ j <= o + Len(at) => j - o \in DOMAIN at /\ at[j - o] = feed.rows[j]
           /\ Len(at) = 0 => o >= Len(feed.rows)
<1> DEFINE R == feed.rows
           n == IF o + PageSize < Len(R) THEN o + PageSize ELSE Len(R)
           at == SubSeq(R, o + 1, n)
<1>1. R \in Seq(Postings) /\ Len(R) \in Nat /\ DOMAIN R = 1 .. Len(R)
  BY DEF BoardShape, FeedRows
<1>2. PageSize \in Nat /\ PageSize # 0  BY DEF BoardSettings
<1>3. n \in Nat /\ n <= Len(R)  BY <1>1, <1>2
<1>4. \A i \in o + 1 .. n : R[i] \in Postings  BY <1>1, <1>3
<1>5. /\ at \in Seq(Postings) /\ Len(at) = IF o + 1 <= n THEN n - (o + 1) + 1 ELSE 0
      /\ \A i \in 1 .. n - (o + 1) + 1 : at[i] = R[(o + 1) + i - 1]
  BY <1>3, <1>4, SubSeqProperties
<1>6. Board!Window(o) = at  BY DEF Board!Window
<1>7. /\ Len(at) \in Nat /\ DOMAIN at = 1 .. Len(at)
      /\ Len(at) = IF o < n THEN n - o ELSE 0
  BY <1>3, <1>5
<1>8. \A i \in DOMAIN at : o + i \in DOMAIN R /\ at[i] = R[o + i]
  <2> TAKE i \in DOMAIN at
  <2>1. i \in Nat /\ 1 <= i /\ i <= n - o /\ o < n  BY <1>3, <1>7
  <2>2. at[i] = R[(o + 1) + i - 1]  BY <1>3, <1>5, <2>1
  <2>3. (o + 1) + i - 1 = o + i  BY <2>1
  <2> QED  BY SMTT(60), <1>1, <1>3, <2>1, <2>2, <2>3
<1>9. \A j \in DOMAIN R : o < j /\ j <= o + Len(at) => j - o \in DOMAIN at /\ at[j - o] = R[j]
  <2> SUFFICES ASSUME NEW j \in DOMAIN R, o < j, j <= o + Len(at)
               PROVE  j - o \in DOMAIN at /\ at[j - o] = R[j]
    OBVIOUS
  <2>1. j \in Nat  BY <1>1
  <2>3. Len(at) \in Nat  BY <1>7
  <2>4. j - o \in 1 .. Len(at)
    <3> HIDE DEF at
    <3> QED  BY <2>1, <2>3
  <2>2. o + (j - o) = j  BY <2>1
  <2> QED  BY <1>7, <1>8, <2>2, <2>4
<1>10. Len(at) = 0 => o >= Len(R)  BY <1>1, <1>2, <1>7
<1> HIDE DEF at, n
<1> QED  BY <1>1, <1>5, <1>6, <1>7, <1>8, <1>9, <1>10

\* The cursor a page leaves.
LEMMA PageCursorIs ==
    ASSUME BoardSettings, BoardShape, NEW c \in CursorRows, NEW d, d = Board!PageCursor(c)
    PROVE  /\ d \in CursorRows /\ d.started = c.started /\ d.pending = c.pending
           /\ Board!Validated(kind) =>
                 /\ d.etag = feed.version
                 /\ LET end == c.offset + Len(Board!Window(c.offset))
                        last == end >= Len(feed.rows)
                    IN /\ Board!LastPage(c.offset) <=> last
                       /\ d.offset = IF last THEN 0 ELSE end
                       /\ ~last => end > 0
<1>1. /\ c.offset \in Nat /\ feed.version \in Nat /\ PageSize \in Nat
  BY DEF CursorRows, BoardShape, FeedRows, BoardSettings
<1> PICK n : n = Len(Board!Window(c.offset))  OBVIOUS
<1>2. n \in Nat /\ Len(feed.rows) \in Nat /\ (n = 0 => c.offset >= Len(feed.rows))
  BY <1>1, WindowIs
<1>3. PICK off \in Nat : off = IF Board!LastPage(c.offset) THEN 0
                               ELSE c.offset + (IF Board!Validated(kind) THEN n ELSE PageSize)
  BY <1>1, <1>2
<1>4. PICK tag \in Nat : tag = IF Board!Validated(kind) THEN feed.version ELSE 0
  BY <1>1
<1>5. d = [c EXCEPT !.stored = TRUE, !.offset = off, !.etag = tag]
  BY <1>3, <1>4 DEF Board!PageCursor, Board!NoEtag
<1>6. /\ d \in CursorRows /\ d.started = c.started /\ d.pending = c.pending
      /\ d.offset = off /\ d.etag = tag
  BY <1>5 DEF CursorRows
<1>7. ASSUME Board!Validated(kind)
      PROVE  Board!LastPage(c.offset) <=> c.offset + n >= Len(feed.rows)
  BY <1>7 DEF Board!LastPage, Board!Validated
<1> QED  BY <1>1, <1>2, <1>3, <1>4, <1>6, <1>7

LEMMA LastPageIs ==
    ASSUME BoardSettings, BoardShape, NEW o \in Nat  PROVE Board!LastPage(o) \in BOOLEAN
<1> PICK n : n = Len(Board!Window(o))  OBVIOUS
<1>1. n \in Nat /\ Len(feed.rows) \in Nat  BY WindowIs
<1>2. ASSUME kind = "lever"  PROVE Board!LastPage(o) \in BOOLEAN
  <2>1. Board!LastPage(o) = (n < PageSize)  BY <1>2 DEF Board!LastPage
  <2> QED  BY <1>1, <2>1 DEF BoardSettings
<1>3. ASSUME kind # "lever"  PROVE Board!LastPage(o) \in BOOLEAN
  <2>1. Board!LastPage(o) = (o + n >= Len(feed.rows))  BY <1>3 DEF Board!LastPage
  <2> QED  BY <1>1, <2>1 DEF BoardSettings
<1> QED  BY <1>2, <1>3

LEMMA FetchPageStep ==
    ASSUME BoardSettings, BoardHolds, NEW x \in Workers, Board!FetchPage(x)  PROVE BoardHolds'
<1> USE DEF BoardHolds
<1>1. /\ crew[x].pc = "fetch" /\ UNCHANGED Everything /\ UNCHANGED <<cursor, lock, caveats>>
  BY DEF Board!FetchPage, Everything
<1>2. PICK v : v = crew[x]  OBVIOUS
<1>3. v \in CrewRows /\ v.pc = "fetch" /\ v.cur \in CursorRows /\ v.cur.offset \in Nat
  BY <1>1, <1>2 DEF BoardShape, CrewRows, CursorRows
<1> PICK k \in Int : k = v.left - 1  BY <1>3 DEF CrewRows
<1> PICK a : a = Board!Window(v.cur.offset)  OBVIOUS
<1> PICK s : s = [i \in DOMAIN a |-> feed.rev[a[i]]]  OBVIOUS
<1> PICK np : np = Board!NoPage  OBVIOUS
<1>4. /\ a \in Seq(Postings) /\ s \in Seq(0 .. 2) /\ DOMAIN s = DOMAIN a
      /\ \A i \in DOMAIN a : a[i] \in Postings
  <2>1. a \in Seq(Postings) /\ Len(a) \in Nat /\ DOMAIN a = 1 .. Len(a)
    BY <1>3, WindowIs
  <2>2. \A i \in DOMAIN a : a[i] \in Postings  BY <2>1
  <2>3. \A i \in DOMAIN a : feed.rev[a[i]] \in 0 .. 2
    BY <2>2 DEF BoardShape, FeedRows
  <2> QED  BY <2>1, <2>2, <2>3
<1>5. np = [at |-> <<>>, revs |-> <<>>, complete |-> FALSE, notModified |-> FALSE,
            next |-> Board!Origin] /\ np \in PageRows
  BY IdleRow DEF Board!NoPage, PageRows
<1>6. PICK e : e = [v.cur EXCEPT !.stored = TRUE]  OBVIOUS
<1>7. e \in CursorRows  BY <1>3, <1>6 DEF CursorRows
<1>8. PICK d : d = Board!PageCursor(v.cur)  OBVIOUS
<1>9. d \in CursorRows  BY <1>3, <1>8, PageCursorIs
<1>10. PICK page : page = IF Board!NotModified(v.cur)
           THEN [np EXCEPT !.complete = TRUE, !.notModified = TRUE, !.next = e]
           ELSE [at |-> a, revs |-> s, complete |-> Board!LastPage(v.cur.offset),
                 notModified |-> FALSE, next |-> d]
  OBVIOUS
<1>11. page \in PageRows
  <2>1. CASE Board!NotModified(v.cur)
    BY <1>5, <1>7, <1>10, <2>1 DEF PageRows
  <2>2. CASE ~Board!NotModified(v.cur)
    <3>1. Board!LastPage(v.cur.offset) \in BOOLEAN  BY <1>3, LastPageIs
    <3> QED  BY <1>4, <1>9, <1>10, <2>2, <3>1 DEF PageRows
  <2> QED  BY <2>1, <2>2
<1>12. PICK r : r = [v EXCEPT !.pc = "ingest", !.left = k, !.page = page]  OBVIOUS
<1>13. crew' = [crew EXCEPT ![x] = r] /\ ~Board!SnapshotChanged(v.cur)
  BY <1>2, <1>6, <1>8, <1>10, <1>12 DEF Board!FetchPage, BoardShape
<1>14. /\ r \in CrewRows /\ r.pc = "ingest" /\ r.started = v.started /\ r.cur = v.cur
       /\ r.scope = v.scope /\ r.page = page
  BY <1>3, <1>11, <1>12 DEF CrewRows, Phases
<1>15. crew' \in [Workers -> CrewRows] => BoardShape'
  BY <1>1, <1>13 DEF BoardShape, Everything
<1>16. SUFFICES ASSUME Board!Validated(kind), BoardShape', LockHolds'
                PROVE  PostingsHold' /\ CursorHolds(cursor)' /\ RestartHolds' /\ CrewHolds(r)'
  <2>1. r.pc # "idle" /\ (r.pc \in Early => r.row = 0)  BY <1>14 DEF Early
  <2> QED  BY <1>1, <1>2, <1>13, <1>14, <1>15, <2>1, WorkerStep DEF Everything
<1>17. PostingsHold /\ CursorHolds(cursor) /\ CrewHolds(v) /\ RestartHolds
  BY <1>2, <1>16
<1>18. CursorHolds(v.cur)  BY <1>3, <1>17 DEF CrewHolds, CrewReads, CrewWorks, Early
<1>19. Resting  BY <1>1 DEF Resting, Everything, BoardShape
<1>20. CursorHolds(cursor)' /\ CursorHolds(v.cur)'
  BY <1>1, <1>16, <1>17, <1>18, <1>19, RestingKeeps
<1>21. PostingsHold'  BY <1>1, <1>17, PostingsRest DEF Everything
<1>22. RestartHolds'
  BY <1>1, <1>2, <1>3, <1>17, <1>19, Alone, RestartRests
<1>23. OnTrack' <=> OnTrack  BY <1>1 DEF OnTrack, Board!Conditional, Everything
<1>24. /\ v.started # 0 \/ v.cur.offset > 0
       /\ ~v.cur.pending /\ v.started <= clock
       /\ v.started = v.cur.started \/ (v.cur.offset = 0 /\ v.cur.started = 0)
       /\ v.cur.offset = 0 /\ v.started # 0 /\ OnTrack => Unobserved(v.started)
       /\ "overlap" \notin caveats => v.scope = scope
  BY <1>3, <1>17 DEF CrewHolds, CrewReads, CrewWorks, Reading, Early
<1>25. OnTrack => NoGhost(v.started)
  <2>1. CASE v.cur.offset = 0
    BY <1>24, <2>1 DEF Unobserved, NoGhost
  <2>2. CASE v.cur.offset > 0
    <3>1. v.cur.etag = 0 \/ v.cur.etag = feed.version
      BY <1>13, <1>16, <2>2 DEF Board!SnapshotChanged, Board!NoEtag
    <3> QED  BY <1>18, <1>24, <2>2, <3>1 DEF CursorHolds, OnTrack
  <2> QED  BY <1>3, <2>1, <2>2
<1>26. PageHolds(r)
  <2>1. CASE Board!NotModified(v.cur)
    BY <1>5, <1>6, <1>10, <1>14, <2>1 DEF PageHolds, Board!NotModified, PageRows
  <2>2. CASE ~Board!NotModified(v.cur)
    BY <1>8, <1>10, <1>13, <1>14, <1>25, <2>2 DEF PageHolds
  <2> QED  BY <2>1, <2>2
<1>27. PageHolds(r)'
  BY <1>1, <1>23, <1>26, PageRests DEF Everything, NoGhost, Board!Listed
<1>28. CrewHolds(r)'
  BY <1>1, <1>14, <1>20, <1>24, <1>27
  DEF CrewHolds, CrewReads, CrewWorks, Early, Reading, Holding, Everything
<1> QED  BY <1>20, <1>21, <1>22, <1>28

\* The postings a page brings, K of them at the revisions R.
LEMMA PostingsIngested ==
    ASSUME BoardShape, NEW K \in SUBSET Postings, NEW R, NEW richer \in BOOLEAN,
           \A p \in K : R[p] \in 0 .. 2,
           \A p \in K :
              /\ posted'[p] = Board!JobAfter(p, R[p], richer)
              /\ occ'[p] = [known |-> TRUE, seen |-> clock, active |-> TRUE, rev |-> R[p]],
           \A p \in Postings \ K : occ'[p] = occ[p] /\ posted'[p] = posted[p]
    PROVE  /\ \A p \in Postings : occ'[p] \in OccRows /\ posted'[p] \in Statuses
           /\ \A p \in K :
                 /\ occ'[p].known /\ occ'[p].active /\ occ'[p].seen = clock
                 /\ occ'[p].rev = R[p] /\ posted'[p] = Board!JobAfter(p, R[p], richer)
                 /\ posted'[p] = "none" => occ[p].known /\ posted[p] = "none"
                 /\ occ[p].known /\ occ[p].active /\ occ[p].rev = occ'[p].rev
                       => posted'[p] = posted[p]
<1>1. /\ occ \in [Postings -> OccRows] /\ posted \in [Postings -> Statuses] /\ clock \in Nat
  BY DEF BoardShape
<1>3. ASSUME NEW p \in K
      PROVE  /\ occ'[p] = [known |-> TRUE, seen |-> clock, active |-> TRUE, rev |-> R[p]]
             /\ posted'[p] = Board!JobAfter(p, R[p], richer)
  OBVIOUS
<1>4. ASSUME NEW p \in K
      PROVE  /\ posted'[p] \in Statuses /\ occ'[p] \in OccRows
             /\ occ'[p].known /\ occ'[p].active /\ occ'[p].seen = clock
             /\ occ'[p].rev = R[p] /\ posted'[p] = Board!JobAfter(p, R[p], richer)
             /\ posted'[p] = "none" => occ[p].known /\ posted[p] = "none"
             /\ occ[p].known /\ occ[p].active /\ occ[p].rev = occ'[p].rev
                   => posted'[p] = posted[p]
  <2>1. posted[p] \in Statuses /\ R[p] \in 0 .. 2  BY <1>1
  <2>2. PICK o : o = [known |-> TRUE, seen |-> clock, active |-> TRUE, rev |-> R[p]]
    OBVIOUS
  <2>3. /\ o \in OccRows /\ o.known /\ o.active /\ o.seen = clock /\ o.rev = R[p]
    BY <1>1, <2>1, <2>2 DEF OccRows
  <2>4. occ'[p] = o /\ posted'[p] = Board!JobAfter(p, R[p], richer)  BY <1>3, <2>2
  <2>5. PICK j : j = Board!JobAfter(p, R[p], richer)  OBVIOUS
  <2>6. /\ j \in Statuses
        /\ j = "none" => occ[p].known /\ posted[p] = "none"
        /\ occ[p].known /\ occ[p].active /\ occ[p].rev = R[p] => j = posted[p]
    BY <2>1, <2>5 DEF Board!JobAfter, Board!Rewrites, Board!Adopts, Statuses
  <2> QED  BY <2>3, <2>4, <2>5, <2>6
<1>5. \A p \in Postings : occ'[p] \in OccRows /\ posted'[p] \in Statuses
  <2> TAKE p \in Postings
  <2>1. CASE p \in K  BY <1>4, <2>1
  <2>2. CASE p \notin K  BY <1>1, <2>2
  <2> QED  BY <2>1, <2>2
<1> QED  BY <1>4, <1>5

\* What ingesting a page leaves of the postings.
IngestedAs(x, K, R, richer) ==
    /\ K \subseteq Postings
    /\ \A i \in DOMAIN crew[x].page.at :
          crew[x].page.at[i] \in SearchScopes[crew[x].scope] => crew[x].page.at[i] \in K
    /\ \A p \in K : \E i \in DOMAIN crew[x].page.at :
          crew[x].page.at[i] = p /\ R[p] = crew[x].page.revs[i] /\ R[p] \in 0 .. 2
    /\ posted' = [p \in Postings |->
                    IF p \in K THEN Board!JobAfter(p, R[p], richer) ELSE posted[p]]
    /\ crew' = [crew EXCEPT ![x].pc = "queue",
                            ![x].queue = {p \in K :
                                Board!JobAfter(p, R[p], richer) = "extracted"}]
    /\ occ' = [p \in Postings |->
                 IF p \in K
                 THEN [known |-> TRUE, seen |-> clock, active |-> TRUE, rev |-> R[p]]
                 ELSE occ[p]]

LEMMA IngestsSome ==
    ASSUME BoardShape, NEW x \in Workers, Board!IngestPage(x)
    PROVE  \E K, R : \E richer \in BOOLEAN : IngestedAs(x, K, R, richer)
<1> DEFINE page == crew[x].page
           keep == {i \in DOMAIN page.at : page.at[i] \in SearchScopes[crew[x].scope]}
           kept == {page.at[i] : i \in keep}
           revOf == [p \in kept |-> page.revs[CHOOSE i \in keep : page.at[i] = p]]
<1>1. PICK richer \in BOOLEAN :
        /\ posted' = [p \in Postings |->
                       IF p \in kept THEN Board!JobAfter(p, revOf[p], richer) ELSE posted[p]]
        /\ crew' = [crew EXCEPT ![x].pc = "queue",
                                ![x].queue = {p \in kept :
                                    Board!JobAfter(p, revOf[p], richer) = "extracted"}]
  BY DEF Board!IngestPage
<1>2. occ' = [p \in Postings |->
                IF p \in kept
                THEN [known |-> TRUE, seen |-> clock, active |-> TRUE, rev |-> revOf[p]]
                ELSE occ[p]]
  BY DEF Board!IngestPage
<1>3. /\ page.at \in Seq(Postings) /\ page.revs \in Seq(0 .. 2)
      /\ DOMAIN page.revs = DOMAIN page.at
  BY DEF BoardShape, CrewRows, PageRows
<1>4. kept \subseteq Postings  BY <1>3
<1>5. ASSUME NEW p \in kept
      PROVE  \E i \in DOMAIN page.at :
                page.at[i] = p /\ revOf[p] = page.revs[i] /\ revOf[p] \in 0 .. 2
  <2>1. \E i \in keep : page.at[i] = p  OBVIOUS
  <2>2. PICK i : i = CHOOSE j \in keep : page.at[j] = p  OBVIOUS
  <2>3. i \in keep /\ page.at[i] = p  BY <2>1, <2>2
  <2>4. revOf[p] = page.revs[CHOOSE j \in keep : page.at[j] = p]  OBVIOUS
  <2>5. revOf[p] = page.revs[i] /\ i \in DOMAIN page.at
    <3> HIDE DEF revOf
    <3> QED  BY <2>2, <2>3, <2>4
  <2>6. page.revs[i] \in 0 .. 2
    <3> HIDE DEF page
    <3> QED  BY <1>3, <2>5
  <2> HIDE DEF revOf
  <2> QED  BY <2>3, <2>5, <2>6
<1>6. \A i \in DOMAIN page.at :
         page.at[i] \in SearchScopes[crew[x].scope] => page.at[i] \in kept
  OBVIOUS
<1>7. IngestedAs(x, kept, revOf, richer)
  <2> HIDE DEF revOf, kept, keep
  <2> QED  BY <1>1, <1>2, <1>4, <1>5, <1>6 DEF IngestedAs
<1> HIDE DEF revOf, kept, keep, page
<1> QED  BY <1>7

IngestedOne(v, p, q) ==
    /\ occ'[p].known /\ occ'[p].active /\ occ'[p].seen = clock
    /\ \E i \in DOMAIN v.page.at : v.page.at[i] = p /\ occ'[p].rev = v.page.revs[i]
    /\ posted'[p] = "extracted" => p \in q
    /\ posted'[p] = "none" => occ[p].known /\ posted[p] = "none"
    /\ occ[p].known /\ occ[p].active /\ occ[p].rev = occ'[p].rev => posted'[p] = posted[p]

Ingested(x, v, K, q) ==
    /\ crew' = [crew EXCEPT ![x] = [v EXCEPT !.pc = "queue", !.queue = q]]
    /\ occ' \in [Postings -> OccRows] /\ posted' \in [Postings -> Statuses]
    /\ \A i \in DOMAIN v.page.at :
          v.page.at[i] \in SearchScopes[v.scope] => v.page.at[i] \in K
    /\ \A p \in Postings \ K : occ'[p] = occ[p] /\ posted'[p] = posted[p]
    /\ \A p \in K : IngestedOne(v, p, q)

LEMMA IngestLeaves ==
    ASSUME BoardShape, NEW x \in Workers, Board!IngestPage(x), NEW v, v = crew[x]
    PROVE  \E K, q \in SUBSET Postings : Ingested(x, v, K, q)
<1>1. PICK K, R : \E richer \in BOOLEAN : IngestedAs(x, K, R, richer)  BY IngestsSome
<1>2. PICK richer \in BOOLEAN : IngestedAs(x, K, R, richer)  BY <1>1
<1>3. PICK q : q = {p \in K : Board!JobAfter(p, R[p], richer) = "extracted"}  OBVIOUS
<1>4. K \in SUBSET Postings /\ q \in SUBSET Postings  BY <1>2, <1>3 DEF IngestedAs
<1>5. /\ \A p \in K : \E i \in DOMAIN v.page.at :
                v.page.at[i] = p /\ R[p] = v.page.revs[i] /\ R[p] \in 0 .. 2
      /\ \A i \in DOMAIN v.page.at :
                v.page.at[i] \in SearchScopes[v.scope] => v.page.at[i] \in K
  BY <1>2 DEF IngestedAs
<1>6. \A p \in K : R[p] \in 0 .. 2  BY <1>5
<1>7. /\ \A p \in K :
             /\ posted'[p] = Board!JobAfter(p, R[p], richer)
             /\ occ'[p] = [known |-> TRUE, seen |-> clock, active |-> TRUE, rev |-> R[p]]
      /\ \A p \in Postings \ K : occ'[p] = occ[p] /\ posted'[p] = posted[p]
  BY <1>2, <1>4 DEF IngestedAs
<1>8. crew' = [crew EXCEPT ![x] = [v EXCEPT !.pc = "queue", !.queue = q]]
  BY <1>2, <1>3 DEF IngestedAs, BoardShape
<1>9. /\ \A p \in Postings : occ'[p] \in OccRows /\ posted'[p] \in Statuses
      /\ \A p \in K :
            /\ occ'[p].known /\ occ'[p].active /\ occ'[p].seen = clock
            /\ occ'[p].rev = R[p] /\ posted'[p] = Board!JobAfter(p, R[p], richer)
            /\ posted'[p] = "none" => occ[p].known /\ posted[p] = "none"
            /\ occ[p].known /\ occ[p].active /\ occ[p].rev = occ'[p].rev
                  => posted'[p] = posted[p]
  BY <1>4, <1>6, <1>7, PostingsIngested
<1>10. occ' \in [Postings -> OccRows] /\ posted' \in [Postings -> Statuses]
  BY <1>2, <1>9 DEF IngestedAs
<1>11. ASSUME NEW p \in K  PROVE IngestedOne(v, p, q)
  <2>1. occ'[p].rev = R[p] /\ posted'[p] = Board!JobAfter(p, R[p], richer)  BY <1>9
  <2>2. \E i \in DOMAIN v.page.at : v.page.at[i] = p /\ occ'[p].rev = v.page.revs[i]
    BY <1>5, <2>1
  <2>3. posted'[p] = "extracted" => p \in q  BY <1>3, <2>1
  <2> QED  BY <1>9, <2>2, <2>3 DEF IngestedOne
<1>12. Ingested(x, v, K, q)
  BY <1>5, <1>7, <1>8, <1>10, <1>11 DEF Ingested
<1> QED  BY <1>4, <1>12

LEMMA IngestPageStep ==
    ASSUME BoardSettings, BoardHolds, NEW x \in Workers, Board!IngestPage(x)  PROVE BoardHolds'
<1> USE DEF BoardHolds
<1>1. /\ crew[x].pc = "ingest"
      /\ UNCHANGED <<kind, feed, cursor, scope, lock, clock, absent, caveats>>
  BY DEF Board!IngestPage
<1>2. PICK v : v = crew[x]  OBVIOUS
<1>3. v \in CrewRows /\ v.pc = "ingest" /\ v.cur \in CursorRows /\ v.cur.offset \in Nat
  BY <1>1, <1>2 DEF BoardShape, CrewRows, CursorRows
<1>4. PICK kept \in SUBSET Postings, q \in SUBSET Postings : Ingested(x, v, kept, q)
  BY <1>2, IngestLeaves
<1>5. /\ crew' = [crew EXCEPT ![x] = [v EXCEPT !.pc = "queue", !.queue = q]]
      /\ occ' \in [Postings -> OccRows] /\ posted' \in [Postings -> Statuses]
      /\ \A i \in DOMAIN v.page.at :
            v.page.at[i] \in SearchScopes[v.scope] => v.page.at[i] \in kept
      /\ \A p \in Postings \ kept : occ'[p] = occ[p] /\ posted'[p] = posted[p]
      /\ \A p \in kept :
            /\ occ'[p].known /\ occ'[p].active /\ occ'[p].seen = clock
            /\ \E i \in DOMAIN v.page.at : v.page.at[i] = p /\ occ'[p].rev = v.page.revs[i]
            /\ posted'[p] = "extracted" => p \in q
            /\ posted'[p] = "none" => occ[p].known /\ posted[p] = "none"
            /\ occ[p].known /\ occ[p].active /\ occ[p].rev = occ'[p].rev
                  => posted'[p] = posted[p]
  BY <1>4 DEF Ingested, IngestedOne
<1>7. PICK r : r = [v EXCEPT !.pc = "queue", !.queue = q]  OBVIOUS
<1>8. /\ r \in CrewRows /\ r.pc = "queue" /\ r.started = v.started /\ r.cur = v.cur
      /\ r.scope = v.scope /\ r.page = v.page /\ r.queue = q
  BY <1>3, <1>7 DEF CrewRows, Phases
<1>9. crew' = [crew EXCEPT ![x] = r]  BY <1>5, <1>7
<1>10. crew' \in [Workers -> CrewRows] => BoardShape'
  BY <1>1, <1>5 DEF BoardShape
<1>11. SUFFICES ASSUME Board!Validated(kind), BoardShape', LockHolds'
                PROVE  PostingsHold' /\ CursorHolds(cursor)' /\ RestartHolds' /\ CrewHolds(r)'
  <2>1. r.pc # "idle" /\ (r.pc \in Early => r.row = 0)  BY <1>8 DEF Early
  <2> QED  BY <1>1, <1>2, <1>8, <1>9, <1>10, <2>1, WorkerStep
<1>12. PostingsHold /\ CursorHolds(cursor) /\ CrewHolds(v) /\ PageHolds(v)
  BY <1>2, <1>3, <1>11 DEF CrewHolds, CrewReads, CrewWorks, Holding
<1>13. CursorHolds(v.cur)  BY <1>3, <1>12 DEF CrewHolds, CrewReads, CrewWorks, Early
<1>14. \A i \in DOMAIN v.page.at :
          v.page.at[i] \in Board!Listed /\ v.page.revs[i] = feed.rev[v.page.at[i]]
  <2>1. CASE v.page.notModified  BY <1>12, <2>1 DEF PageHolds
  <2>2. CASE ~v.page.notModified
    <3>1. /\ v.page.at = Board!Window(v.cur.offset)
          /\ v.page.revs = [i \in DOMAIN v.page.at |-> feed.rev[v.page.at[i]]]
      BY <1>12, <2>2 DEF PageHolds
    <3>2. \A i \in DOMAIN v.page.at : v.page.at[i] \in Board!Listed
      <4>1. PICK at : at = Board!Window(v.cur.offset)  OBVIOUS
      <4>2. \A i \in DOMAIN at : v.cur.offset + i \in DOMAIN feed.rows
                                 /\ at[i] = feed.rows[v.cur.offset + i]
        BY <1>3, <4>1, WindowIs
      <4> QED  BY <3>1, <4>1, <4>2 DEF Board!Listed
    <3> QED  BY <3>1, <3>2
  <2> QED  BY <2>1, <2>2
<1>15. \A p \in kept : p \in Board!Listed /\ occ'[p].rev = feed.rev[p]
  BY <1>5, <1>14
<1>16. Board!Listed \subseteq Postings /\ Board!Listed' = Board!Listed
  BY <1>1 DEF Board!Listed, BoardShape, FeedRows
<1>17. \A p \in Postings : occ[p].seen \in Nat /\ occ'[p].seen \in Nat /\ occ[p].seen <= clock
  BY <1>11, <1>12 DEF BoardShape, OccRows, PostingsHold
<1>18. Onward
  BY <1>1, <1>5, <1>15, <1>17 DEF Onward, BoardShape
<1>19. KeepsDone
  <2> SUFFICES ASSUME NEW p \in Board!Listed, Done(p)  PROVE Done(p)'
    BY DEF KeepsDone
  <2>1. p \in Postings /\ (occ[p].active => occ[p].known)  BY <1>12, <1>16 DEF PostingsHold
  <2> QED  BY <1>1, <1>5, <1>15, <2>1 DEF Done
<1>20. PostingsHold'
  <2> SUFFICES ASSUME NEW p \in Postings
               PROVE  /\ occ'[p].active => occ'[p].known
                      /\ occ'[p].known => posted'[p] # "none"
                      /\ occ'[p].seen <= clock /\ absent[p] <= clock
                      /\ p \notin Board!Listed => absent[p] = clock
    BY <1>1, <1>16 DEF PostingsHold
  <2>1. CASE p \in kept  BY <1>5, <1>12, <2>1 DEF PostingsHold, BoardShape
  <2>2. CASE p \notin kept  BY <1>5, <1>12, <2>2 DEF PostingsHold
  <2> QED  BY <2>1, <2>2
<1>21. CursorHolds(cursor)' /\ CursorHolds(v.cur)'
  BY <1>1, <1>11, <1>12, <1>13, <1>18, <1>19, CursorKept
<1>22. RestartHolds'
  <2>1. crew'[x].pc = "queue"  BY <1>8, <1>9 DEF BoardShape
  <2> QED  BY <2>1 DEF RestartHolds
<1>23. (OnTrack' <=> OnTrack) /\ (InScope' <=> InScope)
  BY <1>1 DEF OnTrack, InScope, Board!Conditional
<1>24. PageHolds(r)'
  <2>1. PageHolds(r)  BY <1>8, <1>12 DEF PageHolds
  <2>2. NoGhost(r.started) => NoGhost(r.started)'
    BY <1>5, <1>15, <1>16 DEF NoGhost
  <2> QED  BY <1>1, <1>23, <2>1, <2>2, PageRests
<1>25. /\ v.started # 0 \/ v.cur.offset > 0
       /\ ~v.cur.pending /\ v.started <= clock
       /\ v.started = v.cur.started \/ (v.cur.offset = 0 /\ v.cur.started = 0)
       /\ "overlap" \notin caveats => v.scope = scope
  BY <1>3, <1>12 DEF CrewHolds, CrewReads, CrewWorks, Reading, Early
<1>26. ASSUME InScope', NEW i \in DOMAIN v.page.at, v.page.at[i] \in SearchScopes[scope]
       PROVE  /\ occ'[v.page.at[i]].active /\ occ'[v.page.at[i]].rev = feed.rev[v.page.at[i]]
              /\ posted'[v.page.at[i]] # "none"
              /\ posted'[v.page.at[i]] = "extracted" => v.page.at[i] \in q
  <2>1. v.scope = scope  BY <1>23, <1>25, <1>26 DEF InScope
  <2>2. PICK p : p = v.page.at[i]  OBVIOUS
  <2>3. p \in kept  BY <1>5, <1>26, <2>1, <2>2
  <2>4. occ[p].known => posted[p] # "none"  BY <1>5, <1>12, <2>3 DEF PostingsHold
  <2> QED  BY <1>5, <1>15, <2>2, <2>3, <2>4
<1>27. CrewReads(r)'
  BY <1>1, <1>8, <1>21, <1>25 DEF CrewReads, Early, Reading
<1>28. CrewWorks(r)'
  BY <1>1, <1>8, <1>24, <1>26 DEF CrewWorks, Holding
<1> QED  BY <1>20, <1>21, <1>22, <1>27, <1>28 DEF CrewHolds

LEMMA QueueScoringStep ==
    ASSUME BoardHolds, NEW x \in Workers, Board!QueueScoring(x)  PROVE BoardHolds'
<1> USE DEF BoardHolds
<1>1. /\ crew[x].pc = "queue"
      /\ UNCHANGED <<kind, feed, occ, cursor, scope, lock, clock, absent, caveats>>
  BY DEF Board!QueueScoring
<1>2. PICK v : v = crew[x]  OBVIOUS
<1>3. /\ v \in CrewRows /\ v.pc = "queue" /\ v.cur \in CursorRows
      /\ \A i \in DOMAIN v.page.at : v.page.at[i] \in Postings
  BY <1>1, <1>2 DEF BoardShape, CrewRows, PageRows
<1>4. PICK r : r = [v EXCEPT !.pc = "mark", !.queue = {}]  OBVIOUS
<1>5. /\ r \in CrewRows /\ r.pc = "mark" /\ r.started = v.started /\ r.cur = v.cur
      /\ r.scope = v.scope /\ r.page = v.page
  BY <1>3, <1>4 DEF CrewRows, Phases
<1>6. crew' = [crew EXCEPT ![x] = r]  BY <1>2, <1>4 DEF Board!QueueScoring, BoardShape
<1>7. /\ posted' \in [Postings -> Statuses]
      /\ \A p \in Postings :
            /\ posted'[p] = posted[p] \/ (posted[p] = "extracted" /\ posted'[p] = "scored")
            /\ p \in v.queue => posted'[p] # "extracted"
  BY <1>2 DEF Board!QueueScoring, BoardShape, Statuses
<1>8. crew' \in [Workers -> CrewRows] => BoardShape'
  BY <1>1, <1>7 DEF BoardShape
<1>9. SUFFICES ASSUME Board!Validated(kind), BoardShape', LockHolds'
               PROVE  PostingsHold' /\ CursorHolds(cursor)' /\ RestartHolds' /\ CrewHolds(r)'
  <2>1. r.pc # "idle" /\ (r.pc \in Early => r.row = 0)  BY <1>5 DEF Early
  <2> QED  BY <1>1, <1>2, <1>5, <1>6, <1>8, <2>1, WorkerStep
<1>10. PostingsHold /\ CursorHolds(cursor) /\ CrewHolds(v) /\ PageHolds(v)
  BY <1>2, <1>3, <1>9 DEF CrewHolds, CrewReads, CrewWorks, Holding
<1>11. CursorHolds(v.cur)  BY <1>3, <1>10 DEF CrewHolds, CrewReads, CrewWorks, Early
<1>12. Board!Listed \subseteq Postings /\ Board!Listed' = Board!Listed
  BY <1>1 DEF Board!Listed, BoardShape, FeedRows
<1>13. clock \in Nat /\ \A p \in Postings : occ[p].seen \in Nat /\ absent[p] \in Nat
  BY DEF BoardShape, OccRows
<1>14. Onward  BY <1>1, <1>13 DEF Onward
<1>15. KeepsDone
  <2> SUFFICES ASSUME NEW p \in Board!Listed, Done(p)  PROVE Done(p)'
    BY DEF KeepsDone
  <2> QED  BY <1>1, <1>7, <1>12 DEF Done
<1>16. CursorHolds(cursor)' /\ CursorHolds(v.cur)'
  BY <1>1, <1>9, <1>10, <1>11, <1>14, <1>15, CursorKept
<1>17. PostingsHold'  BY <1>1, <1>7, <1>10, <1>12 DEF PostingsHold
<1>18. RestartHolds'
  <2>1. crew'[x].pc = "mark"  BY <1>5, <1>6 DEF BoardShape
  <2> QED  BY <2>1 DEF RestartHolds
<1>19. (OnTrack' <=> OnTrack) /\ (InScope' <=> InScope)
  BY <1>1 DEF OnTrack, InScope, Board!Conditional
<1>20. PageHolds(r)'
  <2>1. PageHolds(r)  BY <1>5, <1>10 DEF PageHolds
  <2>2. NoGhost(r.started) => NoGhost(r.started)'  BY <1>1, <1>12 DEF NoGhost
  <2> QED  BY <1>1, <1>19, <2>1, <2>2, PageRests
<1>21. /\ v.started # 0 \/ v.cur.offset > 0
       /\ ~v.cur.pending /\ v.started <= clock
       /\ v.started = v.cur.started \/ (v.cur.offset = 0 /\ v.cur.started = 0)
       /\ "overlap" \notin caveats => v.scope = scope
  BY <1>3, <1>10 DEF CrewHolds, CrewReads, CrewWorks, Reading, Early
<1>22. ASSUME InScope', NEW i \in DOMAIN v.page.at  PROVE Done(v.page.at[i])'
  <2>1. PICK p \in Postings : p = v.page.at[i]  BY <1>3, <1>22
  <2>2. p \in SearchScopes[scope] =>
           /\ occ[p].active /\ occ[p].rev = feed.rev[p] /\ posted[p] # "none"
           /\ posted[p] = "extracted" => p \in v.queue
    BY <1>3, <1>10, <1>19, <1>22, <2>1 DEF CrewHolds, CrewReads, CrewWorks
  <2>3. Done(p)'  BY <1>1, <1>7, <2>2 DEF Done
  <2> QED  BY <2>1, <2>3
<1>23. CrewHolds(r)'
  BY <1>1, <1>5, <1>16, <1>20, <1>21, <1>22
  DEF CrewHolds, CrewReads, CrewWorks, Early, Reading, Holding
<1> QED  BY <1>16, <1>17, <1>18, <1>23

LEMMA MarkSeenStep ==
    ASSUME BoardSettings, BoardHolds, NEW x \in Workers, Board!MarkSeen(x)  PROVE BoardHolds'
<1> USE DEF BoardHolds
<1>1. /\ crew[x].pc = "mark"
      /\ UNCHANGED <<kind, feed, posted, cursor, scope, lock, clock, absent, caveats>>
  BY DEF Board!MarkSeen
<1>2. PICK v : v = crew[x]  OBVIOUS
<1>3. /\ v \in CrewRows /\ v.pc = "mark" /\ v.cur \in CursorRows /\ v.cur.offset \in Nat
      /\ \A i \in DOMAIN v.page.at : v.page.at[i] \in Postings
  <2>1. v \in CrewRows /\ v.pc = "mark" /\ v.cur \in CursorRows
    BY <1>1, <1>2 DEF BoardShape, CrewRows
  <2>2. v.cur.offset \in Nat  BY <2>1 DEF CursorRows
  <2>3. v.page.at \in Seq(Postings)  BY <2>1 DEF CrewRows, PageRows
  <2> QED  BY <2>1, <2>2, <2>3
<1>4. PICK r : r = [v EXCEPT !.pc = "save"]  OBVIOUS
<1>5. /\ r \in CrewRows /\ r.pc = "save" /\ r.started = v.started /\ r.cur = v.cur
      /\ r.scope = v.scope /\ r.page = v.page
  BY <1>3, <1>4 DEF CrewRows, Phases
<1>6. crew' = [crew EXCEPT ![x] = r]
  BY <1>2, <1>4 DEF Board!MarkSeen, Board!Goto, BoardShape
<1>7. PICK here : here = {v.page.at[i] : i \in DOMAIN v.page.at}  OBVIOUS
<1>8. occ' = [p \in Postings |-> IF p \in here /\ occ[p].known
                                 THEN [occ[p] EXCEPT !.seen = clock, !.active = TRUE] ELSE occ[p]]
  BY <1>2, <1>7 DEF Board!MarkSeen, Board!Present
<1>9. ASSUME NEW p \in Postings
      PROVE  /\ occ'[p] \in OccRows /\ occ'[p].known = occ[p].known /\ occ'[p].rev = occ[p].rev
             /\ p \in here /\ occ[p].known => occ'[p].active /\ occ'[p].seen = clock
             /\ ~(p \in here /\ occ[p].known) => occ'[p] = occ[p]
  <2>1. occ[p] \in OccRows /\ clock \in Nat  BY DEF BoardShape
  <2>2. PICK o : o = [occ[p] EXCEPT !.seen = clock, !.active = TRUE]  OBVIOUS
  <2>3. /\ o \in OccRows /\ o.known = occ[p].known /\ o.rev = occ[p].rev
        /\ o.active /\ o.seen = clock
    BY <2>1, <2>2 DEF OccRows
  <2>4. occ'[p] = IF p \in here /\ occ[p].known THEN o ELSE occ[p]  BY <1>8, <2>2
  <2> QED  BY <2>1, <2>3, <2>4
<1>10. occ' \in [Postings -> OccRows]  BY <1>8, <1>9
<1>11. crew' \in [Workers -> CrewRows] => BoardShape'
  BY <1>1, <1>10 DEF BoardShape
<1>12. SUFFICES ASSUME Board!Validated(kind), BoardShape', LockHolds'
                PROVE  PostingsHold' /\ CursorHolds(cursor)' /\ RestartHolds' /\ CrewHolds(r)'
  <2>1. r.pc # "idle" /\ (r.pc \in Early => r.row = 0)  BY <1>5 DEF Early
  <2> QED  BY <1>1, <1>2, <1>5, <1>6, <1>11, <2>1, WorkerStep
<1>13. PostingsHold /\ CursorHolds(cursor) /\ CrewHolds(v) /\ PageHolds(v)
  BY <1>2, <1>3, <1>12 DEF CrewHolds, CrewReads, CrewWorks, Holding
<1>14. CursorHolds(v.cur)  BY <1>3, <1>13 DEF CrewHolds, CrewReads, CrewWorks, Early
<1>15. here \subseteq Board!Listed
  <2>1. CASE v.page.notModified  BY <1>7, <1>13, <2>1 DEF PageHolds
  <2>2. CASE ~v.page.notModified
    <3>1. PICK at : at = Board!Window(v.cur.offset)  OBVIOUS
    <3>2. v.page.at = at  BY <1>13, <2>2, <3>1 DEF PageHolds
    <3>3. \A i \in DOMAIN at : v.cur.offset + i \in DOMAIN feed.rows
                               /\ at[i] = feed.rows[v.cur.offset + i]
      BY <1>3, <3>1, WindowIs
    <3> QED  BY <1>7, <3>2, <3>3 DEF Board!Listed
  <2> QED  BY <2>1, <2>2
<1>16. Board!Listed \subseteq Postings /\ Board!Listed' = Board!Listed
  BY <1>1 DEF Board!Listed, BoardShape, FeedRows
<1>17. /\ clock \in Nat
       /\ \A p \in Postings : /\ occ[p].seen \in Nat /\ occ'[p].seen \in Nat
                              /\ occ[p].seen <= clock /\ absent[p] \in Nat
  BY <1>12, <1>13 DEF BoardShape, OccRows, PostingsHold
<1>18. Onward
  BY <1>1, <1>9, <1>15, <1>16, <1>17 DEF Onward
<1>19. KeepsDone
  <2> SUFFICES ASSUME NEW p \in Board!Listed, Done(p)  PROVE Done(p)'
    BY DEF KeepsDone
  <2>1. p \in Postings  BY <1>16
  <2>2. occ'[p].rev = occ[p].rev /\ (occ[p].active => occ'[p].active)  BY <1>9, <2>1
  <2> QED  BY <1>1, <2>2 DEF Done
<1>20. PostingsHold'
  <2> SUFFICES ASSUME NEW p \in Postings
               PROVE  /\ occ'[p].active => occ'[p].known
                      /\ occ'[p].known => posted'[p] # "none"
                      /\ occ'[p].seen <= clock /\ absent[p] <= clock
                      /\ p \notin Board!Listed => absent[p] = clock
    BY <1>1, <1>16 DEF PostingsHold
  <2> QED  BY <1>1, <1>9, <1>13, <1>17 DEF PostingsHold
<1>21. CursorHolds(cursor)' /\ CursorHolds(v.cur)'
  BY <1>1, <1>12, <1>13, <1>14, <1>18, <1>19, CursorKept
<1>22. RestartHolds'
  <2>1. crew'[x].pc = "save"  BY <1>5, <1>6 DEF BoardShape
  <2> QED  BY <2>1 DEF RestartHolds
<1>23. (OnTrack' <=> OnTrack) /\ (InScope' <=> InScope)
  BY <1>1 DEF OnTrack, InScope, Board!Conditional
<1>24. PageHolds(r)'
  <2>1. PageHolds(r)  BY <1>5, <1>13 DEF PageHolds
  <2>2. NoGhost(r.started) => NoGhost(r.started)'
    BY <1>9, <1>15, <1>16 DEF NoGhost
  <2> QED  BY <1>1, <1>23, <2>1, <2>2, PageRests
<1>25. /\ v.started # 0 \/ v.cur.offset > 0
       /\ ~v.cur.pending /\ v.started <= clock
       /\ v.started = v.cur.started \/ (v.cur.offset = 0 /\ v.cur.started = 0)
       /\ "overlap" \notin caveats => v.scope = scope
  BY <1>3, <1>13 DEF CrewHolds, CrewReads, CrewWorks, Reading, Early
<1>26. ASSUME NEW i \in DOMAIN v.page.at
       PROVE  /\ InScope' => Done(v.page.at[i])'
              /\ Seen(v.page.at[i], v.started)'
  <2>1. PICK p \in Postings : p = v.page.at[i]  BY <1>3, <1>26
  <2>2. p \in here /\ p \in Board!Listed  BY <1>7, <1>15, <1>26, <2>1
  <2>3. InScope => Done(p)  BY <1>3, <1>13, <1>26, <2>1 DEF CrewHolds, CrewReads, CrewWorks
  <2>4. InScope' => Done(p)'  BY <1>19, <1>23, <2>2, <2>3 DEF KeepsDone
  <2>5. occ[p].active => occ[p].known  BY <1>13 DEF PostingsHold
  <2>6. occ'[p].active => occ'[p].seen >= v.started
    BY <1>9, <1>17, <1>25, <2>2, <2>5
  <2>7. Seen(p, v.started)'  BY <2>6 DEF Seen
  <2> QED  BY <2>1, <2>4, <2>7
<1>27. CrewHolds(r)'
  BY <1>1, <1>5, <1>21, <1>24, <1>25, <1>26
  DEF CrewHolds, CrewReads, CrewWorks, Early, Reading, Holding
<1> QED  BY <1>20, <1>21, <1>22, <1>27

\* The cursor that stores a page covers its rows.
LEMMA SavedIs ==
    ASSUME BoardSettings, BoardShape, PostingsHold, Board!Validated(kind),
           NEW v \in CrewRows, v.pc = "save", CrewHolds(v), NEW d,
           d = IF v.page.notModified \/ v.started = 0
               THEN Board!WithoutSnapshot(v.page.next)
               ELSE [v.page.next EXCEPT !.started = v.started, !.pending = v.page.complete]
    PROVE  /\ CursorHolds(d) /\ d \in CursorRows /\ d.etag = feed.version
           /\ d.offset = 0 /\ ~d.pending => d.started = 0
           /\ v.page.complete \in BOOLEAN
           /\ v.page.complete /\ ~v.page.notModified /\ v.started # 0
                 => d.pending /\ d.started = v.started
           /\ ~v.page.complete => ~d.pending /\ d.offset > 0 /\ d.started = v.started
<1>1. /\ PageHolds(v) /\ CursorHolds(v.cur) /\ ~v.cur.pending /\ v.started <= clock
      /\ v.started = v.cur.started \/ (v.cur.offset = 0 /\ v.cur.started = 0)
      /\ v.started # 0 \/ v.cur.offset > 0
      /\ InScope => \A i \in DOMAIN v.page.at : Done(v.page.at[i])
      /\ \A i \in DOMAIN v.page.at : Seen(v.page.at[i], v.started)
  BY DEF CrewHolds, CrewReads, CrewWorks, Early, Reading, Holding
<1>2. /\ v.cur \in CursorRows /\ v.page \in PageRows /\ v.started \in Nat /\ clock \in Nat
      /\ feed.version \in Nat \ {0}
  BY DEF CrewRows, BoardShape, FeedRows
<1>3. /\ v.page.next \in CursorRows /\ v.page.complete \in BOOLEAN
      /\ v.page.notModified \in BOOLEAN /\ v.cur.offset \in Nat /\ v.cur.etag \in Nat
      /\ v.cur.started \in Nat
  BY <1>2 DEF PageRows, CursorRows
<1>4. CASE v.page.notModified
  <2>1. /\ v.page.complete /\ v.cur.offset = 0 /\ v.cur.etag = feed.version
        /\ v.page.next = [v.cur EXCEPT !.stored = TRUE]
    BY <1>1, <1>4 DEF PageHolds
  <2>2. v.page.next.offset = 0 /\ v.page.next.etag = feed.version
    BY <1>2, <2>1 DEF CursorRows
  <2>3. d = Board!WithoutSnapshot(v.page.next)  BY <1>4
  <2>4. d \in CursorRows /\ d.etag = feed.version /\ d.offset = 0 /\ d.started = 0 /\ ~d.pending
    BY <1>3, <2>2, <2>3, WithoutSnapshotIs
  <2>5. OnTrack /\ v.cur.etag = feed.version => AllListed
    BY <1>1, <2>1 DEF CursorHolds
  <2>6. CursorHolds(d)  BY <1>1, <2>1, <2>4, <2>5, CrossedOff
  <2> QED  BY <1>4, <2>1, <2>4, <2>6
<1>5. CASE ~v.page.notModified
  <2>1. PICK p : p = Board!PageCursor(v.cur)  OBVIOUS
  <2>2. /\ v.page.at = Board!Window(v.cur.offset)
        /\ v.page.complete = Board!LastPage(v.cur.offset) /\ v.page.next = p
        /\ ~Board!SnapshotChanged(v.cur) /\ (OnTrack => NoGhost(v.started))
    BY <1>1, <1>5, <2>1 DEF PageHolds
  <2> PICK end : end = v.cur.offset + Len(Board!Window(v.cur.offset))  OBVIOUS
  <2> PICK total : total = Len(feed.rows)  OBVIOUS
  <2>3. /\ p \in CursorRows /\ p.started = v.cur.started /\ ~p.pending /\ p.etag = feed.version
        /\ v.page.complete <=> end >= total
        /\ p.offset = IF end >= total THEN 0 ELSE end
        /\ ~(end >= total) => end > 0
    BY <1>1, <1>2, <2>1, <2>2, PageCursorIs
  <2>4. end \in Nat /\ total \in Nat /\ DOMAIN feed.rows = 1 .. total
    BY <1>3, WindowIs
  <2>5. CASE v.started = 0
    <3>1. v.cur.offset > 0 /\ v.cur.started = 0  BY <1>1, <1>3, <2>5
    <3>2. "legacy" \in caveats  BY <1>1, <3>1 DEF CursorHolds
    <3>3. ~InScope /\ ~OnTrack  BY <3>2 DEF InScope, OnTrack
    <3>4. d = Board!WithoutSnapshot(p)  BY <2>2, <2>5
    <3>5. /\ d \in CursorRows /\ d.etag = feed.version /\ d.offset = p.offset
          /\ d.started = 0 /\ ~d.pending
      BY <2>3, <3>4, WithoutSnapshotIs
    <3>6. \A i \in Behind(d) : Seen(feed.rows[i], d.started)
      <4>1. \A i \in Behind(d) : feed.rows[i] \in Postings
        BY DEF Behind, BoardShape, FeedRows
      <4> QED  BY <3>5, <4>1 DEF Seen, BoardShape, OccRows
    <3>7. CursorHolds(d)  BY <1>2, <3>2, <3>3, <3>5, <3>6, SMTT(60) DEF CursorHolds
    <3> QED  BY <1>3, <2>3, <2>4, <2>5, <3>5, <3>7
  <2>6. CASE v.started # 0
    <3>1. PICK s \in Nat : s = v.started  BY <1>2
    <3>2. PICK l \in BOOLEAN : l = v.page.complete  BY <1>3
    <3>3. d = [p EXCEPT !.started = s, !.pending = l]
      BY <1>5, <2>2, <2>6, <3>1, <3>2
    <3>4. /\ d \in CursorRows /\ d.etag = feed.version /\ d.offset = p.offset
          /\ d.started = s /\ d.pending = l
      BY <2>3, <3>3 DEF CursorRows
    <3>5. (l <=> end >= total) /\ (l => d.offset = 0) /\ (~l => d.offset = end /\ end > 0)
      BY <2>3, <3>2, <3>4
    <3>6. v.cur.offset > 0 => v.cur.etag = feed.version /\ v.cur.started = s
      <4>1. v.cur.offset > 0 => v.cur.etag = 0 \/ v.cur.etag = feed.version
        BY <2>2 DEF Board!SnapshotChanged, Board!NoEtag
      <4> QED  BY <1>1, <1>3, <2>6, <3>1, <4>1 DEF CursorHolds
    <3>7. ASSUME NEW i \in Behind(d)
          PROVE  /\ feed.rows[i] \in Postings
                 /\ \/ i \in Behind(v.cur) /\ v.cur.offset > 0
                    \/ \E j \in DOMAIN v.page.at : v.page.at[j] = feed.rows[i]
      <4>1. i \in DOMAIN feed.rows /\ i \in Nat /\ i >= 1 /\ i <= end
        BY <2>4, <3>4, <3>5, <3>7 DEF Behind
      <4>2. feed.rows[i] \in Postings  BY <4>1 DEF BoardShape, FeedRows
      <4>3. CASE i <= v.cur.offset  BY <1>3, <4>1, <4>2, <4>3 DEF Behind
      <4>4. CASE v.cur.offset < i
        <5>1. PICK at : at = Board!Window(v.cur.offset)  OBVIOUS
        <5>2. i - v.cur.offset \in DOMAIN at /\ at[i - v.cur.offset] = feed.rows[i]
          BY <1>3, <4>1, <4>4, <5>1, WindowIs
        <5> QED  BY <2>2, <4>2, <5>1, <5>2
      <4> QED  BY <1>3, <4>1, <4>3, <4>4
    <3>8. \A i \in Behind(d) : Seen(feed.rows[i], s)
      <4> TAKE i \in Behind(d)
      <4>1. CASE i \in Behind(v.cur) /\ v.cur.offset > 0
        BY <1>1, <3>6, <4>1 DEF CursorHolds
      <4>2. CASE \E j \in DOMAIN v.page.at : v.page.at[j] = feed.rows[i]
        BY <1>1, <3>1, <4>2
      <4> QED  BY <3>7, <4>1, <4>2
    <3>9. InScope => \A i \in Behind(d) : Done(feed.rows[i])
      <4> SUFFICES ASSUME InScope, NEW i \in Behind(d)  PROVE Done(feed.rows[i])
        OBVIOUS
      <4>1. CASE i \in Behind(v.cur) /\ v.cur.offset > 0
        BY <1>1, <3>6, <4>1 DEF CursorHolds
      <4>2. CASE \E j \in DOMAIN v.page.at : v.page.at[j] = feed.rows[i]
        BY <1>1, <4>2
      <4> QED  BY <3>7, <4>1, <4>2
    <3>10. ASSUME d.pending, NEW q \in Postings
           PROVE  occ[q].active => occ[q].seen >= s \/ absent[q] >= s
      <4>1. CASE q \in Board!Listed
        <5>1. d.offset = 0  BY <3>4, <3>5, <3>10
        <5>2. Seen(q, s)  BY <3>8, <4>1, <5>1, AllBehind
        <5> QED  BY <5>2 DEF Seen
      <4>2. CASE q \notin Board!Listed
        BY <1>1, <3>1, <4>2 DEF PostingsHold
      <4> QED  BY <4>1, <4>2
    <3>11. /\ s <= clock /\ s # 0 /\ (OnTrack => NoGhost(s))
           /\ d.pending <=> l
      BY <1>1, <2>2, <2>6, <3>1, <3>4
    <3>12. /\ d.offset > 0 => ~d.pending
           /\ ~d.pending => d.offset > 0 /\ d.offset # 0
           /\ d.pending => d.offset = 0
      BY <2>4, <3>4, <3>5
    <3>13. CursorHolds(d)
      <4>1. \A i \in Behind(d) : Seen(feed.rows[i], d.started)  BY <3>4, <3>8
      <4>2. OnTrack => NoGhost(d.started)  BY <3>4, <3>11
      <4>3. d.pending => \A q \in Postings :
                            occ[q].active => occ[q].seen >= d.started \/ absent[q] >= d.started
        BY <3>4, <3>10
      <4>4. /\ d.etag \in Nat \ {0} /\ d.etag <= feed.version /\ d.started <= clock
            /\ d.started # 0
        BY <1>2, <3>4, <3>11
      <4>5. OnTrack /\ d.offset = 0 /\ ~d.pending => AllListed  BY <3>12
      <4> QED  BY <3>4, <3>9, <3>12, <4>1, <4>2, <4>3, <4>4, <4>5 DEF CursorHolds
    <3> QED  BY <1>3, <2>4, <2>6, <3>1, <3>2, <3>4, <3>5, <3>13
  <2> QED  BY <2>5, <2>6
<1> QED  BY <1>3, <1>4, <1>5

LEMMA SaveCursorStep ==
    ASSUME BoardSettings, BoardHolds, NEW x \in Workers, Board!SaveCursor(x)  PROVE BoardHolds'
<1> USE DEF BoardHolds
<1>1. /\ crew[x].pc = "save" /\ UNCHANGED Everything /\ UNCHANGED <<lock, caveats>>
  BY DEF Board!SaveCursor, Everything
<1>2. PICK v : v = crew[x]  OBVIOUS
<1>3. v \in CrewRows /\ v.pc = "save" /\ v.page.next \in CursorRows /\ v.started \in Nat
      /\ v.page.complete \in BOOLEAN
  <2>1. v \in CrewRows /\ v.pc = "save"  BY <1>1, <1>2 DEF BoardShape
  <2> QED  BY <2>1 DEF CrewRows, PageRows
<1>4. PICK d : d = IF v.page.notModified \/ v.started = 0
               THEN Board!WithoutSnapshot(v.page.next)
               ELSE [v.page.next EXCEPT !.started = v.started, !.pending = v.page.complete]
  OBVIOUS
<1>5. d \in CursorRows
  <2>1. CASE v.page.notModified \/ v.started = 0  BY <1>3, <1>4, <2>1, WithoutSnapshotIs
  <2>2. CASE ~(v.page.notModified \/ v.started = 0)  BY <1>3, <1>4, <2>2 DEF CursorRows
  <2> QED  BY <2>1, <2>2
<1>6. d = Board!SavedCursor(x)  BY <1>2, <1>4 DEF Board!SavedCursor, Board!NoMark
<1>7. PICK owes \in BOOLEAN :
         owes <=> v.page.complete /\ ~v.page.notModified /\ v.started # 0
  OBVIOUS
<1>8. PICK pc : pc = IF owes THEN "close" ELSE IF v.page.complete THEN "finish" ELSE "fetch"
  OBVIOUS
<1>9. PICK r : r = [v EXCEPT !.pc = pc, !.cur = d]  OBVIOUS
<1>10. cursor' = d /\ crew' = [crew EXCEPT ![x] = r]
  BY <1>2, <1>6, <1>7, <1>8, <1>9 DEF Board!SaveCursor, BoardShape, Board!NoMark
<1>11. /\ r \in CrewRows /\ r.pc = pc /\ r.started = v.started /\ r.cur = d
       /\ r.scope = v.scope
  BY <1>3, <1>5, <1>8, <1>9 DEF CrewRows, Phases
<1>12. crew' \in [Workers -> CrewRows] => BoardShape'
  BY <1>1, <1>5, <1>10 DEF BoardShape, Everything
<1>13. SUFFICES ASSUME Board!Validated(kind), BoardShape', LockHolds'
                PROVE  PostingsHold' /\ CursorHolds(cursor)' /\ RestartHolds' /\ CrewHolds(r)'
  <2>1. r.pc # "idle" /\ (r.pc \in Early => r.row = 0)  BY <1>8, <1>11 DEF Early
  <2> QED  BY <1>1, <1>2, <1>10, <1>11, <1>12, <2>1, WorkerStep DEF Everything
<1>14. PostingsHold /\ CrewHolds(v)  BY <1>2, <1>13
<1>15. /\ CursorHolds(d) /\ d.etag = feed.version
       /\ d.offset = 0 /\ ~d.pending => d.started = 0
       /\ v.page.complete /\ ~v.page.notModified /\ v.started # 0
             => d.pending /\ d.started = v.started
       /\ ~v.page.complete => ~d.pending /\ d.offset > 0 /\ d.started = v.started
  BY <1>3, <1>4, <1>13, <1>14, SavedIs
<1>16. Resting  BY <1>1 DEF Resting, Everything, BoardShape
<1>17. CursorHolds(d)'  BY <1>13, <1>15, <1>16, RestingKeeps
<1>18. PostingsHold'  BY <1>1, <1>14, PostingsRest DEF Everything
<1>19. RestartHolds'  BY <1>10, <1>15 DEF RestartHolds
<1>20. /\ "overlap" \notin caveats' => r.scope = scope'
       /\ r.started <= clock' /\ d.etag = feed'.version
  BY <1>1, <1>3, <1>11, <1>14, <1>15 DEF CrewHolds, CrewReads, CrewWorks, Early, Reading, Everything
<1>21. CrewHolds(r)'
  <2>1. CASE owes
    BY <1>7, <1>8, <1>11, <1>15, <1>17, <1>20, <2>1
    DEF CrewHolds, CrewReads, CrewWorks, Early, Reading, Holding
  <2>2. CASE ~owes /\ v.page.complete
    BY <1>8, <1>11, <1>20, <2>2 DEF CrewHolds, CrewReads, CrewWorks, Early, Reading, Holding
  <2>3. CASE ~owes /\ ~v.page.complete
    <3>1. d.offset # 0  BY <1>5, <1>15, <2>3 DEF CursorRows
    <3> QED
      BY <1>8, <1>11, <1>15, <1>17, <1>20, <2>3, <3>1
      DEF CrewHolds, CrewReads, CrewWorks, Early, Reading, Holding
  <2> QED  BY <2>1, <2>2, <2>3
<1> QED  BY <1>10, <1>17, <1>18, <1>19, <1>21

\* The closing reconciliation leaves nothing open that is not listed.
LEMMA CloseMissingStep ==
    ASSUME BoardHolds, NEW x \in Workers, Board!CloseMissing(x)  PROVE BoardHolds'
<1> USE DEF BoardHolds
<1>1. /\ crew[x].pc = "close"
      /\ UNCHANGED <<kind, feed, cursor, scope, lock, clock, absent, caveats>>
  BY DEF Board!CloseMissing
<1>2. PICK v : v = crew[x]  OBVIOUS
<1>3. v \in CrewRows /\ v.pc = "close" /\ v.started \in Nat
  <2>1. v \in CrewRows /\ v.pc = "close"  BY <1>1, <1>2 DEF BoardShape
  <2> QED  BY <2>1 DEF CrewRows
<1>4. PICK r : r = [v EXCEPT !.pc = "settle"]  OBVIOUS
<1>5. /\ crew' = [crew EXCEPT ![x] = r] /\ Board!Reconcile(v.started)
  BY <1>2, <1>4 DEF Board!CloseMissing, Board!Goto, BoardShape
<1>6. /\ r \in CrewRows /\ r.pc = "settle" /\ r.cur = v.cur /\ r.scope = v.scope
      /\ r.started = v.started
  BY <1>3, <1>4 DEF CrewRows, Phases
<1>7. crew' \in [Workers -> CrewRows] => BoardShape'
  <2>1. occ' \in [Postings -> OccRows] /\ posted' \in [Postings -> Statuses]
    BY <1>3, <1>5, ReconcileLeaves
  <2> QED  BY <1>1, <2>1 DEF BoardShape
<1>8. SUFFICES ASSUME Board!Validated(kind), BoardShape', LockHolds'
               PROVE  PostingsHold' /\ CursorHolds(cursor)' /\ RestartHolds' /\ CrewHolds(r)'
  <2>1. r.pc # "idle" /\ (r.pc \in Early => r.row = 0)  BY <1>6 DEF Early
  <2> QED  BY <1>1, <1>2, <1>5, <1>6, <1>7, <2>1, WorkerStep
<1>9. /\ PostingsHold /\ CursorHolds(cursor) /\ RestartHolds /\ CrewHolds(v)
      /\ CursorHolds(v.cur) /\ v.cur.pending /\ v.started = v.cur.started
      /\ v.cur.etag = feed.version /\ v.cur.offset = 0 /\ v.started # 0
      /\ "overlap" \notin caveats => v.scope = scope
  BY <1>2, <1>3, <1>8 DEF CrewHolds, CrewReads, CrewWorks, CursorHolds, Early
<1>10. /\ Onward /\ PostingsHold'
       /\ (\A p \in Board!Listed : Seen(p, v.started)) => KeepsDone
       /\ NoGhost(v.started) => AllListed'
       /\ \A m \in Nat : Unobserved(m) => Unobserved(m)'
  BY <1>1, <1>3, <1>5, <1>8, <1>9, ReconcileKeeps
<1>11. KeepsDone  BY <1>9, <1>10, AllBehind DEF CursorHolds
<1>12. CursorHolds(cursor)' /\ CursorHolds(v.cur)'
  <2>1. PICK c : c = cursor  OBVIOUS
  <2>2. CursorHolds(c)' /\ CursorHolds(v.cur)'
    BY <1>8, <1>9, <1>10, <1>11, <2>1, CursorKept
  <2> QED  BY <1>1, <2>1, <2>2
<1>13. (OnTrack' <=> OnTrack)  BY <1>1 DEF OnTrack, Board!Conditional
<1>14. RestartHolds'
  <2>1. \A y \in Workers : crew[y].pc \notin {"queue", "mark", "save"}  BY <1>1, Alone
  <2>2. cursor.started \in Nat  BY DEF BoardShape, CursorRows
  <2>3. PICK m \in Nat : m = cursor.started  BY <2>2
  <2>4. Unobserved(m) => Unobserved(m)'  BY <1>10
  <2>5. Unobserved(cursor.started)' <=> Unobserved(m)'  BY <1>1, <2>3 DEF Unobserved
  <2> QED  BY <1>1, <1>9, <1>13, <2>1, <2>3, <2>4, <2>5 DEF RestartHolds
<1>15. OnTrack' => AllListed'  BY <1>9, <1>10, <1>13 DEF CursorHolds
<1>16. CrewHolds(r)'
  BY <1>1, <1>6, <1>9, <1>12, <1>15 DEF CrewHolds, CrewReads, CrewWorks, Early, Reading, Holding
<1> QED  BY <1>10, <1>12, <1>14, <1>16

LEMMA SettleCursorStep ==
    ASSUME BoardHolds, NEW x \in Workers, Board!SettleCursor(x)  PROVE BoardHolds'
<1> USE DEF BoardHolds
<1>1. /\ crew[x].pc = "settle" /\ UNCHANGED Everything /\ UNCHANGED <<lock, caveats>>
  BY DEF Board!SettleCursor, Everything
<1>2. PICK v : v = crew[x]  OBVIOUS
<1>3. v \in CrewRows /\ v.pc = "settle" /\ v.cur \in CursorRows
  BY <1>1, <1>2 DEF BoardShape, CrewRows
<1>4. PICK d : d = Board!WithoutSnapshot(v.cur)  OBVIOUS
<1>5. /\ d \in CursorRows /\ d.etag = v.cur.etag /\ d.offset = v.cur.offset
      /\ d.started = 0 /\ ~d.pending
  BY <1>3, <1>4, WithoutSnapshotIs
<1>6. PICK r : r = [v EXCEPT !.pc = "finish"]  OBVIOUS
<1>7. cursor' = d /\ crew' = [crew EXCEPT ![x] = r]
  BY <1>2, <1>4, <1>6 DEF Board!SettleCursor, Board!Goto, BoardShape
<1>8. /\ r \in CrewRows /\ r.pc = "finish" /\ r.scope = v.scope
  BY <1>3, <1>6 DEF CrewRows, Phases
<1>9. crew' \in [Workers -> CrewRows] => BoardShape'
  BY <1>1, <1>5, <1>7 DEF BoardShape, Everything
<1>10. SUFFICES ASSUME Board!Validated(kind), BoardShape', LockHolds'
                PROVE  PostingsHold' /\ CursorHolds(cursor)' /\ RestartHolds' /\ CrewHolds(r)'
  <2>1. r.pc # "idle" /\ (r.pc \in Early => r.row = 0)  BY <1>8 DEF Early
  <2> QED  BY <1>1, <1>2, <1>7, <1>8, <1>9, <2>1, WorkerStep DEF Everything
<1>11. PostingsHold'  BY <1>1, <1>10, PostingsRest DEF Everything
<1>12. CrewHolds(v) /\ v.cur.pending /\ v.cur.offset = 0
  BY <1>2, <1>3, <1>10 DEF CrewHolds, CrewReads, CrewWorks, CursorHolds, Early
<1>13. CursorHolds(d)
  BY <1>3, <1>5, <1>12, CrossedOff DEF CrewHolds, CrewReads, CrewWorks, Early
<1>14. Resting  BY <1>1 DEF Resting, Everything, BoardShape
<1>15. CursorHolds(d)'  BY <1>10, <1>13, <1>14, RestingKeeps
<1>16. RestartHolds'  BY <1>5, <1>7 DEF RestartHolds
<1>17. "overlap" \notin caveats' => r.scope = scope'
  BY <1>1, <1>3, <1>8, <1>12 DEF CrewHolds, CrewReads, CrewWorks, Early, Everything
<1>18. CrewHolds(r)'
  BY <1>8, <1>17 DEF CrewHolds, CrewReads, CrewWorks, Early, Reading, Holding
<1> QED  BY <1>7, <1>11, <1>15, <1>16, <1>18

\* Whatever a step of the board is, the invariant goes on.
LEMMA BoardStep ==
    ASSUME BoardSettings, BoardHolds, [Board!Next]_(Board!discoveryVars)  PROVE BoardHolds'
<1>1. CASE UNCHANGED Board!discoveryVars
  BY <1>1, CatalogEditedStep DEF Board!discoveryVars, Everything
<1>2. CASE Board!CatalogEdited
  BY <1>2, CatalogEditedStep DEF Board!CatalogEdited, Everything
<1>3. CASE Board!FeedChanges \/ Board!ActivateIntents
  BY <1>3, FeedChangesStep, ActivateIntentsStep
<1>4. ASSUME NEW x \in Workers,
             \/ Board!TakeLock(x) \/ Board!ReconcileStaleRuns(x) \/ Board!Synchronize(x)
             \/ Board!LoadCursor(x) \/ Board!CrossOff(x) \/ Board!OpenSnapshot(x)
             \/ Board!FetchPage(x) \/ Board!RestartSnapshot(x) \/ Board!IngestPage(x)
             \/ Board!QueueScoring(x) \/ Board!MarkSeen(x) \/ Board!SaveCursor(x)
             \/ Board!CloseMissing(x) \/ Board!SettleCursor(x) \/ Board!FinishRun(x)
             \/ Board!FetchFails(x) \/ Board!Crash(x)
      PROVE  BoardHolds'
  BY <1>4, TakeLockStep, ReconcileStaleRunsStep, SynchronizeStep, LoadCursorStep, CrossOffStep,
     OpenSnapshotStep, FetchPageStep, RestartSnapshotStep, IngestPageStep, QueueScoringStep,
     MarkSeenStep, SaveCursorStep, CloseMissingStep, SettleCursorStep, StopsStep
<1> QED  BY <1>1, <1>2, <1>3, <1>4 DEF Board!Next

\* A run is logged once, and its row keeps one of five statuses.
RunsHold == rows \in [Board!RowIds -> {"none", "running", "stale", "success", "failed"}]

LEMMA RunsStart == ASSUME Board!Init  PROVE RunsHold
  BY DEF Board!Init, RunsHold

LEMMA RunsStep ==
    ASSUME RunsHold, [Board!Next]_(Board!discoveryVars)  PROVE RunsHold'
<1>1. ASSUME rows' = rows  PROVE RunsHold'
  BY <1>1 DEF RunsHold
<1>2. ASSUME NEW x \in Workers, Board!ReconcileStaleRuns(x)  PROVE RunsHold'
  <2>1. PICK old : rows' = [r \in Board!RowIds |-> IF r \in old THEN "stale" ELSE rows[r]]
    BY <1>2 DEF Board!ReconcileStaleRuns
  <2> QED  BY <2>1 DEF RunsHold
<1>3. ASSUME NEW q, NEW s \in {"running", "success", "failed"}, rows' = [rows EXCEPT ![q] = s]
      PROVE  RunsHold'
  BY <1>3 DEF RunsHold
<1>4. ASSUME NEW x \in Workers,
             Board!Synchronize(x) \/ Board!FinishRun(x) \/ Board!FetchFails(x)
      PROVE  RunsHold'
  BY <1>1, <1>3, <1>4 DEF Board!Synchronize, Board!FinishRun, Board!FetchFails
<1>5. ASSUME NEW x \in Workers,
             \/ Board!TakeLock(x) \/ Board!LoadCursor(x) \/ Board!CrossOff(x)
             \/ Board!OpenSnapshot(x) \/ Board!FetchPage(x) \/ Board!RestartSnapshot(x)
             \/ Board!IngestPage(x) \/ Board!QueueScoring(x) \/ Board!MarkSeen(x)
             \/ Board!SaveCursor(x) \/ Board!CloseMissing(x) \/ Board!SettleCursor(x)
             \/ Board!Crash(x)
      PROVE  rows' = rows
  BY <1>5
  DEF Board!TakeLock, Board!LoadCursor, Board!CrossOff, Board!OpenSnapshot, Board!FetchPage,
      Board!RestartSnapshot, Board!IngestPage, Board!QueueScoring, Board!MarkSeen,
      Board!SaveCursor, Board!CloseMissing, Board!SettleCursor, Board!Crash
<1>6. Board!FeedChanges \/ Board!CatalogEdited \/ Board!ActivateIntents
        \/ UNCHANGED Board!discoveryVars => rows' = rows
  BY DEF Board!FeedChanges, Board!CatalogEdited, Board!ActivateIntents, Board!discoveryVars
<1> QED  BY <1>1, <1>2, <1>4, <1>5, <1>6 DEF Board!Next

\* Only the sweep of the old rows writes one off.
LEMMA StaleRuns ==
    ASSUME BoardSettings, BoardHolds, RunsHold, [Board!Next]_(Board!discoveryVars)
    PROVE  Board!StaleIsAbandoned
<1> SUFFICES ASSUME NEW r \in Board!RowIds, rows[r] = "running", rows'[r] = "stale",
                    NEW x \in Workers
             PROVE  crew[x].row # r
  BY DEF Board!StaleIsAbandoned
<1>1. ASSUME NEW q, NEW s \in {"running", "success", "failed"}, rows' = [rows EXCEPT ![q] = s]
      PROVE  FALSE
  BY <1>1 DEF RunsHold
<1>2. ASSUME NEW y \in Workers,
             Board!Synchronize(y) \/ Board!FinishRun(y) \/ Board!FetchFails(y)
      PROVE  FALSE
  BY <1>1, <1>2 DEF Board!Synchronize, Board!FinishRun, Board!FetchFails
<1>3. ASSUME NEW y \in Workers,
             \/ Board!TakeLock(y) \/ Board!LoadCursor(y) \/ Board!CrossOff(y)
             \/ Board!OpenSnapshot(y) \/ Board!FetchPage(y) \/ Board!RestartSnapshot(y)
             \/ Board!IngestPage(y) \/ Board!QueueScoring(y) \/ Board!MarkSeen(y)
             \/ Board!SaveCursor(y) \/ Board!CloseMissing(y) \/ Board!SettleCursor(y)
             \/ Board!Crash(y)
      PROVE  FALSE
  BY <1>3
  DEF Board!TakeLock, Board!LoadCursor, Board!CrossOff, Board!OpenSnapshot, Board!FetchPage,
      Board!RestartSnapshot, Board!IngestPage, Board!QueueScoring, Board!MarkSeen,
      Board!SaveCursor, Board!CloseMissing, Board!SettleCursor, Board!Crash
<1>4. Board!FeedChanges \/ Board!CatalogEdited \/ Board!ActivateIntents
        \/ UNCHANGED Board!discoveryVars => FALSE
  BY DEF Board!FeedChanges, Board!CatalogEdited, Board!ActivateIntents, Board!discoveryVars
<1>5. PICK y \in Workers : Board!ReconcileStaleRuns(y)
  BY <1>2, <1>3, <1>4 DEF Board!Next
<1>6. crew[y].pc = "stale"  BY <1>5 DEF Board!ReconcileStaleRuns
<1>7. LockHolds  BY DEF BoardHolds
<1>8. crew[x].pc = "stale" \/ crew[x].pc = "idle"  BY <1>6, <1>7, Alone
<1>9. crew[x].row = 0  BY <1>7, <1>8 DEF LockHolds, Early
<1> QED  BY <1>9 DEF Board!RowIds, BoardSettings

\* What a reconciliation closes was unlisted since its watermark.
LEMMA ClosedIsGone ==
    ASSUME BoardHolds, [Board!Next]_(Board!discoveryVars)  PROVE Board!ClosedMeansGone
<1> SUFFICES ASSUME NEW p \in Postings, Board!Validated(kind), occ[p].active, ~occ'[p].active
             PROVE  \E x \in Workers :
                       \/ crew[x].pc = "close" /\ absent[p] >= crew[x].started
                       \/ crew[x].pc = "load" /\ absent[p] >= cursor.started
  BY DEF Board!ClosedMeansGone
<1>1. occ' # occ  OBVIOUS
<1>2. /\ BoardShape /\ PostingsHold /\ CursorHolds(cursor)
      /\ \A x \in Workers : CrewHolds(crew[x])
  BY DEF BoardHolds
<1>3. ASSUME NEW x \in Workers, Board!LoadCursor(x)
      PROVE  crew[x].pc = "load" /\ absent[p] >= cursor.started
  <2>1. crew[x].pc = "load" /\ cursor.pending /\ Board!Reconcile(cursor.started)
    BY <1>1, <1>3 DEF Board!LoadCursor
  <2>2. cursor.started \in Nat  BY <1>2 DEF BoardShape, CursorRows
  <2>3. ~(occ[p].seen >= cursor.started)  BY <1>2, <2>1, <2>2, ReconcileLeaves
  <2> QED  BY <1>2, <2>1, <2>3 DEF CursorHolds
<1>4. ASSUME NEW x \in Workers, Board!CloseMissing(x)
      PROVE  crew[x].pc = "close" /\ absent[p] >= crew[x].started
  <2>1. crew[x].pc = "close" /\ Board!Reconcile(crew[x].started)
    BY <1>4 DEF Board!CloseMissing
  <2>2. crew[x].started \in Nat  BY <1>2 DEF BoardShape, CrewRows
  <2>3. ~(occ[p].seen >= crew[x].started)  BY <1>2, <2>1, <2>2, ReconcileLeaves
  <2>4. /\ CursorHolds(crew[x].cur) /\ crew[x].cur.pending
        /\ crew[x].started = crew[x].cur.started
    BY <1>2, <2>1 DEF CrewHolds, CrewReads, CrewWorks, Early
  <2> QED  BY <2>1, <2>3, <2>4 DEF CursorHolds
<1>5. ASSUME NEW x \in Workers, Board!IngestPage(x)  PROVE FALSE
  <2>1. PICK K \in SUBSET Postings, q \in SUBSET Postings : Ingested(x, crew[x], K, q)
    BY <1>2, <1>5, IngestLeaves
  <2> QED  BY <2>1 DEF Ingested, IngestedOne
<1>6. ASSUME NEW x \in Workers, Board!MarkSeen(x)  PROVE FALSE
  <2>1. occ[p] \in OccRows  BY <1>2 DEF BoardShape
  <2> QED  BY <1>6, <2>1 DEF Board!MarkSeen, OccRows
<1>7. ASSUME NEW x \in Workers,
             \/ Board!TakeLock(x) \/ Board!ReconcileStaleRuns(x) \/ Board!Synchronize(x)
             \/ Board!CrossOff(x) \/ Board!OpenSnapshot(x) \/ Board!FetchPage(x)
             \/ Board!RestartSnapshot(x) \/ Board!QueueScoring(x) \/ Board!SaveCursor(x)
             \/ Board!SettleCursor(x) \/ Board!FinishRun(x) \/ Board!FetchFails(x)
             \/ Board!Crash(x)
      PROVE  FALSE
  BY <1>1, <1>7
  DEF Board!TakeLock, Board!ReconcileStaleRuns, Board!Synchronize, Board!CrossOff,
      Board!OpenSnapshot, Board!FetchPage, Board!RestartSnapshot, Board!QueueScoring,
      Board!SaveCursor, Board!SettleCursor, Board!FinishRun, Board!FetchFails, Board!Crash
<1>8. Board!FeedChanges \/ Board!CatalogEdited \/ Board!ActivateIntents
        \/ UNCHANGED Board!discoveryVars => FALSE
  BY <1>1
  DEF Board!FeedChanges, Board!CatalogEdited, Board!ActivateIntents, Board!discoveryVars
<1> QED  BY <1>3, <1>4, <1>5, <1>6, <1>7, <1>8 DEF Board!Next

LEMMA UnmodifiedIsDone == ASSUME BoardHolds  PROVE Board!NotModifiedIsSafe
<1> SUFFICES ASSUME Board!Conditional(kind), cursor.etag = feed.version, cursor.offset = 0,
                    ~cursor.pending
             PROVE  /\ InScope => \A p \in Board!Listed \cap SearchScopes[scope] :
                          /\ occ[p].active /\ occ[p].rev = feed.rev[p]
                          /\ posted[p] \notin {"none", "extracted"}
                    /\ OnTrack => \A p \in Postings : occ[p].active => p \in Board!Listed
  BY DEF Board!NotModifiedIsSafe, InScope, OnTrack
<1>1. CursorHolds(cursor)
  BY DEF BoardHolds, Board!Conditional, Board!Validated
<1>2. InScope => \A i \in DOMAIN feed.rows : Done(feed.rows[i])
  BY <1>1 DEF CursorHolds, Behind
<1>3. OnTrack => AllListed  BY <1>1 DEF CursorHolds
<1> QED  BY <1>2, <1>3 DEF Done, AllListed, Board!Listed

BoardSpec == Board!Init /\ [][Board!Next]_(Board!discoveryVars)

\* Whatever crashes, fails, restarts or changes between two commits of any number of
\* workers, a poll the board will answer with 304 has nothing left to do, a posting is
\* closed only when it was unlisted at some moment since the scan that missed it began,
\* and no run is written off under its worker (discovery/mesh.py poll_source,
\* discovery/persistence.py reconcile_source_snapshot, reconcile_stale_discovery_runs).
THEOREM BoardsAreFollowed ==
    ASSUME BoardSettings
    PROVE  BoardSpec => /\ []Board!NotModifiedIsSafe
                        /\ [][Board!ClosedMeansGone /\ Board!StaleIsAbandoned]_(Board!discoveryVars)
<1> DEFINE Inv == BoardHolds /\ RunsHold
<1>1. Board!Init => Inv  BY BoardStart, RunsStart
<1>2. Inv /\ [Board!Next]_(Board!discoveryVars) => Inv'  BY BoardStep, RunsStep
<1>3. Inv => Board!NotModifiedIsSafe  BY UnmodifiedIsDone
<1>4. Inv /\ [Board!Next]_(Board!discoveryVars)
        => [Board!ClosedMeansGone /\ Board!StaleIsAbandoned]_(Board!discoveryVars)
  BY ClosedIsGone, StaleRuns
<1> HIDE DEF Inv
<1> QED  BY <1>1, <1>2, <1>3, <1>4, PTL DEF BoardSpec

LEMMA BoardFocus ==
    /\ HostInit /\ focus = "board" => Board!Init
    /\ [HostNext]_hostVars /\ focus = "board" => [Board!Next]_(Board!discoveryVars)
    /\ [HostNext]_hostVars /\ focus = "board" /\ UNCHANGED Board!discoveryVars
         => UNCHANGED hostVars
    /\ [HostNext]_hostVars => (focus = "board" <=> (focus = "board")')
<1>1. HostInit /\ focus = "board" => Board!Init  BY DEF HostInit
<1>2. [HostNext]_hostVars /\ focus = "board" => [Board!Next]_(Board!discoveryVars)
  BY DEF HostNext, hostVars, slots, Board!discoveryVars
<1>3. [HostNext]_hostVars /\ focus = "board" /\ UNCHANGED Board!discoveryVars
        => UNCHANGED hostVars
  BY DEF HostNext, hostVars, slots, Board!discoveryVars
<1>4. [HostNext]_hostVars => (focus = "board" <=> (focus = "board")')
  BY DEF HostNext, hostVars
<1> QED  BY <1>1, <1>2, <1>3, <1>4

\* The same of the machine whose focus is the board (Discovery).
THEOREM BoardFollowed == HostSpec => BoardIsFollowed
<1> DEFINE Step == Board!ClosedMeansGone /\ Board!StaleIsAbandoned
<1>1. BoardSpec => []Board!NotModifiedIsSafe /\ [][Step]_(Board!discoveryVars)
  BY HostAssumption, BoardsAreFollowed
<1> DEFINE Followed == focus = "board" =>
                (Board!NotModifiedIsSafe)' /\ Board!ClosedMeansGone /\ Board!StaleIsAbandoned
<1>2. [HostNext]_hostVars
        /\ (focus = "board" => [Step]_(Board!discoveryVars) /\ (Board!NotModifiedIsSafe)')
        => [Followed]_hostVars
  BY BoardFocus
<1>3. BoardIsFollowed <=> [][Followed]_hostVars  BY PTL DEF BoardIsFollowed
<1> HIDE DEF Step, Followed
<1> QED  BY <1>1, <1>2, <1>3, BoardFocus, PTL DEF HostSpec, BoardSpec

=============================================================================
