------------------------------- MODULE JobProofs -------------------------------
(***************************************************************************)
(* What is proved of one job on its way to an application, of the answers  *)
(* to its form and of the alerts that announce jobs, which Host puts       *)
(* beside the parts of the operator's machine.  The lemmas of a section    *)
(* speak of the variables by the names of its module.                      *)
(***************************************************************************)
EXTENDS Host, FiniteSetTheorems, TLAPS

----------------------------------------------------------------------------
(* One job on its way to an application (JobPipeline).                     *)
job == x1
app == x2
profile == x3
ready == x4
queue == x5
task == x6
realign == x7
reading == x8
owed == x9
lost == x10
tally == x11
USE DEF job, app, profile, ready, queue, task, realign, reading, owed, lost, tally

JobRows == [status : Pipeline!Statuses, content : Nat, score : Pipeline!Scores]
AppRows == [rev : Nat, content : Nat, profile : Nat,
            status : {"none", "draft", "submitted", "skipped"}]
RealignRows == [pc : {"none", "generate", "checked"}, rev : Nat, content : Nat, profile : Nat]
Queues == [Pipeline!Messages -> Nat]
TasksHold(ts, rev) ==
    ts \in [Slots -> Pipeline!TaskRows] /\ \A s \in Slots : Pipeline!TaskFits(ts[s], rev)
AppHolds(a, r) ==
    /\ a \in AppRows /\ r \in RealignRows
    /\ a.rev = 0 => a.status = "none"
    /\ r.pc = "checked" => a.status = "draft"

\* What carries a job on: a message that waits, a task at work.
WaitsIn(q, kinds, vs) ==
    \E m \in Pipeline!Messages : m.kind \in kinds /\ m.v \in vs /\ q[m] > 0
CarriesDraft(t, j) ==
    \/ t.pc = "handoff" \/ Pipeline!Scoring(t, j)
    \/ t.pc = "generate" /\ t.content = j.content
Rescores(t, p) == t.pc = "rescore" /\ t.profile = p
ScoresAgain(t, j) == (t.pc = "again" /\ t.msg.kind = "score") \/ Pipeline!Scoring(t, j)

DraftOf(j, a, q, ts, l) ==
    j.status = "draft" /\ a.rev = 0 /\ l = {} =>
       \/ WaitsIn(q, {"gen", "score"}, Pipeline!Profiles \cup {0})
       \/ \E s \in Slots : CarriesDraft(ts[s], j)
Waiting(j, a, p, l) ==
    a.rev = 0 /\ l = {} /\ j.score.profile # p /\ j.status \in {"scored", "draft"}
ScoreOf(j, a, p, q, ts, o, l) ==
    Waiting(j, a, p, l) =>
       \/ p \in o \/ WaitsIn(q, {"rescore"}, {p})
       \/ \E s \in Slots : Rescores(ts[s], p)
       \/ /\ j.status = "scored"
          /\ WaitsIn(q, {"score"}, {0}) \/ \E s \in Slots : ScoresAgain(ts[s], j)
RowsHold(j, p, o, n, q) ==
    /\ j \in JobRows /\ p \in Pipeline!Profiles /\ o \subseteq Pipeline!Profiles
    /\ n \in Nat /\ q \in Queues

JobHolds ==
    /\ RowsHold(job, profile, owed, reading, queue) /\ AppHolds(app, realign)
    /\ TasksHold(task, app.rev)
    /\ DraftOf(job, app, queue, task, lost)
    /\ ScoreOf(job, app, profile, queue, task, owed, lost)

LEMMA PipelineParts ==
    /\ Pipeline!PipelineInv <=> JobHolds
    /\ Pipeline!PipelineInv' <=> JobHolds'
<1>1. Pipeline!PipelineShape <=> /\ RowsHold(job, profile, owed, reading, queue)
                                 /\ AppHolds(app, realign) /\ TasksHold(task, app.rev)
  BY DEF Pipeline!PipelineShape, RowsHold, AppHolds, TasksHold, JobRows, AppRows, RealignRows,
     Queues, Pipeline!Exists
<1>2. Pipeline!PipelineShape' <=> /\ RowsHold(job', profile', owed', reading', queue')
                                  /\ AppHolds(app', realign') /\ TasksHold(task', app'.rev)
  BY DEF Pipeline!PipelineShape, RowsHold, AppHolds, TasksHold, JobRows, AppRows, RealignRows,
     Queues, Pipeline!Exists
<1>3. ASSUME AppHolds(app, realign)
      PROVE  /\ Pipeline!DraftCarried <=> DraftOf(job, app, queue, task, lost)
             /\ Pipeline!ScoreCarried <=> ScoreOf(job, app, profile, queue, task, owed, lost)
  <2>1. ~Pipeline!Exists <=> app.rev = 0  BY <1>3 DEF AppHolds, AppRows, Pipeline!Exists
  <2>2. \A K, V : Pipeline!Waits(K, V) <=> WaitsIn(queue, K, V)
    BY DEF Pipeline!Waits, WaitsIn
  <2>3. Pipeline!DraftCarried <=> DraftOf(job, app, queue, task, lost)
    BY <2>1, <2>2 DEF Pipeline!DraftCarried, DraftOf, CarriesDraft
  <2>4. Pipeline!ScoreCarried <=> ScoreOf(job, app, profile, queue, task, owed, lost)
    BY <2>1, <2>2
    DEF Pipeline!ScoreCarried, Pipeline!Rescoring, ScoreOf, Waiting, Rescores, ScoresAgain
  <2> QED  BY <2>3, <2>4
<1>4. ASSUME AppHolds(app', realign')
      PROVE  /\ Pipeline!DraftCarried' <=> DraftOf(job', app', queue', task', lost')
             /\ Pipeline!ScoreCarried'
                   <=> ScoreOf(job', app', profile', queue', task', owed', lost')
  <2>1. ~Pipeline!Exists' <=> app'.rev = 0  BY <1>4 DEF AppHolds, AppRows, Pipeline!Exists
  <2>2. \A K, V : (\E m \in Pipeline!Messages : m.kind \in K /\ m.v \in V /\ queue'[m] > 0)
                     <=> WaitsIn(queue', K, V)
    BY DEF WaitsIn
  <2>3. Pipeline!DraftCarried' <=> DraftOf(job', app', queue', task', lost')
    BY <2>1, <2>2 DEF Pipeline!DraftCarried, DraftOf, CarriesDraft, Pipeline!Waits
  <2>4. Pipeline!ScoreCarried' <=> ScoreOf(job', app', profile', queue', task', owed', lost')
    BY <2>1, <2>2
    DEF Pipeline!ScoreCarried, Pipeline!Rescoring, ScoreOf, Waiting, Rescores, ScoresAgain,
        Pipeline!Waits
  <2> QED  BY <2>3, <2>4
<1> QED  BY <1>1, <1>2, <1>3, <1>4 DEF Pipeline!PipelineInv, JobHolds

LEMMA KnownMessages ==
    ASSUME PipelineSettings
    PROVE  /\ Pipeline!ScoreMsg \in Pipeline!Messages
           /\ \A v \in Pipeline!Profiles : /\ Pipeline!GenMsg(v) \in Pipeline!Messages
                                           /\ Pipeline!RescoreMsg(v) \in Pipeline!Messages
           /\ \A m \in Pipeline!Messages :
                 /\ m.kind \in {"score", "gen", "rescore"} /\ m.v \in Pipeline!Profiles \cup {0}
                 /\ m.kind = "score" => m.v = 0
                 /\ m.kind # "score" => m.v \in Pipeline!Profiles
                 /\ m.tries > 0 =>
                       \E n \in Pipeline!Messages :
                          n = [m EXCEPT !.tries = @ - 1] /\ n.kind = m.kind /\ n.v = m.v
<1>1. MaxRetries \in 0 .. MaxRetries  BY DEF PipelineSettings
<1>2. Pipeline!ScoreMsg \in Pipeline!Messages
  BY <1>1 DEF Pipeline!ScoreMsg, Pipeline!Messages
<1>3. \A v \in Pipeline!Profiles : /\ Pipeline!GenMsg(v) \in Pipeline!Messages
                                   /\ Pipeline!RescoreMsg(v) \in Pipeline!Messages
  BY <1>1 DEF Pipeline!GenMsg, Pipeline!RescoreMsg, Pipeline!Messages
<1>4. ASSUME NEW m \in Pipeline!Messages
      PROVE  /\ m.kind \in {"score", "gen", "rescore"} /\ m.v \in Pipeline!Profiles \cup {0}
             /\ m.kind = "score" => m.v = 0
             /\ m.kind # "score" => m.v \in Pipeline!Profiles
  BY <1>4 DEF Pipeline!Messages
<1>5. ASSUME NEW m \in Pipeline!Messages, m.tries > 0
      PROVE  \E n \in Pipeline!Messages :
                n = [m EXCEPT !.tries = @ - 1] /\ n.kind = m.kind /\ n.v = m.v
  <2>1. PICK n : n = [m EXCEPT !.tries = @ - 1]  OBVIOUS
  <2>2. m.tries \in 0 .. MaxRetries  BY DEF Pipeline!Messages
  <2>3. m.tries - 1 \in 0 .. MaxRetries  BY <1>5, <2>2 DEF PipelineSettings
  <2>4. n.kind = m.kind /\ n.v = m.v  BY <2>1 DEF Pipeline!Messages
  <2>5. n \in Pipeline!Messages  BY <2>1, <2>3 DEF Pipeline!Messages
  <2> QED  BY <2>1, <2>4, <2>5
<1> QED  BY <1>2, <1>3, <1>4, <1>5

\* A message comes to the queue, or leaves it.
LEMMA QueueGrows ==
    ASSUME NEW q \in Queues, NEW m \in Pipeline!Messages
    PROVE  /\ Pipeline!Put(q, m) \in Queues
           /\ \A K, V : WaitsIn(q, K, V) => WaitsIn(Pipeline!Put(q, m), K, V)
           /\ \A K, V : m.kind \in K /\ m.v \in V => WaitsIn(Pipeline!Put(q, m), K, V)
<1>1. PICK p : p = Pipeline!Put(q, m)  OBVIOUS
<1>2. p \in Queues /\ p[m] > 0 /\ \A x \in Pipeline!Messages : q[x] > 0 => p[x] > 0
  BY <1>1 DEF Queues, Pipeline!Put
<1> QED  BY <1>1, <1>2 DEF WaitsIn

LEMMA QueueShrinks ==
    ASSUME NEW q \in Queues, NEW m \in Pipeline!Messages, q[m] > 0,
           NEW p, p = [q EXCEPT ![m] = @ - 1]
    PROVE  /\ p \in Queues
           /\ \A K, V : WaitsIn(q, K, V) /\ (m.kind \notin K \/ m.v \notin V) => WaitsIn(p, K, V)
<1>1. p \in Queues /\ \A x \in Pipeline!Messages : x # m => p[x] = q[x]
  BY DEF Queues
<1> QED  BY <1>1 DEF WaitsIn

LEMMA FreeSlot ==
    ASSUME PipelineSettings
    PROVE  /\ Pipeline!Free \in Pipeline!TaskRows /\ Pipeline!Free.pc = "free"
           /\ \A rev \in Nat : Pipeline!TaskFits(Pipeline!Free, rev)
<1>1. /\ Pipeline!Free.pc = "free" /\ Pipeline!Free.rev = 0
  BY DEF Pipeline!Free
<1>2. Pipeline!Free \in Pipeline!TaskRows
  BY KnownMessages DEF Pipeline!Free, Pipeline!TaskRows, Pipeline!Statuses
<1> QED  BY <1>1, <1>2 DEF Pipeline!TaskFits

LEMMA OlderTasks ==
    ASSUME NEW ts, NEW rev \in Nat, TasksHold(ts, rev), NEW next \in Nat, rev <= next
    PROVE  TasksHold(ts, next)
  BY DEF TasksHold, Pipeline!TaskFits, Pipeline!TaskRows

\* A slot moves on and nothing is written: whatever carried the job still does,
\* or the slot does.
Kept(w, x) ==
    WaitsIn(w, {"gen", "score"}, Pipeline!Profiles \cup {0}) \/ CarriesDraft(x, job)
KeepsDraft(s, x) ==
    /\ WaitsIn(queue, {"gen", "score"}, Pipeline!Profiles \cup {0}) => Kept(queue', x)
    /\ CarriesDraft(task[s], job) => Kept(queue', x)
KeepsRescore(s, x) ==
    /\ WaitsIn(queue, {"rescore"}, {profile}) =>
          WaitsIn(queue', {"rescore"}, {profile}) \/ Rescores(x, profile)
    /\ Rescores(task[s], profile) =>
          WaitsIn(queue', {"rescore"}, {profile}) \/ Rescores(x, profile)
KeepsScoring(s, x) ==
    /\ WaitsIn(queue, {"score"}, {0}) => WaitsIn(queue', {"score"}, {0}) \/ ScoresAgain(x, job)
    /\ ScoresAgain(task[s], job) => WaitsIn(queue', {"score"}, {0}) \/ ScoresAgain(x, job)

LEMMA SlotKeeps ==
    ASSUME JobHolds, NEW s \in Slots, NEW x \in Pipeline!TaskRows,
           Pipeline!TaskFits(x, app.rev), task' = [task EXCEPT ![s] = x],
           UNCHANGED <<job, app, profile, owed, realign, reading>>, queue' \in Queues,
           lost' = {} => lost = {},
           app.rev = 0 /\ lost' = {} =>
              /\ job.status = "draft" => KeepsDraft(s, x)
              /\ job.status \in {"draft", "scored"} => KeepsRescore(s, x)
              /\ job.status = "scored" => KeepsScoring(s, x)
    PROVE  JobHolds'
<1>1. /\ TasksHold(task', app.rev) /\ task'[s] = x
      /\ \A u \in Slots : u # s => task'[u] = task[u]
  <2>1. PICK us : us = [task EXCEPT ![s] = x]  OBVIOUS
  <2>2. TasksHold(task, app.rev)  BY DEF JobHolds
  <2>3. TasksHold(us, app.rev) /\ us[s] = x /\ \A u \in Slots : u # s => us[u] = task[u]
    BY <2>1, <2>2 DEF TasksHold
  <2> QED  BY <2>1, <2>3
<1>2. RowsHold(job, profile, owed, reading, queue')  BY DEF JobHolds, RowsHold
<1>3. DraftOf(job, app, queue', task', lost')
  <2> SUFFICES ASSUME job.status = "draft", app.rev = 0, lost' = {}
               PROVE  WaitsIn(queue', {"gen", "score"}, Pipeline!Profiles \cup {0})
                      \/ \E u \in Slots : CarriesDraft(task'[u], job)
    BY DEF DraftOf
  <2>1. WaitsIn(queue, {"gen", "score"}, Pipeline!Profiles \cup {0})
        \/ \E u \in Slots : CarriesDraft(task[u], job)
    BY DEF JobHolds, DraftOf
  <2>2. KeepsDraft(s, x)  OBVIOUS
  <2> QED  BY <1>1, <2>1, <2>2 DEF KeepsDraft, Kept
<1>4. ScoreOf(job, app, profile, queue', task', owed, lost')
  <2> SUFFICES ASSUME Waiting(job, app, profile, lost'), profile \notin owed
               PROVE  \/ WaitsIn(queue', {"rescore"}, {profile})
                      \/ \E u \in Slots : Rescores(task'[u], profile)
                      \/ /\ job.status = "scored"
                         /\ \/ WaitsIn(queue', {"score"}, {0})
                            \/ \E u \in Slots : ScoresAgain(task'[u], job)
    BY DEF ScoreOf
  <2>1. \/ WaitsIn(queue, {"rescore"}, {profile})
        \/ \E u \in Slots : Rescores(task[u], profile)
        \/ /\ job.status = "scored"
           /\ \/ WaitsIn(queue, {"score"}, {0})
              \/ \E u \in Slots : ScoresAgain(task[u], job)
    BY DEF JobHolds, ScoreOf, Waiting
  <2>2. KeepsRescore(s, x) /\ (job.status = "scored" => KeepsScoring(s, x))
    BY DEF Waiting
  <2> QED  BY <1>1, <2>1, <2>2 DEF KeepsRescore, KeepsScoring
<1> QED  BY <1>1, <1>2, <1>3, <1>4 DEF JobHolds

\* What a task must be to carry anything.
LEMMA Carriers ==
    ASSUME NEW t, NEW j, NEW p
    PROVE  /\ t.pc \in {"free", "rescore"} => ~CarriesDraft(t, j) /\ ~ScoresAgain(t, j)
           /\ t.pc # "rescore" => ~Rescores(t, p)
           /\ t.pc = "again" => ~CarriesDraft(t, j)
           /\ t.pc \in {"handoff", "generate"} => ~ScoresAgain(t, j)
  BY DEF CarriesDraft, ScoresAgain, Rescores, Pipeline!Scoring

LEMMA JobTypes ==
    ASSUME JobHolds
    PROVE  /\ job \in JobRows /\ profile \in Pipeline!Profiles /\ reading \in Nat
           /\ owed \subseteq Pipeline!Profiles /\ queue \in Queues /\ app \in AppRows
           /\ app.rev \in Nat /\ task \in [Slots -> Pipeline!TaskRows]
           /\ \A s \in Slots : /\ Pipeline!TaskFits(task[s], app.rev)
                               /\ task[s].rev \in Nat /\ task[s].rev <= app.rev
                               /\ task[s].msg \in Pipeline!Messages
           /\ (Pipeline!Exists <=> app.rev # 0)
           /\ app.rev = 0 => /\ app.status = "none"
                             /\ (Pipeline!JobLockable <=>
                                   job.status \notin {"skipped", "retired", "submitted"})
<1>1. app \in AppRows /\ app.rev \in Nat  BY DEF JobHolds, AppHolds, AppRows
<1>2. Pipeline!Exists <=> app.rev # 0  BY <1>1 DEF Pipeline!Exists
<1>3. \A s \in Slots : /\ Pipeline!TaskFits(task[s], app.rev)
                       /\ task[s].rev \in Nat /\ task[s].rev <= app.rev
                       /\ task[s].msg \in Pipeline!Messages
  BY DEF JobHolds, TasksHold, Pipeline!TaskFits, Pipeline!TaskRows
<1> QED  BY <1>1, <1>2, <1>3
         DEF JobHolds, RowsHold, AppHolds, TasksHold, Pipeline!JobLockable

\* score_job_task, up to its write.
LEMMA ScoreReadsStep ==
    ASSUME PipelineSettings, JobHolds, NEW s \in Slots, Pipeline!ScoreReads(s)
    PROVE  JobHolds'
<1>1. /\ UNCHANGED <<job, app, profile, owed, realign, reading, lost>>
      /\ task[s].pc = "free"
  BY DEF Pipeline!ScoreReads
<1>2. PICK n \in 0 .. MaxRetries : LET m == [Pipeline!ScoreMsg EXCEPT !.tries = n] IN
         /\ queue[m] > 0 /\ queue' = [queue EXCEPT ![m] = @ - 1]
         /\ IF Pipeline!Exists /\ app.status # "draft" THEN UNCHANGED task
            ELSE task' = [task EXCEPT ![s] =
                   [Pipeline!Free EXCEPT !.pc = "probe", !.msg = m, !.rev = app.rev,
                       !.status = job.status, !.content = job.content, !.profile = profile]]
  BY DEF Pipeline!ScoreReads
<1>3. PICK m : m = [Pipeline!ScoreMsg EXCEPT !.tries = n]  OBVIOUS
<1>4. m \in Pipeline!Messages /\ m.kind = "score" /\ m.v = 0
  BY <1>3 DEF Pipeline!ScoreMsg, Pipeline!Messages
<1>5. queue[m] > 0 /\ queue' = [queue EXCEPT ![m] = @ - 1]  BY <1>2, <1>3
<1>6. /\ queue' \in Queues
      /\ \A K, V : WaitsIn(queue, K, V) /\ (m.kind \notin K \/ m.v \notin V) =>
                     WaitsIn(queue', K, V)
  BY <1>4, <1>5, JobTypes, QueueShrinks
<1>7. PICK x : x = IF Pipeline!Exists /\ app.status # "draft" THEN task[s]
                   ELSE [Pipeline!Free EXCEPT !.pc = "probe", !.msg = m, !.rev = app.rev,
                            !.status = job.status, !.content = job.content,
                            !.profile = profile]
  OBVIOUS
<1>8. task' = [task EXCEPT ![s] = x]  BY <1>2, <1>3, <1>7, JobTypes
<1>9. x \in Pipeline!TaskRows /\ Pipeline!TaskFits(x, app.rev)
  <2>1. CASE Pipeline!Exists /\ app.status # "draft"
    BY <1>7, <2>1, JobTypes
  <2>2. CASE ~(Pipeline!Exists /\ app.status # "draft")
    <3>1. x = [Pipeline!Free EXCEPT !.pc = "probe", !.msg = m, !.rev = app.rev,
                            !.status = job.status, !.content = job.content,
                            !.profile = profile]
      BY <1>7, <2>2
    <3>2. /\ job.status \in Pipeline!Statuses /\ job.content \in Nat
          /\ profile \in Pipeline!Profiles /\ app.rev \in Nat
      BY JobTypes DEF JobRows
    <3>3. Pipeline!Free \in Pipeline!TaskRows  BY FreeSlot
    <3>4. x \in Pipeline!TaskRows  BY <1>4, <3>1, <3>2, <3>3 DEF Pipeline!TaskRows
    <3>5. x.pc = "probe" /\ x.msg = m /\ x.rev = app.rev /\ x.profile = profile
      BY <3>1, <3>3 DEF Pipeline!TaskRows
    <3> QED  BY <1>4, <3>2, <3>4, <3>5 DEF Pipeline!TaskFits
  <2> QED  BY <2>1, <2>2
<1>10. ASSUME app.rev = 0
       PROVE  CarriesDraft(x, job) /\ ScoresAgain(x, job)
  <2>1. x = [Pipeline!Free EXCEPT !.pc = "probe", !.msg = m, !.rev = app.rev,
                            !.status = job.status, !.content = job.content,
                            !.profile = profile]
    BY <1>7, <1>10, JobTypes
  <2>2. x.pc = "probe" /\ x.status = job.status /\ x.content = job.content
    BY <2>1, FreeSlot DEF Pipeline!TaskRows
  <2> QED  BY <2>2 DEF CarriesDraft, ScoresAgain, Pipeline!Scoring
<1>11. ASSUME app.rev = 0
       PROVE  KeepsDraft(s, x) /\ KeepsRescore(s, x) /\ KeepsScoring(s, x)
  <2>1. ~Rescores(task[s], profile)  BY <1>1 DEF Rescores
  <2>2. WaitsIn(queue, {"rescore"}, {profile}) => WaitsIn(queue', {"rescore"}, {profile})
    BY <1>4, <1>6
  <2> QED  BY <1>10, <1>11, <2>1, <2>2 DEF KeepsDraft, KeepsRescore, KeepsScoring, Kept
<1> QED  BY <1>1, <1>6, <1>8, <1>9, <1>11, SlotKeeps

LEMMA ScoreProbesStep ==
    ASSUME PipelineSettings, JobHolds, NEW s \in Slots, Pipeline!ScoreProbes(s)
    PROVE  JobHolds'
<1>1. /\ UNCHANGED <<job, app, profile, owed, realign, reading, lost, queue>>
      /\ task[s].pc = "probe"
      /\ task \in [Slots -> Pipeline!TaskRows] /\ Pipeline!TaskFits(task[s], app.rev)
  BY JobTypes DEF Pipeline!ScoreProbes
<1>2. PICK prepare \in BOOLEAN :
        task' = [task EXCEPT ![s].pc = "write", ![s].prepare = prepare]
  <2>1. (ready /\ profile = task[s].profile) \in BOOLEAN  OBVIOUS
  <2> QED  BY <2>1 DEF Pipeline!ScoreProbes
<1>3. PICK x : x = [task[s] EXCEPT !.pc = "write", !.prepare = prepare]  OBVIOUS
<1>4. task' = [task EXCEPT ![s] = x]  BY <1>1, <1>2, <1>3
<1>5. /\ x.pc = "write" /\ x.status = task[s].status /\ x.content = task[s].content
      /\ x.msg = task[s].msg /\ x.rev = task[s].rev /\ x.profile = task[s].profile
  BY <1>1, <1>3 DEF Pipeline!TaskRows
<1>6. x \in Pipeline!TaskRows  BY <1>1, <1>3 DEF Pipeline!TaskRows
<1>7. Pipeline!TaskFits(x, app.rev)  BY <1>1, <1>5 DEF Pipeline!TaskFits
<1>8. KeepsDraft(s, x) /\ KeepsRescore(s, x) /\ KeepsScoring(s, x)
  BY <1>1, <1>5 DEF KeepsDraft, KeepsRescore, KeepsScoring, Kept, CarriesDraft, Rescores,
                    ScoresAgain, Pipeline!Scoring
<1> QED  BY <1>1, <1>4, <1>6, <1>7, <1>8, JobTypes, SlotKeeps

LEMMA SlotFrees ==
    ASSUME PipelineSettings, JobHolds, NEW s \in Slots, task' = [task EXCEPT ![s] = Pipeline!Free],
           UNCHANGED <<job, app, profile, owed, realign, reading>>, queue' \in Queues,
           lost' = {} => lost = {},
           \A K, V : WaitsIn(queue, K, V) => WaitsIn(queue', K, V),
           app.rev = 0 /\ lost' = {} =>
              /\ job.status = "draft" /\ CarriesDraft(task[s], job) =>
                    WaitsIn(queue', {"gen", "score"}, Pipeline!Profiles \cup {0})
              /\ job.status \in {"draft", "scored"} /\ Rescores(task[s], profile) =>
                    WaitsIn(queue', {"rescore"}, {profile})
              /\ job.status = "scored" /\ ScoresAgain(task[s], job) =>
                    WaitsIn(queue', {"score"}, {0})
    PROVE  JobHolds'
<1>1. PICK x : x = Pipeline!Free  OBVIOUS
<1>2. x \in Pipeline!TaskRows /\ Pipeline!TaskFits(x, app.rev)
  BY <1>1, FreeSlot, JobTypes
<1>3. task' = [task EXCEPT ![s] = x]  BY <1>1
<1>4. ASSUME app.rev = 0, lost' = {}
      PROVE  /\ job.status = "draft" => KeepsDraft(s, x)
             /\ job.status \in {"draft", "scored"} => KeepsRescore(s, x)
             /\ job.status = "scored" => KeepsScoring(s, x)
  BY <1>4 DEF KeepsDraft, KeepsRescore, KeepsScoring, Kept
<1> QED  BY <1>2, <1>3, <1>4, SlotKeeps

\* The rechecks of a scoring task that still fits do not fail.
LEMMA StillScorable ==
    ASSUME JobHolds, NEW s \in Slots, app.rev = 0, Pipeline!Scoring(task[s], job),
           job.status \in {"draft", "scored"}
    PROVE  Pipeline!StillScorable(s)
  BY JobTypes DEF Pipeline!StillScorable, Pipeline!Scoring

LEMMA ScoreBlockedStep ==
    ASSUME PipelineSettings, JobHolds, NEW s \in Slots, Pipeline!ScoreBlocked(s)
    PROVE  JobHolds'
<1>1. /\ UNCHANGED <<job, app, profile, owed, realign, reading, lost, queue>>
      /\ task[s].pc = "write" /\ ~Pipeline!StillScorable(s)
      /\ task' = [task EXCEPT ![s] = Pipeline!Free]
  BY DEF Pipeline!ScoreBlocked, Pipeline!End
<1>2. ASSUME app.rev = 0, job.status \in {"draft", "scored"}
      PROVE  ~CarriesDraft(task[s], job) /\ ~ScoresAgain(task[s], job)
             /\ ~Rescores(task[s], profile)
  <2>1. ~Pipeline!Scoring(task[s], job)  BY <1>1, <1>2, StillScorable
  <2> QED  BY <1>1, <2>1 DEF CarriesDraft, ScoresAgain, Rescores
<1> QED  BY <1>1, <1>2, JobTypes, SlotFrees

LEMMA HandsOffStep ==
    ASSUME PipelineSettings, JobHolds, NEW s \in Slots, Pipeline!HandsOff(s)
    PROVE  JobHolds'
<1>1. /\ UNCHANGED <<job, app, profile, owed, realign, reading, lost>>
      /\ task[s].pc = "handoff" /\ queue' = Pipeline!Put(queue, Pipeline!GenMsg(task[s].profile))
      /\ task' = [task EXCEPT ![s] = Pipeline!Free]
  BY DEF Pipeline!HandsOff, Pipeline!End
<1>2. task[s].profile \in Pipeline!Profiles  BY <1>1, JobTypes DEF Pipeline!TaskFits
<1>3. PICK m \in Pipeline!Messages :
        m = Pipeline!GenMsg(task[s].profile) /\ m.kind = "gen" /\ m.v \in Pipeline!Profiles
  BY <1>2, KnownMessages DEF Pipeline!GenMsg
<1>4. /\ queue' \in Queues /\ \A K, V : WaitsIn(queue, K, V) => WaitsIn(queue', K, V)
      /\ WaitsIn(queue', {"gen", "score"}, Pipeline!Profiles \cup {0})
  BY <1>1, <1>3, JobTypes, QueueGrows
<1>5. ~Rescores(task[s], profile) /\ ~ScoresAgain(task[s], job)  BY <1>1, Carriers
<1> QED  BY <1>1, <1>4, <1>5, SlotFrees

LEMMA DispatchesRescoreStep ==
    ASSUME PipelineSettings, JobHolds, NEW s \in Slots, Pipeline!DispatchesRescore(s)
    PROVE  JobHolds'
<1>1. /\ UNCHANGED <<job, app, profile, owed, realign, reading>>
      /\ task[s].pc = "again" /\ task' = [task EXCEPT ![s] = Pipeline!Free]
      /\ \/ queue' = Pipeline!Put(queue, Pipeline!ScoreMsg) /\ lost' = lost
         \/ lost' # {} /\ queue' = queue
  BY DEF Pipeline!DispatchesRescore, Pipeline!End
<1>2. PICK m \in Pipeline!Messages : m = Pipeline!ScoreMsg /\ m.kind = "score" /\ m.v = 0
  BY KnownMessages DEF Pipeline!ScoreMsg
<1>3. /\ queue' \in Queues /\ \A K, V : WaitsIn(queue, K, V) => WaitsIn(queue', K, V)
      /\ lost' = {} => WaitsIn(queue', {"score"}, {0})
  BY <1>1, <1>2, JobTypes, QueueGrows
<1>4. ~CarriesDraft(task[s], job) /\ ~Rescores(task[s], profile)  BY <1>1, Carriers
<1>5. lost' = {} => lost = {}  BY <1>1
<1> QED  BY <1>1, <1>3, <1>4, <1>5, SlotFrees

\* The write of a generation that still fits is not refused.
LEMMA GenBlockedStep ==
    ASSUME PipelineSettings, JobHolds, NEW s \in Slots, Pipeline!GenBlocked(s)
    PROVE  JobHolds'
<1>1. /\ UNCHANGED <<job, app, profile, owed, realign, reading, lost, queue>>
      /\ task[s].pc = "generate" /\ ~Pipeline!Writable(s)
      /\ task' = [task EXCEPT ![s] = Pipeline!Free]
  BY DEF Pipeline!GenBlocked, Pipeline!End
<1>2. ASSUME app.rev = 0, job.status = "draft"  PROVE ~CarriesDraft(task[s], job)
  <2>1. task[s].rev = 0  BY <1>2, JobTypes
  <2>2. task[s].content # job.content
    BY <1>1, <1>2, <2>1, JobTypes DEF Pipeline!Writable, Pipeline!InputCurrent
  <2> QED  BY <1>1, <2>2 DEF CarriesDraft, Pipeline!Scoring
<1>3. ~Rescores(task[s], profile) /\ ~ScoresAgain(task[s], job)  BY <1>1, Carriers
<1> QED  BY <1>1, <1>2, <1>3, JobTypes, SlotFrees

\* A task that fails or whose worker dies leaves its message, or a loss.
LEMMA FailureStep ==
    ASSUME PipelineSettings, JobHolds, NEW s \in Slots,
           Pipeline!TaskFails(s) \/ Pipeline!WorkerDies(s)
    PROVE  JobHolds'
<1>1. /\ UNCHANGED <<job, app, profile, owed, realign, reading>>
      /\ task' = [task EXCEPT ![s] = Pipeline!Free]
  BY DEF Pipeline!TaskFails, Pipeline!WorkerDies, Pipeline!End
<1>2. task[s].msg \in Pipeline!Messages /\ Pipeline!TaskFits(task[s], app.rev)  BY JobTypes
<1>3. \/ lost' # {} /\ queue' = queue
      \/ /\ lost' = lost
         /\ \E m \in Pipeline!Messages :
               /\ queue' = Pipeline!Put(queue, m)
               /\ m.kind = task[s].msg.kind /\ m.v = task[s].msg.v
  <2>1. CASE Pipeline!TaskFails(s)
    <3>1. PICK m : m = task[s].msg  OBVIOUS
    <3>2. \/ m.tries > 0 /\ queue' = Pipeline!Put(queue, [m EXCEPT !.tries = @ - 1])
             /\ lost' = lost
          \/ lost' # {} /\ queue' = queue
      BY <2>1, <3>1 DEF Pipeline!TaskFails
    <3>3. m.tries > 0 => \E n \in Pipeline!Messages :
             n = [m EXCEPT !.tries = @ - 1] /\ n.kind = m.kind /\ n.v = m.v
      BY <1>2, <3>1, KnownMessages
    <3> QED  BY <3>1, <3>2, <3>3
  <2>2. CASE Pipeline!WorkerDies(s)
    BY <1>2, <2>2 DEF Pipeline!WorkerDies
  <2> QED  BY <2>1, <2>2
<1>4. queue' \in Queues /\ (lost' = {} => lost = {})
      /\ \A K, V : WaitsIn(queue, K, V) => WaitsIn(queue', K, V)
  BY <1>3, JobTypes, QueueGrows
<1>5. lost' = {} => \A K, V : task[s].msg.kind \in K /\ task[s].msg.v \in V =>
                                 WaitsIn(queue', K, V)
  BY <1>3, JobTypes, QueueGrows
<1>6. /\ task[s].msg.v \in Pipeline!Profiles \cup {0}
      /\ task[s].msg.kind = "score" => task[s].msg.v = 0
  BY <1>2, KnownMessages
<1>7. /\ CarriesDraft(task[s], job) => task[s].msg.kind \in {"gen", "score"}
      /\ ScoresAgain(task[s], job) => task[s].msg.kind = "score"
      /\ Rescores(task[s], profile) => task[s].msg.kind = "rescore" /\ task[s].msg.v = profile
  BY <1>2 DEF CarriesDraft, ScoresAgain, Rescores, Pipeline!Scoring, Pipeline!TaskFits
<1> QED  BY <1>1, <1>4, <1>5, <1>6, <1>7, SlotFrees

\* A slot moves on and the job is written.
LEMMA JobMoves ==
    ASSUME JobHolds, NEW s \in Slots, NEW x \in Pipeline!TaskRows,
           Pipeline!TaskFits(x, app.rev), task' = [task EXCEPT ![s] = x],
           UNCHANGED <<app, profile, owed, realign, reading>>,
           job' \in JobRows, queue' \in Queues,
           DraftOf(job', app, queue', task', lost'),
           ScoreOf(job', app, profile, queue', task', owed, lost')
    PROVE  JobHolds'
<1>1. TasksHold(task', app.rev)
  <2>1. PICK us : us = [task EXCEPT ![s] = x]  OBVIOUS
  <2>2. TasksHold(us, app.rev)  BY <2>1 DEF JobHolds, TasksHold
  <2> QED  BY <2>1, <2>2
<1>2. RowsHold(job', profile, owed, reading, queue')  BY DEF JobHolds, RowsHold
<1> QED  BY <1>1, <1>2 DEF JobHolds

LEMMA ScoreRefreshesStep ==
    ASSUME PipelineSettings, JobHolds, NEW s \in Slots, Pipeline!ScoreRefreshes(s)
    PROVE  JobHolds'
<1>1. /\ UNCHANGED <<app, profile, owed, realign, reading, queue, lost>>
      /\ task[s].rev > 0 /\ task' = [task EXCEPT ![s] = Pipeline!Free]
      /\ job' \in {job, [job EXCEPT !.score = [content |-> task[s].content,
                                               profile |-> task[s].profile]]}
  BY DEF Pipeline!ScoreRefreshes, Pipeline!End
<1>2. app.rev # 0  BY <1>1, JobTypes
<1>3. task[s].content \in Nat /\ task[s].profile \in Nat
  BY JobTypes DEF Pipeline!TaskRows, Pipeline!Profiles
<1>4. PICK score \in Pipeline!Scores :
        score = [content |-> task[s].content, profile |-> task[s].profile]
  BY <1>3 DEF Pipeline!Scores
<1>5. job' \in JobRows  BY <1>1, <1>4, JobTypes DEF JobRows
<1>6. DraftOf(job', app, queue', task', lost')
      /\ ScoreOf(job', app, profile, queue', task', owed, lost')
  BY <1>2 DEF DraftOf, ScoreOf, Waiting
<1> QED  BY <1>1, <1>5, <1>6, FreeSlot, JobTypes, JobMoves

\* SCORED, SKIPPED or DRAFT: a job that is SCORED with an older profile will be
\* scored again, a DRAFT one will be handed off.
LEMMA ScoreCommitsStep ==
    ASSUME PipelineSettings, JobHolds, NEW s \in Slots, Pipeline!ScoreCommits(s)
    PROVE  JobHolds'
<1>1. /\ UNCHANGED <<app, profile, owed, realign, reading, queue, lost>>
      /\ task[s].pc = "write" /\ task[s] \in Pipeline!TaskRows
      /\ Pipeline!TaskFits(task[s], app.rev) /\ task \in [Slots -> Pipeline!TaskRows]
  BY JobTypes DEF Pipeline!ScoreCommits
<1>2. PICK score : score = [content |-> task[s].content, profile |-> task[s].profile]
  OBVIOUS
<1>3. /\ score \in Pipeline!Scores /\ score.profile = task[s].profile
      /\ task[s].msg.kind = "score" /\ task[s].profile \in Pipeline!Profiles
  <2>1. task[s].content \in Nat /\ task[s].profile \in Nat
    BY <1>1 DEF Pipeline!TaskRows, Pipeline!Profiles
  <2> QED  BY <1>1, <1>2, <2>1 DEF Pipeline!Scores, Pipeline!TaskFits
<1>4. \/ /\ job' = [job EXCEPT !.status = "scored", !.score = score]
         /\ IF profile # task[s].profile THEN task' = [task EXCEPT ![s].pc = "again"]
            ELSE task' = [task EXCEPT ![s] = Pipeline!Free]
      \/ /\ profile = task[s].profile
         /\ job' = [job EXCEPT !.status = "skipped", !.score = score]
         /\ task' = [task EXCEPT ![s] = Pipeline!Free]
      \/ /\ profile = task[s].profile
         /\ job' = [job EXCEPT !.status = "draft", !.score = score]
         /\ task' = [task EXCEPT ![s].pc = "handoff"]
  BY <1>2 DEF Pipeline!ScoreCommits, Pipeline!ScoredOutdated, Pipeline!End
<1>5. PICK pc, x :
        /\ \/ pc = "free" /\ x = Pipeline!Free
           \/ pc \in {"again", "handoff"} /\ x = [task[s] EXCEPT !.pc = pc]
        /\ task' = [task EXCEPT ![s] = x]
        /\ \/ /\ job' = [job EXCEPT !.status = "scored", !.score = score]
              /\ profile # task[s].profile => pc = "again"
           \/ /\ job' = [job EXCEPT !.status = "skipped", !.score = score]
           \/ /\ profile = task[s].profile /\ pc = "handoff"
              /\ job' = [job EXCEPT !.status = "draft", !.score = score]
  <2>1. ASSUME NEW pc, task' = [task EXCEPT ![s].pc = pc]
        PROVE  task' = [task EXCEPT ![s] = [task[s] EXCEPT !.pc = pc]]
    BY <1>1, <2>1
  <2>2. CASE job' = [job EXCEPT !.status = "scored", !.score = score]
             /\ profile # task[s].profile /\ task' = [task EXCEPT ![s].pc = "again"]
    BY <2>1, <2>2
  <2>3. CASE job' = [job EXCEPT !.status = "draft", !.score = score]
             /\ profile = task[s].profile /\ task' = [task EXCEPT ![s].pc = "handoff"]
    BY <2>1, <2>3
  <2>4. CASE job' = [job EXCEPT !.status = "scored", !.score = score]
             /\ profile = task[s].profile /\ task' = [task EXCEPT ![s] = Pipeline!Free]
    BY <2>4
  <2>5. CASE job' = [job EXCEPT !.status = "skipped", !.score = score]
             /\ task' = [task EXCEPT ![s] = Pipeline!Free]
    BY <2>5
  <2> QED  BY <1>4, <2>2, <2>3, <2>4, <2>5
<1>6. /\ x \in Pipeline!TaskRows /\ Pipeline!TaskFits(x, app.rev) /\ x.pc = pc
      /\ pc = "again" => x.msg.kind = "score"
  <2>1. CASE x = Pipeline!Free /\ pc = "free"  BY <2>1, FreeSlot, JobTypes
  <2>2. CASE pc \in {"again", "handoff"} /\ x = [task[s] EXCEPT !.pc = pc]
    <3>1. x \in Pipeline!TaskRows /\ x.pc = pc /\ x.msg = task[s].msg
          /\ x.rev = task[s].rev /\ x.profile = task[s].profile
      BY <1>1, <2>2 DEF Pipeline!TaskRows
    <3> QED  BY <1>1, <1>3, <2>2, <3>1 DEF Pipeline!TaskFits
  <2> QED  BY <1>5, <2>1, <2>2
<1>7. task'[s] = x  BY <1>1, <1>5
<1>8. /\ job' \in JobRows /\ job'.score = score
      /\ job'.status = "draft" => pc = "handoff" /\ profile = task[s].profile
      /\ job'.status = "scored" => (profile # task[s].profile => pc = "again")
  BY <1>3, <1>5, JobTypes DEF JobRows, Pipeline!Statuses
<1>9. DraftOf(job', app, queue', task', lost')
  BY <1>6, <1>7, <1>8 DEF DraftOf, CarriesDraft
<1>10. ScoreOf(job', app, profile, queue', task', owed, lost')
  BY <1>3, <1>6, <1>7, <1>8 DEF ScoreOf, Waiting, ScoresAgain
<1> QED  BY <1>1, <1>5, <1>6, <1>8, <1>9, <1>10, JobTypes, JobMoves

LEMMA ReturnedJob ==
    ASSUME JobHolds
    PROVE  /\ Pipeline!Returned \in JobRows /\ Pipeline!Returned.score = job.score
           /\ Pipeline!Returned.content = job.content
           /\ app.rev = 0 /\ job.status = "draft" => Pipeline!Returned.status = "scored"
           /\ job.status # "draft" => Pipeline!Returned = job
<1>1. CASE Pipeline!JobLockable /\ job.status = "draft"
  <2>1. Pipeline!Returned = [job EXCEPT !.status = "scored"]  BY <1>1 DEF Pipeline!Returned
  <2> QED  BY <1>1, <2>1, JobTypes DEF JobRows, Pipeline!Statuses
<1>2. CASE ~(Pipeline!JobLockable /\ job.status = "draft")
  <2>1. Pipeline!Returned = job  BY <1>2 DEF Pipeline!Returned
  <2> QED  BY <1>2, <2>1, JobTypes
<1> QED  BY <1>1, <1>2

\* A generation that cannot be put the job back: to SCORED, where requeueing
\* finds it.
LEMMA ReturnStep ==
    ASSUME JobHolds, NEW s \in Slots, NEW x \in Pipeline!TaskRows,
           Pipeline!TaskFits(x, app.rev), task' = [task EXCEPT ![s] = x],
           task[s].pc \in {"free", "generate"}, job' = Pipeline!Returned,
           UNCHANGED <<app, profile, owed, realign, reading, lost>>, queue' \in Queues,
           \A K, V : WaitsIn(queue, K, V) /\ "gen" \notin K => WaitsIn(queue', K, V)
    PROVE  JobHolds'
<1>1. /\ job' \in JobRows /\ job'.score = job.score /\ job'.content = job.content
      /\ app.rev = 0 => job'.status # "draft"
      /\ app.rev = 0 /\ job.status = "draft" => job'.status = "scored"
      /\ job.status # "draft" => job' = job
  BY ReturnedJob
<1>2. \A u \in Slots : u # s => task'[u] = task[u]  BY JobTypes
<1>3. DraftOf(job', app, queue', task', lost')  BY <1>1 DEF DraftOf
<1>4. ScoreOf(job', app, profile, queue', task', owed, lost')
  <2> SUFFICES ASSUME Waiting(job', app, profile, lost'), profile \notin owed
               PROVE  \/ WaitsIn(queue', {"rescore"}, {profile})
                      \/ \E u \in Slots : Rescores(task'[u], profile)
                      \/ /\ job'.status = "scored"
                         /\ \/ WaitsIn(queue', {"score"}, {0})
                            \/ \E u \in Slots : ScoresAgain(task'[u], job')
    BY DEF ScoreOf
  <2>1. Waiting(job, app, profile, lost)  BY <1>1 DEF Waiting
  <2>2. \/ WaitsIn(queue, {"rescore"}, {profile})
        \/ \E u \in Slots : Rescores(task[u], profile)
        \/ /\ job.status = "scored"
           /\ \/ WaitsIn(queue, {"score"}, {0})
              \/ \E u \in Slots : ScoresAgain(task[u], job)
    BY <2>1 DEF JobHolds, ScoreOf
  <2>3. ~Rescores(task[s], profile) /\ ~ScoresAgain(task[s], job)  BY Carriers
  <2>4. "gen" \notin {"rescore"} /\ "gen" \notin {"score"}  OBVIOUS
  <2>5. CASE WaitsIn(queue, {"rescore"}, {profile})  BY <2>4, <2>5
  <2>6. CASE \E u \in Slots : Rescores(task[u], profile)  BY <1>2, <2>3, <2>6
  <2>7. CASE job.status = "scored" /\ WaitsIn(queue, {"score"}, {0})  BY <1>1, <2>4, <2>7
  <2>8. CASE job.status = "scored" /\ \E u \in Slots : ScoresAgain(task[u], job)
    BY <1>1, <1>2, <2>3, <2>8
  <2> QED  BY <2>2, <2>5, <2>6, <2>7, <2>8
<1> QED  BY <1>1, <1>3, <1>4, JobMoves

\* generate_application_task.
LEMMA GenReadsStep ==
    ASSUME PipelineSettings, JobHolds, NEW s \in Slots, Pipeline!GenReads(s)
    PROVE  JobHolds'
<1>1. /\ UNCHANGED <<app, profile, owed, realign, reading, lost>>
      /\ task[s].pc = "free" /\ task \in [Slots -> Pipeline!TaskRows]
  BY JobTypes DEF Pipeline!GenReads
<1>2. PICK m \in Pipeline!Messages :
        /\ m.kind = "gen" /\ queue[m] > 0 /\ queue' = [queue EXCEPT ![m] = @ - 1]
        /\ \/ Pipeline!Exists /\ app.status # "draft" /\ task' = task /\ job' = job
           \/ job' = Pipeline!Returned /\ task' = task
           \/ /\ job' = Pipeline!Returned
              /\ task' = [task EXCEPT ![s] = [Pipeline!Free EXCEPT !.pc = "again", !.msg = m]]
           \/ /\ job' = job
              /\ task' = [task EXCEPT ![s] =
                   [Pipeline!Free EXCEPT !.pc = "generate", !.msg = m, !.rev = app.rev,
                       !.content = job.content, !.profile = m.v]]
  <2>1. PICK m \in Pipeline!Messages :
       /\ m.kind = "gen" /\ queue[m] > 0
       /\ queue' = [queue EXCEPT ![m] = @ - 1]
       /\ \/ /\ Pipeline!Exists /\ app.status # "draft"
             /\ UNCHANGED <<task, job>>
          \/ /\ ~(Pipeline!Exists /\ app.status # "draft") /\ ~ready
             /\ job' = Pipeline!Returned
             /\ UNCHANGED task
          \/ /\ ~(Pipeline!Exists /\ app.status # "draft") /\ ready /\ profile # m.v
             /\ job' = Pipeline!Returned
             /\ task' = IF Pipeline!Returned = job THEN task
                        ELSE [task EXCEPT ![s] = [Pipeline!Free EXCEPT !.pc = "again", !.msg = m]]
          \/ /\ ~(Pipeline!Exists /\ app.status # "draft") /\ ready /\ profile = m.v
             /\ task' = [task EXCEPT ![s] =
                  [Pipeline!Free EXCEPT !.pc = "generate", !.msg = m, !.rev = app.rev,
                               !.content = job.content, !.profile = m.v]]
             /\ UNCHANGED job
    BY DEF Pipeline!GenReads
  <2> QED  BY <2>1
<1>3. /\ queue' \in Queues
      /\ \A K, V : WaitsIn(queue, K, V) /\ "gen" \notin K => WaitsIn(queue', K, V)
  <2>1. queue' \in Queues
        /\ \A K, V : WaitsIn(queue, K, V) /\ (m.kind \notin K \/ m.v \notin V) =>
                       WaitsIn(queue', K, V)
    BY <1>2, JobTypes, QueueShrinks
  <2> QED  BY <1>2, <2>1
<1>4. m.v \in Pipeline!Profiles  BY <1>2, KnownMessages
<1>5. PICK same : same = task[s]  OBVIOUS
<1>6. /\ same \in Pipeline!TaskRows /\ Pipeline!TaskFits(same, app.rev)
      /\ task = [task EXCEPT ![s] = same]
  BY <1>1, <1>5, JobTypes
<1>7. CASE Pipeline!Exists /\ app.status # "draft" /\ task' = task /\ job' = job
  <2>1. app.rev # 0  BY <1>7, JobTypes
  <2> QED  BY <1>1, <1>3, <1>6, <1>7, <2>1, SlotKeeps
<1>8. CASE job' = Pipeline!Returned /\ task' = task
  BY <1>1, <1>3, <1>6, <1>8, ReturnStep
<1>9. CASE job' = Pipeline!Returned
           /\ task' = [task EXCEPT ![s] = [Pipeline!Free EXCEPT !.pc = "again", !.msg = m]]
  <2>1. PICK x : x = [Pipeline!Free EXCEPT !.pc = "again", !.msg = m]  OBVIOUS
  <2>2. Pipeline!Free \in Pipeline!TaskRows  BY FreeSlot
  <2>3. x \in Pipeline!TaskRows /\ x.pc = "again" /\ x.rev = Pipeline!Free.rev
    BY <1>2, <2>1, <2>2 DEF Pipeline!TaskRows
  <2>4. Pipeline!TaskFits(x, app.rev)
    BY <2>3, FreeSlot, JobTypes DEF Pipeline!TaskFits
  <2> QED  BY <1>1, <1>3, <1>9, <2>1, <2>3, <2>4, ReturnStep
<1>10. CASE job' = job /\ task' = [task EXCEPT ![s] =
                   [Pipeline!Free EXCEPT !.pc = "generate", !.msg = m, !.rev = app.rev,
                       !.content = job.content, !.profile = m.v]]
  <2>1. PICK x : x = [Pipeline!Free EXCEPT !.pc = "generate", !.msg = m, !.rev = app.rev,
                       !.content = job.content, !.profile = m.v]
    OBVIOUS
  <2>2. Pipeline!Free \in Pipeline!TaskRows /\ job.content \in Nat /\ app.rev \in Nat
    BY FreeSlot, JobTypes DEF JobRows
  <2>3. x \in Pipeline!TaskRows /\ x.pc = "generate" /\ x.rev = app.rev /\ x.msg = m
        /\ x.profile = m.v /\ x.content = job.content
    BY <1>2, <1>4, <2>1, <2>2 DEF Pipeline!TaskRows
  <2>4. Pipeline!TaskFits(x, app.rev)
    BY <1>2, <1>4, <2>2, <2>3 DEF Pipeline!TaskFits
  <2>5. CarriesDraft(x, job)  BY <2>3 DEF CarriesDraft
  <2>6. ~Rescores(task[s], profile) /\ ~ScoresAgain(task[s], job)  BY <1>1, Carriers
  <2>7. KeepsDraft(s, x) /\ KeepsRescore(s, x) /\ KeepsScoring(s, x)
    BY <1>3, <2>5, <2>6 DEF KeepsDraft, KeepsRescore, KeepsScoring, Kept
  <2> QED  BY <1>1, <1>3, <1>10, <2>1, <2>3, <2>4, <2>7, SlotKeeps
<1> QED  BY <1>2, <1>7, <1>8, <1>9, <1>10

LEMMA GenOutdatedStep ==
    ASSUME PipelineSettings, JobHolds, NEW s \in Slots, Pipeline!GenOutdated(s)
    PROVE  JobHolds'
<1>1. /\ UNCHANGED <<app, profile, owed, realign, reading, lost, queue>>
      /\ task[s].pc = "generate" /\ task \in [Slots -> Pipeline!TaskRows]
      /\ job' = Pipeline!Returned
      /\ task' = [task EXCEPT ![s] =
                    IF Pipeline!Returned # job /\ task[s].msg.kind = "gen"
                    THEN [@ EXCEPT !.pc = "again"] ELSE Pipeline!Free]
  BY JobTypes DEF Pipeline!GenOutdated
<1>2. PICK x : /\ x \in {[task[s] EXCEPT !.pc = "again"], Pipeline!Free}
               /\ task' = [task EXCEPT ![s] = x]
  <2>1. CASE Pipeline!Returned # job /\ task[s].msg.kind = "gen"
    <3>1. task' = [task EXCEPT ![s] = [task[s] EXCEPT !.pc = "again"]]  BY <1>1, <2>1
    <3> QED  BY <3>1
  <2>2. CASE ~(Pipeline!Returned # job /\ task[s].msg.kind = "gen")
    <3>1. task' = [task EXCEPT ![s] = Pipeline!Free]  BY <1>1, <2>2
    <3> QED  BY <3>1
  <2> QED  BY <2>1, <2>2
<1>3. x \in Pipeline!TaskRows /\ Pipeline!TaskFits(x, app.rev)
  <2>1. CASE x = Pipeline!Free  BY <2>1, FreeSlot, JobTypes
  <2>2. CASE x = [task[s] EXCEPT !.pc = "again"]
    <3>1. x \in Pipeline!TaskRows /\ x.pc = "again" /\ x.rev = task[s].rev
      BY <1>1, <2>2 DEF Pipeline!TaskRows
    <3> QED  BY <3>1, JobTypes DEF Pipeline!TaskFits
  <2> QED  BY <1>2, <2>1, <2>2
<1> QED  BY <1>1, <1>2, <1>3, JobTypes, ReturnStep

LEMMA GenCommitsStep ==
    ASSUME PipelineSettings, JobHolds, NEW s \in Slots, Pipeline!GenCommits(s)
    PROVE  JobHolds'
<1>1. /\ UNCHANGED <<profile, owed, realign, reading, lost, queue>>
      /\ task' = [task EXCEPT ![s] = Pipeline!Free]
      /\ app' = [rev |-> app.rev + 1, content |-> task[s].content,
                 profile |-> task[s].profile, status |-> "draft"]
      /\ job' = [job EXCEPT !.status = "draft"] /\ realign.pc # "checked"
  BY DEF Pipeline!GenCommits, Pipeline!End, Pipeline!Unlocked
<1>2. task[s].content \in Nat /\ task[s].profile \in Nat
  BY JobTypes DEF Pipeline!TaskRows, Pipeline!Profiles
<1>3. app'.rev = app.rev + 1 /\ app' \in AppRows /\ app'.status = "draft"
  BY <1>1, <1>2, JobTypes DEF AppRows
<1>4. TasksHold(task', app'.rev)
  <2>1. TasksHold(task', app.rev)
    BY <1>1, FreeSlot, JobTypes DEF TasksHold
  <2> QED  BY <1>3, <2>1, JobTypes, OlderTasks
<1>5. AppHolds(app', realign')
  BY <1>1, <1>3, JobTypes DEF JobHolds, AppHolds
<1>6. RowsHold(job', profile', owed', reading', queue')
  BY <1>1, JobTypes DEF RowsHold, JobRows, Pipeline!Statuses
<1>7. app'.rev # 0  BY <1>3, JobTypes
<1>8. DraftOf(job', app', queue', task', lost')
      /\ ScoreOf(job', app', profile', queue', task', owed', lost')
  BY <1>7 DEF DraftOf, ScoreOf, Waiting
<1> QED  BY <1>4, <1>5, <1>6, <1>8 DEF JobHolds

\* The page of a rescoring.
LEMMA RescoreReadsStep ==
    ASSUME PipelineSettings, JobHolds, NEW s \in Slots, Pipeline!RescoreReads(s)
    PROVE  JobHolds'
<1>1. /\ UNCHANGED <<job, app, profile, owed, realign, reading, lost>>
      /\ task[s].pc = "free" /\ task \in [Slots -> Pipeline!TaskRows]
  BY JobTypes DEF Pipeline!RescoreReads
<1>2. PICK m \in Pipeline!Messages :
        /\ m.kind = "rescore" /\ queue[m] > 0 /\ queue' = [queue EXCEPT ![m] = @ - 1]
        /\ task' = IF profile = m.v /\ Pipeline!Pending(job.status)
                   THEN [task EXCEPT ![s] = [Pipeline!Free EXCEPT !.pc = "rescore", !.msg = m,
                                               !.content = job.content, !.profile = m.v]]
                   ELSE task
  BY DEF Pipeline!RescoreReads
<1>3. /\ queue' \in Queues
      /\ \A K, V : WaitsIn(queue, K, V) /\ (m.kind \notin K \/ m.v \notin V) =>
                     WaitsIn(queue', K, V)
  BY <1>2, JobTypes, QueueShrinks
<1>4. m.v \in Pipeline!Profiles  BY <1>2, KnownMessages
<1>5. PICK x : /\ x = IF profile = m.v /\ Pipeline!Pending(job.status)
                      THEN [Pipeline!Free EXCEPT !.pc = "rescore", !.msg = m,
                                                 !.content = job.content, !.profile = m.v]
                      ELSE task[s]
               /\ task' = [task EXCEPT ![s] = x]
  <2>1. task = [task EXCEPT ![s] = task[s]]  BY <1>1
  <2> QED  BY <1>2, <2>1
<1>6. ASSUME profile = m.v, Pipeline!Pending(job.status)
      PROVE  x \in Pipeline!TaskRows /\ x.pc = "rescore" /\ x.msg = m /\ x.profile = m.v
             /\ Pipeline!TaskFits(x, app.rev)
  <2>1. Pipeline!Free \in Pipeline!TaskRows /\ job.content \in Nat /\ app.rev \in Nat
        /\ Pipeline!TaskFits(Pipeline!Free, app.rev)
    BY FreeSlot, JobTypes DEF JobRows
  <2>2. x = [Pipeline!Free EXCEPT !.pc = "rescore", !.msg = m,
                                  !.content = job.content, !.profile = m.v]
    BY <1>5, <1>6
  <2>3. x \in Pipeline!TaskRows /\ x.pc = "rescore" /\ x.msg = m /\ x.profile = m.v
        /\ x.rev = Pipeline!Free.rev
    BY <1>2, <1>4, <2>1, <2>2 DEF Pipeline!TaskRows
  <2> QED  BY <1>2, <1>4, <2>1, <2>3 DEF Pipeline!TaskFits
<1>7. x \in Pipeline!TaskRows /\ Pipeline!TaskFits(x, app.rev)
  BY <1>5, <1>6, JobTypes
<1>8. ~Rescores(task[s], profile) /\ ~ScoresAgain(task[s], job) /\ ~CarriesDraft(task[s], job)
  BY <1>1, Carriers
<1>9. KeepsDraft(s, x) /\ KeepsScoring(s, x)
  <2>1. m.kind \notin {"gen", "score"} /\ m.kind \notin {"score"}  BY <1>2
  <2> QED  BY <1>3, <1>8, <2>1 DEF KeepsDraft, KeepsScoring, Kept
<1>10. ASSUME job.status \in {"draft", "scored"}  PROVE KeepsRescore(s, x)
  <2>1. CASE profile = m.v
    <3>1. Pipeline!Pending(job.status)  BY <1>10 DEF Pipeline!Pending
    <3>2. Rescores(x, profile)  BY <1>6, <2>1, <3>1 DEF Rescores
    <3> QED  BY <3>2 DEF KeepsRescore
  <2>2. CASE profile # m.v
    <3>1. m.v \notin {profile}  BY <2>2
    <3> QED  BY <1>3, <1>8, <3>1 DEF KeepsRescore
  <2> QED  BY <2>1, <2>2
<1> QED  BY <1>1, <1>3, <1>5, <1>7, <1>9, <1>10, SlotKeeps

LEMMA RescoreCommitsStep ==
    ASSUME PipelineSettings, JobHolds, NEW s \in Slots, Pipeline!RescoreCommits(s)
    PROVE  JobHolds'
<1>1. /\ UNCHANGED <<app, profile, owed, realign, reading, lost, queue>>
      /\ task[s].pc = "rescore" /\ task' = [task EXCEPT ![s] = Pipeline!Free]
  BY DEF Pipeline!RescoreCommits, Pipeline!End
<1>2. CASE task[s].profile = profile /\ Pipeline!Pending(job.status)
  <2>1. task[s].content \in Nat /\ task[s].profile \in Nat
    BY JobTypes DEF Pipeline!TaskRows, Pipeline!Profiles
  <2>2. PICK score \in Pipeline!Scores :
          score = [content |-> task[s].content, profile |-> task[s].profile]
    BY <2>1 DEF Pipeline!Scores
  <2>3. job' = [job EXCEPT !.score = score]
    BY <1>2, <2>2 DEF Pipeline!RescoreCommits, Pipeline!NotSuperseded
  <2>4. score.profile = profile  BY <1>2, <2>2
  <2>5. job' \in JobRows /\ job'.score = score /\ job'.status = job.status
        /\ job'.content = job.content
    BY <2>2, <2>3, JobTypes DEF JobRows
  <2>6. \A u \in Slots : u # s => task'[u] = task[u]  BY <1>1, JobTypes
  <2>7. ~CarriesDraft(task[s], job)  BY <1>1, Carriers
  <2>8. \A t : CarriesDraft(t, job) <=> CarriesDraft(t, job')
    BY <2>5 DEF CarriesDraft, Pipeline!Scoring
  <2>9. DraftOf(job', app, queue', task', lost')
    <3>1. DraftOf(job, app, queue, task, lost)  BY DEF JobHolds
    <3> QED  BY <1>1, <2>5, <2>6, <2>7, <2>8, <3>1 DEF DraftOf
  <2>10. ScoreOf(job', app, profile, queue', task', owed, lost')
    BY <2>4, <2>5 DEF ScoreOf, Waiting
  <2> QED  BY <1>1, <2>5, <2>9, <2>10, FreeSlot, JobTypes, JobMoves
<1>3. CASE ~(task[s].profile = profile /\ Pipeline!Pending(job.status))
  <2>1. job' = job  BY <1>3 DEF Pipeline!RescoreCommits, Pipeline!NotSuperseded
  <2>2. job.status \in {"draft", "scored"} => ~Rescores(task[s], profile)
    BY <1>3 DEF Rescores, Pipeline!Pending
  <2>3. ~CarriesDraft(task[s], job) /\ ~ScoresAgain(task[s], job)  BY <1>1, Carriers
  <2> QED  BY <1>1, <2>1, <2>2, <2>3, JobTypes, SlotFrees
<1> QED  BY <1>2, <1>3

\* Everybody else: a profile is saved, and its rescoring asked for.
LEMMA ProfileSavedStep ==
    ASSUME PipelineSettings, JobHolds, Pipeline!ProfileSaved  PROVE JobHolds'
<1>1. /\ UNCHANGED <<job, app, queue, task, realign, reading, lost>>
      /\ profile < MaxProfiles /\ profile' = profile + 1 /\ owed' = owed \cup {profile + 1}
  BY DEF Pipeline!ProfileSaved
<1>2. profile' \in Pipeline!Profiles
  BY <1>1, JobTypes DEF Pipeline!Profiles, PipelineSettings
<1>3. RowsHold(job', profile', owed', reading', queue')
  BY <1>1, <1>2, JobTypes DEF RowsHold
<1>4. ScoreOf(job', app', profile', queue', task', owed', lost')  BY <1>1 DEF ScoreOf
<1> QED  BY <1>1, <1>3, <1>4 DEF JobHolds

\* A message more, and no task moves.
LEMMA MessageComes ==
    ASSUME JobHolds, UNCHANGED <<job, app, profile, task, realign, reading>>,
           queue' \in Queues, owed' \subseteq owed, lost' = {} => lost = {},
           \A K, V : WaitsIn(queue, K, V) => WaitsIn(queue', K, V),
           profile \in owed /\ lost' = {} /\ job.status \in {"scored", "draft"} =>
              profile \in owed' \/ WaitsIn(queue', {"rescore"}, {profile})
    PROVE  JobHolds'
<1>1. RowsHold(job', profile', owed', reading', queue')
  BY JobTypes DEF RowsHold
<1>2. DraftOf(job', app', queue', task', lost')  BY DEF JobHolds, DraftOf
<1>3. ScoreOf(job', app', profile', queue', task', owed', lost')
  <2> SUFFICES ASSUME Waiting(job, app, profile, lost')
               PROVE  \/ profile \in owed' \/ WaitsIn(queue', {"rescore"}, {profile})
                      \/ \E u \in Slots : Rescores(task[u], profile)
                      \/ /\ job.status = "scored"
                         /\ \/ WaitsIn(queue', {"score"}, {0})
                            \/ \E u \in Slots : ScoresAgain(task[u], job)
    BY DEF ScoreOf
  <2>1. \/ profile \in owed \/ WaitsIn(queue, {"rescore"}, {profile})
        \/ \E u \in Slots : Rescores(task[u], profile)
        \/ /\ job.status = "scored"
           /\ \/ WaitsIn(queue, {"score"}, {0})
              \/ \E u \in Slots : ScoresAgain(task[u], job)
    BY DEF JobHolds, ScoreOf, Waiting
  <2> QED  BY <2>1 DEF Waiting
<1> QED  BY <1>1, <1>2, <1>3 DEF JobHolds

LEMMA RescoreEnqueuedStep ==
    ASSUME PipelineSettings, JobHolds, Pipeline!RescoreEnqueued  PROVE JobHolds'
<1>1. PICK v \in owed :
        /\ owed' = owed \ {v} /\ UNCHANGED <<job, app, profile, task, realign, reading>>
        /\ \/ /\ queue' = IF Pipeline!Pending(job.status)
                          THEN Pipeline!Put(queue, Pipeline!RescoreMsg(v)) ELSE queue
              /\ lost' = lost
           \/ lost' # {} /\ queue' = queue
  BY DEF Pipeline!RescoreEnqueued
<1>2. PICK m \in Pipeline!Messages : m = Pipeline!RescoreMsg(v) /\ m.kind = "rescore" /\ m.v = v
  <2>1. v \in Pipeline!Profiles  BY JobTypes
  <2> QED  BY <2>1, KnownMessages DEF Pipeline!RescoreMsg
<1>3. /\ queue' \in Queues /\ \A K, V : WaitsIn(queue, K, V) => WaitsIn(queue', K, V)
  BY <1>1, <1>2, JobTypes, QueueGrows
<1>4. lost' = {} => lost = {}  BY <1>1
<1>5. ASSUME profile \in owed, lost' = {}, job.status \in {"scored", "draft"}
      PROVE  profile \in owed' \/ WaitsIn(queue', {"rescore"}, {profile})
  <2>1. CASE v = profile
    <3>1. Pipeline!Pending(job.status)  BY <1>5 DEF Pipeline!Pending
    <3>2. queue' = Pipeline!Put(queue, m)  BY <1>1, <1>2, <1>5, <3>1
    <3>3. m.kind \in {"rescore"} /\ m.v \in {profile}  BY <1>2, <2>1
    <3> QED  BY <3>2, <3>3, JobTypes, QueueGrows
  <2>2. CASE v # profile  BY <1>1, <1>5, <2>2
  <2> QED  BY <2>1, <2>2
<1> QED  BY <1>1, <1>3, <1>4, <1>5, MessageComes

LEMMA RequeuedStep ==
    ASSUME PipelineSettings, JobHolds, Pipeline!Requeued  PROVE JobHolds'
<1>1. /\ UNCHANGED <<job, app, profile, task, realign, reading, owed, lost>>
      /\ queue' = Pipeline!Put(queue, Pipeline!ScoreMsg)
  BY DEF Pipeline!Requeued
<1>2. /\ queue' \in Queues /\ \A K, V : WaitsIn(queue, K, V) => WaitsIn(queue', K, V)
  BY <1>1, KnownMessages, JobTypes, QueueGrows
<1> QED  BY <1>1, <1>2, MessageComes

\* What is noted for later changes nothing yet.
LEMMA NotingStep ==
    ASSUME JobHolds,
           \/ Pipeline!ReadinessChanges \/ Pipeline!DiscoveryReads
           \/ Pipeline!RealignReads \/ Pipeline!RealignChecks
    PROVE  JobHolds'
<1>1. UNCHANGED <<job, app, profile, queue, task, owed, lost>>
  BY DEF Pipeline!ReadinessChanges, Pipeline!DiscoveryReads, Pipeline!RealignReads,
         Pipeline!RealignChecks
<1>2. reading' \in Nat
  BY JobTypes DEF Pipeline!ReadinessChanges, Pipeline!DiscoveryReads, Pipeline!RealignReads,
         Pipeline!RealignChecks, JobRows
<1>3. AppHolds(app, realign)  BY DEF JobHolds
<1>4. AppHolds(app', realign')
  <2>1. CASE Pipeline!RealignReads
    <3>1. realign' = [pc |-> "generate", rev |-> app.rev, content |-> job.content,
                      profile |-> profile]
      BY <2>1 DEF Pipeline!RealignReads
    <3>2. app.rev \in Nat /\ job.content \in Nat /\ profile \in Nat
      BY JobTypes DEF JobRows, Pipeline!Profiles
    <3>3. realign' \in RealignRows /\ realign'.pc # "checked"
      BY <3>1, <3>2 DEF RealignRows
    <3> QED  BY <1>1, <1>3, <3>3 DEF AppHolds
  <2>2. CASE Pipeline!RealignChecks
    <3>1. \/ realign' = [realign EXCEPT !.pc = "checked"] /\ app.status = "draft"
          \/ realign' = Pipeline!NoRealign
      BY <2>2 DEF Pipeline!RealignChecks, Pipeline!AppLockable
    <3>2. realign' \in RealignRows /\ (realign'.pc = "checked" => app.status = "draft")
      BY <1>3, <3>1 DEF RealignRows, AppHolds, Pipeline!NoRealign
    <3> QED  BY <1>1, <1>3, <3>2 DEF AppHolds
  <2>3. CASE Pipeline!ReadinessChanges \/ Pipeline!DiscoveryReads
    <3>1. realign' = realign
      BY <2>3 DEF Pipeline!ReadinessChanges, Pipeline!DiscoveryReads
    <3> QED  BY <1>1, <1>3, <3>1
  <2> QED  BY <2>1, <2>2, <2>3
<1>5. RowsHold(job', profile', owed', reading', queue')
  BY <1>1, <1>2, JobTypes DEF RowsHold
<1> QED  BY <1>1, <1>4, <1>5 DEF JobHolds

\* The job or its application is settled, or the job starts again.
LEMMA SettlingStep ==
    ASSUME PipelineSettings, JobHolds,
           \/ Pipeline!DiscoveryWrites \/ Pipeline!RealignCommits
           \/ Pipeline!ApplicationSettled \/ Pipeline!JobExpired
    PROVE  JobHolds'
<1>1. UNCHANGED <<profile, task, owed, lost>>
  BY DEF Pipeline!DiscoveryWrites, Pipeline!RealignCommits, Pipeline!ApplicationSettled,
         Pipeline!JobExpired
<1>2. AppHolds(app, realign) /\ TasksHold(task, app.rev)  BY DEF JobHolds
<1>3. CASE Pipeline!DiscoveryWrites
  <2>1. /\ job' = [status |-> "extracted", content |-> reading, score |-> Pipeline!NoScore]
        /\ reading' = 0 /\ queue' = Pipeline!Put(queue, Pipeline!ScoreMsg)
        /\ UNCHANGED <<app, realign>>
    BY <1>3 DEF Pipeline!DiscoveryWrites
  <2>2. job' \in JobRows /\ job'.status = "extracted"
    BY <2>1, JobTypes DEF JobRows, Pipeline!Statuses, Pipeline!Scores, Pipeline!NoScore
  <2>3. queue' \in Queues  BY <2>1, KnownMessages, JobTypes, QueueGrows
  <2>4. RowsHold(job', profile', owed', reading', queue')
    BY <1>1, <2>1, <2>2, <2>3, JobTypes DEF RowsHold
  <2>5. DraftOf(job', app', queue', task', lost')
        /\ ScoreOf(job', app', profile', queue', task', owed', lost')
    BY <2>2 DEF DraftOf, ScoreOf, Waiting
  <2> QED  BY <1>1, <1>2, <2>1, <2>4, <2>5 DEF JobHolds
<1>4. CASE Pipeline!RealignCommits
  <2>1. /\ realign.pc = "checked" /\ UNCHANGED <<queue, reading>>
        /\ app' = [app EXCEPT !.rev = @ + 1, !.content = realign.content,
                              !.profile = realign.profile]
        /\ job' = [job EXCEPT !.status = "draft"] /\ realign' = Pipeline!NoRealign
    BY <1>4 DEF Pipeline!RealignCommits
  <2>2. /\ app' \in AppRows /\ app'.rev = app.rev + 1 /\ app'.status = app.status
        /\ realign' \in RealignRows /\ realign'.pc = "none"
    <3>1. realign.content \in Nat /\ realign.profile \in Nat
      BY <1>2 DEF AppHolds, RealignRows
    <3>2. app' \in AppRows /\ app'.rev = app.rev + 1 /\ app'.status = app.status
      <4>1. PICK c \in Nat, p \in Nat, n \in Nat :
              c = realign.content /\ p = realign.profile /\ n = app.rev + 1
        BY <3>1, JobTypes
      <4>2. app' = [app EXCEPT !.rev = n, !.content = c, !.profile = p]  BY <2>1, <4>1
      <4>3. app \in AppRows  BY JobTypes
      <4>4. app' \in AppRows /\ app'.rev = n /\ app'.status = app.status
        BY <4>2, <4>3 DEF AppRows
      <4> QED  BY <4>1, <4>4
    <3>3. realign' \in RealignRows /\ realign'.pc = "none"
      BY <2>1 DEF RealignRows, Pipeline!NoRealign
    <3> QED  BY <3>2, <3>3
  <2>3. app'.rev # 0 /\ AppHolds(app', realign')  BY <2>2, JobTypes DEF AppHolds
  <2>4. TasksHold(task', app'.rev)  BY <1>1, <1>2, <2>2, JobTypes, OlderTasks
  <2>5. RowsHold(job', profile', owed', reading', queue')
    BY <1>1, <2>1, JobTypes DEF RowsHold, JobRows, Pipeline!Statuses
  <2>6. DraftOf(job', app', queue', task', lost')
        /\ ScoreOf(job', app', profile', queue', task', owed', lost')
    BY <2>3 DEF DraftOf, ScoreOf, Waiting
  <2> QED  BY <2>3, <2>4, <2>5, <2>6 DEF JobHolds
<1>5. CASE Pipeline!ApplicationSettled
  <2>1. PICK st \in {"submitted", "skipped"} :
          /\ app' = [app EXCEPT !.status = st] /\ job' = [job EXCEPT !.status = st]
          /\ Pipeline!Exists /\ realign.pc # "checked" /\ UNCHANGED <<queue, realign, reading>>
    BY <1>5 DEF Pipeline!ApplicationSettled, Pipeline!Unlocked
  <2>2. app' \in AppRows /\ app'.rev = app.rev /\ app.rev # 0
    BY <2>1, JobTypes DEF AppRows
  <2>3. AppHolds(app', realign')  BY <1>2, <2>1, <2>2 DEF AppHolds
  <2>4. RowsHold(job', profile', owed', reading', queue')
    BY <1>1, <2>1, JobTypes DEF RowsHold, JobRows, Pipeline!Statuses
  <2>5. DraftOf(job', app', queue', task', lost')
        /\ ScoreOf(job', app', profile', queue', task', owed', lost')
    BY <2>2 DEF DraftOf, ScoreOf, Waiting
  <2> QED  BY <1>1, <1>2, <2>2, <2>3, <2>4, <2>5 DEF JobHolds
<1>6. CASE Pipeline!JobExpired
  <2>1. job' = [job EXCEPT !.status = "retired"] /\ UNCHANGED <<app, queue, realign, reading>>
    BY <1>6 DEF Pipeline!JobExpired
  <2>2. job' \in JobRows /\ job'.status = "retired"
    BY <2>1, JobTypes DEF JobRows, Pipeline!Statuses
  <2>3. RowsHold(job', profile', owed', reading', queue')
    BY <1>1, <2>1, <2>2, JobTypes DEF RowsHold
  <2>4. DraftOf(job', app', queue', task', lost')
        /\ ScoreOf(job', app', profile', queue', task', owed', lost')
    BY <2>2 DEF DraftOf, ScoreOf, Waiting
  <2> QED  BY <1>1, <1>2, <2>1, <2>3, <2>4 DEF JobHolds
<1> QED  BY <1>3, <1>4, <1>5, <1>6

LEMMA PipelineInit ==
    ASSUME PipelineSettings, Pipeline!Init  PROVE JobHolds
<1>1. /\ job = [status |-> "extracted", content |-> 1, score |-> Pipeline!NoScore]
      /\ app = Pipeline!NoApp /\ profile = 1 /\ realign = Pipeline!NoRealign /\ reading = 0
      /\ owed = {} /\ task = [s \in Slots |-> Pipeline!Free]
      /\ queue = [m \in Pipeline!Messages |-> IF m = Pipeline!ScoreMsg THEN 1 ELSE 0]
  BY DEF Pipeline!Init
<1>2. job \in JobRows /\ job.status = "extracted"
  BY <1>1 DEF JobRows, Pipeline!Statuses, Pipeline!Scores, Pipeline!NoScore
<1>3. RowsHold(job, profile, owed, reading, queue)
  BY <1>1, <1>2 DEF RowsHold, Pipeline!Profiles, PipelineSettings, Queues
<1>4. app.rev = 0 /\ AppHolds(app, realign)
  BY <1>1 DEF AppHolds, AppRows, RealignRows, Pipeline!NoApp, Pipeline!NoRealign
<1>5. TasksHold(task, app.rev)  BY <1>1, <1>4, FreeSlot DEF TasksHold
<1>6. DraftOf(job, app, queue, task, lost) /\ ScoreOf(job, app, profile, queue, task, owed, lost)
  BY <1>2 DEF DraftOf, ScoreOf, Waiting
<1> QED  BY <1>3, <1>4, <1>5, <1>6 DEF JobHolds

LEMMA PipelineStep ==
    ASSUME PipelineSettings, JobHolds, [Pipeline!Next]_(Pipeline!pipelineVars)  PROVE JobHolds'
<1>1. CASE UNCHANGED Pipeline!pipelineVars
  BY <1>1 DEF JobHolds, Pipeline!pipelineVars
<1>2. ASSUME NEW s \in Slots,
             \/ Pipeline!ScoreReads(s) \/ Pipeline!ScoreProbes(s) \/ Pipeline!ScoreRefreshes(s)
             \/ Pipeline!ScoreBlocked(s) \/ Pipeline!ScoreCommits(s) \/ Pipeline!HandsOff(s)
             \/ Pipeline!DispatchesRescore(s)
      PROVE  JobHolds'
  BY <1>2, ScoreReadsStep, ScoreProbesStep, ScoreRefreshesStep, ScoreBlockedStep,
     ScoreCommitsStep, HandsOffStep, DispatchesRescoreStep
<1>3. ASSUME NEW s \in Slots,
             \/ Pipeline!GenReads(s) \/ Pipeline!GenBlocked(s) \/ Pipeline!GenOutdated(s)
             \/ Pipeline!GenCommits(s) \/ Pipeline!RescoreReads(s)
             \/ Pipeline!RescoreCommits(s) \/ Pipeline!TaskFails(s) \/ Pipeline!WorkerDies(s)
      PROVE  JobHolds'
  BY <1>3, GenReadsStep, GenBlockedStep, GenOutdatedStep, GenCommitsStep, RescoreReadsStep,
     RescoreCommitsStep, FailureStep
<1>4. CASE \/ Pipeline!ProfileSaved \/ Pipeline!RescoreEnqueued \/ Pipeline!Requeued
           \/ Pipeline!ReadinessChanges \/ Pipeline!DiscoveryReads \/ Pipeline!DiscoveryWrites
           \/ Pipeline!RealignReads \/ Pipeline!RealignChecks \/ Pipeline!RealignCommits
           \/ Pipeline!ApplicationSettled \/ Pipeline!JobExpired
  BY <1>4, ProfileSavedStep, RescoreEnqueuedStep, RequeuedStep, NotingStep, SettlingStep
<1> QED  BY <1>1, <1>2, <1>3, <1>4 DEF Pipeline!Next

\* A DRAFT job without an application is on its way to one unless retries were
\* spent or a dispatch failed, and no job that still waits for its application
\* keeps the score of an older profile once the dust has settled: with any
\* number of task slots, profiles, revisions and failures
\* (worker/tasks.py, the scoring, generation and rescoring tasks).
THEOREM JobsMoveOn == ASSUME PipelineSettings  PROVE Pipeline!Spec => []Pipeline!JobSettles
<1>1. Pipeline!Init => Pipeline!PipelineInv  BY PipelineInit, PipelineParts
<1>2. Pipeline!PipelineInv /\ [Pipeline!Next]_(Pipeline!pipelineVars) => Pipeline!PipelineInv'
  BY PipelineStep, PipelineParts
<1>3. Pipeline!PipelineInv => Pipeline!JobSettles
  <2> SUFFICES ASSUME JobHolds PROVE Pipeline!JobSettles  BY PipelineParts
  <2>1. ASSUME Pipeline!Quiet
        PROVE  /\ \A K, V : ~WaitsIn(queue, K, V)
               /\ \A s \in Slots : \A p : /\ ~CarriesDraft(task[s], job)
                                           /\ ~ScoresAgain(task[s], job)
                                           /\ ~Rescores(task[s], p)
    <3>1. \A m \in Pipeline!Messages : queue[m] = 0  BY <2>1 DEF Pipeline!Quiet
    <3>2. \A s \in Slots : task[s].pc = "free"  BY <2>1 DEF Pipeline!Quiet
    <3> QED  BY <3>1, <3>2, Carriers DEF WaitsIn
  <2>2. Pipeline!NothingStranded
    BY <2>1, JobTypes DEF JobHolds, DraftOf, Pipeline!NothingStranded
  <2>3. Pipeline!ScoreSettles
    BY <2>1, JobTypes DEF JobHolds, ScoreOf, Waiting, Pipeline!ScoreSettles
  <2> QED  BY <2>2, <2>3 DEF Pipeline!JobSettles
<1> QED  BY <1>1, <1>2, <1>3, PTL DEF Pipeline!Spec

\* Material is stored only as the job's content and the profile are at its
\* commit, and never over a settled application (generate_application_task,
\* realign_application).
THEOREM MaterialFits ==
    ASSUME PipelineSettings
    PROVE  Pipeline!Spec => [][Pipeline!MaterialIsCurrent]_(Pipeline!pipelineVars)
<1>1. Pipeline!Init => Pipeline!PipelineInv  BY PipelineInit, PipelineParts
<1>2. Pipeline!PipelineInv /\ [Pipeline!Next]_(Pipeline!pipelineVars) => Pipeline!PipelineInv'
  BY PipelineStep, PipelineParts
<1>3. Pipeline!PipelineInv /\ [Pipeline!Next]_(Pipeline!pipelineVars)
        => [Pipeline!MaterialIsCurrent]_(Pipeline!pipelineVars)
  <2> SUFFICES ASSUME JobHolds, Pipeline!Next, app'.rev # app.rev
               PROVE  /\ app.status \notin {"submitted", "skipped"}
                      /\ realign.pc # "checked" =>
                            app'.content = job.content /\ app'.profile = profile
    BY PipelineParts DEF Pipeline!MaterialIsCurrent
  <2>1. CASE \E s \in Slots : Pipeline!GenCommits(s)
    <3>1. PICK s \in Slots : Pipeline!GenCommits(s)  BY <2>1
    <3>2. /\ Pipeline!Writable(s) /\ profile = task[s].profile
          /\ app'.content = task[s].content /\ app'.profile = task[s].profile
      BY <3>1 DEF Pipeline!GenCommits
    <3>3. task[s].content = job.content
      BY <3>2 DEF Pipeline!Writable, Pipeline!InputCurrent
    <3>4. app.status \in {"none", "draft"}
      BY <3>2, JobTypes DEF Pipeline!Writable, Pipeline!AppLockable, Pipeline!JobLockable
    <3> QED  BY <3>2, <3>3, <3>4
  <2>2. CASE Pipeline!RealignCommits
    <3>1. realign.pc = "checked"  BY <2>2 DEF Pipeline!RealignCommits
    <3> QED  BY <3>1 DEF JobHolds, AppHolds
  <2>3. CASE Pipeline!ApplicationSettled
    <3>1. app'.rev = app.rev
      BY <2>3, JobTypes DEF Pipeline!ApplicationSettled, AppRows
    <3> QED  BY <3>1
  <2>4. CASE ~(\/ \E s \in Slots : Pipeline!GenCommits(s)
               \/ Pipeline!RealignCommits \/ Pipeline!ApplicationSettled)
    <3>1. app' = app
      BY <2>4 DEF Pipeline!Next, Pipeline!ScoreReads, Pipeline!ScoreProbes,
         Pipeline!ScoreRefreshes, Pipeline!ScoreBlocked, Pipeline!ScoreCommits,
         Pipeline!HandsOff, Pipeline!DispatchesRescore, Pipeline!GenReads,
         Pipeline!GenBlocked, Pipeline!GenOutdated, Pipeline!RescoreReads,
         Pipeline!RescoreCommits, Pipeline!TaskFails, Pipeline!WorkerDies,
         Pipeline!ProfileSaved, Pipeline!RescoreEnqueued, Pipeline!Requeued,
         Pipeline!ReadinessChanges, Pipeline!DiscoveryReads, Pipeline!DiscoveryWrites,
         Pipeline!RealignReads, Pipeline!RealignChecks, Pipeline!JobExpired
    <3> QED  BY <3>1
  <2> QED  BY <2>1, <2>2, <2>3, <2>4
<1> QED  BY <1>1, <1>2, <1>3, PTL DEF Pipeline!Spec

LEMMA PipelineFocus ==
    /\ HostInit /\ focus = "pipeline" => Pipeline!Init
    /\ [HostNext]_hostVars /\ focus = "pipeline" => [Pipeline!Next]_(Pipeline!pipelineVars)
    /\ [HostNext]_hostVars /\ focus = "pipeline" /\ UNCHANGED Pipeline!pipelineVars
         => UNCHANGED hostVars
    /\ [HostNext]_hostVars => (focus = "pipeline" <=> (focus = "pipeline")')
<1>1. HostInit /\ focus = "pipeline" => Pipeline!Init  BY DEF HostInit
<1>2. [HostNext]_hostVars /\ focus = "pipeline" => [Pipeline!Next]_(Pipeline!pipelineVars)
  BY DEF HostNext, hostVars, slots, Pipeline!pipelineVars
<1>3. [HostNext]_hostVars /\ focus = "pipeline" /\ UNCHANGED Pipeline!pipelineVars
        => UNCHANGED hostVars
  BY DEF HostNext, hostVars, slots, Pipeline!pipelineVars
<1>4. [HostNext]_hostVars => (focus = "pipeline" <=> (focus = "pipeline")')
  BY DEF HostNext, hostVars
<1> QED  BY <1>1, <1>2, <1>3, <1>4

\* A job that waits is on its way to an application, unless retries were spent or a
\* dispatch failed, and carries no score of an older profile for good (JobPipeline).
THEOREM WaitingJobs == HostSpec => []JobSettles
<1>1. Pipeline!Spec => []Pipeline!JobSettles  BY HostAssumption, JobsMoveOn
<1> QED  BY <1>1, PipelineFocus, PTL DEF HostSpec, Pipeline!Spec, JobSettles

\* An application is made from the job's content and the profile current at its commit,
\* and a settled one is never rewritten (JobPipeline).
THEOREM MaterialStored == HostSpec => MaterialIsCurrent
<1>1. Pipeline!Spec => [][Pipeline!MaterialIsCurrent]_(Pipeline!pipelineVars)
  BY HostAssumption, MaterialFits
<1>2. [HostNext]_hostVars
    /\ (focus = "pipeline" =>
            [Pipeline!MaterialIsCurrent]_(Pipeline!pipelineVars))
        => [focus = "pipeline" => Pipeline!MaterialIsCurrent]_hostVars
  BY PipelineFocus
<1> QED  BY <1>1, <1>2, PipelineFocus, PTL DEF HostSpec, Pipeline!Spec, MaterialIsCurrent

----------------------------------------------------------------------------
(* The answers to one employer's form (FormPlanning).                      *)
evidence == x1
model == x2
answers == x3
work == x4
plan == x5
counts == x6
USE DEF evidence, model, answers, work, plan, counts

\* What the validator may object to in a decision of the planner.
Passes(f, d, attached) ==
    Form!DecisionObjections(f, d, attached)
        \subseteq {"value"} \cup {o \in {"sensitive"} : Form!AtOdds(f)}

\* What the four objections to a resolved answer come from.
LEMMA ResolvedPasses ==
    ASSUME NEW f, NEW d, NEW attached, Form!IsResolved(d),
           ~ Form!AttachmentObjection(f, d, attached),
           Form!Compatible(f),
           Form!SensitiveObjection(f, d) => Form!AtOdds(f)
    PROVE  Passes(f, d, attached)
  BY DEF Passes, Form!DecisionObjections, Form!IsResolved

LEMMA ResolvedIs ==
    ASSUME NEW by, NEW v, NEW ref, NEW m
    PROVE  /\ Form!IsResolved(Form!Resolved(by, v, ref, m))
           /\ Form!Resolved(by, v, ref, m).by = by
           /\ Form!Resolved(by, v, ref, m).model = m
  BY DEF Form!Resolved, Form!None, Form!IsResolved

\* The only sensitive controls the planner answers by itself.
LEMMA AutomaticSensitive ==
    ASSUME NEW f \in FieldRows, Form!Automatic(f), Form!OperatorReview(f)
    PROVE  /\ Form!Compatible(f) /\ f.type # "file" /\ Form!Scoped(f)
           /\ f.type # "consent" => f.name = "work_permit"
  BY DEF Form!Automatic, Form!Scoped, Form!CategoryOf

LEMMA OffersPass ==
    ASSUME NEW f \in FieldRows, NEW attached \in BOOLEAN, NEW i \in 1 .. 5,
           Form!Offers(f, attached)[i] # Form!None
    PROVE  LET d == Form!Offers(f, attached)[i] IN
           Form!IsResolved(d) /\ d.by # "llm" /\ Passes(f, d, attached)
<1> DEFINE d == Form!Offers(f, attached)[i]
<1> SUFFICES Form!IsResolved(d) /\ d.by # "llm" /\ Passes(f, d, attached)
  OBVIOUS
<1>1. CASE i = 1
  <2>1. /\ d = Form!Resolved("attachment", "fit", 0, 0)
        /\ Form!CvAttachment(f) /\ attached
    BY <1>1 DEF Form!Offers, Form!AttachmentOffer
  <2>2. Form!IsResolved(d) /\ d.by = "attachment"
    BY <2>1 DEF Form!Resolved, Form!None, Form!IsResolved
  <2>3. Form!Compatible(f)  BY <2>1 DEF Form!CvAttachment, Form!Compatible
  <2>4. ~ Form!AttachmentObjection(f, d, attached)
    BY <2>1, <2>2 DEF Form!AttachmentObjection
  <2>5. Form!SensitiveObjection(f, d) => Form!AtOdds(f)
    BY <2>1 DEF Form!SensitiveObjection, Form!AtOdds
  <2> QED  BY <2>2, <2>3, <2>4, <2>5, ResolvedPasses
<1>2. ASSUME NEW by \in {"identity", "confirmed", "reusable", "cv"}, NEW v, NEW ref,
             d = Form!Offer(f, by, v, ref), Form!Automatic(f),
             by = "identity" => f.name \in Form!IdentityNames,
             by = "confirmed" => Form!EvidenceName(f) # "",
             by = "cv" => ~ Form!OperatorReview(f)
      PROVE  Form!IsResolved(d) /\ d.by # "llm" /\ Passes(f, d, attached)
  <2>1. d = Form!Resolved(by, Form!Coerced(f, v), ref, 0)  BY <1>2 DEF Form!Offer
  <2>2. Form!IsResolved(d) /\ d.by = by  BY <2>1, ResolvedIs
  <2>3. Form!Compatible(f) /\ f.type # "file"  BY <1>2 DEF Form!Automatic
  <2>4. ~ Form!AttachmentObjection(f, d, attached)
    BY <2>2, <2>3 DEF Form!AttachmentObjection
  <2>5. ASSUME Form!SensitiveObjection(f, d)  PROVE Form!AtOdds(f)
    <3>1. Form!OperatorReview(f)  BY <2>5 DEF Form!SensitiveObjection
    <3>2. Form!Scoped(f) /\ (f.type # "consent" => f.name = "work_permit")
      BY <1>2, <3>1, AutomaticSensitive
    <3>3. by = "identity" \/ (by = "confirmed" /\ f.name = "")
      BY <1>2, <2>2, <2>5, <3>1, <3>2 DEF Form!SensitiveObjection
    <3>4. CASE by = "identity"
      BY <1>2, <3>2, <3>4 DEF Form!AtOdds, Form!IdentityNames
    <3>5. CASE by = "confirmed" /\ f.name = ""
      BY <1>2, <3>2, <3>5 DEF Form!AtOdds, Form!EvidenceName
    <3> QED  BY <3>3, <3>4, <3>5
  <2> QED  BY <2>2, <2>3, <2>4, <2>5, ResolvedPasses
<1>3. CASE i = 2  BY <1>2, <1>3 DEF Form!Offers, Form!IdentityOffer
<1>4. CASE i = 3  BY <1>2, <1>4 DEF Form!Offers, Form!ConfirmedOffer
<1>5. CASE i = 4  BY <1>2, <1>5 DEF Form!Offers, Form!ReusableOffer
<1>6. CASE i = 5  BY <1>2, <1>6 DEF Form!Offers, Form!CvOffer
<1> QED  BY <1>1, <1>3, <1>4, <1>5, <1>6

\* The first source that has something has something.
LEMMA LeastOfFive ==
    ASSUME NEW S, S \subseteq 1 .. 5, S # {}
    PROVE  \E x \in S : \A y \in S : x =< y
<1>1. CASE 1 \in S  BY <1>1
<1>2. CASE 1 \notin S /\ 2 \in S  BY <1>2
<1>3. CASE 1 \notin S /\ 2 \notin S /\ 3 \in S  BY <1>3
<1>4. CASE 1 \notin S /\ 2 \notin S /\ 3 \notin S /\ 4 \in S  BY <1>4
<1>5. CASE 1 \notin S /\ 2 \notin S /\ 3 \notin S /\ 4 \notin S
  <2>1. PICK x \in S : TRUE  BY Zenon
  <2>2. \A y \in S : y = 5  BY <1>5
  <2> QED  BY <2>1, <2>2
<1> QED  BY <1>1, <1>2, <1>3, <1>4, <1>5

LEMMA DeterministicPasses ==
    ASSUME NEW f \in FieldRows, NEW attached \in BOOLEAN,
           Form!Deterministic(f, attached) # Form!None
    PROVE  LET d == Form!Deterministic(f, attached) IN
           Form!IsResolved(d) /\ d.by # "llm" /\ Passes(f, d, attached)
<1> DEFINE found == {i \in 1 .. 5 : Form!Offers(f, attached)[i] # Form!None}
<1>1. /\ found # {}
      /\ Form!Deterministic(f, attached) = Form!Offers(f, attached)[Form!Min(found)]
  BY DEF Form!Deterministic
<1>2. \E x \in found : \A y \in found : x =< y  BY <1>1, LeastOfFive
<1>3. Form!Min(found) \in found  BY <1>2 DEF Form!Min
<1> HIDE DEF found
<1>4. /\ Form!Min(found) \in 1 .. 5
      /\ Form!Offers(f, attached)[Form!Min(found)] # Form!None
  BY <1>3 DEF found
<1> QED  BY <1>1, <1>4, OffersPass

\* What the model says passes where it is asked, with the artifact that served it; and
\* what nobody answers is nothing to object to.
LEMMA LlmPasses ==
    ASSUME NEW f \in FieldRows, NEW attached, NEW d \in Form!LlmOutcomes(f),
           Form!Automatic(f), ~ Form!OperatorReview(f), Form!IsResolved(d)
    PROVE  d.by = "llm" /\ Passes(f, d, attached)
<1>1. \A r : ~ Form!IsResolved([Form!None EXCEPT !.reason = r])
  BY DEF Form!IsResolved, Form!None
<1>2. PICK v : d = Form!Resolved("llm", v, 0, model)
  BY <1>1 DEF Form!LlmOutcomes
<1>3. d.by = "llm"  BY <1>2, ResolvedIs
<1>4. Form!Compatible(f) /\ f.type # "file"  BY DEF Form!Automatic
<1>5. ~ Form!AttachmentObjection(f, d, attached)  BY <1>3, <1>4 DEF Form!AttachmentObjection
<1>6. ~ Form!SensitiveObjection(f, d)  BY DEF Form!SensitiveObjection
<1> QED  BY <1>3, <1>4, <1>5, <1>6, ResolvedPasses

LEMMA AbstainedPasses ==
    ASSUME NEW f, NEW reason, NEW attached
    PROVE  LET d == Form!Abstained(f, reason) IN
           ~ Form!IsResolved(d) /\ d.by # "llm" /\ Passes(f, d, attached)
<1> DEFINE d == Form!Abstained(f, reason)
<1>1. d.disp \in {"operator", "abstained"} /\ d.by = "none"
  BY DEF Form!Abstained, Form!None
<1> HIDE DEF d
<1>2. ~ Form!IsResolved(d) /\ d.disp # "blank"  BY <1>1 DEF Form!IsResolved
<1>3. Form!DecisionObjections(f, d, attached) = {}  BY <1>2 DEF Form!DecisionObjections
<1>4. ~ Form!IsResolved(d) /\ d.by # "llm" /\ Passes(f, d, attached)
  BY <1>1, <1>2, <1>3 DEF Passes
<1> QED  BY <1>4 DEF d

\* Decisions may carry any value, so no set of them is fixed in advance.
Listed(s) == \E S : s \in Seq(S)

LEMMA OneMore ==
    ASSUME NEW s, Listed(s), NEW d
    PROVE  /\ Listed(Append(s, d)) /\ Len(Append(s, d)) = Len(s) + 1 /\ Len(s) \in Nat
           /\ DOMAIN s = 1 .. Len(s)
           /\ \A i \in 1 .. Len(s) : Append(s, d)[i] = s[i]
           /\ Append(s, d)[Len(s) + 1] = d
<1>1. PICK S : s \in Seq(S)  BY DEF Listed
<1>2. s \in Seq(S \cup {d}) /\ d \in S \cup {d}  BY <1>1
<1>3. Append(s, d) \in Seq(S \cup {d})  BY <1>2
<1> QED  BY <1>2, <1>3 DEF Listed

LEMMA OneOther ==
    ASSUME NEW s, Listed(s), NEW i \in DOMAIN s, NEW d
    PROVE  /\ Listed([s EXCEPT ![i] = d]) /\ Len([s EXCEPT ![i] = d]) = Len(s)
           /\ DOMAIN s = 1 .. Len(s)
           /\ [s EXCEPT ![i] = d][i] = d
           /\ \A j \in DOMAIN s \ {i} : [s EXCEPT ![i] = d][j] = s[j]
<1>1. PICK S : s \in Seq(S)  BY DEF Listed
<1>2. s \in Seq(S \cup {d}) /\ d \in S \cup {d}  BY <1>1
<1>3. [s EXCEPT ![i] = d] \in Seq(S \cup {d})  BY <1>2
<1> QED  BY <1>2, <1>3 DEF Listed

\* A plan, as far as it has come.
PlanShape(p) ==
    /\ p = [form |-> p.form, decisions |-> p.decisions, blockers |-> p.blockers,
            audit |-> p.audit, attached |-> p.attached, partial |-> p.partial]
    /\ p.form \in Seq(FieldRows) /\ Listed(p.decisions)
    /\ p.attached \in BOOLEAN /\ p.partial \in BOOLEAN

\* A decision the planner took.
Planned(p, i) ==
    /\ Passes(p.form[i], p.decisions[i], p.attached)
    /\ p.decisions[i].by = "llm" => p.decisions[i].model = p.audit /\ p.audit # 0
    /\ p.form[i].required /\ ~ Form!IsResolved(p.decisions[i])
           => "REQUIRED_FIELD_UNKNOWN" \in p.blockers

\* A plan of the planner: an audit names the artifact of some answer.
PlannedSoFar(p) ==
    /\ PlanShape(p) /\ Len(p.decisions) <= Len(p.form)
    /\ \A i \in 1 .. Len(p.decisions) : Planned(p, i)
    /\ p.audit # 0 => \E i \in 1 .. Len(p.decisions) : p.decisions[i].by = "llm"

\* A plan of a whole form.
WholePlan(p) ==
    /\ PlanShape(p) /\ Len(p.decisions) = Len(p.form)
    /\ p.partial => "FORM_PLAN_INCOMPLETE" \in p.blockers
    /\ \A i \in 1 .. Len(p.decisions) :
          p.decisions[i].by = "llm" => p.decisions[i].model = p.audit

FormHolds ==
    /\ work = [pc |-> work.pc, plan |-> work.plan, stale |-> work.stale]
    /\ work.pc \in {"idle", "plan", "built", "store"}
    /\ work.pc = "idle" => work.plan = Form!NoPlan
    /\ work.pc \in {"plan", "built"} => PlannedSoFar(work.plan)
    /\ work.pc \in {"built", "store"} => WholePlan(work.plan)
    /\ work.pc = "store" => Form!Objections(work.plan) = {}
    /\ plan = Form!NoPlan \/ (WholePlan(plan) /\ Form!Objections(plan) = {})

LEMMA FormStart == ASSUME FormSettings, Form!Init  PROVE FormHolds
  BY DEF Form!Init, FormHolds, Form!Idle

\* What an empty plan of a form is.
LEMMA EmptyPlan ==
    ASSUME NEW form \in Seq(FieldRows), NEW attached \in BOOLEAN, NEW p,
           p = [form |-> form, decisions |-> <<>>, blockers |-> {}, audit |-> 0,
                attached |-> attached, partial |-> FALSE]
    PROVE  PlannedSoFar(p)
<1>1. << >> \in Seq({}) /\ Len(<< >>) = 0 /\ Len(form) \in Nat  OBVIOUS
<1>2. Listed(<< >>)  BY <1>1 DEF Listed
<1>3. PlanShape(p)  BY <1>2 DEF PlanShape
<1>4. Len(p.decisions) = 0 /\ Len(p.decisions) <= Len(p.form) /\ p.audit = 0
  BY <1>1
<1> QED  BY <1>3, <1>4 DEF PlannedSoFar

LEMMA InspectFormStep == ASSUME FormSettings, FormHolds, Form!InspectForm  PROVE FormHolds'
<1>1. PICK form \in Forms, attached \in BOOLEAN :
        work' = [pc |-> "plan", stale |-> FALSE,
                 plan |-> [Form!NoPlan EXCEPT !.form = form, !.attached = attached]]
  BY DEF Form!InspectForm
<1>2. plan' = plan  BY DEF Form!InspectForm
<1>3. work'.plan = [form |-> form, decisions |-> <<>>, blockers |-> {}, audit |-> 0,
                    attached |-> attached, partial |-> FALSE]
  BY <1>1 DEF Form!NoPlan
<1>5. PlannedSoFar(work'.plan)  BY <1>3, EmptyPlan DEF FormSettings
<1>4. /\ work' = [pc |-> work'.pc, plan |-> work'.plan, stale |-> work'.stale]
      /\ work'.pc = "plan"
  BY <1>1
<1> QED  BY <1>2, <1>4, <1>5 DEF FormHolds

\* A round of the planner adds one decision that passes.
LEMMA OneRound ==
    ASSUME NEW p, PlannedSoFar(p), NEW f, NEW d, NEW extra, NEW audit, NEW q,
           Len(p.decisions) < Len(p.form), f = p.form[Len(p.decisions) + 1],
           Passes(f, d, p.attached),
           \/ d.by # "llm" /\ audit = p.audit
           \/ /\ d.by = "llm" /\ d.model = audit /\ audit # 0
              /\ p.audit = 0 \/ p.audit = audit,
           q = [p EXCEPT !.decisions = Append(p.decisions, d),
                         !.blockers = (p.blockers \cup extra) \cup Form!Blocks(f, d),
                         !.audit = audit]
    PROVE  PlannedSoFar(q)
<1> DEFINE n == Len(p.decisions)
<1>1. PlanShape(p) /\ n <= Len(p.form) /\ n \in Nat /\ Len(p.form) \in Nat
  BY OneMore DEF PlannedSoFar, PlanShape
<1>2. /\ q = [form |-> p.form, decisions |-> Append(p.decisions, d),
              blockers |-> (p.blockers \cup extra) \cup Form!Blocks(f, d),
              audit |-> audit, attached |-> p.attached, partial |-> p.partial]
  BY <1>1 DEF PlanShape
<1>3. /\ Listed(q.decisions) /\ Len(q.decisions) = n + 1
      /\ \A i \in 1 .. n : q.decisions[i] = p.decisions[i]
      /\ q.decisions[n + 1] = d
  BY <1>1, <1>2, OneMore DEF PlanShape
<1>4. PlanShape(q)  BY <1>1, <1>2, <1>3 DEF PlanShape
<1>5. Len(q.decisions) <= Len(q.form)  BY <1>1, <1>2, <1>3
<1>6. ASSUME NEW i \in 1 .. n  PROVE Planned(q, i)
  <2>1. Planned(p, i)  BY DEF PlannedSoFar
  <2>2. /\ q.decisions[i] = p.decisions[i] /\ q.form = p.form /\ q.attached = p.attached
        /\ p.blockers \subseteq q.blockers /\ q.audit = audit
    BY <1>2, <1>3
  <2>3. p.audit # 0 => audit = p.audit  OBVIOUS
  <2> QED  BY <2>1, <2>2, <2>3 DEF Planned
<1>7. Planned(q, n + 1)
  <2>1. /\ q.decisions[n + 1] = d /\ q.form[n + 1] = f /\ q.attached = p.attached
        /\ q.audit = audit /\ Form!Blocks(f, d) \subseteq q.blockers
    BY <1>2, <1>3
  <2>2. f.required /\ ~ Form!IsResolved(d) => "REQUIRED_FIELD_UNKNOWN" \in q.blockers
    BY <2>1 DEF Form!Blocks
  <2> QED  BY <2>1, <2>2 DEF Planned
<1>8. q.audit # 0 => \E i \in 1 .. Len(q.decisions) : q.decisions[i].by = "llm"
  <2>1. CASE d.by = "llm"  BY <1>1, <1>3, <2>1
  <2>2. CASE d.by # "llm" /\ audit # 0
    <3>1. PICK i \in 1 .. n : p.decisions[i].by = "llm"  BY <2>2 DEF PlannedSoFar
    <3> QED  BY <1>1, <1>3, <3>1
  <2> QED  BY <1>2, <2>1, <2>2
<1>9. \A i \in 1 .. Len(q.decisions) : Planned(q, i)  BY <1>1, <1>3, <1>6, <1>7
<1> QED  BY <1>4, <1>5, <1>8, <1>9 DEF PlannedSoFar

LEMMA PlanFieldStep == ASSUME FormSettings, FormHolds, Form!PlanField  PROVE FormHolds'
<1> DEFINE p == work.plan
           f == p.form[Len(p.decisions) + 1]
           first == Form!Deterministic(f, p.attached)
<1>1. /\ work.pc = "plan" /\ Len(p.decisions) < Len(p.form) /\ plan' = plan
      /\ PlannedSoFar(p) /\ PlanShape(p)
      /\ work = [pc |-> work.pc, plan |-> work.plan, stale |-> work.stale]
  BY DEF Form!PlanField, FormHolds, PlannedSoFar
<1>2. f \in FieldRows /\ p.attached \in BOOLEAN
  <2>1. p.form \in Seq(FieldRows) /\ Len(p.decisions) \in Nat  BY <1>1, OneMore DEF PlanShape
  <2>2. Len(p.decisions) + 1 \in 1 .. Len(p.form)  BY <1>1, <2>1
  <2> QED  BY <1>1, <2>1, <2>2 DEF PlanShape
<1>3. ASSUME NEW d, NEW extra, NEW audit, Passes(f, d, p.attached),
             \/ d.by # "llm" /\ audit = p.audit
             \/ /\ d.by = "llm" /\ d.model = audit /\ audit # 0
                /\ p.audit = 0 \/ p.audit = audit,
             work' = [work EXCEPT !.plan.decisions = Append(@, d),
                                  !.plan.blockers = (@ \cup extra) \cup Form!Blocks(f, d),
                                  !.plan.audit = audit]
      PROVE  FormHolds'
  <2> DEFINE q == [p EXCEPT !.decisions = Append(p.decisions, d),
                            !.blockers = (p.blockers \cup extra) \cup Form!Blocks(f, d),
                            !.audit = audit]
  <2>1. work' = [work EXCEPT !.plan = q]
    BY <1>1, <1>3 DEF PlanShape
  <2>2. PlannedSoFar(q)  BY <1>1, <1>3, OneRound
  <2>3. /\ work' = [pc |-> work'.pc, plan |-> work'.plan, stale |-> work'.stale]
        /\ work'.pc = "plan" /\ work'.plan = q
    BY <1>1, <2>1
  <2> QED  BY <1>1, <2>2, <2>3 DEF FormHolds
<1>4. CASE first # Form!None
  <2>1. first.by # "llm" /\ Passes(f, first, p.attached)  BY <1>2, <1>4, DeterministicPasses
  <2> QED  BY <1>3, <1>4, <2>1 DEF Form!PlanField
<1>5. ASSUME NEW reason, NEW extra,
             work' = [work EXCEPT
                 !.plan.decisions = Append(@, Form!Abstained(f, reason)),
                 !.plan.blockers = (@ \cup extra) \cup Form!Blocks(f, Form!Abstained(f, reason)),
                 !.plan.audit = p.audit]
      PROVE  FormHolds'
  BY <1>3, <1>5, AbstainedPasses
<1>6. ASSUME NEW d \in Form!LlmOutcomes(f), Form!IsResolved(d), Form!SameArtifact(p, d),
             Form!Automatic(f), ~ Form!OperatorReview(f),
             work' = [work EXCEPT !.plan.decisions = Append(@, d),
                                  !.plan.blockers = (@ \cup {}) \cup Form!Blocks(f, d),
                                  !.plan.audit = d.model]
      PROVE  FormHolds'
  <2>1. d.by = "llm" /\ Passes(f, d, p.attached)  BY <1>2, <1>6, LlmPasses
  <2>2. d.model # 0 /\ (p.audit = 0 \/ p.audit = d.model)  BY <1>6 DEF Form!SameArtifact
  <2> QED  BY <1>3, <1>6, <2>1, <2>2
<1> QED  BY <1>4, <1>5, <1>6 DEF Form!PlanField

LEMMA FinishPlanStep == ASSUME FormSettings, FormHolds, Form!FinishPlan  PROVE FormHolds'
<1> DEFINE p == work.plan
<1>1. PICK partial \in BOOLEAN :
        work' = [work EXCEPT
            !.pc = "built", !.plan.partial = partial,
            !.plan.blockers = @ \cup (IF p.attached THEN {} ELSE {"ATTACHMENT_UNVERIFIED"})
                                \cup (IF partial THEN {"FORM_PLAN_INCOMPLETE"} ELSE {})]
  BY DEF Form!FinishPlan
<1>2. /\ Len(p.decisions) = Len(p.form) /\ plan' = plan
      /\ PlannedSoFar(p) /\ PlanShape(p)
      /\ work = [pc |-> work.pc, plan |-> work.plan, stale |-> work.stale]
  BY DEF Form!FinishPlan, FormHolds, PlannedSoFar
<1> DEFINE extra == (IF p.attached THEN {} ELSE {"ATTACHMENT_UNVERIFIED"})
                        \cup (IF partial THEN {"FORM_PLAN_INCOMPLETE"} ELSE {})
           q == [form |-> p.form, decisions |-> p.decisions,
                 blockers |-> p.blockers \cup extra, audit |-> p.audit,
                 attached |-> p.attached, partial |-> partial]
<1>3. /\ work' = [pc |-> work'.pc, plan |-> work'.plan, stale |-> work'.stale]
      /\ work'.pc = "built" /\ work'.plan = q
  BY <1>1, <1>2 DEF PlanShape
<1>4. PlanShape(q)  BY <1>2 DEF PlanShape
<1>5. ASSUME NEW i \in 1 .. Len(q.decisions)  PROVE Planned(q, i)
  <2>1. Planned(p, i)  BY <1>2 DEF PlannedSoFar
  <2> QED  BY <2>1 DEF Planned
<1>6. PlannedSoFar(q)  BY <1>2, <1>4, <1>5 DEF PlannedSoFar
<1>7. WholePlan(q)
  BY <1>2, <1>4, <1>5 DEF WholePlan, Planned
<1> QED  BY <1>2, <1>3, <1>6, <1>7 DEF FormHolds

LEMMA ValidatePlanStep == ASSUME FormHolds, Form!ValidatePlan  PROVE FormHolds'
<1>1. plan' = plan /\ work.pc = "built"  BY DEF Form!ValidatePlan
<1>2. CASE Form!Objections(work.plan) = {}
  <2>1. /\ work' = [pc |-> work'.pc, plan |-> work'.plan, stale |-> work'.stale]
        /\ work'.pc = "store" /\ work'.plan = work.plan
    BY <1>2 DEF Form!ValidatePlan, FormHolds
  <2> QED  BY <1>1, <1>2, <2>1 DEF FormHolds
<1>3. CASE Form!Objections(work.plan) # {}
  <2>1. work' = Form!Idle  BY <1>3 DEF Form!ValidatePlan
  <2> QED  BY <1>1, <2>1 DEF FormHolds, Form!Idle
<1> QED  BY <1>2, <1>3

LEMMA StorePlanStep == ASSUME FormHolds, Form!StorePlan  PROVE FormHolds'
<1>1. work' = Form!Idle /\ work.pc = "store" /\ plan' \in {work.plan, plan}
  BY DEF Form!StorePlan
<1>2. WholePlan(work.plan) /\ Form!Objections(work.plan) = {}
  BY <1>1 DEF FormHolds
<1> QED  BY <1>1, <1>2 DEF FormHolds, Form!Idle

LEMMA Redecided ==
    ASSUME NEW p, PlanShape(p), NEW ds
    PROVE  [p EXCEPT !.decisions = ds]
             = [form |-> p.form, decisions |-> ds, blockers |-> p.blockers,
                audit |-> p.audit, attached |-> p.attached, partial |-> p.partial]
<1>1. PICK a, b, c, e, g, h :
        p = [form |-> a, decisions |-> b, blockers |-> c, audit |-> e, attached |-> g,
             partial |-> h]
  BY DEF PlanShape
<1> QED  BY <1>1

\* A confirmed answer goes where the decision was.
LEMMA ReplacedIs ==
    ASSUME NEW p, WholePlan(p), NEW i \in DOMAIN p.form, NEW d, d.by # "llm"
    PROVE  WholePlan(Form!Replaced(p, i, d))
<1> DEFINE q == [p EXCEPT !.decisions[i] = d]
           ds == [p.decisions EXCEPT ![i] = d]
<1>1. PlanShape(p) /\ Len(p.decisions) = Len(p.form) /\ i \in DOMAIN p.decisions
  BY OneMore DEF WholePlan, PlanShape
<1>2. q = [form |-> p.form, decisions |-> ds, blockers |-> p.blockers, audit |-> p.audit,
           attached |-> p.attached, partial |-> p.partial]
  <2>1. "decisions" \in DOMAIN p  BY <1>1 DEF PlanShape
  <2>2. q = [p EXCEPT !.decisions = ds]  BY <2>1
  <2> HIDE DEF q, ds
  <2> QED  BY <1>1, <2>2, Redecided
<1> DEFINE r == [form |-> p.form, decisions |-> ds, blockers |-> Form!Recomputed(q),
                 audit |-> p.audit, attached |-> p.attached, partial |-> p.partial]
<1>3. Form!Replaced(p, i, d) = r
  <2>1. Form!Replaced(p, i, d) = [q EXCEPT !.blockers = Form!Recomputed(q)]
    BY DEF Form!Replaced
  <2> HIDE DEF q
  <2> QED  BY <1>2, <2>1
<1>4. /\ Listed(ds) /\ Len(ds) = Len(p.decisions) /\ ds[i] = d
      /\ DOMAIN p.decisions = 1 .. Len(p.decisions)
      /\ \A j \in DOMAIN p.decisions \ {i} : ds[j] = p.decisions[j]
  BY <1>1, OneOther DEF PlanShape
<1>5. PlanShape(r)  BY <1>1, <1>4 DEF PlanShape
<1>6. p.partial => "FORM_PLAN_INCOMPLETE" \in Form!Recomputed(q)
  BY <1>2 DEF WholePlan, Form!Recomputed, Form!FieldLevel
<1>7. \A j \in 1 .. Len(ds) : ds[j].by = "llm" => ds[j].model = p.audit
  BY <1>4 DEF WholePlan
<1>8. WholePlan(r)  BY <1>1, <1>4, <1>5, <1>6, <1>7 DEF WholePlan
<1> QED  BY <1>3, <1>8

LEMMA ConfirmAnswerStep == ASSUME FormHolds, Form!ConfirmAnswer  PROVE FormHolds'
<1>1. PICK i, d :
        /\ i \in DOMAIN plan.form /\ d.by # "llm" /\ plan' = Form!Replaced(plan, i, d)
        /\ Form!Objections(Form!Replaced(plan, i, d)) = {}
  <2>1. PICK i \in DOMAIN plan.form, v \in {"fit", "loose", "odd"},
             how \in {"once", "reusable", "blank"} :
          LET d == CASE how = "blank" -> [Form!None EXCEPT !.disp = "blank", !.by = "operator"]
                     [] how = "once" -> Form!Resolved("confirmed", v, -1, 0)
                     [] how = "reusable" -> Form!Resolved("reusable", v, Len(answers) + 1, 0)
          IN /\ Form!Objections(Form!Replaced(plan, i, d)) = {}
             /\ plan' = Form!Replaced(plan, i, d)
    BY ZenonT(60) DEF Form!ConfirmAnswer
  <2>2. [Form!None EXCEPT !.disp = "blank", !.by = "operator"].by = "operator"
    BY DEF Form!None
  <2>3. /\ Form!Resolved("confirmed", v, -1, 0).by = "confirmed"
        /\ Form!Resolved("reusable", v, Len(answers) + 1, 0).by = "reusable"
    BY ResolvedIs
  <2>4. CASE how = "blank"  BY <2>1, <2>2, <2>4
  <2>5. CASE how = "once"  BY <2>1, <2>3, <2>5
  <2>6. CASE how = "reusable"  BY <2>1, <2>3, <2>6
  <2> QED  BY <2>4, <2>5, <2>6
<1>2. plan # Form!NoPlan /\ work' = [work EXCEPT !.stale = work.pc # "idle"]
  BY DEF Form!ConfirmAnswer
<1>3. WholePlan(plan)  BY <1>2 DEF FormHolds
<1>4. WholePlan(plan') /\ Form!Objections(plan') = {}  BY <1>1, <1>3, ReplacedIs
<1>5. /\ work' = [pc |-> work'.pc, plan |-> work'.plan, stale |-> work'.stale]
      /\ work'.pc = work.pc /\ work'.plan = work.plan
  BY <1>2 DEF FormHolds
<1> QED  BY <1>4, <1>5 DEF FormHolds

LEMMA FormStep ==
    ASSUME FormSettings, FormHolds, [Form!Next]_(Form!formVars)  PROVE FormHolds'
<1>1. CASE UNCHANGED <<work, plan>>  BY <1>1 DEF FormHolds
<1>2. CASE Form!ConfirmElsewhere \/ Form!ModelSwaps \/ UNCHANGED Form!formVars
  BY <1>1, <1>2 DEF Form!ConfirmElsewhere, Form!ModelSwaps, Form!formVars
<1> QED
  BY <1>2, InspectFormStep, PlanFieldStep, FinishPlanStep, ValidatePlanStep, StorePlanStep,
     ConfirmAnswerStep DEF Form!Next

LEMMA NothingObjected ==
    ASSUME NEW p, WholePlan(p), Form!Objections(p) = {}, NEW i \in DOMAIN p.form,
           Form!OperatorReview(p.form[i]), Form!IsResolved(p.decisions[i])
    PROVE  p.decisions[i].by \in {"confirmed", "reusable"}
<1> DEFINE f == p.form[i]
           d == p.decisions[i]
<1>1. Form!DecisionObjections(f, d, p.attached) = {}  BY DEF Form!Objections
<1>2. d.disp = "resolved"  BY DEF Form!IsResolved
<1>3. ~ Form!SensitiveObjection(f, d)
  BY <1>1, <1>2 DEF Form!DecisionObjections, Form!IsResolved
<1> QED  BY <1>3 DEF Form!SensitiveObjection

LEMMA ReadyIsReviewed == ASSUME FormHolds  PROVE Form!ReadyMeansReviewed
<1> SUFFICES ASSUME Form!Ready(plan)  PROVE Form!ReadyMeansReviewed
  BY DEF Form!ReadyMeansReviewed
<1>1. plan # Form!NoPlan /\ plan.blockers = {}  BY DEF Form!Ready
<1>2. WholePlan(plan) /\ Form!Objections(plan) = {}  BY <1>1 DEF FormHolds
<1>3. ~ plan.partial  BY <1>1, <1>2 DEF WholePlan
<1>4. Form!Unanswered(plan) = {}  BY <1>1, <1>2 DEF Form!Objections
<1> QED  BY <1>2, <1>3, <1>4, NothingObjected DEF Form!ReadyMeansReviewed

LEMMA PlansAreOfOneModel == ASSUME FormHolds  PROVE Form!OneModelPerPlan
<1> SUFFICES ASSUME NEW p \in {work.plan, plan}, NEW i \in DOMAIN p.decisions,
                    p.decisions[i].by = "llm"
             PROVE  p.decisions[i].model = p.audit
  BY DEF Form!OneModelPerPlan
<1>1. CASE p = Form!NoPlan  BY <1>1 DEF Form!NoPlan
<1>2. CASE WholePlan(p)
  <2>1. DOMAIN p.decisions = 1 .. Len(p.decisions)
    BY <1>2, OneMore DEF WholePlan, PlanShape
  <2> QED  BY <1>2, <2>1 DEF WholePlan
<1>3. CASE PlannedSoFar(p)
  <2>1. DOMAIN p.decisions = 1 .. Len(p.decisions)
    BY <1>3, OneMore DEF PlannedSoFar, PlanShape
  <2>2. Planned(p, i)  BY <1>3, <2>1 DEF PlannedSoFar
  <2> QED  BY <2>2 DEF Planned
<1> QED  BY <1>1, <1>2, <1>3 DEF FormHolds

LEMMA PlannerAccepted == ASSUME FormHolds  PROVE Form!PlannerIsAccepted
<1> SUFFICES ASSUME work.pc = "built"  PROVE Form!PlannerIsAccepted
  BY DEF Form!PlannerIsAccepted
<1> DEFINE p == work.plan
           odd == {o \in {"sensitive"} : \E i \in DOMAIN p.form : Form!AtOdds(p.form[i])}
<1>1. PlannedSoFar(p) /\ WholePlan(p)  BY DEF FormHolds
<1>2. /\ Len(p.decisions) = Len(p.form) /\ Len(p.form) \in Nat
      /\ DOMAIN p.form = 1 .. Len(p.form) /\ DOMAIN p.decisions = 1 .. Len(p.decisions)
  BY <1>1, OneMore DEF WholePlan, PlanShape
<1>3. ASSUME NEW i \in DOMAIN p.form
      PROVE  Form!DecisionObjections(p.form[i], p.decisions[i], p.attached)
                 \subseteq {"value"} \cup odd
  BY <1>1, <1>2 DEF PlannedSoFar, Planned, Passes
<1>4. Form!UsesModel(p) <=> p.audit # 0
  BY <1>1, <1>2 DEF PlannedSoFar, Planned, Form!UsesModel
<1>5. Form!UsesModel(p) = (p.audit # 0)
  <2>1. Form!UsesModel(p) \in BOOLEAN  BY DEF Form!UsesModel
  <2> QED  BY <1>4, <2>1
<1>6. Form!Unanswered(p) = {} \/ "REQUIRED_FIELD_UNKNOWN" \in p.blockers
  BY <1>1, <1>2 DEF PlannedSoFar, Planned, Form!Unanswered
<1>7. Form!Objections(p) \subseteq {"value", "model"} \cup odd
  BY <1>3, <1>5, <1>6 DEF Form!Objections
<1> QED  BY <1>7 DEF Form!PlannerIsAccepted

LEMMA ReuseIsCurrent ==
    ASSUME FormHolds, [Form!Next]_(Form!formVars)  PROVE Form!StoredReuseIsCurrent
<1> SUFFICES ASSUME work.pc = "store", work'.pc = "idle", plan' # plan
             PROVE  Form!StoredReuseIsCurrent
  BY DEF Form!StoredReuseIsCurrent
<1>1. Form!StorePlan
  <2>1. ASSUME Form!ConfirmAnswer  PROVE FALSE
    BY <2>1 DEF Form!ConfirmAnswer, FormHolds
  <2> QED
    BY <2>1 DEF Form!Next, Form!InspectForm, Form!PlanField, Form!FinishPlan,
                Form!ValidatePlan, Form!ConfirmElsewhere, Form!ModelSwaps, Form!formVars
<1>2. \A i \in DOMAIN plan'.decisions : Form!StillApproved(plan'.decisions[i])
  BY <1>1 DEF Form!StorePlan
<1> QED  BY <1>2 DEF Form!StillApproved, Form!StoredReuseIsCurrent

FormSpec == Form!Init /\ [][Form!Next]_(Form!formVars)

\* A plan ready for a permit was reviewed, its answers of a model are of the one the
\* audit names, the validator takes what the planner made wherever the page agrees with
\* itself, and a reused answer is still approved when the plan is stored
\* (core/form_planning.py plan_fields, core/submission_domain.py validate_plan,
\* core/form_plan_persistence.py persist_inspected_form_plan).
THEOREM PlansAreReviewed ==
    ASSUME FormSettings
    PROVE  FormSpec => /\ [](/\ Form!ReadyMeansReviewed /\ Form!OneModelPerPlan
                             /\ Form!PlannerIsAccepted)
                       /\ [][Form!StoredReuseIsCurrent]_(Form!formVars)
<1>1. Form!Init => FormHolds  BY FormStart
<1>2. FormHolds /\ [Form!Next]_(Form!formVars) => FormHolds'  BY FormStep
<1>3. FormHolds => /\ Form!ReadyMeansReviewed /\ Form!OneModelPerPlan
                   /\ Form!PlannerIsAccepted
  BY ReadyIsReviewed, PlansAreOfOneModel, PlannerAccepted
<1>4. FormHolds /\ [Form!Next]_(Form!formVars)
        => [Form!StoredReuseIsCurrent]_(Form!formVars)
  BY ReuseIsCurrent
<1> QED  BY <1>1, <1>2, <1>3, <1>4, PTL DEF FormSpec

LEMMA FormFocus ==
    /\ HostInit /\ focus = "form" => Form!Init
    /\ [HostNext]_hostVars /\ focus = "form" => [Form!Next]_(Form!formVars)
    /\ [HostNext]_hostVars /\ focus = "form" /\ UNCHANGED Form!formVars
         => UNCHANGED hostVars
    /\ [HostNext]_hostVars => (focus = "form" <=> (focus = "form")')
<1>1. HostInit /\ focus = "form" => Form!Init  BY DEF HostInit
<1>2. [HostNext]_hostVars /\ focus = "form" => [Form!Next]_(Form!formVars)
  BY DEF HostNext, hostVars, slots, Form!formVars
<1>3. [HostNext]_hostVars /\ focus = "form" /\ UNCHANGED Form!formVars
        => UNCHANGED hostVars
  BY DEF HostNext, hostVars, slots, Form!formVars
<1>4. [HostNext]_hostVars => (focus = "form" <=> (focus = "form")')
  BY DEF HostNext, hostVars
<1> QED  BY <1>1, <1>2, <1>3, <1>4

\* Whatever is inspected, superseded and confirmed in whatever order, a plan that is
\* ready was reviewed and what it reuses is still approved (FormPlanning).
THEOREM PlansReviewed == HostSpec => PlanIsReviewed
<1> DEFINE Good == /\ Form!ReadyMeansReviewed /\ Form!OneModelPerPlan
                   /\ Form!PlannerIsAccepted
<1>1. FormSpec => []Good /\ [][Form!StoredReuseIsCurrent]_(Form!formVars)
  BY HostAssumption, PlansAreReviewed
<1> DEFINE Reviewed == focus = "form" =>
                /\ (Form!ReadyMeansReviewed)' /\ (Form!OneModelPerPlan)'
                /\ (Form!PlannerIsAccepted)' /\ Form!StoredReuseIsCurrent
<1>2. [HostNext]_hostVars
        /\ (focus = "form" => [Form!StoredReuseIsCurrent]_(Form!formVars) /\ Good')
        => [Reviewed]_hostVars
  BY FormFocus
<1>3. PlanIsReviewed <=> [][Reviewed]_hostVars  BY PTL DEF PlanIsReviewed
<1> HIDE DEF Good, Reviewed
<1> QED  BY <1>1, <1>2, <1>3, FormFocus, PTL DEF HostSpec, FormSpec

----------------------------------------------------------------------------
(* The alert mailbox (AlertMailbox).                                       *)
arrived == x1
mark == x2
scan == x3
parsed == x4
token == x5
mailFaults == x6
USE DEF arrived, mark, scan, parsed, token, mailFaults

Cursor == [last : Nat, max : Nat, token : Nat]
Scan == [pc : {"rest", "list", "read", "commit", "save"}, cur : Cursor,
         page : SUBSET Nat, failed : SUBSET Nat, left : Int]

\* The instance counts as everybody counts.
LEMMA MailboxCounts == \A S : Mailbox!Cardinality(S) = Cardinality(S)
  BY DEF Mailbox!Cardinality, Cardinality

\* The newest messages of an interval are the last PageLen of it.
LEMMA NewestOfInterval ==
    ASSUME MailboxSettings, NEW lo \in Nat, NEW top \in Nat
    PROVE  Mailbox!NewestOf(lo .. top) = {m \in lo .. top : top - m < PageLen}
<1>1. ASSUME NEW m \in lo .. top
      PROVE  Cardinality({n \in lo .. top : n > m}) = top - m
  <2>1. {n \in lo .. top : n > m} = (m + 1) .. top  OBVIOUS
  <2>2. m + 1 \in Int /\ top \in Int  OBVIOUS
  <2>3. Cardinality((m + 1) .. top) = IF m + 1 > top THEN 0 ELSE top - (m + 1) + 1
    BY <2>2, FS_Interval
  <2>4. Cardinality((m + 1) .. top) = top - m  BY <2>3
  <2> QED  BY <2>1, <2>4, Zenon
<1> DEFINE size(m) == Cardinality({n \in lo .. top : n > m})
<1>2. \A m \in lo .. top : size(m) = top - m  BY <1>1
<1>3. Mailbox!NewestOf(lo .. top) = {m \in lo .. top : size(m) < PageLen}
  BY MailboxCounts DEF Mailbox!NewestOf
<1> HIDE DEF size
<1> QED  BY <1>2, <1>3

\* What a true cursor lists is an interval, down from its token or from whatever has
\* arrived.
LEMMA ListingIsInterval ==
    ASSUME NEW cur, arrived \in Nat, Mailbox!CursorTrue(cur)
    PROVE  LET top == IF cur.token = 0 THEN arrived ELSE cur.token - 1
           IN  /\ Mailbox!Listing(cur) = Mailbox!Low(cur) .. top
               /\ Mailbox!Low(cur) \in Nat /\ top \in 0 .. arrived
               /\ cur.token = 0 => cur.max <= top
<1> DEFINE top == IF cur.token = 0 THEN arrived ELSE cur.token - 1
<1>1. cur.last \in Nat /\ cur.max \in Nat /\ cur.token \in Nat /\ cur.max <= arrived
  BY DEF Mailbox!CursorTrue
<1>2. Mailbox!Low(cur) \in Nat /\ Mailbox!Low(cur) >= 1  BY <1>1 DEF Mailbox!Low
<1>3. top \in 0 .. arrived /\ (cur.token = 0 => cur.max <= top)
  BY <1>1, <1>2 DEF Mailbox!CursorTrue, Mailbox!NoToken
<1>4. ASSUME NEW m  PROVE m \in Mailbox!Listing(cur) <=> m \in Mailbox!Low(cur) .. top
  <2>1. m \in Mailbox!Listing(cur)
        <=> /\ m \in 1 .. arrived /\ m >= cur.last
            /\ cur.token = 0 \/ m < cur.token
    BY DEF Mailbox!Listing, Mailbox!NoToken
  <2>2. CASE cur.token = 0  BY <1>1, <2>1, <2>2 DEF Mailbox!Low
  <2>3. CASE cur.token # 0
    <3>1. cur.token <= arrived  BY <1>1, <2>3 DEF Mailbox!CursorTrue, Mailbox!NoToken
    <3> QED  BY <1>1, <2>1, <2>3, <3>1 DEF Mailbox!Low
  <2> QED  BY <2>2, <2>3
<1> QED  BY <1>2, <1>3, <1>4

\* The page of an interval that is not empty: its ends, and what it leaves below.
LEMMA PageEnds ==
    ASSUME MailboxSettings, NEW lo \in Nat, NEW top \in Nat, lo <= top,
           NEW page, page = {m \in lo .. top : top - m < PageLen}
    PROVE  /\ top \in page /\ \A m \in page : m <= top /\ lo <= m /\ m \in Nat
           /\ \E bottom \in page : /\ \A m \in page : bottom <= m
                                   /\ page = bottom .. top
                                   /\ bottom = lo \/ lo < bottom
<1>1. top \in page /\ \A m \in page : m <= top /\ lo <= m /\ m \in Nat
  BY DEF MailboxSettings
<1> DEFINE bottom == IF top - PageLen + 1 > lo THEN top - PageLen + 1 ELSE lo
<1>2. bottom \in page /\ \A m \in page : bottom <= m  BY DEF MailboxSettings
<1>3. page = bottom .. top
  BY DEF MailboxSettings
<1> QED  BY <1>1, <1>2, <1>3

LEMMA MaxOfPage ==
    ASSUME NEW page \in SUBSET Nat, NEW floor \in Nat, NEW top \in page,
           \A m \in page : m <= top
    PROVE  Mailbox!MaxOf(page, floor) = IF top > floor THEN top ELSE floor
<1>1. (CHOOSE x \in page : \A y \in page : y <= x) = top
  <2>1. \A x \in page : (\A y \in page : y <= x) => x = top  OBVIOUS
  <2> QED  BY <2>1
<1> QED  BY <1>1 DEF Mailbox!MaxOf

\* The claims of a cursor, given how much arrived and what was committed.
CursorFits(cur, n, done) ==
    /\ cur \in Cursor /\ cur.last <= cur.max /\ cur.max <= n
    /\ \A m \in 1 .. cur.last : m \in done
    /\ cur.token = 0 => cur.max = cur.last
    /\ cur.token # 0 => /\ Mailbox!Low(cur) < cur.token /\ cur.token <= cur.max
                        /\ \A m \in cur.token .. cur.max : m \in done
PageFits(cur, page, n) ==
    \E top \in 0 .. n :
        /\ IF cur.token = 0 THEN cur.max <= top ELSE top = cur.token - 1
        /\ page = {m \in Mailbox!Low(cur) .. top : top - m < PageLen}
MailboxHolds(n, at, scanning, done) ==
    /\ n \in Nat /\ done \subseteq Nat /\ scanning \in Scan
    /\ CursorFits(at, n, done) /\ CursorFits(scanning.cur, n, done)
    /\ scanning.failed = {}
    /\ scanning.pc \in {"read", "commit", "save"} => PageFits(scanning.cur, scanning.page, n)
    /\ scanning.pc = "save" => \A m \in scanning.page : m > scanning.cur.last => m \in done

LEMMA MailboxParts ==
    /\ Mailbox!MailboxInv <=> MailboxHolds(arrived, mark, scan, parsed)
    /\ Mailbox!MailboxInv' <=> MailboxHolds(arrived', mark', scan', parsed')
<1> USE DEF Mailbox!MailboxInv, MailboxHolds, Mailbox!CursorTrue, CursorFits, Mailbox!PageAt,
            PageFits, Mailbox!NoToken, Scan, Cursor, Mailbox!Low
<1>1. Mailbox!MailboxInv <=> MailboxHolds(arrived, mark, scan, parsed)  OBVIOUS
<1>2. Mailbox!MailboxInv' <=> MailboxHolds(arrived', mark', scan', parsed')  OBVIOUS
<1> QED  BY <1>1, <1>2

\* More arrivals and more commits leave a cursor and a page as true as they were.
LEMMA CursorLasts ==
    ASSUME NEW cur, NEW n \in Nat, NEW k \in Nat, n <= k, NEW done, NEW more,
           done \subseteq more, CursorFits(cur, n, done)
    PROVE  CursorFits(cur, k, more)
  BY DEF CursorFits, Cursor

LEMMA PageLasts ==
    ASSUME NEW cur, NEW page, NEW n \in Nat, NEW k \in Nat, n <= k, PageFits(cur, page, n)
    PROVE  PageFits(cur, page, k)
  BY DEF PageFits

\* What Gmail has below a page, and the token it gives for it.
OlderThan(n, cur, page) == {m \in 1 .. n : m >= cur.last /\ \A x \in page : m < x}
TokenAfter(n, cur, page) ==
    IF OlderThan(n, cur, page) = {} \/ page = {} THEN 0
    ELSE CHOOSE x \in page : \A y \in page : x <= y

\* The cursor after a page whose messages were committed claims what was committed.
LEMMA NextCursor ==
    ASSUME MailboxSettings, NEW n \in Nat, NEW done \in SUBSET Nat, NEW cur, NEW page,
           CursorFits(cur, n, done), PageFits(cur, page, n),
           \A m \in page : m > cur.last => m \in done
    PROVE  CursorFits(Mailbox!Advanced(cur, page, TokenAfter(n, cur, page)), n, done)
<1> DEFINE older == OlderThan(n, cur, page)
           more == TokenAfter(n, cur, page)
           lo == Mailbox!Low(cur)
           max == Mailbox!MaxOf(page, cur.max)
           next == Mailbox!Advanced(cur, page, more)
<1>1. PICK top \in 0 .. n : /\ IF cur.token = 0 THEN cur.max <= top ELSE top = cur.token - 1
                            /\ page = {m \in lo .. top : top - m < PageLen}
  BY DEF PageFits
<1>2. /\ cur.last \in Nat /\ cur.max \in Nat /\ cur.token \in Nat
      /\ cur.last <= cur.max /\ cur.max <= n
      /\ lo \in Nat /\ 1 <= lo /\ cur.last <= lo
      /\ \A m \in Nat : 1 <= m /\ cur.last <= m => lo <= m
  BY DEF CursorFits, Cursor, Mailbox!Low
<1>3. /\ next.last = IF more = 0 THEN max ELSE cur.last
      /\ next.max = max /\ next.token = more
      /\ next = [last |-> IF more = 0 THEN max ELSE cur.last, max |-> max, token |-> more]
  BY DEF Mailbox!Advanced, Mailbox!NoToken
<1>6. \A c \in Nat, x \in Nat, t \in Nat :
         next = [last |-> c, max |-> x, token |-> t] => next \in Cursor
  BY DEF Cursor
<1>7. page = {} => max = cur.max  BY DEF Mailbox!MaxOf
<1>8. \A t \in page : page \in SUBSET Nat /\ cur.max \in Nat /\ (\A m \in page : m <= t)
         => max = IF t > cur.max THEN t ELSE cur.max
  BY MaxOfPage
<1>9. /\ Mailbox!Low(next) = IF next.last = 0 THEN 1 ELSE next.last
      /\ lo = IF cur.last = 0 THEN 1 ELSE cur.last
  BY DEF Mailbox!Low
<1>10. \A t \in Nat : lo \in Nat /\ lo <= t /\ page = {m \in lo .. t : t - m < PageLen} =>
         /\ t \in page /\ \A m \in page : m <= t /\ lo <= m /\ m \in Nat
         /\ \E bottom \in page : /\ \A m \in page : bottom <= m
                                 /\ page = bottom .. t
                                 /\ bottom = lo \/ lo < bottom
  BY PageEnds
<1>11. CursorFits(next, n, done) <=>
         /\ next \in Cursor /\ next.last <= next.max /\ next.max <= n
         /\ \A m \in 1 .. next.last : m \in done
         /\ next.token = 0 => next.max = next.last
         /\ next.token # 0 => /\ Mailbox!Low(next) < next.token /\ next.token <= next.max
                              /\ \A m \in next.token .. next.max : m \in done
  BY DEF CursorFits
<1>12. /\ \A m \in 1 .. cur.last : m \in done
       /\ cur.token = 0 => cur.max = cur.last
       /\ cur.token # 0 => /\ lo < cur.token /\ cur.token <= cur.max
                           /\ \A m \in cur.token .. cur.max : m \in done
  BY DEF CursorFits
<1> SUFFICES CursorFits(next, n, done)  OBVIOUS
<1>13. /\ older = {m \in 1 .. n : m >= cur.last /\ \A x \in page : m < x}
       /\ more = IF older = {} \/ page = {} THEN 0
                 ELSE CHOOSE x \in page : \A y \in page : x <= y
  BY DEF OlderThan, TokenAfter
<1> HIDE DEF lo, max, next, older, more
<1>4. CASE page = {}
  <2>1. max = cur.max /\ more = 0  BY <1>4, <1>7, <1>13
  <2>2. ~ (lo <= top)  BY <1>1, <1>2, <1>4, <1>10
  <2>3. cur.token = 0  BY <1>1, <1>2, <1>12, <2>2
  <2>4. cur.max = cur.last  BY <1>12, <2>3
  <2>5. next.last = cur.last /\ next.max = cur.last /\ next.token = 0 /\ next \in Cursor
    BY <1>2, <1>3, <1>6, <2>1, <2>4
  <2> QED  BY <1>2, <1>11, <1>12, <2>4, <2>5
<1>5. CASE page # {}
  <2>1. lo <= top /\ top \in Nat  BY <1>1, <1>2, <1>5
  <2>2. /\ top \in page /\ \A m \in page : m <= top /\ lo <= m /\ m \in Nat
        /\ \E bottom \in page : /\ \A m \in page : bottom <= m
                                /\ page = bottom .. top
                                /\ bottom = lo \/ lo < bottom
    BY <1>1, <1>2, <2>1, <1>10
  <2>3. PICK bottom : /\ bottom \in page /\ \A m \in page : bottom <= m
                      /\ page = bottom .. top
                      /\ bottom = lo \/ lo < bottom
    BY <2>2
  <2>4. /\ page \in SUBSET Nat /\ bottom \in Nat /\ bottom <= top /\ bottom \in page
        /\ \A m \in page : bottom <= m /\ m \in Nat
        /\ bottom = lo \/ lo < bottom
    BY <2>2, <2>3
  <2>10. \A m \in Nat : bottom <= m /\ m <= top => m \in page
    <3>1. page = bottom .. top  BY <2>3
    <3> QED  BY <2>1, <2>4, <3>1
  <2>5. max = IF top > cur.max THEN top ELSE cur.max  BY <1>2, <1>8, <2>2, <2>4
  <2>6. /\ max \in Nat /\ max <= n /\ top <= max /\ cur.max <= max
        /\ cur.token = 0 => max = top
    <3>1. top <= n /\ (cur.token = 0 => cur.max <= top)  BY <1>1
    <3> QED  BY <1>2, <2>1, <2>5, <3>1
  <2>7. \A m \in Nat : bottom <= m /\ m <= max /\ cur.last < m => m \in done
    <3>1. SUFFICES ASSUME NEW m \in Nat, bottom <= m, m <= max, cur.last < m
                   PROVE  m \in done
      OBVIOUS
    <3>2. CASE m <= top
      <4>1. m \in page  BY <2>10, <3>1, <3>2
      <4> QED  BY <3>1, <4>1
    <3>3. CASE top < m
      <4>1. cur.token # 0 /\ top = cur.token - 1 /\ max = cur.max
        BY <1>1, <1>2, <2>1, <2>5, <2>6, <3>1, <3>3
      <4>2. m \in cur.token .. cur.max  BY <1>2, <2>1, <3>1, <3>3, <4>1
      <4> QED  BY <1>12, <4>1, <4>2
    <3> QED  BY <2>1, <3>2, <3>3
  <2>8. CASE older = {}
    <3>1. more = 0  BY <1>13, <2>8
    <3>2. bottom = lo
      <4>1. SUFFICES ASSUME lo < bottom  PROVE FALSE
        BY <2>3
      <4>2. lo \in 1 .. n
        <5>1. top <= n  BY <1>1
        <5> QED  BY <1>2, <2>1, <5>1
      <4>3. \A x \in page : lo < x  BY <1>2, <2>4, <4>1
      <4> QED  BY <1>2, <1>13, <2>8, <4>2, <4>3
    <3>3. next.last = max /\ next.max = max /\ next.token = 0 /\ next \in Cursor
      BY <1>3, <1>6, <2>6, <3>1
    <3>4. ASSUME NEW m \in 1 .. max  PROVE m \in done
      <4>1. CASE m <= cur.last  BY <3>4, <4>1, <1>2, <1>12, <2>6
      <4>2. CASE cur.last < m
        <5>1. bottom <= m  BY <1>2, <3>2, <3>4, <4>2, <2>6
        <5> QED  BY <2>6, <2>7, <3>4, <4>2, <5>1
      <4> QED  BY <1>2, <2>6, <4>1, <4>2
    <3> QED  BY <1>11, <2>6, <3>3, <3>4
  <2>9. CASE older # {}
    <3>1. more = bottom
      <4>1. more = CHOOSE x \in page : \A y \in page : x <= y  BY <1>5, <1>13, <2>9, Zenon
      <4>2. ASSUME NEW x \in page, \A y \in page : x <= y  PROVE x = bottom
        <5>1. x <= bottom  BY <2>4, <4>2
        <5> QED  BY <2>4, <5>1
      <4>3. \A y \in page : bottom <= y  BY <2>4
      <4> QED  BY <2>4, <4>1, <4>2, <4>3
    <3>2. lo < bottom
      <4>1. PICK m \in 1 .. n : m >= cur.last /\ \A x \in page : m < x  BY <1>13, <2>9
      <4>2. m < bottom  BY <2>4, <4>1
      <4>3. lo <= m
        <5>1. m \in Nat /\ 1 <= m /\ cur.last <= m  BY <1>2, <4>1
        <5> QED  BY <1>2, <5>1
      <4> QED  BY <1>2, <2>4, <4>1, <4>2, <4>3
    <3>3. /\ next.last = cur.last /\ next.max = max /\ next.token = bottom /\ bottom # 0
          /\ next \in Cursor /\ Mailbox!Low(next) = lo
      <4>1. bottom # 0  BY <1>2, <2>4, <3>2
      <4>2. next.last = cur.last /\ next.max = max /\ next.token = bottom
        BY <1>3, <3>1, <4>1
      <4>3. next = [last |-> cur.last, max |-> max, token |-> bottom]
        BY <1>3, <3>1, <4>1
      <4>4. next \in Cursor  BY <1>2, <1>6, <2>4, <2>6, <4>3
      <4> QED  BY <1>9, <4>1, <4>2, <4>4
    <3>4. \A m \in bottom .. max : m \in done
      BY <1>2, <2>4, <2>6, <2>7, <3>2
    <3>5. bottom <= max  BY <2>1, <2>4, <2>6
    <3> QED  BY <1>2, <1>11, <1>12, <2>6, <3>2, <3>3, <3>4, <3>5
  <2> QED  BY <2>8, <2>9
<1> QED  BY <1>4, <1>5

\* Whatever a step does to the run, the run's cursor is the one it had or the stored
\* one, unless it saves a page.
LEMMA MailboxStep ==
    ASSUME MailboxSettings, Mailbox!MailboxInv, Mailbox!Next  PROVE Mailbox!MailboxInv'
<1> SUFFICES MailboxHolds(arrived', mark', scan', parsed')  BY MailboxParts
<1>0. /\ arrived \in Nat /\ parsed \subseteq Nat /\ scan \in Scan
      /\ CursorFits(mark, arrived, parsed) /\ CursorFits(scan.cur, arrived, parsed)
      /\ scan.failed = {}
      /\ scan.pc \in {"read", "commit", "save"} => PageFits(scan.cur, scan.page, arrived)
      /\ scan.pc = "save" => \A m \in scan.page : m > scan.cur.last => m \in parsed
  BY MailboxParts DEF MailboxHolds
<1>1. /\ Mailbox!Fresh \in Cursor /\ Mailbox!Resting \in Scan /\ Mailbox!Resting.pc = "rest"
      /\ Mailbox!Resting.failed = {}
      /\ CursorFits(Mailbox!Resting.cur, arrived, parsed)
  BY <1>0 DEF Mailbox!Fresh, Mailbox!Resting, Cursor, Scan, CursorFits, Mailbox!NoToken
<1>2. CASE scan' = Mailbox!Resting /\ UNCHANGED <<arrived, mark, parsed>>
  BY <1>0, <1>1, <1>2 DEF MailboxHolds
<1>3. CASE UNCHANGED <<arrived, mark, scan, parsed>>
  BY <1>0, <1>3 DEF MailboxHolds
<1>4. CASE Mailbox!MessageArrives
  <2>1. arrived' = arrived + 1 /\ UNCHANGED <<mark, scan, parsed>>
    BY <1>4 DEF Mailbox!MessageArrives
  <2>2. arrived' \in Nat /\ arrived <= arrived'  BY <1>0, <2>1
  <2>3. CursorFits(mark, arrived', parsed) /\ CursorFits(scan.cur, arrived', parsed)
    BY <1>0, <2>2, CursorLasts
  <2>4. PageFits(scan.cur, scan.page, arrived) => PageFits(scan.cur, scan.page, arrived')
    BY <1>0, <2>2, PageLasts
  <2> QED  BY <1>0, <2>1, <2>2, <2>3, <2>4 DEF MailboxHolds
<1>5. CASE Mailbox!StartScan
  <2>1. scan' = [Mailbox!Resting EXCEPT !.pc = "list", !.cur = mark, !.left = PageBudget]
        /\ UNCHANGED <<arrived, mark, parsed>>
    BY <1>5 DEF Mailbox!StartScan
  <2>2. mark \in Cursor  BY <1>0 DEF CursorFits
  <2>3. scan' \in Scan /\ scan'.pc = "list" /\ scan'.cur = mark /\ scan'.failed = {}
    BY <1>1, <2>1, <2>2 DEF Scan, MailboxSettings
  <2> QED  BY <1>0, <2>1, <2>3 DEF MailboxHolds
<1>6. CASE Mailbox!ListPage
  <2>1. CASE scan' = [scan EXCEPT !.pc = "read", !.page = Mailbox!NewestOf(Mailbox!Listing(scan.cur))]
    <3> DEFINE lo == Mailbox!Low(scan.cur)
               top == IF scan.cur.token = 0 THEN arrived ELSE scan.cur.token - 1
    <3>1. Mailbox!CursorTrue(scan.cur)  BY DEF Mailbox!MailboxInv
    <3>2. /\ Mailbox!Listing(scan.cur) = lo .. top /\ lo \in Nat /\ top \in 0 .. arrived
          /\ scan.cur.token = 0 => scan.cur.max <= top
      BY <1>0, <3>1, ListingIsInterval
    <3>3. scan'.page = {m \in lo .. top : top - m < PageLen}
      <4>1. scan'.page = Mailbox!NewestOf(lo .. top)  BY <1>0, <2>1, <3>2 DEF Scan
      <4>2. top \in Nat  BY <1>0, <3>2
      <4> QED  BY <3>2, <4>1, <4>2, NewestOfInterval
    <3>4. PageFits(scan.cur, scan'.page, arrived)
      <4>1. IF scan.cur.token = 0 THEN scan.cur.max <= top ELSE top = scan.cur.token - 1
        BY <3>2
      <4> QED  BY <3>2, <3>3, <4>1 DEF PageFits
    <3>5. scan'.page \in SUBSET Nat
      <4> HIDE DEF lo, top
      <4> QED  BY <1>0, <3>2, <3>3
    <3>6. /\ scan'.pc = "read" /\ scan'.cur = scan.cur /\ scan'.failed = scan.failed
          /\ scan'.left = scan.left
          /\ scan' = [scan EXCEPT !.pc = "read", !.page = scan'.page]
      BY <1>0, <2>1 DEF Scan
    <3>7. scan' \in Scan  BY <1>0, <3>5, <3>6 DEF Scan
    <3> QED  BY <1>0, <1>6, <3>4, <3>6, <3>7 DEF MailboxHolds, Mailbox!ListPage
  <2> QED  BY <1>2, <1>6, <2>1 DEF Mailbox!ListPage
<1>7. CASE Mailbox!ReadMessages
  <2>1. PICK failing \in SUBSET scan.page :
           scan' = IF Mailbox!PageGivenUp(failing) THEN Mailbox!Resting
                   ELSE [scan EXCEPT !.pc = "commit", !.failed = failing]
    BY <1>7 DEF Mailbox!ReadMessages
  <2>2. scan.pc = "read" /\ UNCHANGED <<arrived, mark, parsed>>
    BY <1>7 DEF Mailbox!ReadMessages
  <2>3. CASE failing = {}
    <3>1. /\ scan' \in Scan /\ scan'.pc = "commit" /\ scan'.failed = {}
          /\ scan'.cur = scan.cur /\ scan'.page = scan.page
      BY <1>0, <2>1, <2>3 DEF Mailbox!PageGivenUp, Scan
    <3> QED  BY <1>0, <2>2, <3>1 DEF MailboxHolds
  <2> QED  BY <1>2, <2>1, <2>2, <2>3 DEF Mailbox!PageGivenUp
<1>8. CASE Mailbox!CommitPostings
  <2>1. /\ scan.pc = "commit" /\ UNCHANGED <<arrived, mark>>
        /\ parsed' = parsed \cup {m \in scan.page \ scan.failed : m > scan.cur.last}
        /\ scan' = [scan EXCEPT !.pc = "save"]
    BY <1>8 DEF Mailbox!CommitPostings
  <2>2. /\ scan' \in Scan /\ scan'.pc = "save" /\ scan'.failed = {}
        /\ scan'.cur = scan.cur /\ scan'.page = scan.page /\ scan.page \in SUBSET Nat
    BY <1>0, <2>1 DEF Scan
  <2>3. /\ parsed \subseteq parsed' /\ parsed' \subseteq Nat
        /\ \A m \in scan.page : m > scan.cur.last => m \in parsed'
    BY <1>0, <2>1, <2>2
  <2>4. CursorFits(mark, arrived, parsed') /\ CursorFits(scan.cur, arrived, parsed')
    <3>1. arrived <= arrived  BY <1>0
    <3>2. parsed \subseteq parsed'  BY <2>3
    <3>3. \A cur : CursorFits(cur, arrived, parsed) => CursorFits(cur, arrived, parsed')
      BY <1>0, <3>1, <3>2, CursorLasts
    <3> QED  BY <1>0, <3>3
  <2> QED  BY <1>0, <2>1, <2>2, <2>3, <2>4 DEF MailboxHolds
<1>9. CASE Mailbox!SaveMark
  <2>1. scan.pc = "save" /\ scan.failed = {} /\ UNCHANGED <<arrived, parsed>>
    BY <1>0, <1>9 DEF Mailbox!SaveMark
  <2> DEFINE more == TokenAfter(arrived, scan.cur, scan.page)
             next == Mailbox!Advanced(scan.cur, scan.page \ scan.failed, more)
  <2>2. /\ mark' = next
        /\ scan' = IF scan.left > 1 /\ next.token # 0
                   THEN [scan EXCEPT !.pc = "list", !.cur = next, !.left = @ - 1,
                                     !.page = {}, !.failed = {}]
                   ELSE Mailbox!Resting
    BY <1>9 DEF Mailbox!SaveMark, Mailbox!NoToken, TokenAfter, OlderThan
  <2>3. scan.page \ scan.failed = scan.page  BY <2>1
  <2>4. CursorFits(next, arrived, parsed)
    <3>1. PageFits(scan.cur, scan.page, arrived)
          /\ \A m \in scan.page : m > scan.cur.last => m \in parsed
      BY <1>0, <2>1
    <3>2. parsed \in SUBSET Nat  BY <1>0
    <3>3. CursorFits(Mailbox!Advanced(scan.cur, scan.page, more), arrived, parsed)
      BY <1>0, <3>1, <3>2, NextCursor
    <3> QED  BY <2>3, <3>3
  <2> HIDE DEF more, next
  <2>5. CASE scan' = Mailbox!Resting
    BY <1>0, <1>1, <2>1, <2>2, <2>4, <2>5 DEF MailboxHolds
  <2>6. CASE scan' = [scan EXCEPT !.pc = "list", !.cur = next, !.left = @ - 1,
                                  !.page = {}, !.failed = {}]
    <3>1. next \in Cursor  BY <2>4 DEF CursorFits
    <3>2. scan' \in Scan /\ scan'.pc = "list" /\ scan'.cur = next /\ scan'.failed = {}
      <4>1. {} \in SUBSET Nat /\ scan.left - 1 \in Int  BY <1>0 DEF Scan
      <4>2. scan \in Scan  BY <1>0
      <4> QED  BY <2>6, <3>1, <4>1, <4>2 DEF Scan
    <3> QED  BY <1>0, <2>1, <2>2, <2>4, <3>2 DEF MailboxHolds
  <2> QED  BY <2>2, <2>5, <2>6
<1> QED  BY <1>2, <1>3, <1>4, <1>5, <1>6, <1>7, <1>8, <1>9
            DEF Mailbox!Next, Mailbox!TokenRevoked, Mailbox!ScanCrashes

\* No alert is lost, whatever the length of a page and the budget of a run: every
\* message at or before the stored cursor's date had its postings committed, although
\* messages arrive between two pages, requests fail in the middle of one and runs
\* crash between the commit of the postings and of the cursor.
THEOREM PagesInOrder ==
    ASSUME MailboxSettings  PROVE Mailbox!Spec => []Mailbox!NoAlertSkipped
<1>1. Mailbox!Init => Mailbox!MailboxInv
  <2> SUFFICES ASSUME Mailbox!Init  PROVE MailboxHolds(arrived, mark, scan, parsed)
    BY MailboxParts
  <2>1. arrived \in Nat /\ parsed = {} /\ mark = Mailbox!Fresh /\ scan = Mailbox!Resting
    BY DEF Mailbox!Init, MailboxSettings
  <2>2. CursorFits(Mailbox!Fresh, arrived, parsed) /\ Mailbox!Resting \in Scan
    BY <2>1 DEF CursorFits, Cursor, Scan, Mailbox!Fresh, Mailbox!Resting, Mailbox!NoToken
  <2> QED  BY <2>1, <2>2 DEF MailboxHolds, Mailbox!Resting
<1>2. Mailbox!MailboxInv /\ [Mailbox!Next]_Mailbox!mailVars => Mailbox!MailboxInv'
  <2> SUFFICES ASSUME Mailbox!MailboxInv, UNCHANGED Mailbox!mailVars
               PROVE  Mailbox!MailboxInv'
    BY MailboxStep
  <2> QED  BY MailboxParts DEF Mailbox!mailVars
<1>3. Mailbox!MailboxInv => Mailbox!NoAlertSkipped
  BY DEF Mailbox!MailboxInv, Mailbox!CursorTrue, Mailbox!NoAlertSkipped
<1> QED  BY <1>1, <1>2, <1>3, PTL DEF Mailbox!Spec

LEMMA MailboxFocus ==
    /\ HostInit /\ focus = "mailbox" => Mailbox!Init
    /\ [HostNext]_hostVars /\ focus = "mailbox" => [Mailbox!Next]_(Mailbox!mailVars)
    /\ [HostNext]_hostVars /\ focus = "mailbox" /\ UNCHANGED Mailbox!mailVars
         => UNCHANGED hostVars
    /\ [HostNext]_hostVars => (focus = "mailbox" <=> (focus = "mailbox")')
<1>1. HostInit /\ focus = "mailbox" => Mailbox!Init  BY DEF HostInit
<1>2. [HostNext]_hostVars /\ focus = "mailbox" => [Mailbox!Next]_(Mailbox!mailVars)
  BY DEF HostNext, hostVars, slots, Mailbox!mailVars
<1>3. [HostNext]_hostVars /\ focus = "mailbox" /\ UNCHANGED Mailbox!mailVars
        => UNCHANGED hostVars
  BY DEF HostNext, hostVars, slots, Mailbox!mailVars
<1>4. [HostNext]_hostVars => (focus = "mailbox" <=> (focus = "mailbox")')
  BY DEF HostNext, hostVars
<1> QED  BY <1>1, <1>2, <1>3, <1>4

\* The cursor passes no message whose postings are not committed (AlertMailbox).
THEOREM AlertsAreRead == HostSpec => []NoAlertSkipped
<1>1. Mailbox!Spec => []Mailbox!NoAlertSkipped  BY HostAssumption, PagesInOrder
<1> QED  BY <1>1, MailboxFocus, PTL DEF HostSpec, Mailbox!Spec, NoAlertSkipped

=============================================================================
