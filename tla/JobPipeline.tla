----------------------------- MODULE JobPipeline -----------------------------
(***************************************************************************)
(* The life of one canonical job before it is sent: scoring, the handoff   *)
(* to generation, the generated application, the rescoring a new profile   *)
(* asks for, and what discovery, the operator and the expiry of stale jobs *)
(* do to the job meanwhile.                                                *)
(*                                                                         *)
(* A task is a message of the broker.  It reads the database, lets go of   *)
(* every lock while it scores or generates, and writes after rechecking;   *)
(* each read, write and dispatch is a step of its own.  task_acks_late is  *)
(* set: the message of a worker that dies is delivered again.              *)
(***************************************************************************)
EXTENDS Integers, FiniteSets

CONSTANTS
    Slots,          \* concurrent task executions
    MaxProfiles,    \* bound on profile versions
    MaxChanges,     \* bound on revisions of the posting's content and changes of the
                    \*   preparation readiness
    MaxRetries,     \* Celery max_retries of a failing task
    MaxRealigns,    \* bound on the operator's realign requests
    MaxFaults       \* bound on worker deaths and failed calls

VARIABLES
    job,            \* [status, content, score]
    app,            \* [rev, content, profile, status], rev 0 when absent
    profile,        \* latest UserProfileVersion
    ready,          \* preparation stage of the automation readiness
    queue,          \* messages waiting: function from messages to how many
    task,           \* what each slot executes
    realign,        \* the operator's realign request under way
    reading,        \* content discovery is about to write, 0 when none
    owed,           \* profile versions whose rescore is not dispatched yet
    lost,           \* what failed dispatches and spent retries lost
    spent           \* [realigns, changes, faults]: what the bounds count

pipelineVars == <<job, app, profile, ready, queue, task, realign,
                  reading, owed, lost, spent>>

NoScore == [content |-> 0, profile |-> 0]
NoApp   == [rev |-> 0, content |-> 0, profile |-> 0, status |-> "none"]
Exists  == app.rev > 0

Profiles == 1 .. MaxProfiles
Messages == [kind : {"score"}, v : {0}, tries : 0 .. MaxRetries]
            \cup [kind : {"gen", "rescore"}, v : Profiles, tries : 0 .. MaxRetries]

ScoreMsg      == [kind |-> "score", v |-> 0, tries |-> MaxRetries]
GenMsg(v)     == [kind |-> "gen", v |-> v, tries |-> MaxRetries]
RescoreMsg(v) == [kind |-> "rescore", v |-> v, tries |-> MaxRetries]

Free == [pc |-> "free", msg |-> ScoreMsg, rev |-> 0, status |-> "none",
         content |-> 0, profile |-> 0, prepare |-> FALSE]
NoRealign == [pc |-> "none", rev |-> 0, content |-> 0, profile |-> 0]

Put(q, m) == [q EXCEPT ![m] = @ + 1]
End(s)    == task' = [task EXCEPT ![s] = Free]

\* Statuses rescore_pending_jobs_batch and expire_stale_jobs look at.
Pending(st) == st \in {"extracted", "scored", "draft"}

Init ==
    /\ job = [status |-> "extracted", content |-> 1, score |-> NoScore]
    /\ app = NoApp
    /\ profile = 1
    /\ ready \in BOOLEAN
    /\ queue = [m \in Messages |-> IF m = ScoreMsg THEN 1 ELSE 0]
    /\ task = [s \in Slots |-> Free]
    /\ realign = NoRealign
    /\ reading = 0
    /\ owed = {}
    /\ lost = {}
    /\ spent = [realigns |-> 0, changes |-> 0, faults |-> 0]

-----------------------------------------------------------------------------
(* lock_job_without_application_for_mutation and                           *)
(* lock_application_for_mutation with a CONTENT intent, as what they let   *)
(* pass.                                                                   *)

JobLockable == ~Exists /\ job.status \notin {"skipped", "retired", "submitted"}
AppLockable(rev) ==
    /\ Exists /\ app.status = "draft" /\ app.rev = rev
    /\ job.status \notin {"skipped", "submitted"}

\* The rows a realign request holds between its check and its commit.
Unlocked == realign.pc # "checked"

-----------------------------------------------------------------------------
(* score_job_task.                                                         *)

\* Reads the job, the application and the profile; a terminal application
\* ends the task.
ScoreReads(s) ==
    /\ task[s].pc = "free"
    /\ \E n \in 0 .. MaxRetries : LET m == [ScoreMsg EXCEPT !.tries = n] IN
       /\ queue[m] > 0
       /\ queue' = [queue EXCEPT ![m] = @ - 1]
       /\ IF Exists /\ app.status # "draft" THEN UNCHANGED task
          ELSE task' = [task EXCEPT ![s] =
                 [Free EXCEPT !.pc = "probe", !.msg = m, !.rev = app.rev,
                              !.status = job.status, !.content = job.content,
                              !.profile = profile]]
    /\ UNCHANGED <<job, app, profile, ready, realign, reading, owed, lost, spent>>

\* _preparation_readiness_at_execution and the first comparison of the
\* profile version, after scoring and before any lock.
ScoreProbes(s) ==
    /\ task[s].pc = "probe"
    /\ task' = [task EXCEPT ![s].pc = "write",
                            ![s].prepare = ready /\ profile = task[s].profile]
    /\ UNCHANGED <<job, app, profile, ready, queue, realign, reading, owed, lost,
                   spent>>

\* An application exists: only the number is refreshed.
ScoreRefreshes(s) ==
    /\ task[s].pc = "write" /\ task[s].rev > 0 /\ Unlocked
    /\ job' = IF AppLockable(task[s].rev) /\ job.content = task[s].content
              THEN [job EXCEPT !.score = [content |-> task[s].content,
                                          profile |-> task[s].profile]]
              ELSE job
    /\ End(s)
    /\ UNCHANGED <<app, profile, ready, queue, realign, reading, owed, lost, spent>>

\* The rechecks under the profile and job locks.
StillScorable(s) ==
    JobLockable /\ job.status = task[s].status /\ job.content = task[s].content

ScoreBlocked(s) ==
    /\ task[s].pc = "write" /\ task[s].rev = 0
    /\ ~StillScorable(s)
    /\ End(s)
    /\ UNCHANGED <<job, app, profile, ready, queue, realign, reading, owed, lost,
                   spent>>

\* PROFILE_VERSION_CHANGED among the reasons: the number just written is of an
\* older profile and the job has to be scored again.
Fault_ScoredOutdated(s) == FALSE

ScoredOutdated(s) == profile # task[s].profile

\* SCORED when preparation is not ready or the profile moved on, SKIPPED when
\* decide_action says so, DRAFT otherwise.
ScoreCommits(s) ==
    LET current == profile = task[s].profile
        scored  == [content |-> task[s].content, profile |-> task[s].profile]
    IN /\ task[s].pc = "write" /\ task[s].rev = 0
       /\ StillScorable(s)
       /\ \/ /\ ~(task[s].prepare /\ current)
             /\ job' = [job EXCEPT !.status = "scored", !.score = scored]
             /\ IF ScoredOutdated(s) THEN task' = [task EXCEPT ![s].pc = "again"]
                                     ELSE End(s)
          \/ /\ task[s].prepare /\ current
             /\ job' = [job EXCEPT !.status = "skipped", !.score = scored]
             /\ End(s)
          \/ /\ task[s].prepare /\ current
             /\ job' = [job EXCEPT !.status = "draft", !.score = scored]
             /\ task' = [task EXCEPT ![s].pc = "handoff"]
       /\ UNCHANGED <<app, profile, ready, queue, realign, reading, owed, lost, spent>>

\* generate_application_task.delay(job_id, scoring_profile_version, True).
HandsOff(s) ==
    /\ task[s].pc = "handoff"
    /\ queue' = Put(queue, GenMsg(task[s].profile))
    /\ End(s)
    /\ UNCHANGED <<job, app, profile, ready, realign, reading, owed, lost, spent>>

\* _dispatch_exact_rescore: best effort, a broker that refuses is logged.
DispatchesRescore(s) ==
    /\ task[s].pc = "again"
    /\ \/ queue' = Put(queue, ScoreMsg) /\ UNCHANGED <<lost, spent>>
       \/ /\ spent.faults < MaxFaults
          /\ spent' = [spent EXCEPT !.faults = @ + 1]
          /\ lost' = lost \cup {"dispatch"}
          /\ UNCHANGED queue
    /\ End(s)
    /\ UNCHANGED <<job, app, profile, ready, realign, reading, owed>>

-----------------------------------------------------------------------------
(* generate_application_task.                                              *)

\* _return_unprepared_job_to_scored.
Fault_Returned == job

Returned == IF JobLockable /\ job.status = "draft" THEN [job EXCEPT !.status = "scored"]
                                                   ELSE job

\* The automatic handoff: readiness, then the exact profile version, are
\* checked before anything is generated.
GenReads(s) ==
    /\ task[s].pc = "free"
    /\ \E m \in Messages :
       /\ m.kind = "gen" /\ queue[m] > 0
       /\ queue' = [queue EXCEPT ![m] = @ - 1]
       /\ \/ /\ Exists /\ app.status # "draft"
             /\ UNCHANGED <<task, job>>
          \/ /\ ~(Exists /\ app.status # "draft") /\ ~ready
             /\ job' = Returned
             /\ UNCHANGED task
          \/ /\ ~(Exists /\ app.status # "draft") /\ ready /\ profile # m.v
             /\ job' = Returned
             /\ task' = IF Returned = job THEN task
                        ELSE [task EXCEPT ![s] = [Free EXCEPT !.pc = "again", !.msg = m]]
          \/ /\ ~(Exists /\ app.status # "draft") /\ ready /\ profile = m.v
             /\ task' = [task EXCEPT ![s] =
                  [Free EXCEPT !.pc = "generate", !.msg = m, !.rev = app.rev,
                               !.content = job.content, !.profile = m.v]]
             /\ UNCHANGED job
    /\ UNCHANGED <<app, profile, ready, realign, reading, owed, lost, spent>>

\* The recheck of the job's content under the lock.
Fault_InputCurrent(s) == TRUE

InputCurrent(s) == job.content = task[s].content

\* The write: absent or exact revision, unchanged content, unchanged profile.
Writable(s) == /\ IF task[s].rev = 0 THEN JobLockable ELSE AppLockable(task[s].rev)
               /\ InputCurrent(s)

GenBlocked(s) ==
    /\ task[s].pc = "generate" /\ ~Writable(s) /\ Unlocked
    /\ End(s)
    /\ UNCHANGED <<job, app, profile, ready, queue, realign, reading, owed, lost,
                   spent>>

GenOutdated(s) ==
    /\ task[s].pc = "generate" /\ Writable(s) /\ profile # task[s].profile /\ Unlocked
    /\ job' = Returned
    /\ task' = [task EXCEPT ![s] = IF Returned # job /\ task[s].msg.kind = "gen"
                                   THEN [@ EXCEPT !.pc = "again"] ELSE Free]
    /\ UNCHANGED <<app, profile, ready, queue, realign, reading, owed, lost, spent>>

GenCommits(s) ==
    /\ task[s].pc = "generate" /\ Writable(s) /\ profile = task[s].profile /\ Unlocked
    /\ app' = [rev |-> app.rev + 1, content |-> task[s].content,
               profile |-> task[s].profile, status |-> "draft"]
    /\ job' = [job EXCEPT !.status = "draft"]
    /\ End(s)
    /\ UNCHANGED <<profile, ready, queue, realign, reading, owed, lost, spent>>

-----------------------------------------------------------------------------
(* Rescoring for a new profile (rescore_pending_jobs_task, the eager       *)
(* drainer and rescore_pending_jobs_batch, on the page of this job).       *)

RescoreReads(s) ==
    /\ task[s].pc = "free"
    /\ \E m \in Messages :
       /\ m.kind = "rescore" /\ queue[m] > 0
       /\ queue' = [queue EXCEPT ![m] = @ - 1]
       /\ task' = IF profile = m.v /\ Pending(job.status)
                  THEN [task EXCEPT ![s] = [Free EXCEPT !.pc = "rescore", !.msg = m,
                                              !.content = job.content, !.profile = m.v]]
                  ELSE task
    /\ UNCHANGED <<job, app, profile, ready, realign, reading, owed, lost, spent>>

\* The version check under the profile lock; the content is not rechecked.
NotSuperseded(s) == profile = task[s].profile

RescoreCommits(s) ==
    /\ task[s].pc = "rescore" /\ Unlocked
    /\ job' = IF NotSuperseded(s) /\ Pending(job.status)
              THEN [job EXCEPT !.score = [content |-> task[s].content,
                                          profile |-> task[s].profile]]
              ELSE job
    /\ End(s)
    /\ UNCHANGED <<app, profile, ready, queue, realign, reading, owed, lost, spent>>

-----------------------------------------------------------------------------
(* Everybody else.                                                         *)

\* save_profile; the route dispatches the rescore afterwards.
ProfileSaved ==
    /\ profile < MaxProfiles
    /\ profile' = profile + 1
    /\ owed' = owed \cup {profile + 1}
    /\ UNCHANGED <<job, app, ready, queue, task, realign, reading, lost, spent>>

\* enqueue_pending_job_rescore: nothing to do without pending jobs; a broker
\* that refuses, or a process that dies first, loses the request.
RescoreEnqueued ==
    \E v \in owed :
       /\ owed' = owed \ {v}
       /\ \/ queue' = (IF Pending(job.status) THEN Put(queue, RescoreMsg(v)) ELSE queue)
             /\ UNCHANGED <<lost, spent>>
          \/ /\ spent.faults < MaxFaults
             /\ spent' = [spent EXCEPT !.faults = @ + 1]
             /\ lost' = lost \cup {"dispatch"}
             /\ UNCHANGED queue
       /\ UNCHANGED <<job, app, profile, ready, task, realign, reading>>

\* requeue_scored_jobs_for_preparation, when the stage is ready.
Requeued ==
    /\ ready /\ job.status = "scored" /\ ~Exists
    /\ queue[ScoreMsg] = 0 /\ \A s \in Slots : task[s].pc = "free"
    /\ queue' = Put(queue, ScoreMsg)
    /\ UNCHANGED <<job, app, profile, ready, task, realign, reading, owed, lost, spent>>

ReadinessChanges ==
    /\ spent.changes < MaxChanges
    /\ ready' = ~ready
    /\ spent' = [spent EXCEPT !.changes = @ + 1]
    /\ UNCHANGED <<job, app, profile, queue, task, realign, reading, owed, lost>>

\* ingest_discovered_postings looks at the job without a lock ...
DiscoveryReads ==
    /\ reading = 0 /\ spent.changes < MaxChanges
    /\ ~Exists /\ job.status \in {"extracted", "scored", "skipped"}
    /\ reading' = job.content + 1
    /\ spent' = [spent EXCEPT !.changes = @ + 1]
    /\ UNCHANGED <<job, app, profile, ready, queue, task, realign, owed, lost>>

\* ... and rewrites it when the page is committed, then queues its scoring.
DiscoveryWrites ==
    /\ reading # 0 /\ Unlocked
    /\ job' = [status |-> "extracted", content |-> reading, score |-> NoScore]
    /\ reading' = 0
    /\ queue' = Put(queue, ScoreMsg)
    /\ UNCHANGED <<app, profile, ready, task, realign, owed, lost, spent>>

\* realign_application: reads the application, its revision and the profile,
\* and generates outside any transaction.
RealignReads ==
    /\ realign.pc = "none" /\ spent.realigns < MaxRealigns
    /\ Exists /\ app.status = "draft"
    /\ spent' = [spent EXCEPT !.realigns = @ + 1]
    /\ realign' = [pc |-> "generate", rev |-> app.rev, content |-> job.content,
                   profile |-> profile]
    /\ UNCHANGED <<job, app, profile, ready, queue, task, reading, owed, lost>>

\* The exact revision is locked and the profile version compared, without
\* the profile lock: a save may still commit before the material does.
RealignChecks ==
    /\ realign.pc = "generate"
    /\ realign' = IF AppLockable(realign.rev) /\ profile = realign.profile
                  THEN [realign EXCEPT !.pc = "checked"] ELSE NoRealign
    /\ UNCHANGED <<job, app, profile, ready, queue, task, reading, owed, lost, spent>>

RealignCommits ==
    /\ realign.pc = "checked"
    /\ app' = [app EXCEPT !.rev = @ + 1, !.content = realign.content,
                          !.profile = realign.profile]
    /\ job' = [job EXCEPT !.status = "draft"]
    /\ realign' = NoRealign
    /\ UNCHANGED <<profile, ready, queue, task, reading, owed, lost, spent>>

\* The application is sent or skipped, or expire_stale_jobs retires the job,
\* which terminal_skip_at keeps from discovery.
ApplicationSettled ==
    /\ Exists /\ app.status = "draft" /\ Unlocked
    /\ \E st \in {"submitted", "skipped"} :
          /\ app' = [app EXCEPT !.status = st]
          /\ job' = [job EXCEPT !.status = st]
    /\ UNCHANGED <<profile, ready, queue, task, realign, reading, owed, lost, spent>>

JobExpired ==
    /\ JobLockable /\ Pending(job.status)
    /\ job' = [job EXCEPT !.status = "retired"]
    /\ UNCHANGED <<app, profile, ready, queue, task, realign, reading, owed, lost, spent>>

-----------------------------------------------------------------------------
(* Failures.                                                               *)

\* An exception: self.retry while retries are left.
TaskFails(s) ==
    /\ task[s].pc \in {"probe", "generate", "rescore", "handoff"}
    /\ spent.faults < MaxFaults
    /\ spent' = [spent EXCEPT !.faults = @ + 1]
    /\ LET m == task[s].msg IN
       IF m.tries > 0
       THEN queue' = Put(queue, [m EXCEPT !.tries = @ - 1]) /\ UNCHANGED lost
       ELSE lost' = lost \cup {"retries"} /\ UNCHANGED queue
    /\ End(s)
    /\ UNCHANGED <<job, app, profile, ready, realign, reading, owed>>

\* The worker dies: the unacknowledged message comes back.
WorkerDies(s) ==
    /\ task[s].pc # "free"
    /\ spent.faults < MaxFaults
    /\ spent' = [spent EXCEPT !.faults = @ + 1]
    /\ queue' = Put(queue, task[s].msg)
    /\ End(s)
    /\ UNCHANGED <<job, app, profile, ready, realign, reading, owed, lost>>

Next ==
    \/ \E s \in Slots :
          \/ ScoreReads(s) \/ ScoreProbes(s) \/ ScoreRefreshes(s) \/ ScoreBlocked(s)
          \/ ScoreCommits(s) \/ HandsOff(s) \/ DispatchesRescore(s)
          \/ GenReads(s) \/ GenBlocked(s) \/ GenOutdated(s)
          \/ GenCommits(s) \/ RescoreReads(s) \/ RescoreCommits(s)
          \/ TaskFails(s) \/ WorkerDies(s)
    \/ ProfileSaved \/ RescoreEnqueued \/ Requeued \/ ReadinessChanges
    \/ DiscoveryReads \/ DiscoveryWrites 
    \/ RealignReads \/ RealignChecks \/ RealignCommits
    \/ ApplicationSettled \/ JobExpired

Spec == Init /\ [][Next]_pipelineVars

-----------------------------------------------------------------------------
(* Properties.                                                             *)

Quiet == /\ \A m \in Messages : queue[m] = 0
         /\ \A s \in Slots : task[s].pc = "free"

\* Material is never written from a stale reading: whatever happened while it
\* was generated without a lock (a new profile version, content rewritten by
\* discovery, another generation), the application that is stored was made
\* from the job's content and the profile version current at its commit, and
\* a settled application is never rewritten.  (A realign request compares the
\* profile without its lock and the content not at all; only the second half
\* is said of it.)
MaterialIsCurrent ==
    app'.rev # app.rev =>
        /\ app.status \notin {"submitted", "skipped"}
        /\ realign.pc # "checked" =>
              app'.content = job.content /\ app'.profile = profile

\* A DRAFT job without an application is on its way to one: a task or a
\* message still works for it, unless retries were spent or a dispatch
\* failed.  Nothing else looks for such a job (requeueing takes SCORED ones),
\* so that every early return of the generation has to put it back.
NothingStranded ==
    job.status = "draft" /\ ~Exists /\ Quiet => lost # {}

\* After the dust of a profile change has settled, no job still waiting
\* for its application carries a score of an older profile: the rescoring
\* page and a scoring task under way at the change may finish in any order.
\* (A job with an application is excepted: its refresh does not recheck the
\* profile.)
ScoreSettles ==
    /\ Quiet /\ owed = {} /\ lost = {} /\ ~Exists
    /\ job.status \in {"scored", "draft"}
    => job.score.profile = profile

JobSettles == NothingStranded /\ ScoreSettles

-----------------------------------------------------------------------------
(* The inductive invariant: what a job that waits is waiting for.          *)

Statuses == {"none", "extracted", "scored", "draft", "skipped", "retired", "submitted"}
Scores == [content : Nat, profile : Nat]
TaskRows ==
    [pc : {"free", "probe", "write", "handoff", "again", "generate", "rescore"},
     msg : Messages, rev : Nat, status : Statuses, content : Nat,
     profile : Profiles \cup {0}, prepare : BOOLEAN]

\* A task works for its message, on an application no newer than there is.
TaskFits(t, rev) ==
    /\ t.pc \in {"probe", "write", "handoff"} => t.msg.kind = "score"
    /\ t.pc = "generate" => t.msg.kind = "gen"
    /\ t.pc = "rescore" => t.msg.kind = "rescore" /\ t.msg.v = t.profile
    /\ t.pc \notin {"free", "again"} => t.profile \in Profiles
    /\ t.rev <= rev

PipelineShape ==
    /\ job \in [status : Statuses, content : Nat, score : Scores]
    /\ app \in [rev : Nat, content : Nat, profile : Nat,
                status : {"none", "draft", "submitted", "skipped"}]
    /\ profile \in Profiles /\ owed \subseteq Profiles /\ reading \in Nat
    /\ queue \in [Messages -> Nat]
    /\ task \in [Slots -> TaskRows] /\ \A s \in Slots : TaskFits(task[s], app.rev)
    /\ realign \in [pc : {"none", "generate", "checked"}, rev : Nat, content : Nat,
                    profile : Nat]
    /\ ~Exists => app.status = "none"
    /\ realign.pc = "checked" => app.status = "draft"

Waits(kinds, v) == \E m \in Messages : m.kind \in kinds /\ m.v \in v /\ queue[m] > 0
\* A scoring task whose rechecks will pass.
Scoring(t, j) == t.pc \in {"probe", "write"} /\ t.status = j.status /\ t.content = j.content

\* A DRAFT job without an application has its next step waiting or at work.
DraftCarried ==
    job.status = "draft" /\ ~Exists /\ lost = {} =>
       \/ Waits({"gen", "score"}, Profiles \cup {0})
       \/ \E s \in Slots :
             \/ task[s].pc = "handoff" \/ Scoring(task[s], job)
             \/ task[s].pc = "generate" /\ task[s].content = job.content

\* A score of an older profile is about to be replaced: by the rescoring the
\* change asked for or, while the job is SCORED, by another scoring task.
Rescoring ==
    \/ profile \in owed \/ Waits({"rescore"}, {profile})
    \/ \E s \in Slots : task[s].pc = "rescore" /\ task[s].profile = profile
ScoreCarried ==
    /\ ~Exists /\ lost = {} /\ job.score.profile # profile
    /\ job.status \in {"scored", "draft"}
    => \/ Rescoring
       \/ /\ job.status = "scored"
          /\ \/ Waits({"score"}, {0})
             \/ \E s \in Slots : \/ task[s].pc = "again" /\ task[s].msg.kind = "score"
                                 \/ Scoring(task[s], job)

PipelineInv == PipelineShape /\ DraftCarried /\ ScoreCarried

=============================================================================
