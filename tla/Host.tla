--------------------------------- MODULE Host ---------------------------------
(***************************************************************************)
(* The rate governor, and the parts of the operator's machine and of the   *)
(* hosts around it that share no state with it or with one another.  A     *)
(* behaviour is about one of them, its focus:                              *)
(*   governor    workers reserve, over midnight and both stops;            *)
(*   inference   a few calls of processes that share one local model;      *)
(*   evaluation  a qualification run while something drifts;               *)
(*   identity    shells create, select and configure identities;           *)
(*   clipboard   shells copy a token while the user copies, too;           *)
(*   guards      processes over a lease file and an endpoint;              *)
(*   bridge      the WhatsApp bridge over a few sessions;                  *)
(*   mailbox     Gmail alerts, read page by page;                          *)
(*   board       discovery processes over a job board;                     *)
(*   form        one employer's form, inspected and confirmed;             *)
(*   pipeline    one job from its scoring to its application;              *)
(*   kill        a remote stop over boots of the runner.                   *)
(* The variables of the part in focus are kept in x1, x2, ..., under the   *)
(* names of its module; those it has no use for are Unused.  The governor, *)
(* whose module this one extends, has variables of its own and rests in    *)
(* its initial state while another part is in focus.                       *)
(***************************************************************************)
EXTENDS Integers, Sequences, FiniteSets, Governor

CONSTANTS Foci, Unused,
    Processes, Calls, ProcessOf, Nobody, Horizon, LeaseTTLs, Threshold, Reset,
    MaxStarts, MaxCrashes,
    Rows, MinHigh, MinModel, MaxDrift,
    Shells, Versions, Files, Names, Absent, MaxCommands, MaxEdits,
    ClearAttempts, MaxCopies,
    Procs, Hosts, LocalHosts, MaxFiles, MaxDeaths,
    Items, BridgeTasks, Nothing, Rescans, Interval, MaxReady, MaxLive, MaxForgets,
    MaxMessages, PageLen, PageBudget, MaxMailFaults,
    Postings, Kinds, SearchScopes, PageSize, MaxPages, MaxRuns, MaxChanges, MaxFaults,
    Forms, Evidence, QualifiedModels, MaxRows, MaxSwaps, MaxInspections, MaxConfirms,
    Slots, MaxProfiles, MaxRetries, MaxRealigns,
    Kills, NoKill, MaxBoots, MaxLate, MaxLocal

\* What the settings of a deployment are: numbers, whatever they are set to, slots that
\* belong to processes, and names that mean nobody and nothing else.
InferenceSettings ==
    /\ Horizon \in Nat /\ Threshold \in Nat /\ Reset \in Nat /\ LeaseTTLs \subseteq Nat
    /\ ProcessOf \in [Calls -> Processes] /\ Nobody \notin Calls
IdentitySettings == Versions \subseteq Nat \ {0}
ClipboardSettings == "user" \notin Shells /\ "nobody" \notin Shells
GuardsSettings == Nobody \notin Procs /\ Nobody \notin Hosts /\ Nobody \notin LocalHosts
BridgeSettings ==
    MaxReady \in Nat /\ Rescans \in Nat /\ Interval \in Nat /\ IsFiniteSet(BridgeTasks)
MailboxSettings == PageLen \in Nat \ {0} /\ MaxMessages \in Nat /\ PageBudget \in Int
FieldRows == [type : STRING, name : STRING, label : STRING, category : STRING,
              protected : BOOLEAN, required : BOOLEAN]
FormSettings == Forms \subseteq Seq(FieldRows)
BoardSettings ==
    /\ Nobody \notin Workers /\ IsFiniteSet(Postings)
    /\ PageSize \in Nat \ {0} /\ MaxPages \in Nat /\ MaxRuns \in Nat
PipelineSettings == MaxProfiles \in Nat \ {0} /\ MaxRetries \in Nat

ASSUME HostAssumption ==
    /\ InferenceSettings /\ IdentitySettings /\ ClipboardSettings /\ GuardsSettings
    /\ BridgeSettings /\ MailboxSettings /\ BoardSettings /\ FormSettings
    /\ PipelineSettings

VARIABLES focus,
    x1, x2, x3, x4, x5, x6, x7, x8, x9, x10, x11, x12, x13, x14, x15, x16

slots == <<x1, x2, x3, x4, x5, x6, x7, x8, x9, x10, x11, x12, x13, x14, x15, x16>>
hostVars == <<focus, vars, slots>>

Inference == INSTANCE InferenceRuntime WITH
    call <- x1, lock <- x2, lease <- x3, circuit <- x4, ttl <- x5, starts <- x6,
    crashes <- x7
Evaluation == INSTANCE ModelQualification WITH
    world <- x1, run <- x2, report <- x3, published <- x4, drifts <- x5
Identity == INSTANCE IdentityProvisioning WITH
    staging <- x1, final <- x2, current <- x3, shell <- x4, hosted <- x5,
    pinned <- x6, configured <- x7, commands <- x8, edits <- x9
Clipboard == INSTANCE TokenClipboard WITH
    Attempts <- ClearAttempts, clip <- x1, copier <- x2, copies <- x3
Guards == INSTANCE HostGuards WITH
    file <- x1, lease <- x2, alive <- x3, files <- x4, deaths <- x5, misjudged <- x6,
    serving <- x7, endpoint <- x8
Bridge == INSTANCE WhatsAppBridge WITH
    Tasks <- BridgeTasks, Attempts <- Rescans,
    connected <- x1, heartbeat <- x2, generation <- x3, current <- x4, sched <- x5, shown <- x6, handler <- x7, seen <- x8, begun <- x9,
    spent <- x10
Mailbox == INSTANCE AlertMailbox WITH
    MaxFaults <- MaxMailFaults, arrived <- x1, mark <- x2, scan <- x3, parsed <- x4,
    token <- x5, mailFaults <- x6
Board == INSTANCE Discovery WITH
    Scopes <- SearchScopes,
    kind <- x1, feed <- x2, occ <- x3, job <- x4, elsewhere <- x5, cursor <- x6,
    source <- x7, catalog <- x8, scope <- x9, lock <- x10, rows <- x11, w <- x12,
    clock <- x13, absent <- x14, caveats <- x15, used <- x16
Form == INSTANCE FormPlanning WITH
    Qualified <- QualifiedModels,
    evidence <- x1, model <- x2, answers <- x3, work <- x4, plan <- x5, counts <- x6
Pipeline == INSTANCE JobPipeline WITH
    job <- x1, app <- x2, profile <- x3, ready <- x4, queue <- x5, task <- x6,
    realign <- x7, reading <- x8, owed <- x9, lost <- x10, spent <- x11
RemoteKill == INSTANCE KillRelay WITH
    device <- x1, kill <- x2, past <- x3, switch <- x4, runner <- x5, late <- x6,
    local <- x7

HostInit ==
    /\ focus \in Foci /\ Init
    /\ \/ focus = "governor"
          /\ x1 = Unused /\ x2 = Unused /\ x3 = Unused /\ x4 = Unused /\ x5 = Unused
          /\ x6 = Unused /\ x7 = Unused /\ x8 = Unused /\ x9 = Unused /\ x10 = Unused
          /\ x11 = Unused /\ x12 = Unused /\ x13 = Unused /\ x14 = Unused
          /\ x15 = Unused /\ x16 = Unused
       \/ focus = "inference" /\ Inference!Init
          /\ x8 = Unused /\ x9 = Unused /\ x10 = Unused /\ x11 = Unused
          /\ x12 = Unused /\ x13 = Unused /\ x14 = Unused /\ x15 = Unused /\ x16 = Unused
       \/ focus = "evaluation" /\ Evaluation!Init
          /\ x6 = Unused /\ x7 = Unused /\ x8 = Unused /\ x9 = Unused /\ x10 = Unused
          /\ x11 = Unused /\ x12 = Unused /\ x13 = Unused /\ x14 = Unused
          /\ x15 = Unused /\ x16 = Unused
       \/ focus = "identity" /\ Identity!Init
          /\ x10 = Unused /\ x11 = Unused /\ x12 = Unused /\ x13 = Unused
          /\ x14 = Unused /\ x15 = Unused /\ x16 = Unused
       \/ focus = "clipboard" /\ Clipboard!Init
          /\ x4 = Unused /\ x5 = Unused /\ x6 = Unused /\ x7 = Unused /\ x8 = Unused
          /\ x9 = Unused /\ x10 = Unused /\ x11 = Unused /\ x12 = Unused
          /\ x13 = Unused /\ x14 = Unused /\ x15 = Unused /\ x16 = Unused
       \/ focus = "guards" /\ Guards!Init
          /\ x9 = Unused /\ x10 = Unused /\ x11 = Unused /\ x12 = Unused
          /\ x13 = Unused /\ x14 = Unused /\ x15 = Unused /\ x16 = Unused
       \/ focus = "bridge" /\ Bridge!Init
          /\ x11 = Unused /\ x12 = Unused /\ x13 = Unused /\ x14 = Unused
          /\ x15 = Unused /\ x16 = Unused
       \/ focus = "mailbox" /\ Mailbox!Init
          /\ x7 = Unused /\ x8 = Unused /\ x9 = Unused /\ x10 = Unused /\ x11 = Unused
          /\ x12 = Unused /\ x13 = Unused /\ x14 = Unused /\ x15 = Unused /\ x16 = Unused
       \/ focus = "board" /\ Board!Init
       \/ focus = "form" /\ Form!Init
          /\ x7 = Unused /\ x8 = Unused /\ x9 = Unused /\ x10 = Unused /\ x11 = Unused
          /\ x12 = Unused /\ x13 = Unused /\ x14 = Unused /\ x15 = Unused /\ x16 = Unused
       \/ focus = "pipeline" /\ Pipeline!Init
          /\ x12 = Unused /\ x13 = Unused /\ x14 = Unused /\ x15 = Unused /\ x16 = Unused
       \/ focus = "kill" /\ RemoteKill!Init
          /\ x8 = Unused /\ x9 = Unused /\ x10 = Unused /\ x11 = Unused
          /\ x12 = Unused /\ x13 = Unused /\ x14 = Unused /\ x15 = Unused /\ x16 = Unused

HostNext ==
    /\ UNCHANGED focus
    /\ \/ focus = "governor" /\ Next /\ UNCHANGED slots
       \/ focus = "inference" /\ Inference!Next
          /\ UNCHANGED <<vars, x8, x9, x10, x11, x12, x13, x14, x15, x16>>
       \/ focus = "evaluation" /\ Evaluation!Next
          /\ UNCHANGED <<vars, x6, x7, x8, x9, x10, x11, x12, x13, x14, x15, x16>>
       \/ focus = "identity" /\ Identity!Next
          /\ UNCHANGED <<vars, x10, x11, x12, x13, x14, x15, x16>>
       \/ focus = "clipboard" /\ Clipboard!Next
          /\ UNCHANGED <<vars, x4, x5, x6, x7, x8, x9, x10, x11, x12, x13, x14, x15, x16>>
       \/ focus = "guards" /\ Guards!Next
          /\ UNCHANGED <<vars, x9, x10, x11, x12, x13, x14, x15, x16>>
       \/ focus = "bridge" /\ Bridge!Next
          /\ UNCHANGED <<vars, x11, x12, x13, x14, x15, x16>>
       \/ focus = "mailbox" /\ Mailbox!Next
          /\ UNCHANGED <<vars, x7, x8, x9, x10, x11, x12, x13, x14, x15, x16>>
       \/ focus = "board" /\ Board!Next
          /\ UNCHANGED vars
       \/ focus = "form" /\ Form!Next
          /\ UNCHANGED <<vars, x7, x8, x9, x10, x11, x12, x13, x14, x15, x16>>
       \/ focus = "pipeline" /\ Pipeline!Next
          /\ UNCHANGED <<vars, x12, x13, x14, x15, x16>>
       \/ focus = "kill" /\ RemoteKill!Next
          /\ UNCHANGED <<vars, x8, x9, x10, x11, x12, x13, x14, x15, x16>>

HostSpec == HostInit /\ [][HostNext]_hostVars

-----------------------------------------------------------------------------
\* Two generations never run at once on the host, not when a process dies, a
\* release or the answer to an acquisition is lost, or a generation takes as long
\* as it may; while the circuit is open no request is at the model, although callers
\* passed the check before it opened; and a process lock that is taken belongs to a
\* call that will give it back; with it, what keeps them so: who is at the model
\* owns the lease, and the lease outlives the call's deadline (InferenceRuntime).
InferenceInv == focus = "inference" => Inference!InferenceInv

\* The registry only lets the model work on a report whose run read exactly these
\* datasets and began and ended on this model and environment, and whose code was
\* these sources unless a change fell between its imports and its attestation; and a
\* report that an evaluation built is one its own validator accepts
\* (ModelQualification).
QualificationIsHonest == focus = "evaluation" => Evaluation!QualificationIsHonest

\* current.json never names a version that is not whole, whoever was killed or
\* raced for it; the control plane never starts on the values of two identities; and
\* a configuration that reported success, with nobody else at work, left one that
\* starts (IdentityProvisioning).
IdentityIsWhole == focus = "identity" => Identity!IdentityIsWhole

\* Two processes drive one browser profile only after a takeover removed a lease
\* file other than the one it had judged; no two dashboards serve addresses that
\* overlap, and one that died is no obstacle (HostGuards).
HostLocksExclude == focus = "guards" => Guards!HostLocksExclude

\* However ready handlers, disconnects, slow passes and live messages overlap, an
\* item is forwarded once, only the scheduler the bridge holds is active or armed,
\* and the heartbeat reports what that one does (WhatsAppBridge).
BridgeStaysSingle == focus = "bridge" => Bridge!BridgeStaysSingle

\* Every message at or before the stored cursor's date had its postings committed,
\* whatever failed, crashed or arrived between two pages (AlertMailbox).
NoAlertSkipped == focus = "mailbox" => Mailbox!NoAlertSkipped

\* A DRAFT job without an application is on its way to one, unless retries were
\* spent or a dispatch failed; and once a profile change has settled, no job still
\* waiting for its application carries a score of an older profile (JobPipeline).
JobSettles == focus = "pipeline" => Pipeline!JobSettles

\* The cleanup takes off what its own command put on the clipboard and nothing
\* else, not even the same token copied by somebody else; and a copy that ended
\* without an error and was not killed leaves no token of its own, unless it could not
\* read it back (TokenClipboard).
ClipboardGivenBack ==
    [][focus = "clipboard" =>
          /\ (Clipboard!NoTokenLeft)'
          /\ Clipboard!ForeignClipboardKept]_hostVars

\* A poll the board will answer with 304 has nothing left to do; a posting is
\* closed only when the board did not list it at some moment since the scan that
\* missed it began; and a run is written off as stale only when nobody is working on
\* it, whatever crashed, changed or raced between two commits (Discovery).
BoardIsFollowed ==
    [][focus = "board" =>
          /\ (Board!NotModifiedIsSafe)'
          /\ Board!ClosedMeansGone
          /\ Board!StaleIsAbandoned]_hostVars

\* Whatever was inspected, superseded and confirmed in whatever order, a plan ready
\* for a permit is of a whole form with its verified upload, every required field
\* answered and every sensitive one by the operator; the answers of a model are of
\* the one artifact the plan's audit names; the validator refuses a plan for where the
\* planner took an answer from only at a control its page declares at odds with
\* itself; and a reused answer is still approved, in
\* these words, when the plan is stored (FormPlanning).
PlanIsReviewed ==
    [][focus = "form" =>
          /\ (Form!ReadyMeansReviewed)'
          /\ (Form!OneModelPerPlan)'
          /\ (Form!PlannerIsAccepted)'
          /\ Form!StoredReuseIsCurrent]_hostVars

\* A remote stop that the control plane shows as acknowledged was recorded by the
\* runner and is in force unless the operator cleared it afterwards, and one that
\* was cleared does not come back with a second delivery of its command
\* (KillRelay).
RemoteStopHolds ==
    [][focus = "kill" =>
          /\ (RemoteKill!AcknowledgedStopIsReal)'
          /\ RemoteKill!ClearedStaysCleared]_hostVars

\* The application that is stored was made from the job's content and the profile
\* version current at its commit, and a settled one is never rewritten
\* (JobPipeline).
MaterialIsCurrent ==
    [][(focus = "pipeline" => Pipeline!MaterialIsCurrent)]_hostVars

=============================================================================
