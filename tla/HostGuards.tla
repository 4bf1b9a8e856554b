------------------------------ MODULE HostGuards ------------------------------
(***************************************************************************)
(* The two file locks of the operator's machine.                           *)
(*                                                                         *)
(* core/portal_sessions.py leases a browser profile: the lock is the       *)
(* existence of a file, the owner's pid is written into it afterwards, and *)
(* a file left by a dead process is removed once it is old.  Every system  *)
(* call of acquire is a step, so that two takeovers can overlap.           *)
(*                                                                         *)
(* core/single_instance.py guards a dashboard endpoint: the operating      *)
(* system holds the lock and drops it with the process, so the file that   *)
(* remains means nothing.                                                  *)
(***************************************************************************)
EXTENDS Naturals

CONSTANTS
    Procs,         \* processes
    Nobody,        \* the pid 0 of an empty or unreadable file
    Hosts,         \* host texts a dashboard is bound to
    LocalHosts,    \* _LOCAL_BIND_HOSTS
    MaxFiles,      \* bound: lock files created
    MaxDeaths      \* bound: processes that die

VARIABLES
    file,          \* the lease file: [id, pid, old], id = 0 when there is none
    lease,         \* each process in acquire: [pc, tries, read (id of the file it judges or made)]
    alive,         \* processes that run
    files, deaths, \* counters
    misjudged,     \* history: a file other than the one judged stale was removed
    serving,       \* the host a process's dashboard holds the endpoint for, or Nobody
    endpoint       \* processes that hold the operating system's lock, by lock file

guardVars == <<file, lease, alive, files, deaths, misjudged, serving, endpoint>>

NoFile == [id |-> 0, pid |-> Nobody, old |-> FALSE]

Out == [pc |-> "out", tries |-> 0, read |-> 0]

Scopes == Hosts \cup {"local-machine"}

Init ==
    /\ file = NoFile /\ lease = [p \in Procs |-> Out]
    /\ alive = Procs /\ files = 0 /\ deaths = 0 /\ misjudged = FALSE
    /\ serving = [p \in Procs |-> Nobody] /\ endpoint = [s \in Scopes |-> Nobody]

guardsSame == UNCHANGED <<serving, endpoint>>

At(p, pc) == p \in alive /\ lease[p].pc = pc

-----------------------------------------------------------------------------
(***************************************************************************)
(* PortalSessionLease.                                                     *)
(***************************************************************************)
Acquire(p) ==
    /\ At(p, "out") /\ files < MaxFiles
    /\ lease' = [lease EXCEPT ![p] = [Out EXCEPT !.pc = "open"]]
    /\ UNCHANGED <<file, alive, files, deaths, misjudged>> /\ guardsSame

\* O_CREAT | O_EXCL succeeds: an empty file.
Create(p) ==
    /\ At(p, "open") /\ file = NoFile /\ files < MaxFiles
    /\ files' = files + 1
    /\ file' = [id |-> files + 1, pid |-> Nobody, old |-> FALSE]
    /\ lease' = [lease EXCEPT ![p].pc = "created", ![p].read = files + 1]
    /\ UNCHANGED <<alive, deaths, misjudged>> /\ guardsSame

\* The pid goes to the file that was opened, which may have been removed by now.
WritePid(p) ==
    /\ At(p, "created")
    /\ file' = IF file.id = lease[p].read THEN [file EXCEPT !.pid = p] ELSE file
    /\ lease' = [lease EXCEPT ![p].pc = "held"]
    /\ UNCHANGED <<alive, files, deaths, misjudged>> /\ guardsSame

\* FileExistsError.
OpenFails(p) ==
    /\ At(p, "open") /\ file # NoFile
    /\ lease' = [lease EXCEPT ![p].pc = "stat"]
    /\ UNCHANGED <<file, alive, files, deaths, misjudged>> /\ guardsSame

\* stat: a file that is young, or gone, is busy.
Stat(p) ==
    /\ At(p, "stat")
    /\ lease' = [lease EXCEPT ![p] = IF file.old THEN [@ EXCEPT !.pc = "owner", !.read = file.id]
                                     ELSE Out]
    /\ UNCHANGED <<file, alive, files, deaths, misjudged>> /\ guardsSame

\* Mutant: an old file is taken over without asking after its owner.
Fault_OwnerGone == TRUE

\* The file names no process, or one that is not running.
OwnerGone == file.pid \notin alive

ReadOwner(p) ==
    /\ At(p, "owner")
    /\ lease' = [lease EXCEPT ![p] = IF OwnerGone THEN [@ EXCEPT !.pc = "unlink"] ELSE Out]
    /\ UNCHANGED <<file, alive, files, deaths, misjudged>> /\ guardsSame

\* unlink removes whatever is there now; a missing file is busy.  Two rounds.
Unlink(p) ==
    /\ At(p, "unlink")
    /\ file' = NoFile
    /\ lease' = [lease EXCEPT ![p] = IF file = NoFile \/ lease[p].tries = 1 THEN Out
                                     ELSE [@ EXCEPT !.pc = "open", !.tries = 1]]
    /\ misjudged' = (misjudged \/ (file # NoFile /\ file.id # lease[p].read))
    /\ UNCHANGED <<alive, files, deaths>> /\ guardsSame

Release(p) ==
    /\ At(p, "held")
    /\ file' = NoFile
    /\ lease' = [lease EXCEPT ![p] = Out]
    /\ UNCHANGED <<alive, files, deaths, misjudged>> /\ guardsSame

\* stale_minutes pass; no process stays that long between two calls of acquire.
Age ==
    /\ file # NoFile /\ ~file.old
    /\ \A p \in alive : lease[p].pc \in {"out", "held"}
    /\ file' = [file EXCEPT !.old = TRUE]
    /\ UNCHANGED <<lease, alive, files, deaths, misjudged>> /\ guardsSame

-----------------------------------------------------------------------------
(***************************************************************************)
(* SingleInstanceLock.                                                     *)
(***************************************************************************)

\* Mutant: every host text is a scope of its own.
Fault_Scope(h) == h

\* Loopback and wildcard addresses overlap, so they share one lock file.
Scope(h) == IF h \in LocalHosts THEN "local-machine" ELSE h

\* acquire_dashboard_instance_lock: taken at once or refused.
Serve(p, h) ==
    /\ p \in alive /\ serving[p] = Nobody /\ endpoint[Scope(h)] = Nobody
    /\ endpoint' = [endpoint EXCEPT ![Scope(h)] = p]
    /\ serving' = [serving EXCEPT ![p] = h]
    /\ UNCHANGED <<file, lease, alive, files, deaths, misjudged>>

StopServing(p) ==
    /\ p \in alive /\ serving[p] # Nobody
    /\ endpoint' = [s \in Scopes |-> IF endpoint[s] = p THEN Nobody ELSE endpoint[s]]
    /\ serving' = [serving EXCEPT ![p] = Nobody]
    /\ UNCHANGED <<file, lease, alive, files, deaths, misjudged>>

\* A process dies: its lease file stays, its operating-system lock does not.
Die(p) ==
    /\ p \in alive /\ deaths < MaxDeaths
    /\ deaths' = deaths + 1 /\ alive' = alive \ {p}
    /\ lease' = [lease EXCEPT ![p] = Out]
    /\ endpoint' = [s \in Scopes |-> IF endpoint[s] = p THEN Nobody ELSE endpoint[s]]
    /\ serving' = [serving EXCEPT ![p] = Nobody]
    /\ UNCHANGED <<file, files, misjudged>>

Next ==
    \/ \E p \in Procs :
          \/ Acquire(p) \/ Create(p) \/ WritePid(p) \/ OpenFails(p) \/ Stat(p) \/ ReadOwner(p) \/ Unlink(p) \/ Release(p)
          \/ StopServing(p) \/ Die(p)
          \/ \E h \in Hosts : Serve(p, h)
    \/ Age

Spec == Init /\ [][Next]_guardVars

-----------------------------------------------------------------------------
(***************************************************************************)
(* Properties.                                                             *)
(***************************************************************************)

Holds(p) == p \in alive /\ lease[p].pc \in {"created", "held"}

\* Two processes drive one browser profile only after a takeover removed a file
\* other than the one it had judged: the age and the owner of a lease, looked at
\* in calls of their own before the unlink, protect every lease that no second takeover races for.
OneDriver == ~misjudged => \A p, q \in Procs : Holds(p) /\ Holds(q) => p = q

\* No two dashboards serve addresses that overlap, and one that died is no
\* obstacle: the lock of an endpoint is held by a live process that serves it.
OneDashboard ==
    /\ \A p, q \in Procs :
          serving[p] \in LocalHosts /\ serving[q] \in LocalHosts => p = q
    /\ \A s \in Scopes : endpoint[s] # Nobody =>
          endpoint[s] \in alive /\ serving[endpoint[s]] # Nobody

\* The shape of the state; ids count lock files, and one that judges a file has
\* seen one.
GuardsTypeOK ==
    /\ file \in [id : Nat, pid : Procs \cup {Nobody}, old : BOOLEAN]
    /\ file.id = 0 => file = NoFile
    /\ file.id <= files /\ files \in Nat
    /\ lease \in [Procs -> [pc : {"out", "open", "created", "held", "stat", "owner", "unlink"},
                            tries : 0 .. 1, read : Nat]]
    /\ \A p \in Procs : /\ lease[p].read <= files
                        /\ p \notin alive => lease[p] = Out
                        /\ lease[p].pc \in {"created", "held", "owner", "unlink"} =>
                              lease[p].read # 0
    /\ alive \subseteq Procs /\ misjudged \in BOOLEAN
    /\ serving \in [Procs -> Hosts \cup {Nobody}]
    /\ endpoint \in [Scopes -> Procs \cup {Nobody}]

\* What keeps drivers apart: the file that is there is the holder's own, young
\* until its pid is in it; and a takeover that judged this file found it old, then
\* without a live owner.
JudgedFairly(p) ==
    /\ Holds(p) => file.id = lease[p].read
    /\ lease[p].pc = "created" => ~file.old /\ file.pid = Nobody
    /\ lease[p].pc = "held" => file.pid = p
    /\ lease[p].pc \in {"owner", "unlink"} /\ file.id = lease[p].read => file.old
    /\ lease[p].pc = "unlink" /\ file.id = lease[p].read => file.pid \notin alive
LeaseStory == ~misjudged => \A p \in Procs : JudgedFairly(p)

\* What keeps dashboards apart: who serves holds the lock of the host's scope, and
\* a lock is held for the host that is served.
EndpointStory ==
    /\ \A p \in Procs : serving[p] # Nobody =>
          p \in alive /\ endpoint[Scope(serving[p])] = p
    /\ \A s \in Scopes : endpoint[s] # Nobody =>
          serving[endpoint[s]] # Nobody /\ Scope(serving[endpoint[s]]) = s

\* The inductive invariant of the two locks (PortalSessionLease, SingleInstanceLock).
HostLocksExclude == GuardsTypeOK /\ LeaseStory /\ EndpointStory /\ OneDriver /\ OneDashboard

=============================================================================
