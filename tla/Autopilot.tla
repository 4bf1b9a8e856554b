------------------------------ MODULE Autopilot ------------------------------
(***************************************************************************)
(* Qualified autopilot.  A behaviour is about one part of it, its focus;   *)
(* the state of the other parts stays Unused:                              *)
(*   policy      what authority is earned, signed, spent and stopped;      *)
(*   inspection  workers over the leased runs of an application;           *)
(*   snapshot    processes copy the artifacts of a policy;                 *)
(*   restore     a restored backup is quarantined.                         *)
(***************************************************************************)
EXTENDS Integers, FiniteSets

CONSTANTS Foci, Unused,
    Apps, Company, Contracts, Starts, LimitChoices, DayLength, ActiveTicks, Hour, Window,
    PolicyTTL, PlanTTL, AuthorityTTL, CanaryTTL, Horizon, MaxPolicies, MaxDrifts,
    Workers, Lease, MaxClaims, MaxRevisions,
    MaxSwitches,   \* bound: policies that follow one another under inspections
    Files, CVs, Makers, MaxReplaced,
    MaxPasses

\* Lifetimes and bounds are numbers; a day has ticks, and what was qualified before is a
\* contract.
PolicySettings ==
    /\ IsFiniteSet(Apps)
    /\ Starts \subseteq [qualified : SUBSET Contracts, drifts : 0 .. MaxDrifts]
    /\ LimitChoices \subseteq [hourly : Nat, daily : Nat, company : Nat]
    /\ DayLength \in Nat \ {0} /\ ActiveTicks \in Nat /\ Hour \in Nat /\ Window \in Nat
    /\ PolicyTTL \in Nat /\ PlanTTL \in Nat /\ AuthorityTTL \in Nat /\ CanaryTTL \in Nat
    /\ Horizon \in Nat /\ MaxDrifts \in Nat
InspectionSettings ==
    Lease \in Nat /\ MaxRevisions \in Nat \ {0} /\ MaxSwitches \in Nat \ {0}

ASSUME AutopilotAssumption == PolicySettings /\ InspectionSettings

VARIABLES
    focus,
    now, world, running, policy, kill, application, plan, decision, dryRun, live, canary,
    attempt, sends, proved, drifts,
    app, active, runs, claims, worker,
    original, signed, snapshot, maker, replaced,
    rows, grant, passes, changed

policyOnly == <<world, running, policy, kill, decision, dryRun, live, canary, sends, proved, drifts>>
inspectionOnly == <<app, active, runs, claims, worker>>
snapshotOnly == <<original, signed, snapshot, maker, replaced>>
restoreOnly == <<rows, grant, passes, changed>>
vars == <<focus, now, application, plan, attempt, policyOnly, inspectionOnly, snapshotOnly, restoreOnly>>

Policy == INSTANCE AutomationPolicy
Inspection == INSTANCE AutopilotInspection WITH MaxPolicies <- MaxSwitches
Snapshot == INSTANCE ArtifactSnapshot
Restore == INSTANCE RestoreQuarantine

policyRest == <<inspectionOnly, snapshotOnly, restoreOnly>>
inspectionRest == <<now, application, attempt, policyOnly, snapshotOnly, restoreOnly>>
snapshotRest == <<now, application, plan, attempt, policyOnly, inspectionOnly, restoreOnly>>
restoreRest == <<plan, policyOnly, inspectionOnly, snapshotOnly>>

NoPolicyState ==
    /\ world = Unused /\ running = Unused /\ policy = Unused /\ kill = Unused /\ decision = Unused
    /\ dryRun = Unused /\ live = Unused /\ canary = Unused /\ sends = Unused /\ proved = Unused
    /\ drifts = Unused
NoInspectionState ==
    app = Unused /\ active = Unused /\ runs = Unused /\ claims = Unused /\ worker = Unused
NoSnapshotState ==
    /\ original = Unused /\ signed = Unused /\ snapshot = Unused /\ maker = Unused
    /\ replaced = Unused
NoRestoreState == rows = Unused /\ grant = Unused /\ passes = Unused /\ changed = Unused

Init ==
    /\ focus \in Foci
    /\ \/ /\ focus = "policy" /\ Policy!Init
          /\ NoInspectionState /\ NoSnapshotState /\ NoRestoreState
       \/ /\ focus = "inspection" /\ Inspection!Init
          /\ NoPolicyState /\ NoSnapshotState /\ NoRestoreState
          /\ now = Unused /\ application = Unused /\ attempt = Unused
       \/ /\ focus = "snapshot" /\ Snapshot!Init
          /\ NoPolicyState /\ NoInspectionState /\ NoRestoreState
          /\ now = Unused /\ application = Unused /\ attempt = Unused /\ plan = Unused
       \/ /\ focus = "restore" /\ Restore!Init
          /\ NoPolicyState /\ NoInspectionState /\ NoSnapshotState /\ plan = Unused

Next ==
    /\ UNCHANGED focus
    /\ \/ focus = "policy" /\ Policy!Next /\ UNCHANGED policyRest
       \/ focus = "inspection" /\ Inspection!Next /\ UNCHANGED inspectionRest
       \/ focus = "snapshot" /\ Snapshot!Next /\ UNCHANGED snapshotRest
       \/ focus = "restore" /\ Restore!Next /\ UNCHANGED restoreRest

Spec == Init /\ [][Next]_vars

----------------------------------------------------------------------------
\* Nothing crosses the commit boundary for the autopilot while the kill
\* switch is on, for a policy that was revoked or superseded since the
\* decision, or for answers, CVs or a profile the policy was not signed for
\* (AutomationPolicy and the submission worker).
StopsReachTheBoundary ==
    [][(focus = "policy" => Policy!StoppedSendRefused)]_vars

\* A worker whose lease went to a successor writes nothing over it: never two
\* workers hold a run, and a plan about to be dispatched was not written over
\* by an older claim of the same run.  However often an application is
\* inspected, by workers that overlap, crash or outlive their lease, the
\* autopilot queues it once, and a run that says a command was queued is right
\* (AutopilotInspection).
SuccessorPrevails == focus = "inspection" => Inspection!SuccessorPrevails

\* What an authorised action reads is what the policy was signed for, whatever
\* was replaced while it was copied and whoever died or copied at the same
\* time (ArtifactSnapshot).
SnapshotIsSigned == focus = "snapshot" => Snapshot!SnapshotIsSigned

\* What the autopilot may do was earned and is bounded: the signed limits hold
\* over every window at the moment of each decision; authority ends with the
\* active hours and with its policy; the autopilot acts only on a form contract
\* that this release submitted once before, with an employer's confirmation
\* (AutomationPolicy); and what it reads are the signed copies.
AuthorityIsEarned ==
    /\ focus = "policy" => Policy!AuthorityIsEarned
    /\ SnapshotIsSigned

\* After the quarantine nothing in a restored database can act, and every
\* unfinished attempt that may have been sent is unknown (RestoreQuarantine).
RestoredAuthorityGone == focus = "restore" => Restore!RestoredAuthorityGone

\* core/restore_safety.py: "Repeating this function is a no-op after the first
\* successful commit"; docs/recovery-runbooks.md: "A second quarantine pass
\* must report zero changes" (RestoreQuarantine).
SecondPassIsNoop == focus = "restore" => Restore!SecondPassIsNoop

=============================================================================
