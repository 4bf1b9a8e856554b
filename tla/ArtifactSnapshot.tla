--------------------------- MODULE ArtifactSnapshot ---------------------------
(***************************************************************************)
(* core/automation_artifact_snapshot.py: the private copy of the routing   *)
(* file, the qualification report and the CVs that a signed policy acts    *)
(* on.  The operator may replace the originals at any time, two processes  *)
(* may make the copy of the same policy at once, and each may die between  *)
(* two files; the staging directory becomes the snapshot by one rename.    *)
(***************************************************************************)
EXTENDS Naturals, FiniteSets

CONSTANTS
    Files,         \* routing.yaml, fit-qualification.json and the CVs
    CVs,           \* of these, the ones copied with their expected hash
    Makers,        \* processes that activate or check the policy
    MaxReplaced    \* bound: replacements of originals

VARIABLES
    original,      \* version of each file on disk
    signed,        \* versions the policy's digests name
    snapshot,      \* the directory at target
    maker,         \* what each process is doing, and its staging directory
    replaced

vars == <<original, signed, snapshot, maker, replaced>>

Missing == [f \in Files |-> 0]         \* version 0: not there
Resting == [at |-> "idle", staging |-> Missing]

Init ==
    /\ original = [f \in Files |-> 1]
    /\ signed = original
    /\ snapshot = [present |-> FALSE, files |-> Missing]
    /\ maker = [m \in Makers |-> Resting]
    /\ replaced = 0

\* The operator replaces one file.
Replace(f) ==
    /\ replaced < MaxReplaced
    /\ replaced' = replaced + 1
    /\ original' = [original EXCEPT ![f] = @ + 1]
    /\ UNCHANGED <<signed, snapshot, maker>>

\* _load_snapshot with verify_all_cv_bytes: every file is the one signed.
Fault_Exact(files) == files # Missing
Exact(files) == files = signed

\* materialize_policy_artifact_snapshot: an existing target is verified and
\* used; otherwise the originals must be the signed ones.
Begin(m) ==
    /\ maker[m].at = "idle"
    /\ IF snapshot.present
         THEN maker' = [maker EXCEPT ![m].at = IF Exact(snapshot.files) THEN "ready" ELSE "refused"]
         ELSE IF original = signed
                THEN maker' = [maker EXCEPT ![m].at = "copy"]
                ELSE maker' = [maker EXCEPT ![m].at = "refused"]
    /\ UNCHANGED <<original, signed, snapshot, replaced>>

\* _copy_exact: a CV whose bytes are no longer the expected ones fails the
\* copy, and _remove_staging takes the directory away.
Copy(m, f) ==
    /\ maker[m].at = "copy" /\ maker[m].staging[f] = 0
    /\ maker' = [maker EXCEPT ![m] =
          IF f \in CVs /\ original[f] # signed[f]
            THEN [at |-> "refused", staging |-> Missing]
            ELSE [@ EXCEPT !.staging[f] = original[f]]]
    /\ UNCHANGED <<original, signed, snapshot, replaced>>

\* The manifest is written, the staging directory verified as a whole, and
\* renamed; when the target is there already, it is the target that counts.
Publish(m) ==
    /\ maker[m].at = "copy" /\ \A f \in Files : maker[m].staging[f] # 0
    /\ IF ~Exact(maker[m].staging)
         THEN /\ maker' = [maker EXCEPT ![m] = [at |-> "refused", staging |-> Missing]]
              /\ UNCHANGED snapshot
         ELSE /\ snapshot' = IF snapshot.present THEN snapshot
                             ELSE [present |-> TRUE, files |-> maker[m].staging]
              /\ maker' = [maker EXCEPT ![m] =
                    [at |-> IF Exact(snapshot'.files) THEN "ready" ELSE "refused",
                     staging |-> Missing]]
    /\ UNCHANGED <<original, signed, replaced>>

\* The process dies; its staging directory is never looked at again.
Crash(m) ==
    /\ maker[m].at = "copy"
    /\ maker' = [maker EXCEPT ![m] = Resting]
    /\ UNCHANGED <<original, signed, snapshot, replaced>>

\* resolve_selected_cv_artifact_snapshot at the commit boundary: the selected
\* CV is read from the snapshot, and only its bytes are hashed again.
Resolve(m, f) ==
    /\ maker[m].at = "ready" /\ f \in CVs
    /\ snapshot.files[f] = signed[f]
    /\ maker' = [maker EXCEPT ![m] = Resting]
    /\ UNCHANGED <<original, signed, snapshot, replaced>>

Retry(m) ==
    /\ maker[m].at = "refused"
    /\ maker' = [maker EXCEPT ![m] = Resting]
    /\ UNCHANGED <<original, signed, snapshot, replaced>>

Next ==
    \/ \E f \in Files : Replace(f)
    \/ \E m \in Makers :
          \/ Begin(m) \/ Publish(m) \/ Crash(m) \/ Retry(m)
          \/ \E f \in Files : Copy(m, f) \/ Resolve(m, f)

Spec == Init /\ [][Next]_vars

----------------------------------------------------------------------------
\* What an authorised action reads is what the policy was signed for: from
\* the rename on the snapshot is whole and exact, whatever was replaced while
\* it was copied, and nobody is ready without one.
SnapshotIsSigned ==
    /\ snapshot.present => snapshot.files = signed
    /\ \A m \in Makers : maker[m].at = "ready" => snapshot.present

\* The inductive invariant.
SnapshotInv ==
    /\ original \in [Files -> Nat]
    /\ snapshot.present \in BOOLEAN
    /\ maker \in [Makers -> [at : {"idle", "copy", "ready", "refused"}, staging : [Files -> Nat]]]
    /\ SnapshotIsSigned

=============================================================================
