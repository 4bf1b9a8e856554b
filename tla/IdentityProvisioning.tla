------------------------ MODULE IdentityProvisioning ------------------------
(***************************************************************************)
(* scripts/control_plane_identity.py: the operator creates an identity for *)
(* the runner and the hosted control plane, as one immutable version on    *)
(* disk that current.json selects, and copies its public and secret values *)
(* into the variables of the hosted project, one request each.  The hosted *)
(* side (control_plane/config.py) starts only when the digest among them   *)
(* attests the others.                                                     *)
(*                                                                         *)
(* Commands of two shells interleave and may be killed anywhere.  A hosted *)
(* request may fail with or without having been applied.  A version stands *)
(* for every value made for it; paths, ACLs, key formats and the CLI's     *)
(* pins are checks that pass or refuse.                                    *)
(***************************************************************************)
EXTENDS Naturals, FiniteSets

CONSTANTS
    Shells,
    Versions,      \* positive version numbers; 0 is none
    Files,         \* of a version: keys, secrets, runner.json, manifest
    Names,         \* hosted variables the digest attests
    Absent,
    MaxCommands,   \* bound: commands started
    MaxEdits       \* bound: records somebody else removes

VARIABLES
    staging, final,    \* .<version>.tmp and <version>, as the files in them
    current,           \* the version current.json selects
    shell,             \* what each shell is doing
    hosted,            \* the hosted records: id and version of the value
    pinned,            \* the CLI and CA still are what was pinned
    configured,        \* the version the last undisturbed configuration reported
    commands, edits

vars == <<staging, final, current, shell, hosted, pinned, configured, commands, edits>>
disk == <<staging, final, current>>

Variables == Names \cup {"digest"}
NoRecord == [id |-> 0, version |-> 0]
Idle == [at |-> "idle", version |-> 0, left |-> {}, ids |-> [n \in Variables |-> 0], alone |-> TRUE]

Init ==
    /\ staging = [v \in Versions |-> Absent] /\ final = [v \in Versions |-> Absent]
    /\ current = 0
    /\ shell = [s \in Shells |-> Idle]
    /\ hosted = [n \in Variables |-> NoRecord]
    /\ pinned = TRUE /\ configured = 0 /\ commands = 0 /\ edits = 0

At(s, at) == shell[s].at = at
Go(s, at) == shell' = [shell EXCEPT ![s].at = at]
Quit(s) == shell' = [shell EXCEPT ![s] = Idle]

----------------------------------------------------------------------------
\* create_identity_bundle: the checks, then the staging directory.
Create(s, v) ==
    /\ At(s, "idle") /\ commands < MaxCommands
    /\ staging[v] = Absent /\ final[v] = Absent
    /\ commands' = commands + 1
    /\ shell' = [shell EXCEPT ![s] = [Idle EXCEPT !.at = "mkdir", !.version = v]]
    /\ UNCHANGED <<disk, hosted, pinned, configured, edits>>

Mkdir(s) ==
    /\ At(s, "mkdir")
    /\ IF staging[shell[s].version] = Absent
       THEN staging' = [staging EXCEPT ![shell[s].version] = {}] /\ Go(s, "write")
       ELSE Quit(s) /\ UNCHANGED staging
    /\ UNCHANGED <<final, current, hosted, pinned, configured, commands, edits>>

\* An exception removes the staging directory of that name.
Cleanup(s) == staging' = [staging EXCEPT ![shell[s].version] = Absent] /\ Quit(s)

\* _write_new and _write_json_new
WriteFile(s) ==
    LET v == shell[s].version IN
    /\ At(s, "write")
    /\ \/ \E f \in Files :
             /\ staging[v] # Absent /\ f \notin staging[v]
             /\ staging' = [staging EXCEPT ![v] = @ \cup {f}]
             /\ UNCHANGED shell
       \/ Cleanup(s)
    /\ UNCHANGED <<final, current, hosted, pinned, configured, commands, edits>>

\* _publish_identity_version: never over a version that exists; contention is
\* tried again, any other error cleans up (WriteFile).
Fault_BundleComplete(v) == TRUE
BundleComplete(v) == staging[v] = Files
Publish(s) ==
    LET v == shell[s].version IN
    /\ At(s, "write") /\ staging[v] # Absent /\ BundleComplete(v) /\ final[v] = Absent
    /\ final' = [final EXCEPT ![v] = staging[v]]
    /\ staging' = [staging EXCEPT ![v] = Absent]
    /\ Go(s, "select")
    /\ UNCHANGED <<current, hosted, pinned, configured, commands, edits>>

\* The atomic replacement of current.json, last; it may fail, and cleans up.
Select(s) ==
    /\ At(s, "select")
    /\ \/ current' = shell[s].version /\ Quit(s) /\ UNCHANGED staging
       \/ Cleanup(s) /\ UNCHANGED current
    /\ UNCHANGED <<final, hosted, pinned, configured, commands, edits>>

----------------------------------------------------------------------------
\* load_selected_identity: a strict reading of the version selected, every
\* file of it.
Loadable == current # 0 /\ final[current] = Files

\* The command line tool and the CA are the pinned ones, when they are
\* selected and again before every request.
ToolsSelected == pinned
ToolsUnchanged == pinned

\* _vercel_environment_inventory: the names of the records and their ids,
\* never their values.
Inventory == [n \in Variables |-> hosted[n].id]

\* configure_vercel_identity: the target, the tools, the selection; then the
\* initial inventory.
Configure(s) ==
    /\ At(s, "idle") /\ commands < MaxCommands /\ ToolsSelected /\ Loadable
    /\ commands' = commands + 1 /\ configured' = 0
    /\ LET others == {o \in Shells \ {s} : shell[o].at \in {"put", "attest"}}
       IN  shell' = [o \in Shells |->
              IF o = s THEN [at |-> "put", version |-> current, left |-> Variables,
                             ids |-> Inventory, alone |-> others = {}]
              ELSE [shell[o] EXCEPT !.alone = FALSE]]
    /\ UNCHANGED <<disk, hosted, pinned, edits>>

\* PATCH of a record the inventory saw, POST of one it did not; the digest
\* comes last.  A request that fails may have been applied.
NextName(s, n) == n \in shell[s].left /\ (n = "digest" => shell[s].left = {"digest"})
Accepts(s, n) == hosted[n].id = shell[s].ids[n]
NewId == 1 + edits

\* _identity_derived_vercel_values: the values of the identity selected when
\* the command began.
Fault_Value(s) == current
Value(s) == shell[s].version
Applied(s, n) ==
    [hosted EXCEPT ![n] = [id |-> IF shell[s].ids[n] = 0 THEN NewId ELSE @.id,
                           version |-> Value(s)]]

Done(s, n) ==
    shell' = [shell EXCEPT ![s].left = @ \ {n}, ![s].at = IF n = "digest" THEN "attest" ELSE "put"]
Failed(s, n) == Quit(s)

Put(s, n) ==
    /\ At(s, "put") /\ NextName(s, n)
    /\ \/ /\ ToolsUnchanged /\ Accepts(s, n) /\ hosted' = Applied(s, n)
          /\ Done(s, n) \/ Failed(s, n)
       \/ Failed(s, n) /\ UNCHANGED hosted
    /\ UNCHANGED <<disk, pinned, configured, commands, edits>>

\* The final inventory: every variable is there, and those that were there
\* before still are the same records.
FinalAttestation(s) ==
    \A n \in Variables :
        /\ hosted[n].id # 0
        /\ shell[s].ids[n] # 0 => hosted[n].id = shell[s].ids[n]

Attest(s) ==
    /\ At(s, "attest")
    /\ configured' = IF FinalAttestation(s) /\ shell[s].alone THEN shell[s].version ELSE configured
    /\ Quit(s)
    /\ UNCHANGED <<disk, hosted, pinned, commands, edits>>

----------------------------------------------------------------------------
Kill(s) ==
    /\ shell[s].at # "idle" /\ Quit(s)
    /\ UNCHANGED <<disk, hosted, pinned, configured, commands, edits>>

\* _revalidate_vercel_cli_invocation and _revalidate_vercel_ca_trust see it.
Replace == pinned /\ pinned' = FALSE
           /\ UNCHANGED <<disk, shell, hosted, configured, commands, edits>>

Remove(n) ==
    /\ edits < MaxEdits /\ hosted[n].id # 0
    /\ edits' = edits + 1 /\ configured' = 0
    /\ hosted' = [hosted EXCEPT ![n] = NoRecord]
    /\ shell' = [s \in Shells |-> [shell[s] EXCEPT !.alone = FALSE]]
    /\ UNCHANGED <<disk, pinned, commands>>

Next ==
    \/ \E s \in Shells :
          \/ Mkdir(s) \/ WriteFile(s) \/ Publish(s) \/ Select(s)
          \/ Configure(s) \/ Attest(s) \/ Kill(s)
          \/ \E v \in Versions : Create(s, v)
          \/ \E n \in Variables : Put(s, n)
    \/ Replace
    \/ \E n \in Variables : Remove(n)

Spec == Init /\ [][Next]_vars

----------------------------------------------------------------------------
\* build_identity_bundle_digest: what the attestation covers.
Fault_Attested == {CHOOSE n \in Names : TRUE}
Attested == Names

\* _verify_identity_bundle_digest at the start of the hosted application.
Serves(v) ==
    /\ hosted["digest"].version = v
    /\ \A n \in Attested : hosted[n].version = v

\* current.json never names a version that is not whole, whoever was killed,
\* cleaned up after the other or raced for the same version.
SelectionIsComplete == current # 0 => Loadable

\* The control plane never starts on the values of two identities, however a
\* configuration was interrupted, repeated or interleaved with another.
HostedNeverMixed ==
    \A v \in Versions : Serves(v) => \A n \in Names : hosted[n].version = v

\* A configuration that reported success, with nobody else at work, left a
\* control plane that starts on that identity.
ConfiguredServes == configured # 0 => Serves(configured)

IdentityIsWhole == SelectionIsComplete /\ ConfiguredServes /\ HostedNeverMixed

----------------------------------------------------------------------------
(* The inductive invariant. *)

ShellRows == [at : {"idle", "mkdir", "write", "select", "put", "attest"}, version : Nat,
              left : SUBSET Variables, ids : [Variables -> Nat], alone : BOOLEAN]
IdentityShape ==
    /\ shell \in [Shells -> ShellRows]
    /\ hosted \in [Variables -> [id : Nat, version : Nat]]
    /\ edits \in Nat

\* A version is published whole, and stays: so it is when it is selected.
SelectionFollows ==
    /\ final \in [Versions -> {Absent, Files}]
    /\ current # 0 => current \in Versions /\ final[current] = Files
    /\ \A s \in Shells :
          /\ shell[s].at \in {"mkdir", "write", "select"} => shell[s].version \in Versions
          /\ At(s, "select") => final[shell[s].version] = Files

Configuring(s) == shell[s].at \in {"put", "attest"}

\* Whoever configures alone has left its own values on all it is done with, and
\* nothing counts as configured while somebody configures.
ConfigurationFollows ==
    /\ \A s \in Shells :
          /\ At(s, "attest") => shell[s].left = {}
          /\ Configuring(s) /\ shell[s].alone =>
                /\ \A o \in Shells \ {s} : ~Configuring(o)
                /\ \A n \in Variables \ shell[s].left : hosted[n].version = shell[s].version
    /\ configured # 0 =>
          /\ \A s \in Shells : ~Configuring(s)
          /\ \A n \in Variables : hosted[n].version = configured

IdentityInv == IdentityShape /\ SelectionFollows /\ ConfigurationFollows

=============================================================================
