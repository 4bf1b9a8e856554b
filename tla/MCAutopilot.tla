----------------------------- MODULE MCAutopilot -----------------------------
(***************************************************************************)
(* Qualified autopilot on small instances.  The policy starts with nothing *)
(* qualified and one thing that may drift, or with a qualified contract    *)
(* and no drift; limits are of one and two; two workers inspect, two       *)
(* processes copy, and a backup is quarantined twice.                      *)
(***************************************************************************)
EXTENDS Autopilot

OneEmployer == [a \in Apps |-> "acme"]
Tight == {[hourly |-> 1, daily |-> 2, company |-> 2], [hourly |-> 2, daily |-> 1, company |-> 1]}
UnqualifiedOrSettled == {[qualified |-> {}, drifts |-> 0], [qualified |-> {"c1"}, drifts |-> 1]}

=============================================================================
