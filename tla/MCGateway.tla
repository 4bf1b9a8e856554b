------------------------------ MODULE MCGateway ------------------------------
(***************************************************************************)
(* TLC instances of RunnerGateway.                                         *)
(***************************************************************************)
EXTENDS RunnerGateway, TLC

CONSTANTS g1, g2, c1

\* Review grants are interchangeable.
GrantSymmetry == Permutations({g1, g2})

\* Rows beyond the third are for an attempt that crossed the commit boundary,
\* or was settled after it: longer detours before the boundary are cut off.
LongOutboxOnlyPastCommit ==
    \A c \in Commands : Len(outbox[c]) > 3 =>
        attempt[c].stage \in PostCommit \/ attempt[c].outcome \in ImmutableOutcomes

=============================================================================
