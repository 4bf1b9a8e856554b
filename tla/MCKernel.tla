------------------------------ MODULE MCKernel ------------------------------
(* The submission kernel on small instances. *)
EXTENDS SubmissionInvariant, TLC

Symmetric == Permutations(Apps) \cup Permutations(Workers) \cup Permutations(Tokens)
                 \cup Permutations(Keys)

=============================================================================
