-------------------------- MODULE MCIterationScope --------------------------
(***************************************************************************)
(* IterationScope with a few rows and requests for TLC.                    *)
(***************************************************************************)
EXTENDS IterationScope, TLC

ScopeSymmetry ==
    Permutations(Stories) \cup Permutations(Tasks) \cup Permutations(Iterations) \cup Permutations(Requests)

=============================================================================
