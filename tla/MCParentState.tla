--------------------------- MODULE MCParentState ---------------------------
(***************************************************************************)
(* ParentState with a few rows and requests for TLC.                       *)
(***************************************************************************)
EXTENDS ParentState, TLC

RowSymmetry == Permutations(Tasks) \cup Permutations(Parents) \cup Permutations(Requests)

=============================================================================
