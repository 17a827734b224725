--------------------------- MODULE MCIdempotency ---------------------------
(***************************************************************************)
(* Idempotency with a few requests for TLC.                                *)
(***************************************************************************)
EXTENDS Idempotency, TLC

RequestSymmetry == Permutations(Requests) \cup Permutations(Bodies)

=============================================================================
