---------------------------- MODULE MCRelayPass ----------------------------
(***************************************************************************)
(* RelayPass with a handful of calls for TLC.                              *)
(***************************************************************************)
EXTENDS RelayPass, TLC

CallSymmetry == Permutations(Calls)

=============================================================================
