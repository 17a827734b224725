--------------------------- MODULE MCOutboxRelay ---------------------------
(***************************************************************************)
(* OutboxRelay on small instances for TLC.                                 *)
(***************************************************************************)
EXTENDS OutboxRelay, TLC

CONSTANTS r1, r2, w1, w2

MCHints == {-1, 5}
RowAndRelaySymmetry == Permutations(Rows) \cup Permutations(Relays)

=============================================================================
