---------------------------- MODULE MCMembership ----------------------------
(***************************************************************************)
(* Membership with a few invitations, users and requests for TLC.  Nothing *)
(* tells the invitations, the founders or the requests apart.              *)
(***************************************************************************)
EXTENDS Membership, TLC

MembershipSymmetry == Permutations(Invitations) \cup Permutations(Founders) \cup Permutations(Requests)

=============================================================================
