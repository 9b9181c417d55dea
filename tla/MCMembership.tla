---------------------------- MODULE MCMembership ----------------------------
(***************************************************************************)
(* Instances of Membership for TLC.                                        *)
(***************************************************************************)
EXTENDS Membership, TLC

Symmetry == Permutations(User) \cup Permutations(Org) \cup Permutations(Invitation)
=============================================================================
