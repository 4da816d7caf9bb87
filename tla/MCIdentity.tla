------------------------------ MODULE MCIdentity ------------------------------
(***************************************************************************)
(* A small instance of Identity: two invitations and two owner requests.   *)
(***************************************************************************)
EXTENDS Identity, TLC

IdentitySymmetry == Permutations(Pins) \cup Permutations(Invites) \cup Permutations(Requests)
=============================================================================
