---------------------------- MODULE MCMembership ----------------------------
(***************************************************************************)
(* A small instance of Membership: two users.                              *)
(***************************************************************************)
EXTENDS Membership

CONSTANTS ann, bob

MCUser == {ann, bob}
=============================================================================
