---------------------------- MODULE MCMembership ----------------------------
(* Constants of the Membership runs.                                       *)
EXTENDS Membership

MCNodes == {1, 2}
=============================================================================
