------------------------- MODULE MCSponsorVerification -------------------------
(***************************************************************************)
(* An instance of SponsorVerification for TLC.                             *)
(***************************************************************************)
EXTENDS SponsorVerification, TLC

CONSTANT s1

MCAdminRoles == {{[role |-> "STATE_ADMIN", state |-> s1]}, {[role |-> "REVIEWER", state |-> NoState]}}

Symmetry == Permutations(Requests) \union Permutations(Users)
================================================================================
