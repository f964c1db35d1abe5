----------------------------- MODULE MCReviewPanel -----------------------------
(***************************************************************************)
(* An instance of ReviewPanel for TLC.                                     *)
(***************************************************************************)
EXTENDS ReviewPanel, TLC

CONSTANTS u1, u2, s1

MCHomeState == u1 :> NoState @@ u2 :> s1

Dto(role, scope, state) == [role |-> role, scopeType |-> scope, ng |-> FALSE, state |-> state]

MCGrants == {Dto("SUPER_ADMIN", "GLOBAL", NoState), Dto("REVIEWER", "GLOBAL", s1)}

Symmetry == Permutations(Requests) \union Permutations(Rows)
================================================================================
