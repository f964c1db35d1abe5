---------------------------- MODULE MCPitchWorkflow ----------------------------
(***************************************************************************)
(* Instances of PitchWorkflow for TLC.                                     *)
(***************************************************************************)
EXTENDS PitchWorkflow, TLC

Symmetry == Permutations(Requests)
================================================================================
