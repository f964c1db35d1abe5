----------------------------- MODULE PitchLifecycle -----------------------------
(***************************************************************************)
(* The life cycle README.md describes: a pitch moves along the contract's  *)
(* transition table, and its newest submission follows the decisions.      *)
(***************************************************************************)
EXTENDS PitchDomain

VARIABLES
  status,   \* the pitch's status
  latest    \* the review status of its newest submission, "NONE" before the first

vars == <<status, latest>>

Init == status = "DRAFT" /\ latest = "NONE"

Submit ==
  /\ canTransitionPitch(status, "SUBMITTED")
  /\ status' = "SUBMITTED"
  /\ latest' = "SUBMITTED"

Withdraw ==
  /\ canTransitionPitch(status, "WITHDRAWN")
  /\ status' = "WITHDRAWN"
  /\ UNCHANGED latest

\* Only the submission that carries the pitch's own status is decided.
Decide(to) ==
  /\ canTransitionPitch(status, to)
  /\ latest = status
  /\ status' = to
  /\ latest' = to

Next == Submit \/ Withdraw \/ \E to \in Decisions : Decide(to)

Spec == Init /\ [][Next]_vars
================================================================================
