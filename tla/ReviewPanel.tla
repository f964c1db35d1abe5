------------------------------ MODULE ReviewPanel ------------------------------
(***************************************************************************)
(* The administration of accounts and roles composed with the reviews that  *)
(* rest on it: the requests of both overlap in any way, and each may be cut  *)
(* short between two statements.                                           *)
(***************************************************************************)
EXTENDS ReviewAssignments

panelVars == <<slots, adminVars, reviewVars>>

Init == InitSlots /\ InitAdmin /\ InitReviews

Next ==
  \E r \in Requests :
     \/ AdminStep(r) /\ UNCHANGED reviewVars
     \/ ReviewStep(r)
     \/ Crash(r) /\ UNCHANGED <<adminVars, reviewVars>>

Spec == Init /\ [][Next]_panelVars

TypeOK ==
  /\ reqs \in [Requests -> {Idle} \union AdminRequest \union ReviewRequest]
  /\ overlapped \in BOOLEAN
  /\ TypeOKAdmin
  /\ TypeOKReviews

\* The panel implements the abstract engagement of reviewers.
Engagement == INSTANCE ReviewEngagement
  WITH asked <- {p \in Pairs : IsAssigned(p)}, reviewed <- reviews

EngagementImplemented == Engagement!Spec
================================================================================
