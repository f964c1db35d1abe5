---------------------------- MODULE ReviewEngagement ---------------------------
(***************************************************************************)
(* What the panel promises, without requests, roles or statuses: a reviewer *)
(* is asked at most once about a submission, reviews it at most once and    *)
(* only after being asked, and a review is never taken back.               *)
(***************************************************************************)
CONSTANT Pairs \* a submission and a reviewer

VARIABLES asked, reviewed

Init == asked = {} /\ reviewed = {}

Ask(p) == p \notin asked /\ asked' = asked \union {p} /\ UNCHANGED reviewed

Review(p) ==
  /\ p \in asked \ reviewed
  /\ reviewed' = reviewed \union {p}
  /\ UNCHANGED asked

Next == \E p \in Pairs : Ask(p) \/ Review(p)

Spec == Init /\ [][Next]_<<asked, reviewed>>
================================================================================
