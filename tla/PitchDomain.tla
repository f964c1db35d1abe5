------------------------------ MODULE PitchDomain ------------------------------
(***************************************************************************)
(* The status workflow of a pitch, as the shared contracts package defines *)
(* it (packages/contracts/src/stage3-domain.ts, stage3-enums.ts).  Both    *)
(* the API handlers and the abstract life cycle are written against it.    *)
(***************************************************************************)

PitchStatus == {"DRAFT", "SUBMITTED", "UNDER_REVIEW", "CHANGES_REQUESTED",
                "APPROVED", "REJECTED", "WITHDRAWN", "ARCHIVED"}

PITCH_TRANSITIONS ==
  [s \in PitchStatus |->
     CASE s = "DRAFT"             -> {"SUBMITTED"}
       [] s = "SUBMITTED"         -> {"UNDER_REVIEW", "WITHDRAWN"}
       [] s = "UNDER_REVIEW"      -> {"CHANGES_REQUESTED", "APPROVED", "REJECTED"}
       [] s = "CHANGES_REQUESTED" -> {"SUBMITTED"}
       [] s \in {"APPROVED", "REJECTED", "WITHDRAWN"} -> {"ARCHIVED"}
       [] s = "ARCHIVED"          -> {}]

canTransitionPitch(from, to) == to \in PITCH_TRANSITIONS[from]

\* The statuses a pitch takes from an administrator's decision, which the
\* same transaction writes on a submission.
Decisions == {"UNDER_REVIEW", "CHANGES_REQUESTED", "APPROVED", "REJECTED"}
================================================================================
