--------------------------- MODULE ReviewAssignments ---------------------------
(***************************************************************************)
(* The reviewers of one pitch: assignReviewer and revokeReviewer of         *)
(* admin-pitches.service.ts and the handlers of reviewer.service.ts.  Who   *)
(* is a reviewer, and active, is the state of AdminRoles.  Rate limits,     *)
(* audit rows and e-mails are left out.                                    *)
(***************************************************************************)
EXTENDS AdminRoles

CONSTANTS
  MaxSubmissions, \* bound: the submissions the pitch goes through
  MaxAssignments, \* bound: rows of pitch_review_assignments
  Declarations    \* bound: the conflict statuses reviewers declare

ASSUME ReviewConstants ==
  /\ MaxSubmissions \in Nat \ {0} /\ MaxAssignments \in Nat \ {0}
  /\ Declarations \subseteq {"NO_CONFLICT", "POTENTIAL_CONFLICT", "CONFIRMED_CONFLICT"}

VARIABLES
  submissions, \* how many submissions the pitch has; the last is the newest
  assigned,    \* the rows of pitch_review_assignments
  reviews      \* the pairs with a row of pitch_reviews

reviewVars == <<submissions, assigned, reviews>>

ReviewAssignmentStatus == {"ASSIGNED", "ACCEPTED", "DECLINED", "COMPLETED", "REVOKED"}
ConflictStatus == {"NOT_DECLARED", "NO_CONFLICT", "POTENTIAL_CONFLICT", "CONFIRMED_CONFLICT"}

\* unique(submissionId, reviewerId): the pair is the name of the row.
Pairs == (1..MaxSubmissions) \X Users

NoAssignment == [status |-> "NONE", conflict |-> "NOT_DECLARED"]
Assignment == [status : ReviewAssignmentStatus, conflict : ConflictStatus]

\* Slips (Bug_...) that no action uses stand before what they would replace.
Bug_AnyId(p) == TRUE
IsAssigned(p) == assigned[p] # NoAssignment

ReviewRequest ==
  [step : {"roles", "status", "create", "accept", "readReview", "review"}, pair : Pairs]

\* Stage3ScopeService.assertReviewer: an active account with the role.
IsReviewer(u) == Holds(getUserRoles(u), "REVIEWER")
ActiveReviewer(u) == IsReviewer(u) /\ accounts[u] = "ACTIVE"

Admins == {u \in Users : isAnyAdmin(getUserRoles(u))}

--------------------------------------------------------------------------------
(* Guards with a slip of each (Bug_...) that no action uses.                 *)

Bug_UndeclaredMayReview(p) == assigned[p].conflict # "CONFIRMED_CONFLICT"
Bug_ConflictIgnored(p) == assigned[p].conflict # "NOT_DECLARED"
MayReview(p) == assigned[p].conflict \notin {"NOT_DECLARED", "CONFIRMED_CONFLICT"}

ReviewerActive(u) == accounts[u] = "ACTIVE"

PairFree(p) == ~IsAssigned(p)

--------------------------------------------------------------------------------
(* The administrator's side.                                                 *)

\* A decision is taken and the owner submits again (PitchWorkflow).
NewSubmission(r) ==
  /\ submissions < MaxSubmissions
  /\ AtOnce(r)
  /\ submissions' = submissions + 1
  /\ UNCHANGED <<assigned, reviews, adminVars>>

\* assignReviewer(): the newest submission, then the roles, then the account,
\* then the row; each after an await of its own.
BeginAssignReviewer(r) ==
  /\ submissions > 0 /\ Admins # {}
  /\ \E u \in Users : Begin(r, [step |-> "roles", pair |-> <<submissions, u>>])
  /\ UNCHANGED <<reviewVars, adminVars>>

CheckRoles(r) ==
  /\ At(r, "roles")
  /\ IF IsReviewer(reqs[r].pair[2]) THEN Keep(r, [reqs[r] EXCEPT !.step = "status"])
                                    ELSE Finish(r)
  /\ UNCHANGED <<reviewVars, adminVars>>

CheckStatus(r) ==
  /\ At(r, "status")
  /\ IF ReviewerActive(reqs[r].pair[2]) THEN Keep(r, [reqs[r] EXCEPT !.step = "create"])
                                        ELSE Finish(r)
  /\ UNCHANGED <<reviewVars, adminVars>>

\* The insert fails on the unique index when the pair has a row, also a revoked
\* one.  Bound: MaxAssignments rows.
CreateReviewAssignment(r) ==
  /\ At(r, "create")
  /\ \/ /\ PairFree(reqs[r].pair)
        /\ Cardinality({p \in Pairs : IsAssigned(p)}) < MaxAssignments
        /\ assigned' = [assigned EXCEPT ![reqs[r].pair] =
                          [status |-> "ASSIGNED", conflict |-> "NOT_DECLARED"]]
     \/ /\ \/ ~PairFree(reqs[r].pair)
           \/ Cardinality({p \in Pairs : IsAssigned(p)}) >= MaxAssignments
        /\ UNCHANGED assigned
  /\ Finish(r)
  /\ UNCHANGED <<submissions, reviews, adminVars>>

Bug_RevokeDeletes(r) ==
  /\ Admins # {}
  /\ AtOnce(r)
  /\ \E p \in Pairs :
        /\ IsAssigned(p)
        /\ assigned' = [assigned EXCEPT ![p] = NoAssignment]
  /\ UNCHANGED <<submissions, reviews, adminVars>>

\* revokeReviewer(): an update by id, whatever the status.
RevokeReviewer(r) ==
  /\ Admins # {}
  /\ AtOnce(r)
  /\ \E p \in Pairs :
        /\ IsAssigned(p)
        /\ assigned' = [assigned EXCEPT ![p].status = "REVOKED"]
  /\ UNCHANGED <<submissions, reviews, adminVars>>

--------------------------------------------------------------------------------
(* The reviewer's side.  Only submitReview asks for the role.                *)

\* accept(): refused with a confirmed conflict; the status is not looked at.
BeginAccept(r) ==
  /\ \E p \in Pairs :
        /\ IsAssigned(p) /\ assigned[p].conflict # "CONFIRMED_CONFLICT"
        /\ Begin(r, [step |-> "accept", pair |-> p])
  /\ UNCHANGED <<reviewVars, adminVars>>

CommitAccept(r) ==
  /\ At(r, "accept")
  /\ assigned' = [assigned EXCEPT ![reqs[r].pair].status = "ACCEPTED"]
  /\ Finish(r)
  /\ UNCHANGED <<submissions, reviews, adminVars>>

Decline(r) ==
  /\ AtOnce(r)
  /\ \E p \in Pairs :
        /\ IsAssigned(p)
        /\ assigned' = [assigned EXCEPT ![p].status = "DECLINED"]
  /\ UNCHANGED <<submissions, reviews, adminVars>>

\* declareConflict(): any status but NOT_DECLARED, at any time.
DeclareConflict(r) ==
  /\ AtOnce(r)
  /\ \E p \in Pairs, c \in Declarations :
        /\ IsAssigned(p)
        /\ assigned' = [assigned EXCEPT ![p].conflict = c]
  /\ UNCHANGED <<submissions, reviews, adminVars>>

\* submitReview(): the guard's role and status, after the rate limit's await
\* the declaration, then the transaction.
BeginReview(r) ==
  /\ \E p \in Pairs :
        /\ IsAssigned(p) /\ ActiveReviewer(p[2])
        /\ Begin(r, [step |-> "readReview", pair |-> p])
  /\ UNCHANGED <<reviewVars, adminVars>>

ReadReview(r) ==
  /\ At(r, "readReview")
  /\ IF MayReview(reqs[r].pair) THEN Keep(r, [reqs[r] EXCEPT !.step = "review"])
                                ELSE Finish(r)
  /\ UNCHANGED <<reviewVars, adminVars>>

\* The review and the status in one transaction, which the unique index on the
\* assignment lets through once.
CommitReview(r) ==
  /\ At(r, "review")
  /\ \/ /\ reqs[r].pair \notin reviews
        /\ reviews' = reviews \union {reqs[r].pair}
        /\ assigned' = [assigned EXCEPT ![reqs[r].pair].status = "COMPLETED"]
     \/ /\ reqs[r].pair \in reviews
        /\ UNCHANGED <<reviews, assigned>>
  /\ Finish(r)
  /\ UNCHANGED <<submissions, adminVars>>

--------------------------------------------------------------------------------
InitReviews ==
  /\ submissions = 0
  /\ assigned = [p \in Pairs |-> NoAssignment]
  /\ reviews = {}

ReviewStep(r) ==
  \/ NewSubmission(r) \/ BeginAssignReviewer(r) \/ CheckRoles(r) \/ CheckStatus(r)
  \/ CreateReviewAssignment(r) \/ RevokeReviewer(r)
  \/ BeginAccept(r) \/ CommitAccept(r) \/ Decline(r) \/ DeclareConflict(r)
  \/ BeginReview(r) \/ ReadReview(r) \/ CommitReview(r)

TypeOKReviews ==
  /\ submissions \in 0..MaxSubmissions
  /\ assigned \in [Pairs -> Assignment \union {NoAssignment}]
  /\ reviews \subseteq Pairs

--------------------------------------------------------------------------------
(* Properties.                                                               *)

\* However the calls overlap, a review belongs to an assignment whose reviewer
\* has declared a conflict status (submitReview, declareConflict), and a
\* completed assignment has its review (one transaction).
ReviewsBacked ==
  \A p \in Pairs :
     /\ p \in reviews => IsAssigned(p) /\ assigned[p].conflict # "NOT_DECLARED"
     /\ assigned[p].status = "COMPLETED" => p \in reviews

\* Without overlap nobody reviews with a conflict confirmed before the review
\* (reviewer.service.ts:163).
ConflictRespected ==
  [][~overlapped' => \A p \in reviews' \ reviews : assigned[p].conflict # "CONFIRMED_CONFLICT"]_
    <<reviewVars, adminVars, slots>>
================================================================================
