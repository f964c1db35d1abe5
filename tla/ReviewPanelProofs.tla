--------------------------- MODULE ReviewPanelProofs ---------------------------
(***************************************************************************)
(* Proofs about ReviewPanel for any number of overlapping requests, users    *)
(* and submissions: the types, that every review has its declared            *)
(* assignment, and that the panel implements ReviewEngagement; and, while no *)
(* two requests overlap, that roles are held once, that a super              *)
(* administrator remains, and that conflicts of interest are respected.      *)
(***************************************************************************)
EXTENDS ReviewPanel, FiniteSetTheorems, TLAPS

Slot == {Idle} \union AdminRequest \union ReviewRequest

Declared(p) == assigned[p].conflict # "NOT_DECLARED"

\* What a request in flight still knows although others have written since:
\* assignments stay, and no declaration is withdrawn.
RequestKnows(q) ==
  /\ q.step \in {"accept", "readReview", "review"} => IsAssigned(q.pair)
  /\ q.step = "review" => Declared(q.pair)

SlotsOK == reqs \in [Requests -> Slot] /\ overlapped \in BOOLEAN

\* The inductive invariant.
PInv ==
  /\ SlotsOK /\ TypeOKAdmin /\ TypeOKReviews
  /\ \A r \in Requests : RequestKnows(reqs[r])
  /\ ReviewsBacked

\* Rows of assignments stay, and so do their declarations.
AssignmentsGrow ==
  \A p \in Pairs : IsAssigned(p) => IsAssigned(p)' /\ (Declared(p) => Declared(p)')

--------------------------------------------------------------------------------
LEMMA IdleKnows == Idle \in Slot /\ RequestKnows(Idle) /\ RequestKnows(Idle)'
BY DEF Slot, Idle, RequestKnows

\* A step preserves the invariant when what it writes has its type and backs the
\* reviews, no assignment is lost and the slot's new content is sound.
LEMMA Assemble ==
  ASSUME PInv, NEW r \in Requests, NEW q \in Slot, RequestKnows(q)',
         reqs' = reqs \/ reqs' = [reqs EXCEPT ![r] = q],
         overlapped' \in BOOLEAN, TypeOKAdmin', TypeOKReviews', ReviewsBacked', AssignmentsGrow
  PROVE  PInv'
<1>1. SlotsOK'
  BY DEF PInv, SlotsOK
<1>2. ASSUME NEW s \in Requests
      PROVE  RequestKnows(reqs[s])'
  <2>1. CASE reqs'[s] = q
    BY <2>1 DEF RequestKnows
  <2>2. CASE reqs'[s] = reqs[s]
    <3>1. RequestKnows(reqs[s])
      BY DEF PInv
    <3>2. reqs[s].step \in {"accept", "readReview", "review"} => reqs[s].pair \in Pairs
      BY DEF PInv, SlotsOK, Slot, Idle, AdminRequest, ReviewRequest
    <3> QED
      BY <2>2, <3>1, <3>2 DEF RequestKnows, AssignmentsGrow
  <2> QED
    BY <2>1, <2>2 DEF PInv, SlotsOK
<1> QED
  BY <1>1, <1>2 DEF PInv

\* A step of the accounts, or one that only moves a request on.
LEMMA PanelUntouched ==
  ASSUME PInv, NEW r \in Requests, NEW q \in Slot, RequestKnows(q),
         reqs' = reqs \/ reqs' = [reqs EXCEPT ![r] = q],
         overlapped' \in BOOLEAN, TypeOKAdmin', UNCHANGED reviewVars
  PROVE  PInv'
<1>1. TypeOKReviews' /\ ReviewsBacked' /\ RequestKnows(q)' /\ AssignmentsGrow
  BY DEF PInv, reviewVars, TypeOKReviews, ReviewsBacked, IsAssigned, RequestKnows, Declared,
     AssignmentsGrow
<1> QED
  BY <1>1, Assemble

\* A step that writes one assignment, and perhaps its review.
LEMMA AssignmentStep ==
  ASSUME PInv, NEW r \in Requests, NEW p \in Pairs, NEW a \in Assignment,
         reqs' = reqs \/ reqs' = [reqs EXCEPT ![r] = Idle],
         overlapped' \in BOOLEAN, UNCHANGED <<submissions, adminVars>>,
         assigned' = [assigned EXCEPT ![p] = a],
         reviews' = reviews \/ reviews' = reviews \union {p},
         IsAssigned(p) /\ Declared(p) => a.conflict # "NOT_DECLARED",
         p \in reviews' => a.conflict # "NOT_DECLARED",
         a.status = "COMPLETED" => p \in reviews'
  PROVE  PInv'
<1>1. a # NoAssignment
  BY DEF Assignment, NoAssignment, ReviewAssignmentStatus
<1>2. TypeOKAdmin' /\ TypeOKReviews'
  BY DEF PInv, adminVars, TypeOKAdmin, TypeOKReviews
<1>3. AssignmentsGrow
  BY <1>1 DEF PInv, TypeOKReviews, AssignmentsGrow, IsAssigned, Declared
<1>4. ReviewsBacked'
  <2> SUFFICES ASSUME NEW x \in Pairs
               PROVE  /\ x \in reviews' => assigned'[x] # NoAssignment
                                           /\ assigned'[x].conflict # "NOT_DECLARED"
                      /\ assigned'[x].status = "COMPLETED" => x \in reviews'
    BY DEF ReviewsBacked, IsAssigned
  <2>1. CASE x = p
    BY <1>1, <2>1 DEF PInv, TypeOKReviews
  <2>2. CASE x # p
    BY <2>2 DEF PInv, TypeOKReviews, ReviewsBacked, IsAssigned
  <2> QED
    BY <2>1, <2>2
<1> QED
  BY <1>2, <1>3, <1>4, IdleKnows, Assemble

\* An update of the status of a row writes the row.
LEMMA StatusWritten ==
  ASSUME TypeOKReviews, NEW p \in Pairs, IsAssigned(p), NEW s \in ReviewAssignmentStatus,
         assigned' = [assigned EXCEPT ![p].status = s]
  PROVE  \E a \in Assignment : /\ assigned' = [assigned EXCEPT ![p] = a]
                               /\ a.status = s /\ a.conflict = assigned[p].conflict
<1>1. PICK m \in Assignment : m = assigned[p]
  BY DEF TypeOKReviews, IsAssigned
<1>2. PICK a : a = [m EXCEPT !.status = s]
  OBVIOUS
<1>3. a \in Assignment /\ a.status = s /\ a.conflict = m.conflict
  BY <1>2 DEF Assignment
<1>4. assigned' = [assigned EXCEPT ![p] = a]
  BY <1>1, <1>2, Zenon
<1> QED
  BY <1>1, <1>3, <1>4

\* The same for the declaration.
LEMMA ConflictWritten ==
  ASSUME TypeOKReviews, NEW p \in Pairs, IsAssigned(p), NEW c \in ConflictStatus,
         assigned' = [assigned EXCEPT ![p].conflict = c]
  PROVE  \E a \in Assignment : /\ assigned' = [assigned EXCEPT ![p] = a]
                               /\ a.status = assigned[p].status /\ a.conflict = c
<1>1. PICK m \in Assignment : m = assigned[p]
  BY DEF TypeOKReviews, IsAssigned
<1>2. PICK a : a = [m EXCEPT !.conflict = c]
  OBVIOUS
<1>3. a \in Assignment /\ a.status = m.status /\ a.conflict = c
  BY <1>2 DEF Assignment
<1>4. assigned' = [assigned EXCEPT ![p] = a]
  BY <1>1, <1>2, Zenon
<1> QED
  BY <1>1, <1>3, <1>4

--------------------------------------------------------------------------------
LEMMA InitSound == Init => PInv
<1> SUFFICES ASSUME Init PROVE PInv
  OBVIOUS
<1>1. SlotsOK /\ \A r \in Requests : RequestKnows(reqs[r])
  BY IdleKnows DEF Init, InitSlots, SlotsOK
<1>2. TypeOKAdmin
  BY DEF Init, InitAdmin, TypeOKAdmin, AccountStatus
<1>3. TypeOKReviews /\ ReviewsBacked
  BY ReviewConstants DEF Init, InitReviews, TypeOKReviews, ReviewsBacked, NoAssignment
<1> QED
  BY <1>1, <1>2, <1>3 DEF PInv

LEMMA AnyGrantTyped == AnyGrant \subseteq RoleAssignmentDto
<1>1. Grants \subseteq RoleAssignmentDto
  BY AdminRolesConstants, Zenon
<1>2. SuperAdminGrant \in RoleAssignmentDto
  BY DEF SuperAdminGrant, RoleAssignmentDto, RoleType, ScopeType
<1> QED
  BY <1>1, <1>2 DEF AnyGrant

LEMMA AdminSound ==
  ASSUME PInv, NEW r \in Requests, AdminStep(r), UNCHANGED reviewVars
  PROVE  PInv'
<1> DEFINE GrantSlot == [step : {"bootUser", "grant"}, user : Users, left : SUBSET AnyGrant]
           InsertSlot == [step : {"insert"}, user : Users, left : SUBSET AnyGrant,
                          dto : AnyGrant, found : BOOLEAN]
<1>a. SlotsOK /\ TypeOKAdmin
  BY DEF PInv
<1>b. \A q \in GrantSlot : q \in Slot /\ RequestKnows(q)
  BY DEF Slot, AdminRequest, RequestKnows
<1>1. CASE BeginBootstrap(r)
  <2>1. PICK q : q = [step |-> "bootUser", user |-> FirstAdmin, left |-> {SuperAdminGrant}]
    OBVIOUS
  <2>2. q \in GrantSlot
    BY <2>1, AdminRolesConstants DEF AnyGrant
  <2>3. reqs' = [reqs EXCEPT ![r] = q] /\ overlapped' \in BOOLEAN /\ TypeOKAdmin'
    BY <1>a, <1>1, <2>1 DEF BeginBootstrap, Begin, Others, SlotsOK, TypeOKAdmin, adminVars
  <2> QED
    BY <1>b, <2>2, <2>3, PanelUntouched
<1>2. CASE BootstrapUser(r)
  <2>1. PICK b \in GrantSlot : b = reqs[r]
    BY <1>a, <1>2 DEF BootstrapUser, At, SlotsOK, Slot, Idle, AdminRequest, ReviewRequest
  <2>2. PICK q : q = [b EXCEPT !.step = "grant"]
    OBVIOUS
  <2>3. q \in GrantSlot
    BY <2>2
  <2>4. reqs' = [reqs EXCEPT ![r] = q] /\ overlapped' \in BOOLEAN /\ TypeOKAdmin'
    BY <1>a, <1>2, <2>1, <2>2 DEF BootstrapUser, Keep, SlotsOK, TypeOKAdmin, AccountStatus
  <2> QED
    BY <1>b, <2>3, <2>4, PanelUntouched
<1>3. CASE CreateUser(r)
  <2>1. PICK u \in Users, left \in SUBSET Grants :
          /\ accounts' = [accounts EXCEPT ![u] = "PENDING_VERIFICATION"]
          /\ Begin(r, [step |-> "grant", user |-> u, left |-> left])
    BY <1>3 DEF CreateUser
  <2>2. PICK q : q = [step |-> "grant", user |-> u, left |-> left]
    OBVIOUS
  <2>3. q \in GrantSlot
    BY <2>2 DEF AnyGrant
  <2>4. reqs' = [reqs EXCEPT ![r] = q] /\ overlapped' \in BOOLEAN /\ TypeOKAdmin'
    BY <1>a, <1>3, <2>1, <2>2 DEF CreateUser, Begin, Others, SlotsOK, TypeOKAdmin, AccountStatus
  <2> QED
    BY <1>b, <2>3, <2>4, PanelUntouched
<1>4. CASE BeginAssignRole(r)
  <2>1. PICK u \in Users, d \in Grants :
          Begin(r, [step |-> "grant", user |-> u, left |-> {d}])
    BY <1>4 DEF BeginAssignRole
  <2>2. PICK q : q = [step |-> "grant", user |-> u, left |-> {d}]
    OBVIOUS
  <2>3. q \in GrantSlot
    BY <2>2 DEF AnyGrant
  <2>4. reqs' = [reqs EXCEPT ![r] = q] /\ overlapped' \in BOOLEAN /\ TypeOKAdmin'
    BY <1>a, <1>4, <2>1, <2>2
       DEF BeginAssignRole, Begin, Others, SlotsOK, TypeOKAdmin, adminVars
  <2> QED
    BY <1>b, <2>3, <2>4, PanelUntouched
<1>5. CASE FindAssignment(r)
  <2>1. PICK b \in GrantSlot : b = reqs[r]
    BY <1>a, <1>5 DEF FindAssignment, At, SlotsOK, Slot, Idle, AdminRequest, ReviewRequest
  <2>2. PICK d \in b.left :
          Keep(r, [step |-> "insert", user |-> b.user, left |-> b.left \ {d}, dto |-> d,
                   found |-> existingAssignment(b.user, d)])
    BY <1>5, <2>1 DEF FindAssignment
  <2>3. PICK q : q = [step |-> "insert", user |-> b.user, left |-> b.left \ {d}, dto |-> d,
                      found |-> existingAssignment(b.user, d)]
    OBVIOUS
  <2>4. existingAssignment(b.user, d) \in BOOLEAN
    BY Zenon DEF existingAssignment
  <2>5. q \in Slot /\ RequestKnows(q)
    BY <2>1, <2>3, <2>4 DEF Slot, AdminRequest, RequestKnows
  <2>6. reqs' = [reqs EXCEPT ![r] = q] /\ overlapped' \in BOOLEAN /\ TypeOKAdmin'
    BY <1>a, <1>5, <2>2, <2>3, Zenon DEF FindAssignment, Keep, SlotsOK, TypeOKAdmin, adminVars
  <2> QED
    BY <2>5, <2>6, PanelUntouched
<1>6. CASE CreateAssignment(r)
  <2>1. PICK b \in InsertSlot : b = reqs[r]
    BY <1>a, <1>6 DEF CreateAssignment, At, SlotsOK, Slot, Idle, AdminRequest, ReviewRequest
  <2>2. PICK q : /\ reqs' = [reqs EXCEPT ![r] = q] /\ UNCHANGED overlapped
                 /\ q = Idle \/ q = [step |-> "grant", user |-> b.user, left |-> b.left]
    BY <1>6, <2>1 DEF CreateAssignment, NextGrant, Finish, Keep
  <2>3. q \in Slot /\ RequestKnows(q)
    BY <1>b, <2>2, IdleKnows
  <2>4. TypeOKAdmin'
    <3>1. CASE UNCHANGED adminVars
      BY <1>a, <3>1 DEF adminVars, TypeOKAdmin
    <3>2. ASSUME NEW w \in Rows, UNCHANGED accounts,
                 rows' = [rows EXCEPT ![w] = [user |-> b.user, role |-> b.dto.role,
                                              state |-> b.dto.state]]
          PROVE  TypeOKAdmin'
      <4>1. b.dto \in RoleAssignmentDto
        BY AnyGrantTyped
      <4>2. [user |-> b.user, role |-> b.dto.role, state |-> b.dto.state] \in RoleRow
        BY <4>1 DEF RoleAssignmentDto, RoleRow
      <4> QED
        BY <1>a, <3>2, <4>2 DEF TypeOKAdmin
    <3> QED
      BY <1>6, <2>1, <3>1, <3>2 DEF CreateAssignment
  <2> QED
    BY <1>a, <2>2, <2>3, <2>4, PanelUntouched DEF SlotsOK
<1>7. CASE OutOfRows(r)
  BY <1>a, <1>7, IdleKnows, PanelUntouched
     DEF OutOfRows, Finish, Keep, SlotsOK, TypeOKAdmin, adminVars
<1>8. CASE BeginRevokeRole(r)
  <2>1. PICK w \in Rows : Begin(r, [step |-> "revoke", row |-> w])
    BY <1>8 DEF BeginRevokeRole
  <2>2. PICK q : q = [step |-> "revoke", row |-> w]
    OBVIOUS
  <2>3. q \in Slot /\ RequestKnows(q)
    BY <2>2 DEF Slot, AdminRequest, RequestKnows
  <2>4. reqs' = [reqs EXCEPT ![r] = q] /\ overlapped' \in BOOLEAN /\ TypeOKAdmin'
    BY <1>a, <1>8, <2>1, <2>2
       DEF BeginRevokeRole, Begin, Others, SlotsOK, TypeOKAdmin, adminVars
  <2> QED
    BY <2>3, <2>4, PanelUntouched
<1>9. CASE CommitRevokeRole(r)
  <2>1. TypeOKAdmin'
    BY <1>a, <1>9 DEF CommitRevokeRole, TypeOKAdmin
  <2> QED
    BY <1>a, <1>9, <2>1, IdleKnows, PanelUntouched DEF CommitRevokeRole, Finish, Keep, SlotsOK
<1>10. CASE BeginUpdateStatus(r)
  <2>1. PICK u \in Users, st \in StatusInputs :
          Begin(r, [step |-> "setStatus", user |-> u, status |-> st])
    BY <1>10 DEF BeginUpdateStatus
  <2>2. PICK q : q = [step |-> "setStatus", user |-> u, status |-> st]
    OBVIOUS
  <2>3. q \in Slot /\ RequestKnows(q)
    BY <2>2 DEF Slot, AdminRequest, RequestKnows
  <2>4. reqs' = [reqs EXCEPT ![r] = q] /\ overlapped' \in BOOLEAN /\ TypeOKAdmin'
    BY <1>a, <1>10, <2>1, <2>2
       DEF BeginUpdateStatus, Begin, Others, SlotsOK, TypeOKAdmin, adminVars
  <2> QED
    BY <2>3, <2>4, PanelUntouched
<1>11. CASE CommitUpdateStatus(r)
  <2>1. reqs[r].status \in AccountStatus
    <3>1. reqs[r].status \in StatusInputs
      BY <1>a, <1>11 DEF CommitUpdateStatus, At, SlotsOK, Slot, Idle, AdminRequest, ReviewRequest
    <3>2. StatusInputs \subseteq {"ACTIVE", "SUSPENDED", "DEACTIVATED"}
      BY AdminRolesConstants, Zenon
    <3> QED
      BY <3>1, <3>2 DEF AccountStatus
  <2>2. TypeOKAdmin'
    BY <1>a, <1>11, <2>1 DEF CommitUpdateStatus, TypeOKAdmin
  <2> QED
    BY <1>a, <1>11, <2>2, IdleKnows, PanelUntouched DEF CommitUpdateStatus, Finish, Keep, SlotsOK
<1> QED
  BY <1>1, <1>2, <1>3, <1>4, <1>5, <1>6, <1>7, <1>8, <1>9, <1>10, <1>11 DEF AdminStep

--------------------------------------------------------------------------------
(* The reviews: every step preserves the invariant and is a step of the       *)
(* abstract engagement or leaves it alone.                                  *)

Engages == [Engagement!Next]_<<{p \in Pairs : IsAssigned(p)}, reviews>>

\* A step that writes an assignment which is there engages nobody.
LEMMA NobodyAsked ==
  ASSUME PInv, NEW p \in Pairs, NEW a \in Assignment, IsAssigned(p),
         assigned' = [assigned EXCEPT ![p] = a]
  PROVE  {x \in Pairs : IsAssigned(x)}' = {x \in Pairs : IsAssigned(x)}
<1>1. a # NoAssignment
  BY DEF Assignment, NoAssignment, ReviewAssignmentStatus
<1> QED
  BY <1>1 DEF PInv, TypeOKReviews, IsAssigned

\* A step that only moves a request on.
LEMMA QuietReview ==
  ASSUME PInv, NEW r \in Requests, NEW q \in Slot, RequestKnows(q),
         reqs' = reqs \/ reqs' = [reqs EXCEPT ![r] = q],
         overlapped' \in BOOLEAN, UNCHANGED <<assigned, reviews, adminVars>>,
         submissions' \in 0..MaxSubmissions
  PROVE  PInv' /\ Engages
<1>1. TypeOKReviews' /\ ReviewsBacked' /\ RequestKnows(q)' /\ AssignmentsGrow /\ TypeOKAdmin'
  BY DEF PInv, adminVars, TypeOKAdmin, TypeOKReviews, ReviewsBacked, IsAssigned, RequestKnows,
     Declared, AssignmentsGrow
<1>2. {x \in Pairs : IsAssigned(x)}' = {x \in Pairs : IsAssigned(x)}
  BY DEF IsAssigned
<1> QED
  BY <1>1, <1>2, Assemble DEF Engages

LEMMA AssigningSound ==
  ASSUME PInv, NEW r \in Requests,
         \/ NewSubmission(r) \/ BeginAssignReviewer(r) \/ CheckRoles(r) \/ CheckStatus(r)
         \/ CreateReviewAssignment(r) \/ RevokeReviewer(r)
  PROVE  PInv' /\ Engages
<1> USE DEF reviewVars
<1>a. SlotsOK /\ TypeOKReviews /\ submissions \in 0..MaxSubmissions /\ MaxSubmissions \in Nat
  BY ReviewConstants DEF PInv, TypeOKReviews
<1>1. CASE NewSubmission(r)
  <2>1. submissions' \in 0..MaxSubmissions /\ overlapped' \in BOOLEAN
    BY <1>a, <1>1 DEF NewSubmission, AtOnce, Others, SlotsOK
  <2> QED
    BY <1>1, <2>1, IdleKnows, QuietReview DEF NewSubmission, AtOnce
<1>2. CASE BeginAssignReviewer(r)
  <2>1. PICK u \in Users : Begin(r, [step |-> "roles", pair |-> <<submissions, u>>])
    BY <1>2 DEF BeginAssignReviewer
  <2>2. PICK q : q = [step |-> "roles", pair |-> <<submissions, u>>]
    OBVIOUS
  <2>3. <<submissions, u>> \in Pairs
    BY <1>a, <1>2 DEF BeginAssignReviewer, Pairs
  <2>4. q \in Slot /\ RequestKnows(q)
    BY <2>2, <2>3 DEF Slot, ReviewRequest, RequestKnows
  <2>5. reqs' = [reqs EXCEPT ![r] = q] /\ overlapped' \in BOOLEAN
    BY <1>a, <2>1, <2>2 DEF Begin, SlotsOK, Others
  <2> QED
    BY <1>a, <1>2, <2>4, <2>5, QuietReview DEF BeginAssignReviewer
<1>3. CASE CheckRoles(r) \/ CheckStatus(r)
  <2>1. PICK b \in [step : {"roles", "status"}, pair : Pairs] : b = reqs[r]
    BY <1>a, <1>3
       DEF CheckRoles, CheckStatus, At, SlotsOK, Slot, Idle, AdminRequest, ReviewRequest
  <2>2. PICK q : /\ reqs' = [reqs EXCEPT ![r] = q] /\ UNCHANGED overlapped
                 /\ q = Idle \/ \E s \in {"status", "create"} : q = [b EXCEPT !.step = s]
    BY <1>3, <2>1 DEF CheckRoles, CheckStatus, Keep, Finish
  <2>3. q \in Slot /\ RequestKnows(q)
    BY <2>2, IdleKnows DEF Slot, ReviewRequest, RequestKnows
  <2> QED
    BY <1>a, <1>3, <2>2, <2>3, QuietReview DEF CheckRoles, CheckStatus, SlotsOK
<1>4. CASE CreateReviewAssignment(r)
  <2>1. reqs' = [reqs EXCEPT ![r] = Idle] /\ overlapped' \in BOOLEAN
        /\ UNCHANGED <<submissions, reviews, adminVars>>
    BY <1>a, <1>4 DEF CreateReviewAssignment, Finish, Keep, SlotsOK
  <2>2. CASE UNCHANGED assigned
    BY <1>a, <2>1, <2>2, IdleKnows, QuietReview
  <2>3. CASE /\ PairFree(reqs[r].pair)
             /\ assigned' = [assigned EXCEPT ![reqs[r].pair] =
                               [status |-> "ASSIGNED", conflict |-> "NOT_DECLARED"]]
    <3>1. PICK p \in Pairs : p = reqs[r].pair
      BY <1>a, <1>4
         DEF CreateReviewAssignment, At, SlotsOK, Slot, Idle, AdminRequest, ReviewRequest
    <3>2. PICK a : a = [status |-> "ASSIGNED", conflict |-> "NOT_DECLARED"]
      OBVIOUS
    <3>3. /\ a \in Assignment /\ a.status # "COMPLETED" /\ a # NoAssignment
          /\ assigned' = [assigned EXCEPT ![p] = a]
      BY <2>3, <3>1, <3>2
         DEF Assignment, ReviewAssignmentStatus, ConflictStatus, NoAssignment
    <3>4. ~IsAssigned(p) /\ p \notin reviews
      BY <2>3, <3>1 DEF PairFree, PInv, ReviewsBacked
    <3>5. PInv'
      BY <2>1, <3>3, <3>4, AssignmentStep
    <3>6. {x \in Pairs : IsAssigned(x)}' = {x \in Pairs : IsAssigned(x)} \union {p}
      BY <1>a, <3>3 DEF TypeOKReviews, IsAssigned
    <3>7. Engagement!Ask(p)
      BY <2>1, <3>4, <3>6 DEF Engagement!Ask
    <3> QED
      BY <3>5, <3>7 DEF Engages, Engagement!Next
  <2> QED
    BY <1>4, <2>2, <2>3 DEF CreateReviewAssignment
<1>5. CASE RevokeReviewer(r)
  <2>1. PICK p \in Pairs : IsAssigned(p) /\ assigned' = [assigned EXCEPT ![p].status = "REVOKED"]
    BY <1>5 DEF RevokeReviewer
  <2>2. "REVOKED" \in ReviewAssignmentStatus
    BY DEF ReviewAssignmentStatus
  <2>3. PICK a \in Assignment : /\ assigned' = [assigned EXCEPT ![p] = a]
                                /\ a.status = "REVOKED" /\ a.conflict = assigned[p].conflict
    BY <1>a, <2>1, <2>2, StatusWritten
  <2>4. reqs' = reqs /\ overlapped' \in BOOLEAN /\ UNCHANGED <<submissions, reviews, adminVars>>
    BY <1>a, <1>5 DEF RevokeReviewer, AtOnce, Others, SlotsOK
  <2>5. (IsAssigned(p) /\ Declared(p)) \/ p \in reviews' => a.conflict # "NOT_DECLARED"
    BY <2>3, <2>4 DEF Declared, PInv, ReviewsBacked
  <2>6. PInv'
    BY <2>3, <2>4, <2>5, AssignmentStep
  <2> QED
    BY <2>1, <2>3, <2>4, <2>6, NobodyAsked DEF Engages
<1> QED
  BY <1>1, <1>2, <1>3, <1>4, <1>5

LEMMA ReviewingSound ==
  ASSUME PInv, NEW r \in Requests,
         \/ BeginAccept(r) \/ CommitAccept(r) \/ Decline(r) \/ DeclareConflict(r)
         \/ BeginReview(r) \/ ReadReview(r) \/ CommitReview(r)
  PROVE  PInv' /\ Engages
<1> USE DEF reviewVars
<1>a. SlotsOK /\ TypeOKReviews /\ submissions \in 0..MaxSubmissions
  BY DEF PInv, TypeOKReviews
<1>1. CASE BeginAccept(r) \/ BeginReview(r)
  <2>1. PICK p \in Pairs, s \in {"accept", "readReview"} :
          IsAssigned(p) /\ Begin(r, [step |-> s, pair |-> p])
    BY <1>1 DEF BeginAccept, BeginReview
  <2>2. PICK q : q = [step |-> s, pair |-> p]
    OBVIOUS
  <2>3. q \in Slot /\ RequestKnows(q)
    BY <2>1, <2>2 DEF Slot, ReviewRequest, RequestKnows
  <2>4. reqs' = [reqs EXCEPT ![r] = q] /\ overlapped' \in BOOLEAN
    BY <1>a, <2>1, <2>2 DEF Begin, SlotsOK, Others
  <2> QED
    BY <1>a, <1>1, <2>3, <2>4, QuietReview DEF BeginAccept, BeginReview
<1>2. CASE CommitAccept(r)
  <2>1. PICK p \in Pairs : p = reqs[r].pair
    BY <1>a, <1>2 DEF CommitAccept, At, SlotsOK, Slot, Idle, AdminRequest, ReviewRequest
  <2>2. IsAssigned(p) /\ assigned' = [assigned EXCEPT ![p].status = "ACCEPTED"]
    BY <1>2, <2>1 DEF CommitAccept, At, PInv, RequestKnows
  <2>3. "ACCEPTED" \in ReviewAssignmentStatus
    BY DEF ReviewAssignmentStatus
  <2>4. PICK a \in Assignment : /\ assigned' = [assigned EXCEPT ![p] = a]
                                /\ a.status = "ACCEPTED" /\ a.conflict = assigned[p].conflict
    BY <1>a, <2>2, <2>3, StatusWritten
  <2>5. /\ reqs' = [reqs EXCEPT ![r] = Idle] /\ overlapped' \in BOOLEAN
        /\ UNCHANGED <<submissions, reviews, adminVars>>
    BY <1>a, <1>2 DEF CommitAccept, Finish, Keep, SlotsOK
  <2>6. (IsAssigned(p) /\ Declared(p)) \/ p \in reviews' => a.conflict # "NOT_DECLARED"
    BY <2>4, <2>5 DEF Declared, PInv, ReviewsBacked
  <2>7. PInv'
    BY <2>4, <2>5, <2>6, AssignmentStep
  <2> QED
    BY <2>2, <2>4, <2>5, <2>7, NobodyAsked DEF Engages
<1>3. CASE Decline(r)
  <2>1. PICK p \in Pairs : IsAssigned(p) /\ assigned' = [assigned EXCEPT ![p].status = "DECLINED"]
    BY <1>3 DEF Decline
  <2>2. "DECLINED" \in ReviewAssignmentStatus
    BY DEF ReviewAssignmentStatus
  <2>3. PICK a \in Assignment : /\ assigned' = [assigned EXCEPT ![p] = a]
                                /\ a.status = "DECLINED" /\ a.conflict = assigned[p].conflict
    BY <1>a, <2>1, <2>2, StatusWritten
  <2>4. reqs' = reqs /\ overlapped' \in BOOLEAN /\ UNCHANGED <<submissions, reviews, adminVars>>
    BY <1>a, <1>3 DEF Decline, AtOnce, Others, SlotsOK
  <2>5. (IsAssigned(p) /\ Declared(p)) \/ p \in reviews' => a.conflict # "NOT_DECLARED"
    BY <2>3, <2>4 DEF Declared, PInv, ReviewsBacked
  <2>6. PInv'
    BY <2>3, <2>4, <2>5, AssignmentStep
  <2> QED
    BY <2>1, <2>3, <2>4, <2>6, NobodyAsked DEF Engages
<1>4. CASE DeclareConflict(r)
  <2>1. PICK p \in Pairs, c \in Declarations :
          IsAssigned(p) /\ assigned' = [assigned EXCEPT ![p].conflict = c]
    BY <1>4 DEF DeclareConflict
  <2>2. c \in ConflictStatus /\ c # "NOT_DECLARED"
    BY ReviewConstants DEF ConflictStatus
  <2>3. PICK a \in Assignment : /\ assigned' = [assigned EXCEPT ![p] = a]
                                /\ a.status = assigned[p].status /\ a.conflict = c
    BY <1>a, <2>1, <2>2, ConflictWritten
  <2>4. reqs' = reqs /\ overlapped' \in BOOLEAN /\ UNCHANGED <<submissions, reviews, adminVars>>
    BY <1>a, <1>4 DEF DeclareConflict, AtOnce, Others, SlotsOK
  <2>5. a.status = "COMPLETED" => p \in reviews'
    BY <2>3, <2>4 DEF PInv, ReviewsBacked
  <2>6. PInv'
    BY <2>2, <2>3, <2>4, <2>5, AssignmentStep
  <2> QED
    BY <2>1, <2>3, <2>4, <2>6, NobodyAsked DEF Engages
<1>5. CASE ReadReview(r)
  <2>1. PICK b \in [step : {"readReview"}, pair : Pairs] : b = reqs[r]
    BY <1>a, <1>5 DEF ReadReview, At, SlotsOK, Slot, Idle, AdminRequest, ReviewRequest
  <2>2. PICK q : /\ reqs' = [reqs EXCEPT ![r] = q] /\ UNCHANGED overlapped
                 /\ q = Idle \/ (MayReview(b.pair) /\ q = [b EXCEPT !.step = "review"])
    BY <1>5, <2>1 DEF ReadReview, Keep, Finish
  <2>3. IsAssigned(b.pair)
    BY <2>1 DEF PInv, RequestKnows
  <2>4. MayReview(b.pair) => Declared(b.pair)
    BY DEF MayReview, Declared
  <2>5. q \in Slot /\ RequestKnows(q)
    BY <2>2, <2>3, <2>4, IdleKnows DEF Slot, ReviewRequest, RequestKnows
  <2> QED
    BY <1>a, <1>5, <2>2, <2>5, QuietReview DEF ReadReview, SlotsOK
<1>6. CASE CommitReview(r)
  <2>1. PICK p \in Pairs : p = reqs[r].pair
    BY <1>a, <1>6 DEF CommitReview, At, SlotsOK, Slot, Idle, AdminRequest, ReviewRequest
  <2>2. IsAssigned(p) /\ Declared(p)
    BY <1>6, <2>1 DEF CommitReview, At, PInv, RequestKnows
  <2>3. /\ reqs' = [reqs EXCEPT ![r] = Idle] /\ overlapped' \in BOOLEAN
        /\ UNCHANGED <<submissions, adminVars>>
    BY <1>a, <1>6 DEF CommitReview, Finish, Keep, SlotsOK
  <2>4. CASE UNCHANGED <<reviews, assigned>>
    BY <1>a, <2>3, <2>4, IdleKnows, QuietReview
  <2>5. CASE /\ p \notin reviews /\ reviews' = reviews \union {p}
             /\ assigned' = [assigned EXCEPT ![p].status = "COMPLETED"]
    <3>1. "COMPLETED" \in ReviewAssignmentStatus
      BY DEF ReviewAssignmentStatus
    <3>2. PICK a \in Assignment :
            /\ assigned' = [assigned EXCEPT ![p] = a]
            /\ a.status = "COMPLETED" /\ a.conflict = assigned[p].conflict
      BY <1>a, <2>2, <2>5, <3>1, StatusWritten
    <3>3. a.conflict # "NOT_DECLARED" /\ p \in reviews'
      BY <2>2, <2>5, <3>2 DEF Declared
    <3>4. PInv'
      BY <2>3, <2>5, <3>2, <3>3, AssignmentStep
    <3>5. {x \in Pairs : IsAssigned(x)}' = {x \in Pairs : IsAssigned(x)}
      BY <2>2, <3>2, NobodyAsked
    <3>6. Engagement!Review(p)
      BY <2>2, <2>5, <3>5 DEF Engagement!Review
    <3> QED
      BY <3>4, <3>6 DEF Engages, Engagement!Next
  <2> QED
    BY <1>6, <2>1, <2>4, <2>5 DEF CommitReview
<1> QED
  BY <1>1, <1>2, <1>3, <1>4, <1>5, <1>6

LEMMA StepSound == PInv /\ [Next]_panelVars => PInv' /\ Engages
<1> SUFFICES ASSUME PInv, [Next]_panelVars PROVE PInv' /\ Engages
  OBVIOUS
<1>1. ASSUME UNCHANGED reviewVars
      PROVE  Engages
  BY <1>1 DEF reviewVars, IsAssigned, Engages
<1>2. CASE UNCHANGED panelVars
  <2>1. UNCHANGED <<reqs, overlapped, accounts, rows, submissions, assigned, reviews>>
    BY <1>2 DEF panelVars, slots, adminVars, reviewVars
  <2>2. PInv'
    BY <2>1 DEF PInv, SlotsOK, TypeOKAdmin, TypeOKReviews, ReviewsBacked, RequestKnows, Declared,
       IsAssigned
  <2> QED
    BY <1>1, <2>1, <2>2 DEF reviewVars
<1>3. ASSUME NEW r \in Requests, Crash(r), UNCHANGED <<adminVars, reviewVars>>
      PROVE  PInv'
  <2>1. TypeOKAdmin' /\ reqs' = [reqs EXCEPT ![r] = Idle] /\ overlapped' \in BOOLEAN
    BY <1>3 DEF Crash, Finish, Keep, PInv, SlotsOK, TypeOKAdmin, adminVars
  <2> QED
    BY <1>3, <2>1, IdleKnows, PanelUntouched
<1>4. CASE Next
  <2>1. PICK r \in Requests : \/ AdminStep(r) /\ UNCHANGED reviewVars
                              \/ ReviewStep(r)
                              \/ Crash(r) /\ UNCHANGED <<adminVars, reviewVars>>
    BY <1>4 DEF Next
  <2>2. CASE AdminStep(r) /\ UNCHANGED reviewVars
    BY <1>1, <2>2, AdminSound
  <2>3. CASE ReviewStep(r)
    BY <2>3, AssigningSound, ReviewingSound DEF ReviewStep
  <2>4. CASE Crash(r) /\ UNCHANGED <<adminVars, reviewVars>>
    BY <1>1, <1>3, <2>4
  <2> QED
    BY <2>1, <2>2, <2>3, <2>4
<1> QED
  BY <1>2, <1>4

LEMMA Sound == Spec => []PInv
BY InitSound, StepSound, PTL DEF Spec

--------------------------------------------------------------------------------
\* However many requests of administrators and reviewers overlap, the rows of
\* users, role_assignments, pitch_review_assignments and pitch_reviews, and what
\* every request keeps between two awaits, have their types.
THEOREM TypeCorrect == Spec => []TypeOK
<1>1. PInv => TypeOK
  BY DEF PInv, SlotsOK, Slot, TypeOK
<1> QED
  BY <1>1, Sound, PTL

\* However the calls overlap or break off, every review belongs to an assignment
\* with a declared conflict status, and every completed assignment has its
\* review: what submitReview() checks before its transaction stays true.
THEOREM ReviewsAreBacked == Spec => []ReviewsBacked
<1>1. PInv => ReviewsBacked
  BY DEF PInv
<1> QED
  BY <1>1, Sound, PTL

\* The handlers of admin-pitches.service.ts and reviewer.service.ts implement the
\* abstract engagement: a reviewer is asked at most once about a submission and
\* reviews it at most once and only after being asked, for good.
THEOREM PanelImplementsEngagement == Spec => EngagementImplemented
<1>1. Init => Engagement!Init
  BY DEF Init, InitReviews, IsAssigned, Engagement!Init
<1>2. PInv /\ [Next]_panelVars => Engages
  BY StepSound
<1> QED
  BY <1>1, <1>2, Sound, PTL DEF Spec, EngagementImplemented, Engagement!Spec, Engages

--------------------------------------------------------------------------------
(* What holds while no two requests overlap: what a request read is still    *)
(* true when it writes.                                                      *)

Alone == \A r, q \in Requests : reqs[r] # Idle /\ reqs[q] # Idle => r = q

LookedUp(q) == ~q.found => ~existingAssignment(q.user, q.dto)

NotTheLast(w) == w \in SuperAdminRows => \E x \in SuperAdminRows : x # w

StillTrue(q) ==
  /\ q.step = "insert" => LookedUp(q)
  /\ q.step = "revoke" => NotTheLast(q.row)
  /\ q.step = "review" => assigned[q.pair].conflict # "CONFIRMED_CONFLICT"

\* The inductive invariant of the requests that do not overlap.
AInv ==
  /\ PInv
  /\ ~overlapped => Alone /\ \A r \in Requests : StillTrue(reqs[r])
  /\ AssignmentsUnique

\* A request arrives, runs in one piece, or goes on.
LEMMA SlotMoves ==
  ASSUME NEW r \in Requests,
         AdminStep(r) \/ ReviewStep(r) \/ Crash(r)
  PROVE  \/ \E q : Begin(r, q)
         \/ AtOnce(r)
         \/ reqs[r] # Idle /\ \E q : Keep(r, q)
<1> USE DEF Finish
<1>1. \A st : At(r, st) /\ st # "idle" => reqs[r] # Idle
  BY DEF At, Idle
<1>2. CASE BeginBootstrap(r) \/ CreateUser(r) \/ BeginAssignRole(r) \/ BeginRevokeRole(r)
           \/ BeginUpdateStatus(r) \/ BeginAssignReviewer(r) \/ BeginAccept(r) \/ BeginReview(r)
  BY <1>2 DEF BeginBootstrap, CreateUser, BeginAssignRole, BeginRevokeRole,
              BeginUpdateStatus, BeginAssignReviewer, BeginAccept, BeginReview
<1>3. CASE NewSubmission(r) \/ RevokeReviewer(r) \/ Decline(r) \/ DeclareConflict(r)
  BY <1>3 DEF NewSubmission, RevokeReviewer, Decline, DeclareConflict
<1>4. CASE BootstrapUser(r) \/ FindAssignment(r) \/ CreateAssignment(r) \/ OutOfRows(r)
           \/ CommitRevokeRole(r) \/ CommitUpdateStatus(r)
  BY <1>1, <1>4 DEF BootstrapUser, FindAssignment, CreateAssignment, NextGrant, OutOfRows,
                    CommitRevokeRole, CommitUpdateStatus
<1>5. CASE CheckRoles(r) \/ CheckStatus(r) \/ CreateReviewAssignment(r) \/ CommitAccept(r)
           \/ ReadReview(r) \/ CommitReview(r)
  BY <1>1, <1>5 DEF CheckRoles, CheckStatus, CreateReviewAssignment, CommitAccept,
                    ReadReview, CommitReview
<1>6. CASE Crash(r)
  BY <1>6 DEF Crash
<1> QED
  BY <1>2, <1>3, <1>4, <1>5, <1>6 DEF AdminStep, ReviewStep

\* Without overlap only the request that steps has a slot.
LEMMA OneAtATime ==
  ASSUME AInv, NEW r \in Requests, AdminStep(r) \/ ReviewStep(r) \/ Crash(r), ~overlapped'
  PROVE  /\ ~overlapped /\ StillTrue(reqs[r])
         /\ \A s \in Requests : s # r => reqs'[s] = Idle
<1>1. reqs \in [Requests -> Slot] /\ (~overlapped => Alone /\ StillTrue(reqs[r]))
  BY DEF AInv, PInv, SlotsOK
<1>2. CASE \E q : Begin(r, q)
  BY <1>1, <1>2 DEF Begin, Others
<1>3. CASE AtOnce(r)
  BY <1>1, <1>3 DEF AtOnce, Others
<1>4. CASE reqs[r] # Idle /\ \E q : Keep(r, q)
  BY <1>1, <1>4 DEF Keep, Alone
<1> QED
  BY <1>2, <1>3, <1>4, SlotMoves

\* With more than one super administrator any of them leaves another.
LEMMA AnotherSuperAdmin ==
  ASSUME NotLastSuperAdmin, NEW w
  PROVE  NotTheLast(w)
<1> SUFFICES ASSUME SuperAdminRows \subseteq {w} PROVE FALSE
  BY DEF NotTheLast
<1>1. IsFiniteSet({w}) /\ Cardinality({w}) = 1
  BY FS_Singleton
<1>2. SuperAdminRows \in SUBSET {w}
  OBVIOUS
<1>3. Cardinality(SuperAdminRows) <= 1 /\ IsFiniteSet(SuperAdminRows)
  BY <1>1, <1>2, FS_Subset
<1>4. Cardinality(SuperAdminRows) \in Nat
  BY <1>3, FS_CardinalityType
<1> QED
  BY <1>3, <1>4 DEF NotLastSuperAdmin, countSuperAdmins

\* What the step leaves in its own slot is true when the step ends.
LEMMA StepStillTrue ==
  ASSUME AInv, NEW r \in Requests, ~overlapped',
         \/ AdminStep(r) /\ UNCHANGED reviewVars
         \/ ReviewStep(r)
         \/ Crash(r) /\ UNCHANGED <<adminVars, reviewVars>>
  PROVE  StillTrue(reqs[r])'
<1> USE DEF Finish
<1>1. reqs \in [Requests -> Slot]
  BY DEF AInv, PInv, SlotsOK
<1>2. reqs'[r] = Idle => StillTrue(reqs[r])'
  BY DEF StillTrue, Idle
<1>3. reqs'[r].step \notin {"insert", "revoke", "review"} => StillTrue(reqs[r])'
  BY DEF StillTrue
<1>4. CASE FindAssignment(r)
  <2>1. PICK d : Keep(r, [step |-> "insert", user |-> reqs[r].user, left |-> reqs[r].left \ {d},
                          dto |-> d, found |-> existingAssignment(reqs[r].user, d)])
    BY <1>4 DEF FindAssignment
  <2>2. PICK u, f : u = reqs[r].user /\ f = existingAssignment(reqs[r].user, d)
    OBVIOUS
  <2>3. reqs'[r] = [step |-> "insert", user |-> u, left |-> reqs[r].left \ {d},
                    dto |-> d, found |-> f]
    BY <1>1, <2>1, <2>2, Zenon DEF Keep
  <2>4. /\ reqs'[r].step = "insert" /\ reqs'[r].user = u /\ reqs'[r].dto = d
        /\ reqs'[r].found = f
    BY <2>3
  <2>5. existingAssignment(u, d)' <=> existingAssignment(u, d)
    BY <1>4 DEF FindAssignment, adminVars, existingAssignment, SameAssignment
  <2>6. ~f => ~existingAssignment(u, d)
    BY <2>2, Zenon
  <2>7. LookedUp(reqs[r])'
    BY <2>4, <2>5, <2>6 DEF LookedUp, existingAssignment, SameAssignment
  <2> QED
    BY <2>4, <2>7 DEF StillTrue
<1>5. CASE BeginRevokeRole(r)
  <2>1. PICK w \in Rows : /\ Taken(w) /\ (rows[w].role = "SUPER_ADMIN" => NotLastSuperAdmin)
                          /\ Begin(r, [step |-> "revoke", row |-> w])
    BY <1>5 DEF BeginRevokeRole
  <2>2. reqs'[r] = [step |-> "revoke", row |-> w] /\ UNCHANGED rows
    BY <1>1, <1>5, <2>1 DEF BeginRevokeRole, Begin, adminVars
  <2>3. NotTheLast(w)
    BY <2>1, AnotherSuperAdmin DEF NotTheLast, SuperAdminRows
  <2> QED
    BY <2>2, <2>3 DEF StillTrue, NotTheLast, SuperAdminRows, Taken
<1>6. CASE ReadReview(r)
  <2>1. reqs'[r] = Idle
        \/ (MayReview(reqs[r].pair) /\ reqs'[r] = [reqs[r] EXCEPT !.step = "review"])
    BY <1>1, <1>6 DEF ReadReview, Keep
  <2>2. reqs[r] \in [step : {"readReview"}, pair : Pairs]
    BY <1>1, <1>6 DEF ReadReview, At, Slot, Idle, AdminRequest, ReviewRequest
  <2>3. UNCHANGED assigned
    BY <1>6 DEF ReadReview, reviewVars
  <2> QED
    BY <1>2, <2>1, <2>2, <2>3 DEF StillTrue, MayReview
<1>7. CASE BeginBootstrap(r) \/ CreateUser(r) \/ BeginAssignRole(r)
           \/ BeginUpdateStatus(r) \/ BeginAssignReviewer(r) \/ BeginAccept(r) \/ BeginReview(r)
  BY <1>1, <1>3, <1>7 DEF BeginBootstrap, CreateUser, BeginAssignRole,
              BeginUpdateStatus, BeginAssignReviewer, BeginAccept, BeginReview, Begin
<1>8. CASE NewSubmission(r) \/ RevokeReviewer(r) \/ Decline(r) \/ DeclareConflict(r)
  BY <1>2, <1>8 DEF NewSubmission, RevokeReviewer, Decline, DeclareConflict, AtOnce
<1>9. CASE CreateAssignment(r) \/ OutOfRows(r) \/ CommitRevokeRole(r) \/ CommitUpdateStatus(r)
  BY <1>1, <1>2, <1>3, <1>9 DEF CreateAssignment, NextGrant, OutOfRows,
                    CommitRevokeRole, CommitUpdateStatus, Keep
<1>10. CASE BootstrapUser(r)
  <2>1. reqs[r] \in [step : {"bootUser", "grant"}, user : Users, left : SUBSET AnyGrant]
    BY <1>1, <1>10 DEF BootstrapUser, At, Slot, Idle, AdminRequest, ReviewRequest
  <2> QED
    BY <1>1, <1>3, <1>10, <2>1 DEF BootstrapUser, Keep
<1>11. CASE CheckRoles(r) \/ CheckStatus(r)
  <2>1. reqs[r] \in ReviewRequest
    BY <1>1, <1>11 DEF CheckRoles, CheckStatus, At, Slot, Idle, AdminRequest, ReviewRequest
  <2> QED
    BY <1>1, <1>2, <1>3, <1>11, <2>1 DEF CheckRoles, CheckStatus, Keep, ReviewRequest
<1>12. CASE CreateReviewAssignment(r) \/ CommitAccept(r) \/ CommitReview(r) \/ Crash(r)
  BY <1>1, <1>2, <1>12 DEF CreateReviewAssignment, CommitAccept, CommitReview, Crash, Keep
<1> QED
  BY <1>4, <1>5, <1>6, <1>7, <1>8, <1>9, <1>10, <1>11, <1>12 DEF AdminStep, ReviewStep

\* No step gives a user a role they hold, but for one without a state when requests overlap.
LEMMA RowsStayUnique ==
  ASSUME AInv, NEW r \in Requests,
         \/ AdminStep(r) /\ UNCHANGED reviewVars
         \/ ReviewStep(r)
         \/ Crash(r) /\ UNCHANGED <<adminVars, reviewVars>>
  PROVE  AssignmentsUnique'
<1> SUFFICES ASSUME NEW v \in Rows, NEW w \in Rows, v # w, rows'[v] # NoRow,
                    rows'[v] = rows'[w], rows'[v].state # NoState \/ ~overlapped'
             PROVE  FALSE
  BY DEF AssignmentsUnique, Taken
<1>1. ~overlapped' => ~overlapped /\ StillTrue(reqs[r])
  BY OneAtATime
<1>2. rows \in [Rows -> RoleRow \union {NoRow}] /\ AssignmentsUnique
  BY DEF AInv, PInv, TypeOKAdmin
<1>3. rows[v] # NoRow /\ rows[v] = rows[w]
        /\ (rows[v].state # NoState \/ ~overlapped) => FALSE
  BY <1>2 DEF AssignmentsUnique, Taken
<1>4. CASE UNCHANGED rows
  BY <1>1, <1>3, <1>4
<1>5. CASE CommitRevokeRole(r)
  BY <1>1, <1>2, <1>3, <1>5 DEF CommitRevokeRole
<1>6. CASE CreateAssignment(r) /\ rows' # rows
  <2>1. PICK u, d, x : /\ u = reqs[r].user /\ d = reqs[r].dto /\ x \in Rows
                       /\ rows' = [rows EXCEPT ![x] = [user |-> u, role |-> d.role,
                                                       state |-> d.state]]
    BY <1>6, Zenon DEF CreateAssignment, adminVars
  <2>2. reqs[r].step = "insert" /\ ~reqs[r].found /\ ~Refused(r)
    BY <1>6, Zenon DEF CreateAssignment, adminVars, At
  <2>3. d.state # NoState \/ ~overlapped' => ~existingAssignment(u, d)
    BY <1>1, <2>1, <2>2 DEF Refused, StillTrue, LookedUp
  <2>4. \A y \in Rows : rows[y] = [user |-> u, role |-> d.role, state |-> d.state]
                          => existingAssignment(u, d)
    BY DEF existingAssignment, SameAssignment
  <2>5. rows'[x].state = d.state
    BY <1>2, <2>1
  <2>6. CASE v = x
    BY <1>2, <2>1, <2>3, <2>4, <2>5, <2>6
  <2>7. CASE w = x
    BY <1>2, <2>1, <2>3, <2>4, <2>5, <2>7
  <2>8. CASE v # x /\ w # x
    BY <1>1, <1>2, <1>3, <2>1, <2>8
  <2> QED
    BY <2>6, <2>7, <2>8
<1>7. \/ UNCHANGED rows \/ CommitRevokeRole(r) \/ CreateAssignment(r)
  BY DEF AdminStep, BeginBootstrap, BootstrapUser, CreateUser, BeginAssignRole, FindAssignment,
     OutOfRows, BeginRevokeRole, BeginUpdateStatus, CommitUpdateStatus, adminVars,
     ReviewStep, NewSubmission, BeginAssignReviewer, CheckRoles, CheckStatus,
     CreateReviewAssignment, RevokeReviewer, BeginAccept, CommitAccept, Decline,
     DeclareConflict, BeginReview, ReadReview, CommitReview
<1> QED
  BY <1>4, <1>5, <1>6, <1>7

LEMMA AloneSound == AInv /\ [Next]_panelVars => AInv'
<1> SUFFICES ASSUME AInv, [Next]_panelVars PROVE AInv'
  OBVIOUS
<1>1. PInv'
  BY StepSound DEF AInv
<1>2. CASE UNCHANGED panelVars
  <2>1. UNCHANGED <<reqs, overlapped, accounts, rows, submissions, assigned, reviews>>
    BY <1>2 DEF panelVars, slots, adminVars, reviewVars
  <2> QED
    BY <1>1, <2>1 DEF AInv, Alone, StillTrue, LookedUp, existingAssignment, SameAssignment,
       NotTheLast, SuperAdminRows, Taken, AssignmentsUnique
<1>3. ASSUME NEW r \in Requests,
             \/ AdminStep(r) /\ UNCHANGED reviewVars
             \/ ReviewStep(r)
             \/ Crash(r) /\ UNCHANGED <<adminVars, reviewVars>>
      PROVE  AInv'
  <2>1. ASSUME ~overlapped'
        PROVE  Alone' /\ \A s \in Requests : StillTrue(reqs[s])'
    <3>1. \A s \in Requests : s # r => reqs'[s] = Idle
      BY <1>3, <2>1, OneAtATime
    <3>2. StillTrue(reqs[r])'
      BY <1>3, <2>1, StepStillTrue
    <3>3. \A s \in Requests : s # r => StillTrue(reqs[s])'
      BY <3>1 DEF StillTrue, Idle
    <3> QED
      BY <3>1, <3>2, <3>3 DEF Alone
  <2>2. AssignmentsUnique'
    BY <1>3, RowsStayUnique
  <2> QED
    BY <1>1, <2>1, <2>2 DEF AInv
<1> QED
  BY <1>2, <1>3 DEF Next

LEMMA AloneHolds == Spec => []AInv
<1>1. Init => AInv
  <2> SUFFICES ASSUME Init PROVE AInv
    OBVIOUS
  <2>1. \A r \in Requests : reqs[r] = Idle
    BY DEF Init, InitSlots
  <2>2. \A w \in Rows : ~Taken(w)
    BY DEF Init, InitAdmin, Taken
  <2>3. Alone /\ \A r \in Requests : StillTrue(reqs[r])
    BY <2>1 DEF Alone, StillTrue, Idle
  <2> QED
    BY <2>2, <2>3, InitSound DEF AInv, AssignmentsUnique
<1> QED
  BY <1>1, AloneSound, PTL DEF Spec

\* However requests overlap, nobody holds a role of a state twice, and while
\* they do not overlap nobody holds any role twice: assignRoleInternal() looks
\* before it inserts, and the unique index tells only the states apart.
THEOREM NoRoleTwice == Spec => []AssignmentsUnique
<1>1. AInv => AssignmentsUnique
  BY DEF AInv
<1> QED
  BY <1>1, AloneHolds, PTL

\* Requests that do not overlap never revoke the last super administrator.
THEOREM SuperAdminStays == Spec => SuperAdminRemains
<1>1. ASSUME AInv, [Next]_panelVars, ~overlapped', SuperAdminRows # {}
      PROVE  SuperAdminRows' # {}
  <2>1. CASE UNCHANGED rows
    BY <1>1, <2>1 DEF SuperAdminRows, Taken
  <2>2. rows \in [Rows -> RoleRow \union {NoRow}]
    BY <1>1 DEF AInv, PInv, TypeOKAdmin
  <2>3. ASSUME NEW r \in Requests, CommitRevokeRole(r), AdminStep(r)
        PROVE  SuperAdminRows' # {}
    <3>1. reqs[r].step = "revoke" /\ rows' = [rows EXCEPT ![reqs[r].row] = NoRow]
      BY <2>3 DEF CommitRevokeRole, At
    <3>2. NotTheLast(reqs[r].row)
      BY <1>1, <2>3, <3>1, OneAtATime DEF StillTrue
    <3>3. PICK x \in SuperAdminRows : x # reqs[r].row
      BY <1>1, <3>2 DEF NotTheLast
    <3> QED
      BY <2>2, <3>1, <3>3 DEF SuperAdminRows, Taken
  <2>4. ASSUME NEW r \in Requests, CreateAssignment(r)
        PROVE  SuperAdminRows' # {}
    <3>1. PICK x \in SuperAdminRows : TRUE
      BY <1>1
    <3>2. UNCHANGED rows \/ \E w, rec : ~Taken(w) /\ rows' = [rows EXCEPT ![w] = rec]
      BY <2>4, Zenon DEF CreateAssignment, Unused, adminVars
    <3> QED
      BY <2>2, <3>1, <3>2 DEF SuperAdminRows, Taken
  <2>5. ASSUME NEW r \in Requests, AdminStep(r) \/ ReviewStep(r)
        PROVE  \/ UNCHANGED rows \/ (CommitRevokeRole(r) /\ AdminStep(r)) \/ CreateAssignment(r)
    BY <2>5 DEF AdminStep, BeginBootstrap, BootstrapUser, CreateUser, BeginAssignRole,
       FindAssignment, OutOfRows, BeginRevokeRole, BeginUpdateStatus, CommitUpdateStatus,
       adminVars, ReviewStep, NewSubmission, BeginAssignReviewer, CheckRoles, CheckStatus,
       CreateReviewAssignment, RevokeReviewer, BeginAccept, CommitAccept, Decline,
       DeclareConflict, BeginReview, ReadReview, CommitReview
  <2>6. CASE UNCHANGED panelVars \/ \E r \in Requests : Crash(r) /\ UNCHANGED <<adminVars, reviewVars>>
    BY <2>1, <2>6 DEF panelVars, adminVars
  <2> QED
    BY <1>1, <2>1, <2>3, <2>4, <2>5, <2>6 DEF Next
<1>2. AInv /\ [Next]_panelVars =>
        [~overlapped' /\ SuperAdminRows # {} => SuperAdminRows' # {}]_<<adminVars, slots>>
  BY <1>1
<1> QED
  BY <1>2, AloneHolds, PTL DEF Spec, SuperAdminRemains

\* Without overlap nobody files a review with a conflict that was confirmed
\* before it, although the check and the transaction are two statements.
THEOREM ConflictsRespected == Spec => ConflictRespected
<1>1. ASSUME AInv, [Next]_panelVars, ~overlapped', NEW p \in reviews' \ reviews
      PROVE  assigned[p].conflict # "CONFIRMED_CONFLICT"
  <2>1. ASSUME NEW r \in Requests, CommitReview(r), ReviewStep(r)
        PROVE  assigned[p].conflict # "CONFIRMED_CONFLICT"
    <3>1. reqs[r].step = "review" /\ p = reqs[r].pair
      BY <1>1, <2>1 DEF CommitReview, At
    <3> QED
      BY <1>1, <2>1, <3>1, OneAtATime DEF StillTrue
  <2>2. ASSUME NEW r \in Requests, ReviewStep(r)
        PROVE  CommitReview(r) \/ UNCHANGED reviews
    BY <2>2 DEF ReviewStep, NewSubmission, BeginAssignReviewer, CheckRoles, CheckStatus,
       CreateReviewAssignment, RevokeReviewer, BeginAccept, CommitAccept, Decline,
       DeclareConflict, BeginReview, ReadReview, reviewVars
  <2>3. reviews' # reviews
    BY <1>1
  <2> QED
    BY <1>1, <2>1, <2>2, <2>3 DEF Next, panelVars, reviewVars
<1>2. AInv /\ [Next]_panelVars =>
        [~overlapped' => \A p \in reviews' \ reviews :
           assigned[p].conflict # "CONFIRMED_CONFLICT"]_<<reviewVars, adminVars, slots>>
  BY <1>1
<1> QED
  BY <1>2, AloneHolds, PTL DEF Spec, ConflictRespected
================================================================================
