------------------------------- MODULE AdminRoles -------------------------------
(***************************************************************************)
(* The accounts of the platform and their role assignments: the handlers of *)
(* admin-users.service.ts and the bootstrap script.  An assignment of a     *)
(* role is a row of role_assignments; a user may hold several.             *)
(*                                                                         *)
(* The actor of a request is any account: the JWT guard asks for a valid    *)
(* session only, and sessions outlive a suspension (AuthSessions).          *)
(***************************************************************************)
EXTENDS RequestSlots, RbacRules, FiniteSets, Naturals

CONSTANTS
  Users,         \* the people who can have an account
  Rows,          \* rows of role_assignments
  NoUser,        \* the user of a row that does not exist
  FirstAdmin,    \* whom the bootstrap script makes super administrator
  HomeState,     \* the state each user registered with, or NoState
  Grants,        \* bound: the assignments administrators ask for
  StatusInputs   \* bound: the statuses administrators set

ASSUME AdminRolesConstants ==
  /\ FirstAdmin \in Users /\ NoUser \notin Users
  /\ HomeState \in [Users -> States \union {NoState}]
  /\ Grants \subseteq {d \in RoleAssignmentDto : validateRoleScope(d)}
  /\ StatusInputs \subseteq {"ACTIVE", "SUSPENDED", "DEACTIVATED"}

VARIABLES
  accounts, \* the status of each row of users, or NONE
  rows      \* the rows of role_assignments

adminVars == <<accounts, rows>>

AccountStatus == {"NONE", "PENDING_VERIFICATION", "ACTIVE", "SUSPENDED", "DEACTIVATED"}

NoRow == [user |-> NoUser, role |-> "MENTOR", state |-> NoState]
RoleRow == [user : Users, role : RoleType, state : States \union {NoState}]

Taken(w) == rows[w] # NoRow

\* getUserRoles(): what the guard and the rules see of a user.
getUserRoles(u) ==
  {[role |-> rows[w].role, state |-> rows[w].state] : w \in {x \in Rows : rows[x].user = u}}

SuperAdminRows == {w \in Rows : Taken(w) /\ rows[w].role = "SUPER_ADMIN"}

countSuperAdmins == Cardinality(SuperAdminRows)

SameAssignment(w, u, d) ==
  rows[w].user = u /\ rows[w].role = d.role /\ rows[w].state = d.state

\* What the bootstrap script grants.
SuperAdminGrant == [role |-> "SUPER_ADMIN", scopeType |-> "GLOBAL", ng |-> FALSE,
                    state |-> NoState]

AnyGrant == Grants \union {SuperAdminGrant}

\* The slots of this module: "grant" has assignments left to make, "insert" has
\* looked for one of them, "setStatus" and "revoke" have counted.
AdminRequest ==
  [step : {"bootUser", "grant"}, user : Users, left : SUBSET AnyGrant]
    \union [step : {"insert"}, user : Users, left : SUBSET AnyGrant, dto : AnyGrant,
            found : BOOLEAN]
    \union [step : {"setStatus"}, user : Users, status : StatusInputs]
    \union [step : {"revoke"}, row : Rows]

--------------------------------------------------------------------------------
(* Guards with a slip of each (Bug_...) that no action uses.                 *)

Bug_NotLastCountsOne == countSuperAdmins >= 1
NotLastSuperAdmin == countSuperAdmins > 1

Bug_FindsNothing(u, d) == FALSE
existingAssignment(u, d) == \E w \in Rows : SameAssignment(w, u, d)

\* getUser() of the handlers: an administrator who may see the target.
MayAdminister(a, u) ==
  /\ isAnyAdmin(getUserRoles(a))
  /\ accounts[u] # "NONE"
  /\ canAccessUser(getUserRoles(a), getUserRoles(u), HomeState[u])

--------------------------------------------------------------------------------
(* Creating accounts.                                                        *)

\* The bootstrap script goes on only without a super administrator of that name.
BeginBootstrap(r) ==
  /\ ~isSuperAdmin(getUserRoles(FirstAdmin))
  /\ Begin(r, [step |-> "bootUser", user |-> FirstAdmin, left |-> {SuperAdminGrant}])
  /\ UNCHANGED adminVars

BootstrapUser(r) ==
  /\ At(r, "bootUser")
  /\ accounts' = [accounts EXCEPT ![reqs[r].user] = "ACTIVE"]
  /\ Keep(r, [reqs[r] EXCEPT !.step = "grant"])
  /\ UNCHANGED rows

\* createUser(): the row of users, then each role by statements of its own.
CreateUser(r) ==
  /\ \E a \in Users : isSuperAdmin(getUserRoles(a))
  /\ \E u \in Users, left \in SUBSET Grants :
        /\ accounts[u] = "NONE" /\ left # {}
        /\ accounts' = [accounts EXCEPT ![u] = "PENDING_VERIFICATION"]
        /\ Begin(r, [step |-> "grant", user |-> u, left |-> left])
  /\ UNCHANGED rows

--------------------------------------------------------------------------------
(* Roles.                                                                    *)

BeginAssignRole(r) ==
  /\ \E a, u \in Users, d \in Grants :
        /\ MayAdminister(a, u)
        /\ d.role \in {"SUPER_ADMIN", "NATIONAL_ADMIN"} => isSuperAdmin(getUserRoles(a))
        /\ Begin(r, [step |-> "grant", user |-> u, left |-> {d}])
  /\ UNCHANGED adminVars

\* assignRoleInternal(): looks for the assignment ...
FindAssignment(r) ==
  /\ At(r, "grant")
  /\ \E d \in reqs[r].left :
        Keep(r, [step |-> "insert", user |-> reqs[r].user, left |-> reqs[r].left \ {d},
                 dto |-> d, found |-> existingAssignment(reqs[r].user, d)])
  /\ UNCHANGED adminVars

\* ... and creates it when there was none.  The unique index refuses a second
\* row of the same state, but two nulls are different to it.
Refused(r) == ~reqs[r].found /\ reqs[r].dto.state # NoState
                /\ existingAssignment(reqs[r].user, reqs[r].dto)

\* An id is never used again: no request in flight may hold the one it takes.
Unused(w) == ~Taken(w) /\ \A q \in Requests : At(q, "revoke") => reqs[q].row # w

\* ... and touches it when there was one, an error when it is gone by then.
Gone(r) == reqs[r].found /\ ~existingAssignment(reqs[r].user, reqs[r].dto)

NextGrant(r) ==
  IF reqs[r].left = {} \/ Refused(r) \/ Gone(r) THEN Finish(r)
  ELSE Keep(r, [step |-> "grant", user |-> reqs[r].user, left |-> reqs[r].left])

CreateAssignment(r) ==
  /\ At(r, "insert")
  /\ \/ /\ reqs[r].found \/ Refused(r)
        /\ UNCHANGED adminVars
     \/ /\ ~reqs[r].found /\ ~Refused(r)
        /\ \E w \in Rows :
              /\ Unused(w)
              /\ rows' = [rows EXCEPT ![w] = [user |-> reqs[r].user,
                                              role |-> reqs[r].dto.role,
                                              state |-> reqs[r].dto.state]]
        /\ UNCHANGED accounts
  /\ NextGrant(r)

\* Bound: an assignment that would need one row more ends the request.
OutOfRows(r) ==
  /\ At(r, "insert")
  /\ \A w \in Rows : ~Unused(w)
  /\ Finish(r)
  /\ UNCHANGED adminVars

\* revokeRole(): the count of super administrators and the delete.
BeginRevokeRole(r) ==
  /\ \E a \in Users, w \in Rows :
        /\ Taken(w) /\ MayAdminister(a, rows[w].user)
        /\ rows[w].role = "SUPER_ADMIN" => NotLastSuperAdmin
        /\ Begin(r, [step |-> "revoke", row |-> w])
  /\ UNCHANGED adminVars

\* delete by id: an error, and no change, when the row is gone.
CommitRevokeRole(r) ==
  /\ At(r, "revoke")
  /\ rows' = [rows EXCEPT ![reqs[r].row] = NoRow]
  /\ Finish(r)
  /\ UNCHANGED accounts

--------------------------------------------------------------------------------
(* Status.                                                                   *)

BeginUpdateStatus(r) ==
  /\ \E a, u \in Users, st \in StatusInputs :
        /\ MayAdminister(a, u)
        /\ st # "ACTIVE" /\ isSuperAdmin(getUserRoles(u)) => NotLastSuperAdmin
        /\ Begin(r, [step |-> "setStatus", user |-> u, status |-> st])
  /\ UNCHANGED adminVars

CommitUpdateStatus(r) ==
  /\ At(r, "setStatus")
  /\ accounts' = [accounts EXCEPT ![reqs[r].user] = reqs[r].status]
  /\ Finish(r)
  /\ UNCHANGED rows

--------------------------------------------------------------------------------
InitAdmin == accounts = [u \in Users |-> "NONE"] /\ rows = [w \in Rows |-> NoRow]

AdminStep(r) ==
  \/ BeginBootstrap(r) \/ BootstrapUser(r) \/ CreateUser(r)
  \/ BeginAssignRole(r) \/ FindAssignment(r) \/ CreateAssignment(r) \/ OutOfRows(r)
  \/ BeginRevokeRole(r) \/ CommitRevokeRole(r)
  \/ BeginUpdateStatus(r) \/ CommitUpdateStatus(r)

TypeOKAdmin ==
  /\ accounts \in [Users -> AccountStatus]
  /\ rows \in [Rows -> RoleRow \union {NoRow}]

--------------------------------------------------------------------------------
(* Properties.                                                               *)

\* The last super administrator cannot be removed: requests that do not overlap
\* never take the number of SUPER_ADMIN rows from one to none (revokeRole and
\* updateStatus count rows, so this needs that nobody holds the role twice).
SuperAdminRemains ==
  [][~overlapped' /\ SuperAdminRows # {} => SuperAdminRows' # {}]_<<adminVars, slots>>

\* No user holds the same role twice: always for the roles of a state (the
\* unique index), and without overlap for the others (assignRoleInternal looks
\* first; Postgres takes two null states for different ones).
AssignmentsUnique ==
  \A v, w \in Rows :
     /\ v # w /\ Taken(v) /\ rows[v] = rows[w]
     /\ rows[v].state # NoState \/ ~overlapped
     => FALSE
================================================================================
