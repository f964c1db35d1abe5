------------------------------- MODULE RbacRules -------------------------------
(***************************************************************************)
(* The role and scope rules of rbac.service.ts and stage3-scope.service.ts *)
(* as operators over the set of roles of an actor.  A role is a record     *)
(* [role, state]: the scope type and the country follow from the role once  *)
(* validateRoleScope has accepted the assignment.                          *)
(***************************************************************************)
CONSTANTS States, NoState

ASSUME NoStateIsNone == NoState \notin States

RoleType == {"SUPER_ADMIN", "NATIONAL_ADMIN", "STATE_ADMIN", "REVIEWER",
             "INNOVATOR", "SPONSOR", "MENTOR"}

ScopeType == {"GLOBAL", "COUNTRY", "STATE"}

Role == [role : RoleType, state : States \union {NoState}]

\* What an administrator asks for: a role, its scope and perhaps a state.
RoleAssignmentDto == [role : RoleType, scopeType : ScopeType, ng : BOOLEAN,
                      state : States \union {NoState}]

validateRoleScope(dto) ==
  CASE dto.role = "NATIONAL_ADMIN" -> dto.scopeType = "COUNTRY" /\ dto.ng
    [] dto.role = "STATE_ADMIN"    -> dto.scopeType = "STATE" /\ dto.state # NoState
    [] OTHER                       -> dto.scopeType = "GLOBAL"

Holds(roles, type) == \E x \in roles : x.role = type

isSuperAdmin(roles) == Holds(roles, "SUPER_ADMIN")
isNationalAdmin(roles) == Holds(roles, "NATIONAL_ADMIN")
isStateAdmin(roles) == Holds(roles, "STATE_ADMIN")

isAnyAdmin(roles) == isSuperAdmin(roles) \/ isNationalAdmin(roles) \/ isStateAdmin(roles)

SeesAll(roles) == isSuperAdmin(roles) \/ isNationalAdmin(roles)

getAccessibleStateIds(roles) ==
  IF SeesAll(roles) THEN States
  ELSE {x.state : x \in {y \in roles : y.role = "STATE_ADMIN"}} \ {NoState}

\* Every state of the target has to be one of the actor's, and there has to
\* be one.
canAccessUser(actor, targetRoles, homeState) ==
  \/ SeesAll(actor)
  \/ LET effective == ({homeState} \union {x.state : x \in targetRoles}) \ {NoState}
     IN  effective # {} /\ effective \subseteq getAccessibleStateIds(actor)

canAdminAccessPitchState(actor, state) ==
  SeesAll(actor) \/ (state # NoState /\ state \in getAccessibleStateIds(actor))
================================================================================
