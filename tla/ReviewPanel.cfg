\* Two overlapping requests, two users, two role assignments, interruptions.
SPECIFICATION Spec
CONSTANTS
  u1 = u1
  u2 = u2
  s1 = s1
  Requests = {r1, r2}
  States = {s1}
  NoState = NoState
  Users = {u1, u2}
  NoUser = NoUser
  FirstAdmin = u1
  Rows = {w1, w2}
  HomeState <- MCHomeState
  Grants <- MCGrants
  StatusInputs = {"SUSPENDED"}
  MaxSubmissions = 2
  MaxAssignments = 1
  Declarations = {"NO_CONFLICT", "CONFIRMED_CONFLICT"}
SYMMETRY Symmetry
INVARIANTS TypeOK AssignmentsUnique ReviewsBacked
PROPERTIES SuperAdminRemains ConflictRespected EngagementImplemented
