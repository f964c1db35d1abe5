\* Two overlapping requests on one organisation with two people.
SPECIFICATION Spec
CONSTANTS
  s1 = s1
  Requests = {r1, r2}
  States = {s1}
  NoState = NoState
  Orgs = {o1}
  Users = {u1, u2}
  Sponsors = {u1, u2}
  RolesGiven = {"OWNER", "MEMBER"}
  AdminRoles <- MCAdminRoles
  MaxLock = 2
SYMMETRY Symmetry
INVARIANTS TypeOK EventsTellStatus StampsTellDecision FrozenOnceSubmitted
PROPERTIES RemovalKeepsOwner EventsChain
