----------------------------- MODULE SponsorMembers ----------------------------
(***************************************************************************)
(* Sponsor organisations and their members: createOrganization, addMember   *)
(* and removeMember of sponsor.service.ts.  A membership is named by its    *)
(* organisation and its user (unique in the schema).                       *)
(***************************************************************************)
EXTENDS RequestSlots, RbacRules, FiniteSets, Naturals

CONSTANTS
  Orgs,       \* the organisations that can be created
  Users,      \* the people with an account
  Sponsors,   \* those of them with an active account and the role SPONSOR
  RolesGiven  \* bound: the roles members are invited with

VARIABLE memberships \* the row of each organisation and user

SponsorMembershipRole == {"OWNER", "ADMIN", "MEMBER"}
SponsorMembershipStatus == {"ACTIVE", "SUSPENDED", "REMOVED"}

ASSUME SponsorMembersConstants ==
  /\ Sponsors \subseteq Users
  /\ RolesGiven \subseteq SponsorMembershipRole

NoMembership == [role |-> "NONE", status |-> "NONE"]
Membership == [role : SponsorMembershipRole, status : SponsorMembershipStatus]

Active(o, u) == memberships[<<o, u>>].status = "ACTIVE"

Owners(o) == {u \in Users : memberships[<<o, u>>] = [role |-> "OWNER", status |-> "ACTIVE"]}

Rank == [MEMBER |-> 0, ADMIN |-> 1, OWNER |-> 2]

assertOrgMember(o, u, minRole) ==
  Active(o, u) /\ Rank[memberships[<<o, u>>].role] >= Rank[minRole]

\* What a request on members keeps: the organisation of its path, the user of
\* the membership and, for addMember, the role.
MemberRequest ==
  [step : {"upsertMember"}, org : Orgs, user : Users, role : RolesGiven]
    \union [step : {"readMember", "countOwners", "setRemoved"}, org : Orgs, of : Orgs,
            user : Users]

--------------------------------------------------------------------------------
(* Guards with a slip of each (Bug_...) that no action uses.                 *)

Bug_AnyMember(o, u) == TRUE
IsMember(o, u) == memberships[<<o, u>>] # NoMembership

Bug_OwnersLeft(o) == Cardinality({u \in Users : memberships[<<o, u>>].role = "OWNER"}) > 1
NotFinalOwner(o) == Cardinality(Owners(o)) > 1

--------------------------------------------------------------------------------
\* The organisation, its first member and its first event in one transaction;
\* the rest of the row is the business of SponsorVerification.
CreateMembership(o, u) ==
  memberships' = [memberships EXCEPT ![<<o, u>>] = [role |-> "OWNER", status |-> "ACTIVE"]]

BeginAddMember(r) ==
  /\ \E o \in Orgs, a, u \in Users, role \in RolesGiven :
        /\ assertOrgMember(o, a, "ADMIN")
        /\ Begin(r, [step |-> "upsertMember", org |-> o, user |-> u, role |-> role])
  /\ UNCHANGED memberships

\* An upsert: it also gives a member another role, and a removed one a place.
UpsertMember(r) ==
  /\ At(r, "upsertMember")
  /\ memberships' = [memberships EXCEPT ![<<reqs[r].org, reqs[r].user>>] =
                       [role |-> reqs[r].role, status |-> "ACTIVE"]]
  /\ Finish(r)

\* The membership is found by its id, whatever organisation it is of.
BeginRemoveMember(r) ==
  /\ \E o, of \in Orgs, a, u \in Users :
        /\ assertOrgMember(o, a, "ADMIN")
        /\ IsMember(of, u)
        /\ Begin(r, [step |-> "readMember", org |-> o, of |-> of, user |-> u])
  /\ UNCHANGED memberships

ReadMember(r) ==
  /\ At(r, "readMember")
  /\ LET owner == memberships[<<reqs[r].of, reqs[r].user>>].role = "OWNER"
     IN  Keep(r, [reqs[r] EXCEPT !.step = IF owner THEN "countOwners" ELSE "setRemoved"])
  /\ UNCHANGED memberships

CountOwners(r) ==
  /\ At(r, "countOwners")
  /\ IF NotFinalOwner(reqs[r].org) THEN Keep(r, [reqs[r] EXCEPT !.step = "setRemoved"])
                                   ELSE Finish(r)
  /\ UNCHANGED memberships

SetRemoved(r) ==
  /\ At(r, "setRemoved")
  /\ memberships' = [memberships EXCEPT ![<<reqs[r].of, reqs[r].user>>].status = "REMOVED"]
  /\ Finish(r)

--------------------------------------------------------------------------------
InitMembers == memberships = [m \in Orgs \X Users |-> NoMembership]

MemberStep(r) ==
  \/ BeginAddMember(r) \/ UpsertMember(r)
  \/ BeginRemoveMember(r) \/ ReadMember(r) \/ CountOwners(r) \/ SetRemoved(r)

TypeOKMembers == memberships \in [Orgs \X Users -> Membership \union {NoMembership}]

--------------------------------------------------------------------------------
(* Properties.                                                               *)

\* The final owner cannot be removed (sponsor.service.ts:255): requests that do
\* not overlap never take the last active owner away by removing a membership
\* of the organisation they name.
RemovalKeepsOwner ==
  [][~overlapped' => \A r \in Requests, o \in Orgs :
       At(r, "setRemoved") /\ reqs[r].org = o /\ reqs[r].of = o /\ Owners(o) # {}
         => Owners(o)' # {}]_<<slots, memberships>>
================================================================================
