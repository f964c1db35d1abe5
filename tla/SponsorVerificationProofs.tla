------------------------ MODULE SponsorVerificationProofs -----------------------
(***************************************************************************)
(* Proofs about SponsorVerification for any number of overlapping requests,  *)
(* organisations and people: the types, what the newest event and the       *)
(* stamps of an organisation tell of its status and, while no two requests   *)
(* overlap, that events are a chain, submitted profiles frozen and final     *)
(* owners kept.                                                             *)
(***************************************************************************)
EXTENDS SponsorVerification, FiniteSetTheorems, TLAPS

Slot == {Idle} \union MemberRequest \union VerificationRequest

\* What a request in flight still knows although others have written since: the
\* row it will update exists, and the transition it will write was legal when it
\* read the status.  Nothing removes the rows of organisations and memberships.
RequestKnows(q) ==
  /\ q.step \in {"readMember", "countOwners", "setRemoved"} => IsMember(q.of, q.user)
  /\ q.step = "writeUpdate" => Exists(q.org)
  /\ q.step \in {"countDocs", "writeSubmit"} => canTransitionVerification(q.from, "SUBMITTED")
  /\ q.step \in {"insertEvent", "writeDecision"} =>
       /\ canTransitionVerification(q.from, q.to) /\ q.to \in Decided
       /\ q.to \in {"VERIFIED", "SUSPENDED"} => q.verified
       /\ q.to = "SUSPENDED" => q.suspended

\* The order of the events in flight.
OrderOK == precedes \subseteq Requests \X Requests /\ overtaken \subseteq Requests

\* The types of the rows.
RowsOK ==
  /\ TypeOKMembers
  /\ orgs \in [Orgs -> SponsorOrganization \union {NoOrg}]
  /\ lastEvent \in [Orgs -> SponsorVerificationEvent]
  /\ certified \subseteq Orgs
  /\ submittedLock \in [Orgs -> Nat]
  /\ OrderOK

SlotsOK == reqs \in [Requests -> Slot] /\ overlapped \in BOOLEAN

\* What the newest event tells of an organisation's row.
Tells(e, row) ==
  /\ row.status \notin Decided => e.to = row.status
  /\ e.from # "NONE" => e.to \in VERIFICATION_TRANSITIONS[e.from]

\* The stamps an organisation's status needs.
Stamped(row) ==
  /\ row.status \in {"VERIFIED", "SUSPENDED"} => row.verified
  /\ row.status = "SUSPENDED" => row.suspended

RowsTell == \A o \in Orgs : Tells(lastEvent[o], orgs[o]) /\ Stamped(orgs[o])

\* The inductive invariant.
SInv ==
  /\ RowsOK /\ SlotsOK
  /\ \A r \in Requests : RequestKnows(reqs[r])
  /\ RowsTell

--------------------------------------------------------------------------------
LEMMA IdleKnows == Idle \in Slot /\ RequestKnows(Idle)
BY DEF Slot, Idle, RequestKnows

\* A step preserves the invariant when the rows it leaves have their types and
\* their events, no organisation is lost and the slot's new content is sound.
LEMMA Assemble ==
  ASSUME SInv, NEW r \in Requests, NEW q \in Slot, RequestKnows(q)',
         reqs' = reqs \/ reqs' = [reqs EXCEPT ![r] = q],
         overlapped' \in BOOLEAN, RowsOK', RowsTell',
         \A o \in Orgs : Exists(o) => Exists(o)',
         \A o \in Orgs, u \in Users : IsMember(o, u) => IsMember(o, u)'
  PROVE  SInv'
<1>1. SlotsOK'
  BY DEF SInv, SlotsOK
<1>2. ASSUME NEW s \in Requests
      PROVE  RequestKnows(reqs[s])'
  <2>1. CASE reqs'[s] = q
    BY <2>1 DEF RequestKnows
  <2>2. CASE reqs'[s] = reqs[s]
    <3>1. RequestKnows(reqs[s])
      BY DEF SInv
    <3>2. reqs[s].step = "writeUpdate" => reqs[s].org \in Orgs
      BY DEF SInv, SlotsOK, Slot, Idle, MemberRequest, VerificationRequest
    <3>3. reqs[s].step \in {"readMember", "countOwners", "setRemoved"}
            => reqs[s].of \in Orgs /\ reqs[s].user \in Users
      BY DEF SInv, SlotsOK, Slot, Idle, MemberRequest, VerificationRequest
    <3> QED
      BY <2>2, <3>1, <3>2, <3>3 DEF RequestKnows
  <2> QED
    BY <2>1, <2>2 DEF SInv, SlotsOK
<1> QED
  BY <1>1, <1>2 DEF SInv

\* A step that leaves the rows alone, but for the certificates.
LEMMA QuietStep ==
  ASSUME SInv, NEW r \in Requests, NEW q \in Slot, RequestKnows(q),
         reqs' = reqs \/ reqs' = [reqs EXCEPT ![r] = q],
         overlapped' \in BOOLEAN, certified' \subseteq Orgs,
         UNCHANGED <<memberships, orgs, lastEvent, submittedLock>>,
         OrderOK' \/ UNCHANGED eventOrder
  PROVE  SInv'
<1>1. RowsOK' /\ RowsTell'
  BY DEF SInv, RowsOK, OrderOK, eventOrder, TypeOKMembers, RowsTell
<1>2. /\ RequestKnows(q)'
      /\ \A o \in Orgs : Exists(o) => Exists(o)'
      /\ \A o \in Orgs, u \in Users : IsMember(o, u) => IsMember(o, u)'
  BY DEF RequestKnows, Exists, IsMember
<1> QED
  BY <1>1, <1>2, Assemble

\* The same for the writes of the members, which change memberships only.
LEMMA MembershipStep ==
  ASSUME SInv, NEW r \in Requests, Keep(r, Idle), TypeOKMembers',
         \A o \in Orgs, u \in Users : IsMember(o, u) => IsMember(o, u)',
         UNCHANGED verificationVars
  PROVE  SInv'
<1>1. RowsOK' /\ RowsTell' /\ RequestKnows(Idle)'
  BY DEF SInv, RowsOK, OrderOK, verificationVars, eventOrder, RowsTell, RequestKnows, Idle
<1>2. overlapped' \in BOOLEAN /\ \A o \in Orgs : Exists(o) => Exists(o)'
  BY DEF SInv, SlotsOK, Keep, verificationVars, Exists
<1> QED
  BY <1>1, <1>2, IdleKnows, Assemble DEF Keep

--------------------------------------------------------------------------------
LEMMA InitSound == Init => SInv
<1> SUFFICES ASSUME Init PROVE SInv
  OBVIOUS
<1>1. RowsOK
  BY DEF Init, RowsOK, OrderOK, InitMembers, TypeOKMembers, NoOrg, SponsorVerificationEvent
<1>2. SlotsOK /\ \A r \in Requests : RequestKnows(reqs[r])
  BY IdleKnows DEF Init, InitSlots, SlotsOK
<1>3. RowsTell
  BY DEF Init, RowsTell, Tells, Stamped, NoOrg
<1> QED
  BY <1>1, <1>2, <1>3 DEF SInv

LEMMA MembersSound ==
  ASSUME SInv, NEW r \in Requests, MemberStep(r), UNCHANGED verificationVars
  PROVE  SInv'
<1> USE DEF verificationVars
<1>a. SlotsOK /\ TypeOKMembers /\ certified \subseteq Orgs
  BY DEF SInv, RowsOK
<1>1. CASE BeginAddMember(r)
  <2>1. PICK o \in Orgs, u \in Users, role \in RolesGiven :
          Begin(r, [step |-> "upsertMember", org |-> o, user |-> u, role |-> role])
    BY <1>1 DEF BeginAddMember
  <2>2. PICK q : q = [step |-> "upsertMember", org |-> o, user |-> u, role |-> role]
    OBVIOUS
  <2>3. q \in Slot /\ RequestKnows(q)
    BY <2>2 DEF Slot, MemberRequest, RequestKnows
  <2>4. reqs' = [reqs EXCEPT ![r] = q] /\ overlapped' \in BOOLEAN
    BY <1>a, <2>1, <2>2 DEF Begin, SlotsOK, Others
  <2> QED
    BY <1>a, <1>1, <2>3, <2>4, QuietStep DEF BeginAddMember
<1>2. CASE UpsertMember(r)
  <2>1. reqs[r].org \in Orgs /\ reqs[r].user \in Users /\ reqs[r].role \in SponsorMembershipRole
    BY <1>a, <1>2, SponsorMembersConstants DEF UpsertMember, At, SlotsOK, Slot, Idle, MemberRequest, VerificationRequest
  <2>2. TypeOKMembers'
    BY <1>a, <1>2, <2>1 DEF UpsertMember, TypeOKMembers, Membership, SponsorMembershipStatus
  <2>3. \A o \in Orgs, u \in Users : IsMember(o, u) => IsMember(o, u)'
    BY <1>a, <1>2, <2>1 DEF UpsertMember, TypeOKMembers, IsMember, NoMembership
  <2> QED
    BY <1>2, <2>2, <2>3, MembershipStep DEF UpsertMember, Finish
<1>3. CASE BeginRemoveMember(r)
  <2>1. PICK o \in Orgs, of \in Orgs, u \in Users :
          IsMember(of, u) /\ Begin(r, [step |-> "readMember", org |-> o, of |-> of, user |-> u])
    BY <1>3 DEF BeginRemoveMember
  <2>2. PICK q : q = [step |-> "readMember", org |-> o, of |-> of, user |-> u]
    OBVIOUS
  <2>3. q \in Slot /\ RequestKnows(q)
    BY <2>1, <2>2 DEF Slot, MemberRequest, RequestKnows
  <2>4. reqs' = [reqs EXCEPT ![r] = q] /\ overlapped' \in BOOLEAN
    BY <1>a, <2>1, <2>2 DEF Begin, SlotsOK, Others
  <2> QED
    BY <1>a, <1>3, <2>3, <2>4, QuietStep DEF BeginRemoveMember
<1>4. CASE ReadMember(r) \/ CountOwners(r)
  <2>1. reqs[r].step \in {"readMember", "countOwners"} /\ UNCHANGED memberships
    BY <1>4 DEF ReadMember, CountOwners, At
  <2>2. reqs[r] \in [step : {"upsertMember", "readMember", "countOwners", "setRemoved"}, org : Orgs, of : Orgs, user : Users]
    BY <1>a, <2>1 DEF SlotsOK, Slot, Idle, MemberRequest, VerificationRequest
  <2>3. PICK q : /\ reqs' = [reqs EXCEPT ![r] = q]
                 /\ q = Idle \/ \E s \in {"countOwners", "setRemoved"} : q = [reqs[r] EXCEPT !.step = s]
                 /\ UNCHANGED overlapped
    BY <1>4 DEF ReadMember, CountOwners, Keep, Finish
  <2>4. IsMember(reqs[r].of, reqs[r].user)
    BY <2>1 DEF SInv, RequestKnows
  <2>5. q \in Slot /\ RequestKnows(q)
    BY <2>2, <2>3, <2>4, IdleKnows DEF Slot, MemberRequest, RequestKnows
  <2> QED
    BY <1>a, <2>1, <2>3, <2>5, QuietStep DEF SlotsOK
<1>5. CASE SetRemoved(r)
  <2>1. reqs[r].of \in Orgs /\ reqs[r].user \in Users
    BY <1>a, <1>5 DEF SetRemoved, At, SlotsOK, Slot, Idle, MemberRequest, VerificationRequest
  <2>2. PICK m \in Membership : m = memberships[<<reqs[r].of, reqs[r].user>>]
    BY <1>a, <1>5, <2>1 DEF SetRemoved, At, SInv, RequestKnows, IsMember, TypeOKMembers
  <2>a. [m EXCEPT !.status = "REMOVED"] = [role |-> m.role, status |-> "REMOVED"]
    BY DEF Membership
  <2>b. memberships' = [memberships EXCEPT ![<<reqs[r].of, reqs[r].user>>] =
                          [memberships[<<reqs[r].of, reqs[r].user>>] EXCEPT !.status = "REMOVED"]]
    BY <1>5, Zenon DEF SetRemoved
  <2>3. memberships' = [memberships EXCEPT ![<<reqs[r].of, reqs[r].user>>] =
                          [role |-> m.role, status |-> "REMOVED"]]
    BY <2>2, <2>a, <2>b, Zenon
  <2>4. [role |-> m.role, status |-> "REMOVED"] \in Membership \ {NoMembership}
    BY <2>2 DEF Membership, SponsorMembershipRole, SponsorMembershipStatus, NoMembership
  <2>5. TypeOKMembers' /\ \A o \in Orgs, u \in Users : IsMember(o, u) => IsMember(o, u)'
    BY <1>a, <2>1, <2>3, <2>4 DEF TypeOKMembers, IsMember
  <2> QED
    BY <1>5, <2>5, MembershipStep DEF SetRemoved, Finish
<1> QED
  BY <1>1, <1>2, <1>3, <1>4, <1>5 DEF MemberStep

\* A transition written to a row keeps every row typed, and its event tells it;
\* a decision's event need not become the newest one.
LEMMA TransitionStep ==
  ASSUME SInv, NEW r \in Requests, NEW o \in Orgs, NEW row \in SponsorOrganization,
         NEW from \in SponsorVerificationStatus \union {"NONE"},
         canTransitionVerification(from, row.status), Stamped(row), Keep(r, Idle),
         orgs' = [orgs EXCEPT ![o] = row],
         \/ lastEvent' = [lastEvent EXCEPT ![o] = [from |-> from, to |-> row.status]]
         \/ lastEvent' = lastEvent /\ row.status \in Decided,
         submittedLock' \in [Orgs -> Nat], OrderOK', UNCHANGED <<memberships, certified>>
  PROVE  SInv'
<1>1. RowsOK'
  <2>1. orgs' \in [Orgs -> SponsorOrganization \union {NoOrg}]
    BY DEF SInv, RowsOK
  <2>2. [from |-> from, to |-> row.status] \in SponsorVerificationEvent
    BY DEF SponsorVerificationEvent, SponsorOrganization
  <2>3. lastEvent' \in [Orgs -> SponsorVerificationEvent]
    <3>1. lastEvent \in [Orgs -> SponsorVerificationEvent]
      BY DEF SInv, RowsOK
    <3> QED
      BY <2>2, <3>1
  <2> QED
    BY <2>1, <2>3 DEF SInv, RowsOK, TypeOKMembers
<1>2. RowsTell'
  <2> SUFFICES ASSUME NEW p \in Orgs
               PROVE  Tells(lastEvent'[p], orgs'[p]) /\ Stamped(orgs'[p])
    BY DEF RowsTell
  <2>1. CASE p = o
    <3>1. orgs'[p] = row
      BY <2>1 DEF SInv, RowsOK
    <3>2. Tells(lastEvent[p], orgs[p])
      BY DEF SInv, RowsTell
    <3>3. Tells(lastEvent'[p], row)
      BY <2>1, <3>2 DEF SInv, RowsOK, Tells, canTransitionVerification
    <3> QED
      BY <3>1, <3>3
  <2>2. CASE p # o
    BY <2>2 DEF SInv, RowsOK, RowsTell
  <2> QED
    BY <2>1, <2>2
<1>3. \A p \in Orgs : Exists(p) => Exists(p)'
  BY DEF SInv, RowsOK, Exists, NoOrg, SponsorOrganization, SponsorVerificationStatus
<1>4. /\ RequestKnows(Idle)' /\ overlapped' \in BOOLEAN
      /\ \A p \in Orgs, u \in Users : IsMember(p, u) => IsMember(p, u)'
  BY DEF RequestKnows, Idle, Keep, SInv, SlotsOK, IsMember
<1> QED
  BY <1>1, <1>2, <1>3, <1>4, IdleKnows, Assemble DEF Keep

LEMMA CreateSound ==
  ASSUME SInv, NEW r \in Requests, CreateOrganization(r)
  PROVE  SInv'
<1>1. PICK o \in Orgs, u \in Sponsors, state \in States \union {NoState} :
        /\ ~Exists(o)
        /\ orgs' = [orgs EXCEPT ![o] = [NoOrg EXCEPT !.status = "DRAFT", !.state = state]]
        /\ lastEvent' = [lastEvent EXCEPT ![o].to = "DRAFT"]
        /\ CreateMembership(o, u)
  BY DEF CreateOrganization
<1>2. PICK row : row = [NoOrg EXCEPT !.status = "DRAFT", !.state = state]
  OBVIOUS
<1>3. /\ row \in SponsorOrganization /\ row.status = "DRAFT" /\ Stamped(row)
      /\ orgs' = [orgs EXCEPT ![o] = row]
  BY <1>1, <1>2 DEF NoOrg, SponsorOrganization, SponsorVerificationStatus, Stamped
<1>4. PICK e \in SponsorVerificationEvent : e = lastEvent[o]
  BY DEF SInv, RowsOK
<1>5. lastEvent' = [lastEvent EXCEPT ![o] = [from |-> e.from, to |-> "DRAFT"]]
  <2>1. [e EXCEPT !.to = "DRAFT"] = [from |-> e.from, to |-> "DRAFT"]
    BY DEF SponsorVerificationEvent
  <2>2. lastEvent' = [lastEvent EXCEPT ![o] = [lastEvent[o] EXCEPT !.to = "DRAFT"]]
    BY <1>1, Zenon
  <2> QED
    BY <1>4, <2>1, <2>2, Zenon
<1>6. e.from = "NONE"
  \* The first event comes from nothing, and until then there is none: no
  \* transition leads to the status of a row that does not exist.
  <2>1. e.to = "NONE"
    BY <1>1, <1>4 DEF SInv, RowsTell, Tells, Exists, NoOrg, Decided
  <2>2. e.from # "NONE" => "NONE" \in VERIFICATION_TRANSITIONS[e.from]
    BY <1>4, <2>1 DEF SInv, RowsTell, Tells
  <2> QED
    BY <2>2 DEF SponsorVerificationEvent, SponsorVerificationStatus, VERIFICATION_TRANSITIONS
<1>7. TypeOKMembers' /\ \A p \in Orgs, v \in Users : IsMember(p, v) => IsMember(p, v)'
  <2>1. u \in Users
    BY SponsorMembersConstants
  <2>2. memberships \in [Orgs \X Users -> Membership \union {NoMembership}]
    BY DEF SInv, RowsOK, TypeOKMembers
  <2>3. [role |-> "OWNER", status |-> "ACTIVE"] \in Membership \ {NoMembership}
    BY DEF Membership, SponsorMembershipRole, SponsorMembershipStatus, NoMembership
  <2> QED
    BY <1>1, <2>1, <2>2, <2>3 DEF CreateMembership, TypeOKMembers, IsMember
<1>8. RowsOK'
  BY <1>3, <1>5, <1>7 DEF CreateOrganization, SInv, RowsOK, OrderOK, eventOrder,
                          SponsorVerificationEvent, SponsorVerificationStatus
<1>9. RowsTell'
  <2> SUFFICES ASSUME NEW p \in Orgs
               PROVE  Tells(lastEvent'[p], orgs'[p]) /\ Stamped(orgs'[p])
    BY DEF RowsTell
  <2>1. CASE p = o
    BY <1>3, <1>5, <1>6, <2>1 DEF SInv, RowsOK, Tells
  <2>2. CASE p # o
    BY <1>3, <1>5, <2>2 DEF SInv, RowsOK, RowsTell
  <2> QED
    BY <2>1, <2>2
<1>10. \A p \in Orgs : Exists(p) => Exists(p)'
  BY <1>3 DEF SInv, RowsOK, Exists, NoOrg, SponsorOrganization
<1>11. RequestKnows(Idle)' /\ reqs' = reqs /\ overlapped' \in BOOLEAN
  BY DEF RequestKnows, Idle, CreateOrganization, AtOnce, SInv, SlotsOK, Others
<1> QED
  BY <1>7, <1>8, <1>9, <1>10, <1>11, IdleKnows, Assemble

LEMMA UpdateSound ==
  ASSUME SInv, NEW r \in Requests,
         BeginUpdateOrganization(r) \/ ReadUpdate(r) \/ WriteUpdate(r)
  PROVE  SInv'
<1> USE DEF verificationVars
<1>a. SlotsOK /\ certified \subseteq Orgs
  BY DEF SInv, RowsOK
<1>1. CASE BeginUpdateOrganization(r)
  <2>1. PICK o \in Orgs, withLock \in BOOLEAN, state \in States \union {NoState} :
          Begin(r, [step |-> "readUpdate", org |-> o, state |-> state,
                    lock |-> IF withLock THEN {orgs[o].lock} ELSE {}])
    BY <1>1 DEF BeginUpdateOrganization
  <2>2. PICK q : q = [step |-> "readUpdate", org |-> o, state |-> state,
                      lock |-> IF withLock THEN {orgs[o].lock} ELSE {}]
    OBVIOUS
  <2>3. orgs[o].lock \in Nat
    BY DEF SInv, RowsOK, SponsorOrganization, NoOrg
  <2>4. q \in VerificationRequest
    <3>1. (IF withLock THEN {orgs[o].lock} ELSE {}) \in SUBSET Nat
      BY <2>3
    <3> QED
      BY <2>2, <3>1 DEF VerificationRequest
  <2>5. q \in Slot /\ RequestKnows(q)
    BY <2>2, <2>4 DEF Slot, RequestKnows
  <2>6. reqs' = [reqs EXCEPT ![r] = q] /\ overlapped' \in BOOLEAN
    BY <1>a, <2>1, <2>2 DEF Begin, SlotsOK, Others
  <2> QED
    BY <1>a, <1>1, <2>5, <2>6, QuietStep DEF BeginUpdateOrganization
<1>2. CASE ReadUpdate(r)
  <2>1. PICK q : /\ reqs' = [reqs EXCEPT ![r] = q] /\ UNCHANGED overlapped
                 /\ \/ q = Idle
                    \/ Editable(reqs[r].org) /\ q = [reqs[r] EXCEPT !.step = "writeUpdate"]
    BY <1>2 DEF ReadUpdate, Keep, Finish
  <2>2. PICK b \in [step : {"readUpdate", "writeUpdate"}, org : Orgs, lock : SUBSET Nat,
                    state : States \union {NoState}] : b = reqs[r]
    BY <1>a, <1>2 DEF ReadUpdate, At, SlotsOK, Slot, Idle, MemberRequest, VerificationRequest
  <2>3. q \in Slot /\ RequestKnows(q)
    <3>1. CASE q = Idle
      BY <3>1, IdleKnows
    <3>2. CASE Editable(b.org) /\ q = [b EXCEPT !.step = "writeUpdate"]
      <4>1. Exists(b.org)
        BY <3>2 DEF Editable, Exists, NoOrg
      <4> QED
        BY <3>2, <4>1 DEF Slot, VerificationRequest, RequestKnows
    <3> QED
      BY <2>1, <2>2, <3>1, <3>2
  <2> QED
    BY <1>a, <1>2, <2>1, <2>3, QuietStep DEF ReadUpdate, SlotsOK
<1>3. CASE WriteUpdate(r)
  <2>1. reqs[r] \in [step : {"readUpdate", "writeUpdate"}, org : Orgs, lock : SUBSET Nat,
                     state : States \union {NoState}]
    BY <1>a, <1>3 DEF WriteUpdate, At, SlotsOK, Slot, Idle, MemberRequest, VerificationRequest
  <2>2. PICK o \in Orgs, state \in States \union {NoState} :
          o = reqs[r].org /\ state = reqs[r].state
    BY <2>1
  <2>3. PICK row \in SponsorOrganization : row = orgs[o]
    BY <1>3, <2>2 DEF WriteUpdate, At, SInv, RequestKnows, Exists, RowsOK
  <2>4. PICK new : new = [row EXCEPT !.lock = row.lock + 1,
                                     !.state = IF state = NoState THEN row.state ELSE state]
    OBVIOUS
  <2>5. /\ new \in SponsorOrganization /\ new.status = row.status
        /\ new.verified = row.verified /\ new.suspended = row.suspended
    <3>1. row.lock \in Nat /\ row.state \in States \union {NoState}
      BY DEF SponsorOrganization
    <3>2. PICK lock \in Nat, home \in States \union {NoState} :
            lock = row.lock + 1 /\ home = IF state = NoState THEN row.state ELSE state
      BY <3>1
    <3>3. new = [row EXCEPT !.lock = lock, !.state = home]
      BY <2>4, <3>2
    <3> QED
      BY <3>3 DEF SponsorOrganization
  <2>6. orgs' = [orgs EXCEPT ![o] = new]
    BY <1>3, <2>2, <2>3, <2>4 DEF WriteUpdate, SInv, RowsOK
  <2>7. RowsOK' /\ RowsTell'
    <3>1. RowsOK'
      BY <1>3, <2>3, <2>5, <2>6 DEF WriteUpdate, SInv, RowsOK, OrderOK, eventOrder, TypeOKMembers
    <3>2. \A e : Tells(e, row) => Tells(e, new)
      BY <2>5 DEF Tells
    <3>3. Stamped(row) => Stamped(new)
      BY <2>5 DEF Stamped
    <3>4. RowsTell'
      BY <1>3, <2>3, <2>6, <3>2, <3>3 DEF WriteUpdate, SInv, RowsOK, RowsTell
    <3> QED
      BY <3>1, <3>4
  <2>8. \A p \in Orgs : Exists(p) => Exists(p)'
    <3>1. new # NoOrg
      BY <2>5 DEF NoOrg, SponsorOrganization, SponsorVerificationStatus
    <3> QED
      BY <2>6, <3>1 DEF SInv, RowsOK, Exists
  <2>9. /\ RequestKnows(Idle)' /\ overlapped' \in BOOLEAN
        /\ \A p \in Orgs, u \in Users : IsMember(p, u) => IsMember(p, u)'
    BY <1>3 DEF WriteUpdate, SInv, SlotsOK, IsMember, RequestKnows, Idle, Finish, Keep
  <2> QED
    BY <1>3, <2>7, <2>8, <2>9, IdleKnows, Assemble DEF WriteUpdate, Finish, Keep
<1> QED
  BY <1>1, <1>2, <1>3

LEMMA SubmitSound ==
  ASSUME SInv, NEW r \in Requests,
         BeginSubmitVerification(r) \/ ReadSubmit(r) \/ CountDocs(r) \/ WriteSubmit(r)
  PROVE  SInv'
<1> USE DEF verificationVars
<1> DEFINE Status == SponsorVerificationStatus \union {"NONE"}
           Kept(s) == [step : s, org : Orgs, from : Status]
<1>a. SlotsOK /\ certified \subseteq Orgs
  BY DEF SInv, RowsOK
<1>b. \A o \in Orgs : orgs[o].status \in Status
  BY DEF SInv, RowsOK, SponsorOrganization, NoOrg
<1>1. CASE BeginSubmitVerification(r)
  <2>1. PICK o \in Orgs : Begin(r, [step |-> "readSubmit", org |-> o, from |-> "NONE"])
    BY <1>1 DEF BeginSubmitVerification
  <2>2. PICK q : q = [step |-> "readSubmit", org |-> o, from |-> "NONE"]
    OBVIOUS
  <2>3. q \in Slot /\ RequestKnows(q)
    BY <2>2 DEF Slot, VerificationRequest, RequestKnows
  <2>4. reqs' = [reqs EXCEPT ![r] = q] /\ overlapped' \in BOOLEAN
    BY <1>a, <2>1, <2>2 DEF Begin, SlotsOK, Others
  <2> QED
    BY <1>a, <1>1, <2>3, <2>4, QuietStep DEF BeginSubmitVerification
<1>2. CASE ReadSubmit(r)
  <2>1. reqs[r].org \in Orgs
    BY <1>a, <1>2 DEF ReadSubmit, At, SlotsOK, Slot, Idle, MemberRequest, VerificationRequest
  <2>2. PICK o \in Orgs, from \in Status : o = reqs[r].org /\ from = orgs[reqs[r].org].status
    BY <1>b, <2>1
  <2>3. PICK q : /\ reqs' = [reqs EXCEPT ![r] = q] /\ UNCHANGED overlapped
                 /\ \/ q = Idle
                    \/ /\ canTransitionVerification(from, "SUBMITTED")
                       /\ q = [step |-> "countDocs", org |-> o, from |-> from]
    BY <1>2, <2>2 DEF ReadSubmit, Keep, Finish
  <2>4. q \in Slot /\ RequestKnows(q)
    BY <2>3, IdleKnows DEF Slot, VerificationRequest, RequestKnows
  <2> QED
    BY <1>a, <1>2, <2>3, <2>4, QuietStep DEF ReadSubmit, SlotsOK
<1>3. CASE CountDocs(r)
  <2>1. PICK b \in Kept({"countDocs"}) : b = reqs[r]
    BY <1>a, <1>3 DEF CountDocs, At, SlotsOK, Slot, Idle, MemberRequest, VerificationRequest
  <2>2. canTransitionVerification(b.from, "SUBMITTED")
    BY <2>1 DEF SInv, RequestKnows
  <2>3. PICK q : /\ reqs' = [reqs EXCEPT ![r] = q] /\ UNCHANGED overlapped
                 /\ q = Idle \/ q = [b EXCEPT !.step = "writeSubmit"]
    BY <1>3, <2>1 DEF CountDocs, Keep, Finish
  <2>4. q \in Slot /\ RequestKnows(q)
    BY <2>2, <2>3, IdleKnows DEF Slot, VerificationRequest, RequestKnows
  <2> QED
    BY <1>a, <1>3, <2>3, <2>4, QuietStep DEF CountDocs, SlotsOK
<1>4. CASE WriteSubmit(r)
  <2>1. PICK b \in Kept({"writeSubmit"}) : b = reqs[r]
    BY <1>a, <1>4 DEF WriteSubmit, At, SlotsOK, Slot, Idle, MemberRequest, VerificationRequest
  <2>2. canTransitionVerification(b.from, "SUBMITTED")
    BY <2>1 DEF SInv, RequestKnows
  \* The read that let the request go on found a row, and rows stay; the row
  \* has a type whatever it was.
  <2>3. PICK row : row = [orgs[b.org] EXCEPT !.status = "SUBMITTED"]
    OBVIOUS
  <2>4. row \in SponsorOrganization /\ row.status = "SUBMITTED"
    <3>1. PICK old \in SponsorOrganization \union {NoOrg} : old = orgs[b.org]
      BY DEF SInv, RowsOK
    <3>2. row = [old EXCEPT !.status = "SUBMITTED"]
      BY <2>3, <3>1, Zenon
    <3>3. CASE old \in SponsorOrganization
      BY <3>2, <3>3 DEF SponsorOrganization, SponsorVerificationStatus
    <3>4. CASE old = NoOrg
      <4>1. row = [status |-> "SUBMITTED", lock |-> 0, state |-> NoState, verified |-> FALSE,
                   suspended |-> FALSE]
        BY <3>2, <3>4 DEF NoOrg
      <4> QED
        BY <4>1 DEF SponsorOrganization, SponsorVerificationStatus
    <3> QED
      BY <3>3, <3>4
  <2>5. orgs' = [orgs EXCEPT ![b.org] = row]
    BY <1>4, <2>1, <2>3, Zenon DEF WriteSubmit
  <2>6. lastEvent' = [lastEvent EXCEPT ![b.org] = [from |-> b.from, to |-> row.status]]
    BY <1>4, <2>1, <2>4 DEF WriteSubmit
  <2>7. submittedLock' \in [Orgs -> Nat]
    BY <1>4, <2>1 DEF WriteSubmit, SInv, RowsOK, SponsorOrganization, NoOrg
  <2>8. b.org \in Orgs /\ b.from \in Status
    OBVIOUS
  <2>9. canTransitionVerification(b.from, row.status) /\ Stamped(row)
    BY <2>2, <2>4 DEF Stamped
  <2>10. Keep(r, Idle) /\ UNCHANGED <<memberships, certified>> /\ OrderOK'
    BY <1>4 DEF WriteSubmit, Finish, SInv, RowsOK, OrderOK, Inserted
  <2> HIDE DEF Kept, Status
  <2> QED
    BY <2>4, <2>5, <2>6, <2>7, <2>8, <2>9, <2>10, TransitionStep DEF Status
<1> QED
  BY <1>1, <1>2, <1>3, <1>4

LEMMA DecisionSound ==
  ASSUME SInv, NEW r \in Requests, BeginTransition(r) \/ InsertEvent(r) \/ WriteTransition(r)
  PROVE  SInv'
<1> USE DEF verificationVars
<1>a. SlotsOK /\ certified \subseteq Orgs
  BY DEF SInv, RowsOK
<1>1. CASE BeginTransition(r)
  <2>1. PICK o \in Orgs, to \in Decided :
          /\ Exists(o) /\ canTransitionVerification(orgs[o].status, to)
          /\ Begin(r, [step |-> "insertEvent", org |-> o, from |-> orgs[o].status, to |-> to,
                       verified |-> Stamp(to, "VERIFIED", orgs[o].verified),
                       suspended |-> Stamp(to, "SUSPENDED", orgs[o].suspended)])
    BY <1>1 DEF BeginTransition
  <2>2. PICK row \in SponsorOrganization : row = orgs[o]
    BY <2>1 DEF SInv, RowsOK, Exists
  <2>3. PICK ver, sus : /\ ver = Stamp(to, "VERIFIED", row.verified)
                        /\ sus = Stamp(to, "SUSPENDED", row.suspended)
    OBVIOUS
  <2>4. PICK q : q = [step |-> "insertEvent", org |-> o, from |-> row.status, to |-> to,
                      verified |-> ver, suspended |-> sus]
    OBVIOUS
  <2>5. ver \in BOOLEAN /\ sus \in BOOLEAN
    BY <2>3, Zenon DEF Stamp
  <2>6. row.status \in SponsorVerificationStatus /\ to \in SponsorVerificationStatus
    BY DEF SponsorOrganization, SponsorVerificationStatus, Decided
  \* Only a VERIFIED organisation is suspended, and it has its stamp.
  <2>7. to = "SUSPENDED" => row.verified
    <3>1. to = "SUSPENDED" => row.status = "VERIFIED"
      BY <2>1, <2>2, <2>6 DEF canTransitionVerification, VERIFICATION_TRANSITIONS,
                              SponsorVerificationStatus
    <3> QED
      BY <2>2, <3>1 DEF SInv, RowsTell, Stamped
  <2>8. (to \in {"VERIFIED", "SUSPENDED"} => ver) /\ (to = "SUSPENDED" => sus)
    BY <2>3, <2>7, Zenon DEF Stamp
  <2>9. q \in Slot /\ RequestKnows(q)
    <3>1. q \in VerificationRequest
      BY <2>4, <2>5, <2>6 DEF VerificationRequest
    <3>2. RequestKnows(q)
      BY <2>1, <2>2, <2>4, <2>8 DEF RequestKnows
    <3> QED
      BY <3>1, <3>2 DEF Slot
  <2>10. reqs' = [reqs EXCEPT ![r] = q] /\ overlapped' \in BOOLEAN
    BY <1>a, <2>1, <2>2, <2>3, <2>4, Zenon DEF Begin, SlotsOK, Others
  <2> QED
    BY <1>a, <1>1, <2>9, <2>10, QuietStep DEF BeginTransition
<1>3. CASE InsertEvent(r)
  <2>1. PICK b \in [step : {"insertEvent"}, org : Orgs, from : SponsorVerificationStatus,
                    to : SponsorVerificationStatus, verified : BOOLEAN, suspended : BOOLEAN] :
          b = reqs[r]
    BY <1>a, <1>3 DEF InsertEvent, At, SlotsOK, Slot, Idle, MemberRequest, VerificationRequest
  <2>2. PICK q : q = [b EXCEPT !.step = "writeDecision"]
    OBVIOUS
  <2>3. q \in Slot
    BY <2>2 DEF Slot, VerificationRequest
  <2>4. RequestKnows(b)
    BY <2>1 DEF SInv
  <2>5. RequestKnows(q)
    BY <2>2, <2>4 DEF RequestKnows
  <2>6. reqs' = [reqs EXCEPT ![r] = q] /\ overlapped' \in BOOLEAN
    BY <1>a, <1>3, <2>1, <2>2 DEF InsertEvent, Keep, SlotsOK
  <2>7. OrderOK'
    BY <1>3 DEF InsertEvent, SInv, RowsOK, OrderOK, Inserted
  <2> QED
    BY <1>a, <1>3, <2>3, <2>5, <2>6, <2>7, QuietStep DEF InsertEvent
<1>2. CASE WriteTransition(r)
  <2>1. PICK b \in [step : {"writeDecision"}, org : Orgs, from : SponsorVerificationStatus,
                    to : SponsorVerificationStatus, verified : BOOLEAN, suspended : BOOLEAN] :
          b = reqs[r]
    BY <1>a, <1>2 DEF WriteTransition, At, SlotsOK, Slot, Idle, MemberRequest, VerificationRequest
  <2>2. /\ canTransitionVerification(b.from, b.to) /\ b.to \in Decided
        /\ b.to \in {"VERIFIED", "SUSPENDED"} => b.verified
        /\ b.to = "SUSPENDED" => b.suspended
    BY <2>1 DEF SInv, RequestKnows
  <2>3. PICK old \in SponsorOrganization \union {NoOrg} : old = orgs[b.org]
    BY DEF SInv, RowsOK
  <2>4. PICK row : row = [old EXCEPT !.status = b.to, !.verified = b.verified,
                                     !.suspended = b.suspended]
    OBVIOUS
  <2>5. /\ row \in SponsorOrganization /\ row.status = b.to
        /\ row.verified = b.verified /\ row.suspended = b.suspended
    <3>1. CASE old \in SponsorOrganization
      BY <2>4, <3>1 DEF SponsorOrganization
    <3>2. CASE old = NoOrg
      <4>1. row = [status |-> b.to, lock |-> 0, state |-> NoState, verified |-> b.verified,
                   suspended |-> b.suspended]
        BY <2>4, <3>2 DEF NoOrg
      <4> QED
        BY <4>1 DEF SponsorOrganization
    <3> QED
      BY <3>1, <3>2
  <2>6. orgs' = [orgs EXCEPT ![b.org] = row]
    BY <1>2, <2>1, <2>3, <2>4 DEF WriteTransition, SInv, RowsOK
  <2>7. \/ lastEvent' = [lastEvent EXCEPT ![b.org] = [from |-> b.from, to |-> row.status]]
        \/ lastEvent' = lastEvent /\ row.status \in Decided
    BY <1>2, <2>1, <2>2, <2>5 DEF WriteTransition
  <2>8. /\ canTransitionVerification(b.from, row.status) /\ Stamped(row)
        /\ Keep(r, Idle) /\ UNCHANGED <<memberships, certified>>
        /\ submittedLock' \in [Orgs -> Nat]
    BY <1>2, <2>2, <2>5 DEF WriteTransition, Finish, SInv, RowsOK, Stamped
  <2>9. OrderOK'
    BY <1>2 DEF WriteTransition, SInv, RowsOK, OrderOK, Without
  <2>10. b.org \in Orgs /\ b.from \in SponsorVerificationStatus
    OBVIOUS
  <2> QED
    BY <2>5, <2>6, <2>7, <2>8, <2>9, <2>10, TransitionStep
<1> QED
  BY <1>1, <1>2, <1>3

LEMMA StepSound == SInv /\ [Next]_vars => SInv'
<1> SUFFICES ASSUME SInv, [Next]_vars PROVE SInv'
  OBVIOUS
<1>1. CASE UNCHANGED vars
  <2>1. UNCHANGED <<reqs, overlapped, memberships, orgs, lastEvent, certified, submittedLock>>
    BY <1>1 DEF vars, slots, verificationVars
  <2>2. UNCHANGED <<precedes, overtaken>>
    BY <1>1 DEF vars, verificationVars, eventOrder
  <2> QED
    BY <2>1, <2>2 DEF SInv, RowsOK, OrderOK, SlotsOK, TypeOKMembers, RowsTell, RequestKnows,
                      Exists, IsMember
<1>2. ASSUME NEW r \in Requests, ChangeCertificate(r) PROVE SInv'
  <2>1. certified' \subseteq Orgs /\ overlapped' \in BOOLEAN
    BY <1>2 DEF ChangeCertificate, AtOnce, Others, SInv, RowsOK, SlotsOK
  <2> QED
    BY <1>2, <2>1, IdleKnows, QuietStep DEF ChangeCertificate, AtOnce
<1>3. ASSUME NEW r \in Requests, BreakOff(r) PROVE SInv'
  BY <1>3, IdleKnows, QuietStep DEF BreakOff, Crash, Finish, Keep, SInv, RowsOK, SlotsOK,
                                    OrderOK, Without
<1> QED
  BY <1>1, <1>2, <1>3, MembersSound, CreateSound, UpdateSound, SubmitSound, DecisionSound DEF Next

LEMMA Sound == Spec => []SInv
BY InitSound, StepSound, PTL DEF Spec

--------------------------------------------------------------------------------
\* However many requests overlap, every row of sponsor_organizations,
\* sponsor_memberships and sponsor_verification_events, and what every request
\* keeps between two awaits, has its type.
THEOREM TypeCorrect == Spec => []TypeOK
<1>1. SInv => TypeOK
  BY DEF SInv, RowsOK, OrderOK, SlotsOK, Slot, TypeOK
<1> QED
  BY <1>1, Sound, PTL

\* However many requests overlap or break off, an organisation that stands
\* VERIFIED or SUSPENDED has its verifiedAt and a SUSPENDED one its suspendedAt,
\* although transition() writes back stamps it read before its transaction.
THEOREM StampsTell == Spec => []StampsTellDecision
<1>1. SInv => StampsTellDecision
  BY DEF SInv, RowsTell, Stamped, StampsTellDecision
<1> QED
  BY <1>1, Sound, PTL

--------------------------------------------------------------------------------
(* What holds while no two requests overlap: what a request read is still    *)
(* true when it writes.                                                      *)

Alone == \A r, q \in Requests : reqs[r] # Idle /\ reqs[q] # Idle => r = q

AnotherOwner(o, u) == Owners(o) # {} => \E w \in Owners(o) : w # u

StillTrue(q) ==
  /\ q.step = "setRemoved" /\ q.org = q.of => AnotherOwner(q.org, q.user)
  /\ q.step = "writeUpdate" => Editable(q.org)
  /\ q.step \in {"countDocs", "writeSubmit", "insertEvent", "writeDecision"} =>
       q.from = orgs[q.org].status
  /\ q.step \in {"insertEvent", "writeDecision"} => q.to # "SUBMITTED"

\* No event is overtaken, and the newest one tells the status.
InOrder == /\ precedes = {} /\ overtaken = {}
           /\ \A o \in Orgs : lastEvent[o].to = orgs[o].status

\* The inductive invariant of the requests that do not overlap.
AInv ==
  /\ SInv
  /\ ~overlapped => Alone /\ InOrder /\ \A r \in Requests : StillTrue(reqs[r])
  /\ FrozenOnceSubmitted

\* The step of one request.
Step(r) ==
  \/ MemberStep(r) /\ UNCHANGED verificationVars
  \/ CreateOrganization(r) \/ ChangeCertificate(r)
  \/ BeginUpdateOrganization(r) \/ ReadUpdate(r) \/ WriteUpdate(r)
  \/ BeginSubmitVerification(r) \/ ReadSubmit(r) \/ CountDocs(r) \/ WriteSubmit(r)
  \/ BeginTransition(r) \/ InsertEvent(r) \/ WriteTransition(r)
  \/ BreakOff(r)

\* A request arrives, runs in one piece, or goes on.
LEMMA SlotMoves ==
  ASSUME NEW r \in Requests, Step(r)
  PROVE  \/ \E q : Begin(r, q)
         \/ AtOnce(r)
         \/ reqs[r] # Idle /\ \E q : Keep(r, q)
<1> USE DEF Finish
<1>1. \A st : At(r, st) /\ st # "idle" => reqs[r] # Idle
  BY DEF At, Idle
<1>2. CASE BeginAddMember(r) \/ BeginRemoveMember(r) \/ BeginUpdateOrganization(r)
           \/ BeginSubmitVerification(r) \/ BeginTransition(r)
  BY <1>2 DEF BeginAddMember, BeginRemoveMember, BeginUpdateOrganization,
              BeginSubmitVerification, BeginTransition
<1>3. CASE CreateOrganization(r) \/ ChangeCertificate(r)
  BY <1>3 DEF CreateOrganization, ChangeCertificate
<1>4. CASE UpsertMember(r) \/ ReadMember(r) \/ CountOwners(r) \/ SetRemoved(r)
  BY <1>1, <1>4 DEF UpsertMember, ReadMember, CountOwners, SetRemoved
<1>5. CASE ReadUpdate(r) \/ WriteUpdate(r) \/ ReadSubmit(r) \/ CountDocs(r) \/ WriteSubmit(r)
           \/ InsertEvent(r) \/ WriteTransition(r)
  BY <1>1, <1>5 DEF ReadUpdate, WriteUpdate, ReadSubmit, CountDocs, WriteSubmit, InsertEvent,
                    WriteTransition
<1>6. CASE BreakOff(r)
  BY <1>6 DEF BreakOff, Crash
<1> QED
  BY <1>2, <1>3, <1>4, <1>5, <1>6 DEF Step, MemberStep

\* Without overlap only the request that steps has a slot.
LEMMA OneAtATime ==
  ASSUME AInv, NEW r \in Requests, Step(r), ~overlapped'
  PROVE  /\ ~overlapped /\ StillTrue(reqs[r]) /\ InOrder
         /\ \A s \in Requests : s # r => reqs[s] = Idle /\ reqs'[s] = Idle
<1>1. reqs \in [Requests -> Slot] /\ (~overlapped => Alone /\ InOrder /\ StillTrue(reqs[r]))
  BY DEF AInv, SInv, SlotsOK
<1>2. CASE \E q : Begin(r, q)
  BY <1>1, <1>2 DEF Begin, Others
<1>3. CASE AtOnce(r)
  BY <1>1, <1>3 DEF AtOnce, Others
<1>4. CASE reqs[r] # Idle /\ \E q : Keep(r, q)
  BY <1>1, <1>4 DEF Keep, Alone
<1> QED
  BY <1>2, <1>3, <1>4, SlotMoves

\* With more than one owner any of them leaves another.
LEMMA OwnersAreMany ==
  ASSUME NEW o \in Orgs, NEW u, NotFinalOwner(o)
  PROVE  AnotherOwner(o, u)
<1> SUFFICES ASSUME Owners(o) \subseteq {u} PROVE FALSE
  BY DEF AnotherOwner
<1>1. IsFiniteSet({u}) /\ Cardinality({u}) = 1
  BY FS_Singleton
<1>2. Owners(o) \in SUBSET {u}
  OBVIOUS
<1>3. Cardinality(Owners(o)) <= 1 /\ IsFiniteSet(Owners(o))
  BY <1>1, <1>2, FS_Subset
<1>4. Cardinality(Owners(o)) \in Nat
  BY <1>3, FS_CardinalityType
<1> QED
  BY <1>3, <1>4 DEF NotFinalOwner

\* What the step leaves in its own slot is true when the step ends.
LEMMA StepStillTrue ==
  ASSUME AInv, NEW r \in Requests, Step(r), ~overlapped'
  PROVE  StillTrue(reqs[r])'
<1> USE DEF Finish, verificationVars
<1>1. reqs \in [Requests -> Slot] /\ StillTrue(reqs[r])
  BY OneAtATime DEF AInv, SInv, SlotsOK
<1>2. reqs'[r] = Idle => StillTrue(reqs[r])'
  BY DEF StillTrue, Idle
<1>3. reqs'[r].step \notin {"setRemoved", "writeUpdate", "countDocs", "writeSubmit",
                            "insertEvent", "writeDecision"}
        => StillTrue(reqs[r])'
  BY DEF StillTrue
<1>4. CASE BeginAddMember(r) \/ BeginRemoveMember(r) \/ BeginUpdateOrganization(r)
           \/ BeginSubmitVerification(r)
  BY <1>1, <1>3, <1>4 DEF BeginAddMember, BeginRemoveMember, BeginUpdateOrganization,
                          BeginSubmitVerification, Begin
<1>5. CASE CreateOrganization(r) \/ ChangeCertificate(r)
  BY <1>2, <1>5 DEF CreateOrganization, ChangeCertificate, AtOnce
<1>6. CASE ReadMember(r) \/ CountOwners(r)
  <2>1. PICK b \in [step : {"readMember", "countOwners"}, org : Orgs, of : Orgs, user : Users] :
          b = reqs[r]
    BY <1>1, <1>6 DEF ReadMember, CountOwners, At, Slot, Idle, MemberRequest, VerificationRequest
  <2>2. UNCHANGED memberships
    BY <1>6 DEF ReadMember, CountOwners
  <2>3. CASE ReadMember(r) /\ memberships[<<b.of, b.user>>].role # "OWNER"
    <3>1. b.user \notin Owners(b.of)
      BY <2>3 DEF Owners
    <3>2. reqs'[r] = [b EXCEPT !.step = "setRemoved"]
      BY <1>1, <2>1, <2>3 DEF ReadMember, Keep
    <3>3. AnotherOwner(b.of, b.user)
      BY <3>1 DEF AnotherOwner
    <3> QED
      BY <2>2, <3>2, <3>3 DEF StillTrue, AnotherOwner, Owners
  <2>4. CASE ReadMember(r) /\ memberships[<<b.of, b.user>>].role = "OWNER"
    <3>1. reqs'[r] = [b EXCEPT !.step = "countOwners"]
      BY <1>1, <2>1, <2>4 DEF ReadMember, Keep
    <3> QED
      BY <1>3, <3>1
  <2>5. CASE CountOwners(r)
    <3>1. reqs'[r] = Idle \/ (NotFinalOwner(b.org) /\ reqs'[r] = [b EXCEPT !.step = "setRemoved"])
      BY <1>1, <2>1, <2>5 DEF CountOwners, Keep
    <3>2. NotFinalOwner(b.org) => AnotherOwner(b.org, b.user)
      BY OwnersAreMany
    <3> QED
      BY <1>2, <2>2, <3>1, <3>2 DEF StillTrue, AnotherOwner, Owners
  <2> QED
    BY <1>6, <2>3, <2>4, <2>5
<1>7. CASE ReadUpdate(r)
  <2>1. PICK b \in [step : {"readUpdate", "writeUpdate"}, org : Orgs, lock : SUBSET Nat,
                    state : States \union {NoState}] : b = reqs[r]
    BY <1>1, <1>7 DEF ReadUpdate, At, Slot, Idle, MemberRequest, VerificationRequest
  <2>2. reqs'[r] = Idle \/ (Editable(b.org) /\ reqs'[r] = [b EXCEPT !.step = "writeUpdate"])
    BY <1>1, <1>7, <2>1 DEF ReadUpdate, Keep
  <2> QED
    BY <1>2, <1>7, <2>2 DEF ReadUpdate, StillTrue, Editable
<1>8. CASE ReadSubmit(r)
  <2>1. reqs'[r] = Idle
        \/ reqs'[r] = [step |-> "countDocs", org |-> reqs[r].org, from |-> orgs[reqs[r].org].status]
    BY <1>1, <1>8 DEF ReadSubmit, Keep
  <2> QED
    BY <1>2, <1>8, <2>1 DEF ReadSubmit, StillTrue
<1>9. CASE CountDocs(r)
  <2>1. PICK b \in [step : {"countDocs"}, org : Orgs,
                    from : SponsorVerificationStatus \union {"NONE"}] : b = reqs[r]
    BY <1>1, <1>9 DEF CountDocs, At, Slot, Idle, MemberRequest, VerificationRequest
  <2>2. reqs'[r] = Idle \/ reqs'[r] = [b EXCEPT !.step = "writeSubmit"]
    BY <1>1, <1>9, <2>1 DEF CountDocs, Keep
  <2>3. b.from = orgs[b.org].status
    BY <1>1, <2>1 DEF StillTrue
  <2> QED
    BY <1>2, <1>9, <2>2, <2>3 DEF CountDocs, StillTrue
<1>10. CASE BeginTransition(r)
  <2>1. PICK o \in Orgs, to \in Decided :
          Begin(r, [step |-> "insertEvent", org |-> o, from |-> orgs[o].status, to |-> to,
                    verified |-> Stamp(to, "VERIFIED", orgs[o].verified),
                    suspended |-> Stamp(to, "SUSPENDED", orgs[o].suspended)])
    BY <1>10 DEF BeginTransition
  <2>2. PICK from, ver, sus : /\ from = orgs[o].status
                              /\ ver = Stamp(to, "VERIFIED", orgs[o].verified)
                              /\ sus = Stamp(to, "SUSPENDED", orgs[o].suspended)
    OBVIOUS
  <2>3. reqs'[r] = [step |-> "insertEvent", org |-> o, from |-> from, to |-> to,
                    verified |-> ver, suspended |-> sus]
    BY <1>1, <2>1, <2>2, Zenon DEF Begin
  <2>4. /\ reqs'[r].step = "insertEvent" /\ reqs'[r].org = o /\ reqs'[r].from = from
        /\ reqs'[r].to = to
    BY <2>3
  <2> QED
    BY <1>10, <2>2, <2>4 DEF BeginTransition, StillTrue, Decided
<1>12. CASE InsertEvent(r)
  <2>1. PICK b \in [step : {"insertEvent"}, org : Orgs, from : SponsorVerificationStatus,
                    to : SponsorVerificationStatus, verified : BOOLEAN, suspended : BOOLEAN] :
          b = reqs[r]
    BY <1>1, <1>12 DEF InsertEvent, At, Slot, Idle, MemberRequest, VerificationRequest
  <2>2. reqs'[r] = [b EXCEPT !.step = "writeDecision"]
    BY <1>1, <1>12, <2>1 DEF InsertEvent, Keep
  <2>3. b.from = orgs[b.org].status /\ b.to # "SUBMITTED"
    BY <1>1, <2>1 DEF StillTrue
  <2> QED
    BY <1>12, <2>2, <2>3 DEF InsertEvent, StillTrue
<1>11. CASE UpsertMember(r) \/ SetRemoved(r) \/ WriteUpdate(r) \/ WriteSubmit(r)
            \/ WriteTransition(r) \/ BreakOff(r)
  BY <1>1, <1>2, <1>11 DEF UpsertMember, SetRemoved, WriteUpdate, WriteSubmit, WriteTransition,
                           BreakOff, Crash, Keep
<1> QED
  BY <1>4, <1>5, <1>6, <1>7, <1>8, <1>9, <1>10, <1>11, <1>12 DEF Step, MemberStep

\* The rows a step may leave: the profile of an organisation changes while it can
\* be edited, and a decision is taken on what was submitted.
LEMMA StepFrozen ==
  ASSUME AInv, NEW r \in Requests, Step(r), ~overlapped',
         NEW o \in Orgs, Exists(o)', orgs'[o].status \notin {"DRAFT", "CHANGES_REQUESTED"}
  PROVE  orgs'[o].lock = submittedLock'[o]
<1> USE DEF verificationVars
<1>1. /\ reqs[r] \in Slot /\ StillTrue(reqs[r]) /\ RequestKnows(reqs[r])
      /\ orgs \in [Orgs -> SponsorOrganization \union {NoOrg}]
      /\ submittedLock \in [Orgs -> Nat]
      /\ Exists(o) /\ orgs[o].status \notin {"DRAFT", "CHANGES_REQUESTED"}
           => orgs[o].lock = submittedLock[o]
  BY OneAtATime DEF AInv, SInv, RowsOK, SlotsOK, FrozenOnceSubmitted
<1>2. CASE UNCHANGED <<orgs, submittedLock>>
  BY <1>1, <1>2 DEF Exists
<1>3. CASE CreateOrganization(r)
  <2>1. PICK p \in Orgs, state \in States \union {NoState} :
          orgs' = [orgs EXCEPT ![p] = [NoOrg EXCEPT !.status = "DRAFT", !.state = state]]
    BY <1>3 DEF CreateOrganization
  <2>2. [NoOrg EXCEPT !.status = "DRAFT", !.state = state].status = "DRAFT"
    BY DEF NoOrg
  <2>3. p # o
    BY <1>1, <2>1, <2>2
  <2> QED
    BY <1>1, <1>3, <2>1, <2>3 DEF CreateOrganization, Exists
<1>4. CASE WriteUpdate(r)
  <2>1. reqs[r].org \in Orgs /\ Editable(reqs[r].org)
    BY <1>1, <1>4 DEF WriteUpdate, At, StillTrue, Slot, Idle, MemberRequest, VerificationRequest
  <2>2. UNCHANGED submittedLock /\ \A p \in Orgs : orgs'[p].status = orgs[p].status
    BY <1>1, <1>4, <2>1 DEF WriteUpdate, SponsorOrganization, NoOrg
  <2>3. reqs[r].org # o
    BY <2>1, <2>2 DEF Editable
  <2>4. orgs'[o] = orgs[o]
    BY <1>1, <1>4, <2>3 DEF WriteUpdate
  <2> QED
    BY <1>1, <2>2, <2>4 DEF Exists
<1>5. CASE WriteSubmit(r)
  <2>1. reqs[r].org \in Orgs
    BY <1>1, <1>5 DEF WriteSubmit, At, Slot, Idle, MemberRequest, VerificationRequest
  <2>2. PICK old \in SponsorOrganization \union {NoOrg} : old = orgs[reqs[r].org]
    BY <1>1, <2>1
  <2>3. [old EXCEPT !.status = "SUBMITTED"].lock = old.lock
    BY DEF SponsorOrganization, NoOrg
  <2>4. orgs' = [orgs EXCEPT ![reqs[r].org] = [orgs[reqs[r].org] EXCEPT !.status = "SUBMITTED"]]
    BY <1>5, Zenon DEF WriteSubmit
  <2>5. orgs' = [orgs EXCEPT ![reqs[r].org] = [old EXCEPT !.status = "SUBMITTED"]]
    BY <2>2, <2>4, Zenon
  <2>6. submittedLock' = [submittedLock EXCEPT ![reqs[r].org] = old.lock]
    BY <1>5, <2>2 DEF WriteSubmit
  <2>7. CASE o = reqs[r].org
    BY <1>1, <2>1, <2>3, <2>5, <2>6, <2>7
  <2>8. CASE o # reqs[r].org
    BY <1>1, <2>5, <2>6, <2>8 DEF Exists
  <2> QED
    BY <2>7, <2>8
<1>6. CASE WriteTransition(r)
  <2>1. PICK b \in [step : {"writeDecision"}, org : Orgs, from : SponsorVerificationStatus,
                    to : SponsorVerificationStatus, verified : BOOLEAN, suspended : BOOLEAN] :
          b = reqs[r]
    BY <1>1, <1>6 DEF WriteTransition, At, Slot, Idle, MemberRequest, VerificationRequest
  <2>2. PICK old \in SponsorOrganization \union {NoOrg} : old = orgs[b.org]
    BY <1>1
  <2>3. PICK row : row = [old EXCEPT !.status = b.to, !.verified = b.verified,
                                     !.suspended = b.suspended]
    OBVIOUS
  <2>4. orgs' = [orgs EXCEPT ![b.org] = row] /\ UNCHANGED submittedLock
    BY <1>1, <1>6, <2>1, <2>2, <2>3 DEF WriteTransition
  <2>5. row.status = b.to /\ row.lock = old.lock
    BY <2>3 DEF SponsorOrganization, NoOrg
  <2>6. CASE o = b.org
    \* No status an administrator moves an organisation to, but "CHANGES_REQUESTED",
    \* is reached from one in which the profile can be edited.
    <3>1. b.to \notin {"SUBMITTED", "DRAFT", "CHANGES_REQUESTED"}
      BY <1>1, <2>1, <2>4, <2>5, <2>6 DEF StillTrue
    <3>2. b.to \in VERIFICATION_TRANSITIONS[b.from] /\ old.status = b.from
      BY <1>1, <2>1, <2>2 DEF StillTrue, RequestKnows, canTransitionVerification
    <3>3. b.from \notin {"DRAFT", "CHANGES_REQUESTED"}
      BY <3>1, <3>2 DEF VERIFICATION_TRANSITIONS, SponsorVerificationStatus
    <3>4. Exists(o)
      BY <2>2, <2>6, <3>2 DEF Exists, NoOrg, SponsorVerificationStatus
    <3>5. old.lock = submittedLock[o]
      BY <1>1, <2>2, <2>6, <3>2, <3>3, <3>4
    <3> QED
      BY <1>1, <2>4, <2>5, <2>6, <3>5
  <2>7. CASE o # b.org
    BY <1>1, <2>4, <2>7 DEF Exists
  <2> QED
    BY <2>6, <2>7
<1>7. ASSUME \/ ChangeCertificate(r) \/ BeginUpdateOrganization(r) \/ ReadUpdate(r)
             \/ BeginSubmitVerification(r) \/ ReadSubmit(r) \/ CountDocs(r)
             \/ BeginTransition(r) \/ InsertEvent(r) \/ BreakOff(r)
             \/ UNCHANGED verificationVars
      PROVE  UNCHANGED <<orgs, submittedLock>>
  BY <1>7 DEF ChangeCertificate, BeginUpdateOrganization, ReadUpdate, BeginSubmitVerification,
              ReadSubmit, CountDocs, BeginTransition, InsertEvent, BreakOff
<1> QED
  BY <1>2, <1>3, <1>4, <1>5, <1>6, <1>7 DEF Step

\* Alone, a decision commits the event it inserted as the newest one.
LEMMA StepInOrder ==
  ASSUME AInv, SInv', NEW r \in Requests, Step(r), ~overlapped'
  PROVE  InOrder'
<1> USE DEF verificationVars, eventOrder
<1>1. /\ InOrder /\ reqs[r] \in Slot
      /\ \A s \in Requests : s # r => reqs[s] = Idle
  BY OneAtATime DEF AInv, SInv, SlotsOK
<1>2. ~At(r, "writeDecision") => \A o : Inserted(o) = {}
  BY <1>1 DEF Inserted, At, Idle
<1>3. ASSUME \/ CreateOrganization(r) \/ ChangeCertificate(r) \/ BeginUpdateOrganization(r)
             \/ ReadUpdate(r) \/ WriteUpdate(r) \/ BeginSubmitVerification(r)
             \/ ReadSubmit(r) \/ CountDocs(r) \/ BeginTransition(r)
             \/ UNCHANGED verificationVars
      PROVE  UNCHANGED <<precedes, overtaken>>
  BY <1>3 DEF CreateOrganization, ChangeCertificate, BeginUpdateOrganization, ReadUpdate,
              WriteUpdate, BeginSubmitVerification, ReadSubmit, CountDocs, BeginTransition
<1>4. ASSUME InsertEvent(r) \/ WriteSubmit(r)
      PROVE  precedes' = {} /\ overtaken' = {}
  <2>1. \A o : Inserted(o) = {}
    BY <1>2, <1>4 DEF InsertEvent, WriteSubmit, At
  <2> QED
    BY <1>1, <1>4, <2>1 DEF InsertEvent, WriteSubmit, InOrder
<1>5. ASSUME WriteTransition(r) \/ BreakOff(r)
      PROVE  precedes' = {} /\ overtaken' = {}
  BY <1>1, <1>5 DEF WriteTransition, BreakOff, Without, InOrder
<1>6. precedes' = {} /\ overtaken' = {}
  BY <1>1, <1>3, <1>4, <1>5 DEF Step, InOrder
<1>7. /\ orgs \in [Orgs -> SponsorOrganization \union {NoOrg}]
      /\ lastEvent \in [Orgs -> SponsorVerificationEvent]
      /\ \A o \in Orgs : orgs'[o].status \notin Decided => lastEvent'[o].to = orgs'[o].status
      /\ \A o \in Orgs : lastEvent[o].to = orgs[o].status
  BY <1>1 DEF AInv, SInv, RowsOK, RowsTell, Tells, InOrder
<1>8. ASSUME NEW o \in Orgs
      PROVE  lastEvent'[o].to = orgs'[o].status
  <2>1. CASE UNCHANGED <<orgs, lastEvent>>
    BY <1>7, <2>1
  <2>2. ASSUME \/ ChangeCertificate(r) \/ BeginUpdateOrganization(r) \/ ReadUpdate(r)
               \/ BeginSubmitVerification(r) \/ ReadSubmit(r) \/ CountDocs(r)
               \/ BeginTransition(r) \/ InsertEvent(r) \/ BreakOff(r)
               \/ UNCHANGED verificationVars
        PROVE  UNCHANGED <<orgs, lastEvent>>
    BY <2>2 DEF ChangeCertificate, BeginUpdateOrganization, ReadUpdate, BeginSubmitVerification,
                ReadSubmit, CountDocs, BeginTransition, InsertEvent, BreakOff
  <2>3. CASE CreateOrganization(r)
    <3>1. PICK p \in Orgs, state \in States \union {NoState} :
            /\ orgs' = [orgs EXCEPT ![p] = [NoOrg EXCEPT !.status = "DRAFT", !.state = state]]
            /\ lastEvent' = [lastEvent EXCEPT ![p].to = "DRAFT"]
      BY <2>3 DEF CreateOrganization
    <3>2. CASE p = o
      <4>1. orgs'[o] = [NoOrg EXCEPT !.status = "DRAFT", !.state = state]
        BY <1>7, <3>1, <3>2
      <4>2. orgs'[o].status \notin Decided
        BY <4>1 DEF NoOrg, Decided
      <4> QED
        BY <1>7, <4>2
    <3>3. CASE p # o
      BY <1>7, <3>1, <3>3
    <3> QED
      BY <3>2, <3>3
  <2>4. CASE WriteUpdate(r)
    <3>1. reqs[r].org \in Orgs
      BY <1>1, <2>4 DEF WriteUpdate, At, Slot, Idle, MemberRequest, VerificationRequest
    <3>2. orgs'[o].status = orgs[o].status /\ UNCHANGED lastEvent
      BY <1>7, <2>4, <3>1 DEF WriteUpdate, SponsorOrganization, NoOrg
    <3> QED
      BY <1>7, <3>2
  <2>5. CASE WriteSubmit(r)
    <3>1. PICK p \in Orgs : p = reqs[r].org
      BY <1>1, <2>5 DEF WriteSubmit, At, Slot, Idle, MemberRequest, VerificationRequest
    <3>2. PICK old : old = orgs[p]
      OBVIOUS
    <3>3. orgs' = [orgs EXCEPT ![p] = [old EXCEPT !.status = "SUBMITTED"]]
      BY <2>5, <3>1, <3>2, Zenon DEF WriteSubmit
    <3>4. CASE p = o
      <4>1. orgs'[o].status = "SUBMITTED"
        BY <1>7, <3>2, <3>3, <3>4 DEF SponsorOrganization, NoOrg
      <4> QED
        BY <1>7, <4>1 DEF Decided
    <3>5. CASE p # o
      BY <1>7, <2>5, <3>1, <3>3, <3>5 DEF WriteSubmit
    <3> QED
      BY <3>4, <3>5
  <2>6. CASE WriteTransition(r)
    <3>1. PICK b \in [step : {"writeDecision"}, org : Orgs, from : SponsorVerificationStatus,
                      to : SponsorVerificationStatus, verified : BOOLEAN, suspended : BOOLEAN] :
            b = reqs[r]
      BY <1>1, <2>6 DEF WriteTransition, At, Slot, Idle, MemberRequest, VerificationRequest
    <3>2. lastEvent' = [lastEvent EXCEPT ![b.org] = [from |-> b.from, to |-> b.to]]
      BY <1>1, <2>6, <3>1 DEF WriteTransition, InOrder
    <3>3. PICK row : row = [orgs[b.org] EXCEPT !.status = b.to, !.verified = b.verified,
                                              !.suspended = b.suspended]
      OBVIOUS
    <3>4. row.status = b.to
      BY <1>7, <3>3 DEF SponsorOrganization, NoOrg
    <3>5. orgs' = [orgs EXCEPT ![b.org] = row]
      BY <2>6, <3>1, <3>3 DEF WriteTransition
    <3>6. CASE b.org = o
      BY <1>7, <3>2, <3>4, <3>5, <3>6
    <3>7. CASE b.org # o
      BY <1>7, <3>2, <3>5, <3>7
    <3> QED
      BY <3>6, <3>7
  <2> QED
    BY <2>1, <2>2, <2>3, <2>4, <2>5, <2>6 DEF Step
<1> QED
  BY <1>6, <1>8 DEF InOrder

--------------------------------------------------------------------------------
LEMMA AloneStep ==
  ASSUME AInv, SInv', NEW r \in Requests, Step(r)
  PROVE  AInv'
<1> SUFFICES ASSUME ~overlapped'
             PROVE  (Alone /\ InOrder /\ (\A s \in Requests : StillTrue(reqs[s]))
                       /\ FrozenOnceSubmitted)'
  BY DEF AInv, FrozenOnceSubmitted
<1>1. \A s \in Requests : s # r => reqs'[s] = Idle
  BY OneAtATime
<1>2. Alone'
  BY <1>1 DEF Alone
<1>3. StillTrue(reqs[r])'
  BY StepStillTrue
<1>4. \A s \in Requests : StillTrue(reqs[s])'
  BY <1>1, <1>3 DEF StillTrue, Idle
<1>5. FrozenOnceSubmitted'
  BY StepFrozen DEF FrozenOnceSubmitted, Exists
<1>6. InOrder'
  BY StepInOrder
<1> QED
  BY <1>2, <1>4, <1>5, <1>6

LEMMA AloneHolds == Spec => []AInv
<1>1. Init => AInv
  <2> SUFFICES ASSUME Init PROVE AInv
    OBVIOUS
  <2>1. \A r \in Requests : reqs[r] = Idle
    BY DEF Init, InitSlots
  <2>2. /\ Alone /\ InOrder /\ (\A r \in Requests : StillTrue(reqs[r]))
        /\ FrozenOnceSubmitted
    BY <2>1 DEF Init, Alone, InOrder, StillTrue, Idle, FrozenOnceSubmitted, Exists, NoOrg
  <2> QED
    BY <2>2, InitSound DEF AInv
<1>2. AInv /\ SInv' /\ [Next]_vars => AInv'
  <2> SUFFICES ASSUME AInv, SInv', [Next]_vars PROVE AInv'
    OBVIOUS
  <2>1. CASE UNCHANGED vars
    BY <2>1 DEF vars, slots, verificationVars, eventOrder, AInv, Alone, InOrder, StillTrue,
                AnotherOwner, Owners, Editable, FrozenOnceSubmitted, Exists
  <2>2. CASE \E r \in Requests : Step(r)
    BY <2>2, AloneStep
  <2> QED
    BY <2>1, <2>2 DEF Next, Step
<1> QED
  BY <1>1, <1>2, Sound, PTL DEF Spec

\* The newest event of every organisation is a transition the state machine of
\* stage3-domain.ts allows, and it tells the status: however many requests
\* overlap or break off when that is DRAFT or SUBMITTED, and while none overlap
\* when an administrator gave it, as transition() inserts its event before its
\* update waits for the row.
THEOREM HistoryTellsStatus == Spec => []EventsTellStatus
<1>1. AInv => EventsTellStatus
  BY DEF AInv, SInv, RowsTell, Tells, InOrder, EventsTellStatus
<1> QED
  BY <1>1, AloneHolds, PTL

\* While no two requests overlap, the profile administrators review, verify,
\* reject or suspend is the one that was submitted: updateOrganization() refuses
\* it in every status but DRAFT and CHANGES_REQUESTED, and no decision leads
\* from these to another.
THEOREM SubmittedProfileFrozen == Spec => []FrozenOnceSubmitted
<1>1. AInv => FrozenOnceSubmitted
  BY DEF AInv
<1> QED
  BY <1>1, AloneHolds, PTL

--------------------------------------------------------------------------------
LEMMA EventStep ==
  ASSUME AInv, NEW r \in Requests, Step(r), ~overlapped',
         NEW o \in Orgs, lastEvent'[o] # lastEvent[o]
  PROVE  lastEvent'[o].from = lastEvent[o].to
<1> USE DEF verificationVars
<1>1. /\ reqs[r] \in Slot /\ StillTrue(reqs[r])
      /\ lastEvent \in [Orgs -> SponsorVerificationEvent]
      /\ \A p \in Orgs : lastEvent[p].to = orgs[p].status
  BY OneAtATime DEF AInv, SInv, RowsOK, SlotsOK, InOrder
<1>2. CASE CreateOrganization(r)
  <2>1. PICK p \in Orgs : ~Exists(p) /\ lastEvent' = [lastEvent EXCEPT ![p].to = "DRAFT"]
    BY <1>2 DEF CreateOrganization
  <2>2. p = o
    BY <1>1, <2>1
  <2>3. lastEvent[o].to = "NONE"
    BY <1>1, <2>1, <2>2 DEF Exists, NoOrg
  <2>4. lastEvent[o].from = "NONE"
    \* No transition leads to the status of a row that does not exist.
    <3>1. lastEvent[o].from # "NONE" => "NONE" \in VERIFICATION_TRANSITIONS[lastEvent[o].from]
      BY <2>3 DEF AInv, SInv, RowsTell, Tells
    <3> QED
      BY <1>1, <3>1 DEF SponsorVerificationEvent, SponsorVerificationStatus, VERIFICATION_TRANSITIONS
  <2>5. lastEvent'[o].from = lastEvent[o].from
    BY <1>1, <2>1, <2>2 DEF SponsorVerificationEvent
  <2> QED
    BY <2>3, <2>4, <2>5
<1>3. CASE WriteSubmit(r) \/ WriteTransition(r)
  <2>1. reqs[r].step \in {"writeSubmit", "writeDecision"}
    BY <1>3 DEF WriteSubmit, WriteTransition, At
  <2>2. PICK to : lastEvent' = [lastEvent EXCEPT ![reqs[r].org] = [from |-> reqs[r].from, to |-> to]]
    <3>1. overtaken = {}
      BY OneAtATime DEF InOrder
    <3> QED
      BY <1>3, <3>1 DEF WriteSubmit, WriteTransition
  <2>3. o = reqs[r].org
    BY <1>1, <2>2
  <2>4. reqs[r].from = lastEvent[o].to
    BY <1>1, <2>1, <2>3 DEF StillTrue
  <2> QED
    BY <1>1, <2>2, <2>3, <2>4
<1>4. ASSUME \/ ChangeCertificate(r) \/ BeginUpdateOrganization(r) \/ ReadUpdate(r)
             \/ WriteUpdate(r) \/ BeginSubmitVerification(r) \/ ReadSubmit(r) \/ CountDocs(r)
             \/ BeginTransition(r) \/ InsertEvent(r) \/ BreakOff(r)
             \/ UNCHANGED verificationVars
      PROVE  UNCHANGED lastEvent
  BY <1>4 DEF ChangeCertificate, BeginUpdateOrganization, ReadUpdate, WriteUpdate,
              BeginSubmitVerification, ReadSubmit, CountDocs, BeginTransition, InsertEvent,
              BreakOff
<1> QED
  BY <1>2, <1>3, <1>4 DEF Step

\* While no two requests overlap, the rows of sponsor_verification_events are a
\* chain from createOrganization() on: every submission and decision leaves the
\* status the event before it entered.
THEOREM EventsAreAChain == Spec => EventsChain
<1>1. AInv /\ [Next]_vars => (~overlapped' => \A o \in Orgs :
        lastEvent'[o] # lastEvent[o] => lastEvent'[o].from = lastEvent[o].to)
  <2>1. CASE UNCHANGED vars
    BY <2>1 DEF vars, verificationVars
  <2> QED
    BY <2>1, EventStep DEF Next, Step
<1> QED
  BY <1>1, AloneHolds, PTL DEF Spec, EventsChain

--------------------------------------------------------------------------------
\* A step while a request is about to remove an owner is that request's own.
LEMMA RemovalStep ==
  ASSUME AInv, NEW s \in Requests, Step(s), ~overlapped',
         NEW r \in Requests, NEW o \in Orgs,
         At(r, "setRemoved"), reqs[r].org = o, reqs[r].of = o, Owners(o) # {}
  PROVE  Owners(o)' # {}
<1>1. reqs[r] # Idle /\ r = s
  BY OneAtATime DEF At, Idle
<1>2. /\ reqs[r] \in Slot /\ StillTrue(reqs[r])
      /\ memberships \in [Orgs \X Users -> Membership \union {NoMembership}]
  BY <1>1, OneAtATime DEF AInv, SInv, RowsOK, SlotsOK, TypeOKMembers
<1>3. PICK w \in Owners(o) : w # reqs[r].user
  BY <1>2 DEF StillTrue, At, AnotherOwner
<1>4. SetRemoved(r) \/ UNCHANGED memberships
  BY <1>1 DEF Step, MemberStep, At, AtOnce, Begin, Idle, BeginAddMember, UpsertMember,
              BeginRemoveMember, ReadMember, CountOwners, CreateOrganization, ChangeCertificate,
              BeginUpdateOrganization, ReadUpdate, WriteUpdate, BeginSubmitVerification,
              ReadSubmit, CountDocs, WriteSubmit, BeginTransition, InsertEvent, WriteTransition,
              BreakOff
<1>5. memberships'[<<o, w>>] = memberships[<<o, w>>]
  BY <1>2, <1>3, <1>4 DEF SetRemoved, Owners
<1> QED
  BY <1>3, <1>5 DEF Owners

\* The final owner cannot be removed: while no two requests overlap,
\* removeMember() of a membership of the organisation its path names leaves an
\* organisation that had active owners at least one of them, as nothing changes
\* the members between its count and its update.
THEOREM FinalOwnerStays == Spec => RemovalKeepsOwner
<1>1. AInv /\ [Next]_vars =>
        [~overlapped' => \A r \in Requests, o \in Orgs :
           At(r, "setRemoved") /\ reqs[r].org = o /\ reqs[r].of = o /\ Owners(o) # {}
             => Owners(o)' # {}]_<<slots, memberships>>
  <2>1. CASE UNCHANGED vars
    BY <2>1 DEF vars
  <2> QED
    BY <2>1, RemovalStep DEF Next, Step
<1> QED
  BY <1>1, AloneHolds, PTL DEF Spec, RemovalKeepsOwner
================================================================================
