--------------------------- MODULE SponsorVerification --------------------------
(***************************************************************************)
(* The verification of sponsor organisations: updateOrganization and        *)
(* submitVerification of sponsor.service.ts and the administrator's         *)
(* transitions of admin-sponsor-orgs.service.ts, over the members of        *)
(* SponsorMembers.  Audit rows and e-mails are left out.                    *)
(***************************************************************************)
EXTENDS SponsorMembers

CONSTANTS
  AdminRoles, \* the sets of roles of the administrators
  MaxLock     \* bound: no update of an organisation begins above this version

ASSUME SponsorVerificationConstants ==
  MaxLock \in Nat /\ AdminRoles \subseteq SUBSET Role

VARIABLES
  orgs,         \* the row of each organisation
  lastEvent,    \* its newest row of sponsor_verification_events, by createdAt
  certified,    \* the organisations with a clean registration certificate
  submittedLock, \* history: the version of the row that was last submitted
  precedes,     \* pairs of decisions in flight on one organisation: the event of
                \* the first was inserted before that of the second
  overtaken     \* the decisions in flight that inserted their event before one
                \* that is committed

eventOrder == <<precedes, overtaken>>

verificationVars == <<orgs, lastEvent, certified, submittedLock, eventOrder>>

vars == <<slots, memberships, verificationVars>>

SponsorVerificationStatus ==
  {"DRAFT", "SUBMITTED", "UNDER_REVIEW", "CHANGES_REQUESTED", "VERIFIED", "REJECTED",
   "SUSPENDED"}

VERIFICATION_TRANSITIONS ==
  [DRAFT             |-> {"SUBMITTED"},
   SUBMITTED         |-> {"UNDER_REVIEW", "CHANGES_REQUESTED", "REJECTED"},
   UNDER_REVIEW      |-> {"VERIFIED", "CHANGES_REQUESTED", "REJECTED"},
   CHANGES_REQUESTED |-> {"SUBMITTED"},
   VERIFIED          |-> {"SUSPENDED"},
   REJECTED          |-> {"SUBMITTED"},
   SUSPENDED         |-> {"SUBMITTED"}]

\* The targets of transition().
Decided == {"UNDER_REVIEW", "CHANGES_REQUESTED", "VERIFIED", "REJECTED", "SUSPENDED"}

\* An organisation: the lock version stands for the profile, which every update
\* changes together with it.
SponsorOrganization ==
  [status : SponsorVerificationStatus, lock : Nat, state : States \union {NoState},
   verified : BOOLEAN, suspended : BOOLEAN] \* verifiedAt and suspendedAt are set

NoOrg == [status |-> "NONE", lock |-> 0, state |-> NoState, verified |-> FALSE,
          suspended |-> FALSE]

SponsorVerificationEvent ==
  [from : SponsorVerificationStatus \union {"NONE"},
   to : SponsorVerificationStatus \union {"NONE"}]

Exists(o) == orgs[o] # NoOrg

VerificationRequest ==
  [step : {"readUpdate", "writeUpdate"}, org : Orgs, lock : SUBSET Nat, \* the version it brings, if any
   state : States \union {NoState}]
    \union [step : {"readSubmit", "countDocs", "writeSubmit"}, org : Orgs,
            from : SponsorVerificationStatus \union {"NONE"}]
    \union [step : {"insertEvent", "writeDecision"}, org : Orgs, from : SponsorVerificationStatus,
            to : SponsorVerificationStatus, verified : BOOLEAN, suspended : BOOLEAN]

--------------------------------------------------------------------------------
(* Guards and effects with a slip of each (Bug_...) that no action uses.     *)

Bug_AnyTransition(from, to) == from # to
canTransitionVerification(from, to) == to \in VERIFICATION_TRANSITIONS[from]

Bug_EditableUntilDecided(o) == orgs[o].status \in {"DRAFT", "CHANGES_REQUESTED", "SUBMITTED"}
Editable(o) == orgs[o].status \in {"DRAFT", "CHANGES_REQUESTED"}

\* verifiedAt and suspendedAt of the update: now for the status itself, else
\* what the request read.
Bug_StampForgotten(to, status, before) == to = status
Stamp(to, status, before) == to = status \/ before

\* The decisions on o whose event is inserted and not committed.
Inserted(o) == {q \in Requests : At(q, "writeDecision") /\ reqs[q].org = o}

Without(r) == precedes \ (({r} \X Requests) \union (Requests \X {r}))

--------------------------------------------------------------------------------
(* The members' side.                                                        *)

\* createOrganization(): one transaction.
CreateOrganization(r) ==
  /\ AtOnce(r)
  /\ \E o \in Orgs, u \in Sponsors, state \in States \union {NoState} :
        /\ ~Exists(o)
        /\ orgs' = [orgs EXCEPT ![o] = [NoOrg EXCEPT !.status = "DRAFT", !.state = state]]
        /\ lastEvent' = [lastEvent EXCEPT ![o].to = "DRAFT"]
        /\ CreateMembership(o, u)
  /\ UNCHANGED <<certified, submittedLock, eventOrder>>

\* updateOrganization(): the membership, the row, the update; the version a
\* client brings is the one it saw when it sent the request, or none.
BeginUpdateOrganization(r) ==
  /\ \E o \in Orgs, a \in Users, withLock \in BOOLEAN, state \in States \union {NoState} :
        /\ assertOrgMember(o, a, "ADMIN")
        /\ orgs[o].lock < MaxLock
        /\ Begin(r, [step |-> "readUpdate", org |-> o, state |-> state,
                     lock |-> IF withLock THEN {orgs[o].lock} ELSE {}])
  /\ UNCHANGED <<memberships, verificationVars>>

ReadUpdate(r) ==
  /\ At(r, "readUpdate")
  /\ IF Editable(reqs[r].org) /\ reqs[r].lock \subseteq {orgs[reqs[r].org].lock}
     THEN Keep(r, [reqs[r] EXCEPT !.step = "writeUpdate"])
     ELSE Finish(r)
  /\ UNCHANGED <<memberships, verificationVars>>

WriteUpdate(r) ==
  /\ At(r, "writeUpdate")
  /\ orgs' = [orgs EXCEPT
       ![reqs[r].org].lock = @ + 1,
       ![reqs[r].org].state = IF reqs[r].state = NoState THEN @ ELSE reqs[r].state]
  /\ Finish(r)
  /\ UNCHANGED <<memberships, lastEvent, certified, submittedLock, eventOrder>>

BeginSubmitVerification(r) ==
  /\ \E o \in Orgs, a \in Users :
        /\ assertOrgMember(o, a, "ADMIN")
        /\ Begin(r, [step |-> "readSubmit", org |-> o, from |-> "NONE"])
  /\ UNCHANGED <<memberships, verificationVars>>

ReadSubmit(r) ==
  /\ At(r, "readSubmit")
  /\ IF canTransitionVerification(orgs[reqs[r].org].status, "SUBMITTED")
     THEN Keep(r, [step |-> "countDocs", org |-> reqs[r].org,
                   from |-> orgs[reqs[r].org].status])
     ELSE Finish(r)
  /\ UNCHANGED <<memberships, verificationVars>>

CountDocs(r) ==
  /\ At(r, "countDocs")
  /\ IF reqs[r].org \in certified THEN Keep(r, [reqs[r] EXCEPT !.step = "writeSubmit"])
                                  ELSE Finish(r)
  /\ UNCHANGED <<memberships, verificationVars>>

\* The update takes the row before the event is inserted: no decision can commit
\* between the two, and the event is newer than every other one.
WriteSubmit(r) ==
  /\ At(r, "writeSubmit")
  /\ orgs' = [orgs EXCEPT ![reqs[r].org].status = "SUBMITTED"]
  /\ lastEvent' = [lastEvent EXCEPT ![reqs[r].org] = [from |-> reqs[r].from,
                                                      to |-> "SUBMITTED"]]
  /\ overtaken' = overtaken \union Inserted(reqs[r].org)
  /\ submittedLock' = [submittedLock EXCEPT ![reqs[r].org] = orgs[reqs[r].org].lock]
  /\ Finish(r)
  /\ UNCHANGED <<memberships, certified, precedes>>

\* A certificate passes its scan, or its owner deletes it (FileUploads).
ChangeCertificate(r) ==
  /\ AtOnce(r)
  /\ \E o \in Orgs : Exists(o) /\ certified' = (certified \ {o}) \union ({o} \ certified)
  /\ UNCHANGED <<memberships, orgs, lastEvent, submittedLock, eventOrder>>

--------------------------------------------------------------------------------
(* The administrator's side: start-review, request-changes, verify, reject    *)
(* and suspend are one handler, transition().                                *)

canAdminAccessOrgState(roles, o) == canAdminAccessPitchState(roles, orgs[o].state)

BeginTransition(r) ==
  /\ \E o \in Orgs, roles \in AdminRoles, to \in Decided :
        /\ Exists(o) /\ isAnyAdmin(roles) /\ canAdminAccessOrgState(roles, o)
        /\ canTransitionVerification(orgs[o].status, to)
        /\ Begin(r, [step |-> "insertEvent", org |-> o, from |-> orgs[o].status, to |-> to,
                     verified |-> Stamp(to, "VERIFIED", orgs[o].verified),
                     suspended |-> Stamp(to, "SUSPENDED", orgs[o].suspended)])
  /\ UNCHANGED <<memberships, verificationVars>>

\* The transaction inserts its event, which gets its createdAt, before its
\* update waits for the row.
InsertEvent(r) ==
  /\ At(r, "insertEvent")
  /\ Keep(r, [reqs[r] EXCEPT !.step = "writeDecision"])
  /\ precedes' = precedes \union (Inserted(reqs[r].org) \X {r})
  /\ UNCHANGED <<memberships, orgs, lastEvent, certified, submittedLock, overtaken>>

Bug_DecisionUnrecorded(r) ==
  /\ At(r, "writeDecision")
  /\ orgs' = [orgs EXCEPT ![reqs[r].org].status = reqs[r].to,
                          ![reqs[r].org].verified = reqs[r].verified,
                          ![reqs[r].org].suspended = reqs[r].suspended]
  /\ Finish(r)
  /\ UNCHANGED <<memberships, lastEvent, certified, submittedLock, eventOrder>>

\* The update, with the stamps that were read, and the commit.  The event is the
\* newest one only when none that was inserted after it is committed.
WriteTransition(r) ==
  /\ At(r, "writeDecision")
  /\ orgs' = [orgs EXCEPT ![reqs[r].org].status = reqs[r].to,
                          ![reqs[r].org].verified = reqs[r].verified,
                          ![reqs[r].org].suspended = reqs[r].suspended]
  /\ lastEvent' = IF r \in overtaken THEN lastEvent
                   ELSE [lastEvent EXCEPT ![reqs[r].org] = [from |-> reqs[r].from,
                                                            to |-> reqs[r].to]]
  /\ precedes' = Without(r)
  /\ overtaken' = (overtaken \union {q \in Requests : <<q, r>> \in precedes}) \ {r}
  /\ Finish(r)
  /\ UNCHANGED <<memberships, certified, submittedLock>>

\* The transaction of a request that stops rolls back.
BreakOff(r) ==
  /\ Crash(r)
  /\ precedes' = Without(r)
  /\ overtaken' = overtaken \ {r}
  /\ UNCHANGED <<memberships, orgs, lastEvent, certified, submittedLock>>

--------------------------------------------------------------------------------
Init ==
  /\ InitSlots /\ InitMembers
  /\ orgs = [o \in Orgs |-> NoOrg]
  /\ lastEvent = [o \in Orgs |-> [from |-> "NONE", to |-> "NONE"]]
  /\ certified = {}
  /\ submittedLock = [o \in Orgs |-> 0]
  /\ precedes = {} /\ overtaken = {}

Next ==
  \E r \in Requests :
     \/ MemberStep(r) /\ UNCHANGED verificationVars
     \/ CreateOrganization(r) \/ ChangeCertificate(r)
     \/ BeginUpdateOrganization(r) \/ ReadUpdate(r) \/ WriteUpdate(r)
     \/ BeginSubmitVerification(r) \/ ReadSubmit(r) \/ CountDocs(r) \/ WriteSubmit(r)
     \/ BeginTransition(r) \/ InsertEvent(r) \/ WriteTransition(r)
     \/ BreakOff(r)

Spec == Init /\ [][Next]_vars

TypeOK ==
  /\ reqs \in [Requests -> {Idle} \union MemberRequest \union VerificationRequest]
  /\ overlapped \in BOOLEAN
  /\ TypeOKMembers
  /\ orgs \in [Orgs -> SponsorOrganization \union {NoOrg}]
  /\ lastEvent \in [Orgs -> SponsorVerificationEvent]
  /\ certified \subseteq Orgs
  /\ submittedLock \in [Orgs -> Nat]
  /\ precedes \subseteq Requests \X Requests
  /\ overtaken \subseteq Requests

--------------------------------------------------------------------------------
(* Properties.                                                               *)

\* The newest event of an organisation is a legal transition, and it tells the
\* status of an organisation that is not submitted yet or waits to be reviewed,
\* however the calls overlap; without overlap it tells every status.  Of two
\* decisions that overlap, the one whose event is older can write the row last.
EventsTellStatus ==
  \A o \in Orgs :
     /\ ~overlapped \/ orgs[o].status \notin Decided => lastEvent[o].to = orgs[o].status
     /\ lastEvent[o].from # "NONE" => lastEvent[o].to \in VERIFICATION_TRANSITIONS[lastEvent[o].from]

\* Every decision writes both stamps, the ones it does not set as it read them;
\* however decisions and submissions overlap, an organisation that stands
\* VERIFIED or SUSPENDED has verifiedAt, and a SUSPENDED one suspendedAt.
StampsTellDecision ==
  \A o \in Orgs :
     /\ orgs[o].status \in {"VERIFIED", "SUSPENDED"} => orgs[o].verified
     /\ orgs[o].status = "SUSPENDED" => orgs[o].suspended

\* Without overlap the events of an organisation are a chain: each leaves the
\* status the one before it entered.
EventsChain ==
  [][~overlapped' => \A o \in Orgs :
        lastEvent'[o] # lastEvent[o] => lastEvent'[o].from = lastEvent[o].to]_vars

\* Without overlap the profile administrators review, verify, reject or suspend
\* is the one that was submitted (updateOrganization refuses those statuses).
FrozenOnceSubmitted ==
  ~overlapped => \A o \in Orgs : Exists(o) /\ ~(orgs[o].status \in {"DRAFT", "CHANGES_REQUESTED"})
                                   => orgs[o].lock = submittedLock[o]
================================================================================
