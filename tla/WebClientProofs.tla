----------------------------- MODULE WebClientProofs ----------------------------
(***************************************************************************)
(* Proofs about InnovatorProfile and WebClient, for any number of calls in   *)
(* flight: the stored percentage, the CSRF header, the types, and that a     *)
(* page shows what it has written.                                          *)
(***************************************************************************)
EXTENDS WebClient, TLAPS

--------------------------------------------------------------------------------
(* The percentage.                                                           *)

\* The percentage is one, whatever fields hold something.
LEMMA PercentIsPercent ==
  ASSUME NEW fields
  PROVE  completionPercent(fields) \in 0..100
  BY DEF completionPercent, Points

\* More fields never give a smaller percentage.
LEMMA PercentMonotone ==
  ASSUME NEW some, NEW all, some \subseteq all
  PROVE  completionPercent(some) <= completionPercent(all)
<1>1. Points(10, "firstName" \in some) <= Points(10, "firstName" \in all)
  BY DEF Points
<1>2. Points(10, "lastName" \in some) <= Points(10, "lastName" \in all)
  BY DEF Points
<1>3. Points(15, "headline" \in some) <= Points(15, "headline" \in all)
  BY DEF Points
<1>4. Points(20, "biography" \in some) <= Points(20, "biography" \in all)
  BY DEF Points
<1>5. Points(15, "stateId" \in some) <= Points(15, "stateId" \in all)
  BY DEF Points
<1>6. Points(15, "sectorIds" \in some) <= Points(15, "sectorIds" \in all)
  BY DEF Points
<1>7. Points(15, "isIndependent" \in some \/ "organizationName" \in some)
        <= Points(15, "isIndependent" \in all \/ "organizationName" \in all)
  BY DEF Points
<1> QED
  BY <1>1, <1>2, <1>3, <1>4, <1>5, <1>6, <1>7 DEF completionPercent, Points

\* What getCompleteness makes of a row.
Percent(p) == completionPercent(Names \union p.fields)

\* The property of a row.
Honest(p) == p.percent <= Percent(p)

LEMMA NoProfileHonest == Honest(NoProfile)
  BY PercentIsPercent, Percent(NoProfile) \in 0..100 DEF Honest, Percent, NoProfile

\* An upsert leaves an honest row, whatever the row was.
LEMMA UpsertedHonest ==
  ASSUME NEW p, NEW i
  PROVE  Honest(Upserted(p, i))
<1>1. Names \union i.filled \subseteq Names \union Merged(p.fields, i)
  BY DEF Merged
<1>2. StoredPercent(p.fields, i) <= completionPercent(Names \union Merged(p.fields, i))
  BY <1>1, PercentMonotone DEF StoredPercent
<1> QED
  BY <1>2 DEF Honest, Percent, Upserted

\* However partial updates follow one another, the stored percentage of a profile
\* never tells more than the profile holds (upsertProfile, getCompleteness).
THEOREM ProfileNeverOverstated == ProfileSpec => []PercentNeverOverstated
<1>1. ProfileInit => Honest(profile)
  BY NoProfileHonest DEF ProfileInit
<1>2. Honest(profile) /\ [\E i \in Inputs : upsertProfile(i)]_profile => Honest(profile)'
  <2> SUFFICES ASSUME Honest(profile), [\E i \in Inputs : upsertProfile(i)]_profile
               PROVE  Honest(profile)'
    OBVIOUS
  <2>1. CASE UNCHANGED profile
    BY <2>1 DEF Honest, Percent
  <2>2. ASSUME NEW i \in Inputs, upsertProfile(i)
        PROVE  Honest(profile)'
    <3>1. profile' = Upserted(profile, i)
      BY <2>2 DEF upsertProfile
    <3>2. Honest(Upserted(profile, i))
      BY UpsertedHonest
    <3> QED
      BY <3>1, <3>2 DEF Honest, Percent
  <2> QED
    BY <2>1, <2>2
<1>3. Honest(profile) => PercentNeverOverstated
  BY DEF Honest, Percent, PercentNeverOverstated, getCompleteness
<1> QED
  BY <1>1, <1>2, <1>3, PTL DEF ProfileSpec

\* Pages come and go, their writes upsert, and nothing else touches the row.
ProfileChange ==
  \/ profile' = profile
  \/ profile' \in Rows
  \/ \E i \in Inputs : upsertProfile(i)

LEMMA GotoChange ==
  ASSUME NEW c, NEW p, Goto(c, p)
  PROVE  ProfileChange
  BY DEF Goto, ProfileChange, Rows

LEMMA StepChange ==
  ASSUME [Next]_vars
  PROVE  ProfileChange
<1>1. CASE UNCHANGED vars
  BY <1>1 DEF vars, ProfileChange
<1>2. ASSUME NEW c \in Calls, NEW p \in PageName, Open(c, p)
      PROVE  ProfileChange
  BY <1>2, GotoChange DEF Open
<1>3. ASSUME NEW c \in Calls, NEW act \in Shown.acts, Click(c, act)
      PROVE  ProfileChange
  BY <1>3 DEF Click, ProfileChange
<1>4. ASSUME NEW c \in Calls, Serve(c)
      PROVE  ProfileChange
  BY <1>4 DEF Serve, ServeWrite, PageInputs, ProfileChange
<1>5. ASSUME NEW c \in Calls, Refuse(c)
      PROVE  ProfileChange
  BY <1>5 DEF Refuse, ProfileChange
<1>6. ASSUME NEW c \in Calls, Receive(c)
      PROVE  ProfileChange
  <2>1. CASE ReceiveToken(c)
    BY <2>1 DEF ReceiveToken, ProfileChange
  <2>2. CASE ReceiveWrite(c)
    BY <2>2, GotoChange DEF ReceiveWrite, ProfileChange
  <2>3. CASE ReceiveRead(c)
    BY <2>3 DEF ReceiveRead, ProfileChange
  <2>4. CASE ReceiveLast(c)
    BY <2>4 DEF ReceiveLast, ProfileChange
  <2>5. CASE ReceiveError(c)
    BY <2>5, GotoChange DEF ReceiveError, ProfileChange
  <2> QED
    BY <1>6, <2>1, <2>2, <2>3, <2>4, <2>5 DEF Receive
<1>7. CASE OthersWrite \/ AccessEnds
  BY <1>7 DEF OthersWrite, AccessEnds, ProfileChange
<1> QED
  BY <1>1, <1>2, <1>3, <1>4, <1>5, <1>6, <1>7 DEF Next

\* The same in the browser: whichever pages are opened and left, whatever calls
\* overlap, and whatever other clients have left behind.
THEOREM PercentHonestInClient == Spec => []PercentNeverOverstated
<1>1. Init => Honest(profile)
  BY NoProfileHonest DEF Init, ProfileInit
<1>2. Honest(profile) /\ [Next]_vars => Honest(profile)'
  <2> SUFFICES ASSUME Honest(profile), [Next]_vars
               PROVE  Honest(profile)'
    OBVIOUS
  <2>1. ProfileChange
    BY StepChange
  <2>2. profile' = profile \/ profile' = NoProfile \/ \E p, i : profile' = Upserted(p, i)
    BY <2>1 DEF ProfileChange, Rows, upsertProfile
  <2>3. \A p, i : Honest(Upserted(p, i))
    BY UpsertedHonest
  <2> QED
    BY <2>2, <2>3, NoProfileHonest DEF Honest, Percent
<1>3. Honest(profile) => PercentNeverOverstated
  BY DEF Honest, Percent, PercentNeverOverstated, getCompleteness
<1> QED
  BY <1>1, <1>2, <1>3, PTL DEF Spec

--------------------------------------------------------------------------------
(* The CSRF header.                                                          *)

\* Where a button or a load leads to is a page.
ActOK(act) ==
  /\ act.then = "leave" => act.to \in PageName
  /\ act.then = "load" => act.to \in PageName \union {"none"}

\* A page whose buttons wait for one another and show what they have written.
ShowsWrites(page) ==
  /\ page.acts # {} /\ \A act \in page.acts : act.waits /\ act.busy
  /\ \E act \in page.acts : act.then \in {"reload", "answer"}

\* The buttons of signed-out users fetch a token first.  A page that shows what one
\* of its buttons has written shows it for each, and leaves when its load fails.
PageOK(page) ==
  /\ page.public \in BOOLEAN /\ (page.public => \A act \in page.acts : act.token)
  /\ \A act \in page.acts : ActOK(act)
  /\ page.away \in PageName \union {"none"}
  /\ ShowsWrites(page) => /\ page.loads /\ page.away # "none"
                          /\ \A act \in page.acts : act.then \in {"reload", "answer"}

LEMMA PagesNamed ==
  PageName = {"login", "register", "forgotPassword", "resetPassword", "verifyEmail", "account",
              "security", "profile", "pitches", "newPitch", "pitch", "submissions",
              "editPitch", "organizations", "newOrganization", "organization", "members", "verification",
              "discover", "discoverPitch", "adminLogin", "dashboard", "accessDenied", "adminUsers",
              "adminUser", "adminPitches", "adminPitch", "reviews", "review", "adminOrganizations",
              "adminOrganization"}
BY DEF PageName, Pages

LEMMA EveryPageOK == \A p \in PageName : PageOK(Pages[p])
<1>1. PageOK(LoginForm)
  BY PagesNamed DEF PageOK, ShowsWrites, ActOK, LoginForm, Press, Submit, WithToken, Leaving, Form, PublicForm, Loading, LoadingOr, Admin
<1>2. PageOK(RegisterForm)
  BY PagesNamed DEF PageOK, ShowsWrites, ActOK, RegisterForm, Press, Submit, WithToken, Leaving, Form, PublicForm, Loading, LoadingOr, Admin
<1>3. PageOK(ForgotPasswordPage)
  BY PagesNamed DEF PageOK, ShowsWrites, ActOK, ForgotPasswordPage, Press, Submit, WithToken, Leaving, Form, PublicForm, Loading, LoadingOr, Admin
<1>4. PageOK(ResetPasswordContent)
  BY PagesNamed DEF PageOK, ShowsWrites, ActOK, ResetPasswordContent, Press, Submit, WithToken, Leaving, Form, PublicForm, Loading, LoadingOr, Admin
<1>5. PageOK(VerifyEmailContent)
  BY PagesNamed DEF PageOK, ShowsWrites, ActOK, VerifyEmailContent, Press, Submit, WithToken, Leaving, Form, PublicForm, Loading, LoadingOr, Admin
<1>6. PageOK(AccountPage)
  BY PagesNamed DEF PageOK, ShowsWrites, ActOK, AccountPage, Press, Submit, WithToken, Leaving, Form, PublicForm, Loading, LoadingOr, Admin
<1>7. PageOK(AccountSecurityPage)
  BY PagesNamed DEF PageOK, ShowsWrites, ActOK, AccountSecurityPage, Press, Submit, WithToken, Leaving, Form, PublicForm, Loading, LoadingOr, Admin
<1>8. PageOK(InnovatorProfilePage)
  BY PagesNamed DEF PageOK, ShowsWrites, ActOK, InnovatorProfilePage, Press, Submit, WithToken, Leaving, Form, PublicForm, Loading, LoadingOr, Admin
<1>9. PageOK(InnovatorPitchesPage)
  BY PagesNamed DEF PageOK, ShowsWrites, ActOK, InnovatorPitchesPage, Press, Submit, WithToken, Leaving, Form, PublicForm, Loading, LoadingOr, Admin
<1>10. PageOK(NewPitchPage)
  BY PagesNamed DEF PageOK, ShowsWrites, ActOK, NewPitchPage, Press, Submit, WithToken, Leaving, Form, PublicForm, Loading, LoadingOr, Admin
<1>11. PageOK(PitchDetailPage)
  BY PagesNamed DEF PageOK, ShowsWrites, ActOK, PitchDetailPage, Press, Submit, WithToken, Leaving, Form, PublicForm, Loading, LoadingOr, Admin
<1>12. PageOK(PitchSubmissionsPage)
  BY PagesNamed DEF PageOK, ShowsWrites, ActOK, PitchSubmissionsPage, Press, Submit, WithToken, Leaving, Form, PublicForm, Loading, LoadingOr, Admin
<1>13. PageOK(EditPitchPage)
  BY PagesNamed DEF PageOK, ShowsWrites, ActOK, EditPitchPage, Press, Submit, WithToken, Leaving, Form, PublicForm, Loading, LoadingOr, Admin
<1>14. PageOK(SponsorOrganizationsPage)
  BY PagesNamed DEF PageOK, ShowsWrites, ActOK, SponsorOrganizationsPage, Press, Submit, WithToken, Leaving, Form, PublicForm, Loading, LoadingOr, Admin
<1>15. PageOK(NewOrganizationPage)
  BY PagesNamed DEF PageOK, ShowsWrites, ActOK, NewOrganizationPage, Press, Submit, WithToken, Leaving, Form, PublicForm, Loading, LoadingOr, Admin
<1>16. PageOK(OrganizationPage)
  BY PagesNamed DEF PageOK, ShowsWrites, ActOK, OrganizationPage, Press, Submit, WithToken, Leaving, Form, PublicForm, Loading, LoadingOr, Admin
<1>17. PageOK(OrganizationMembersPage)
  BY PagesNamed DEF PageOK, ShowsWrites, ActOK, OrganizationMembersPage, Press, Submit, WithToken, Leaving, Form, PublicForm, Loading, LoadingOr, Admin
<1>18. PageOK(VerificationPage)
  BY PagesNamed DEF PageOK, ShowsWrites, ActOK, VerificationPage, Press, Submit, WithToken, Leaving, Form, PublicForm, Loading, LoadingOr, Admin
<1>19. PageOK(DiscoverPage)
  BY PagesNamed DEF PageOK, ShowsWrites, ActOK, DiscoverPage, Press, Submit, WithToken, Leaving, Form, PublicForm, Loading, LoadingOr, Admin
<1>20. PageOK(DiscoverPitchPage)
  BY PagesNamed DEF PageOK, ShowsWrites, ActOK, DiscoverPitchPage, Press, Submit, WithToken, Leaving, Form, PublicForm, Loading, LoadingOr, Admin
<1>21. PageOK(AdminLoginForm)
  BY PagesNamed DEF PageOK, ShowsWrites, ActOK, AdminLoginForm, Press, Submit, WithToken, Leaving, Form, PublicForm, Loading, LoadingOr, Admin
<1>22. PageOK(Dashboard)
  BY PagesNamed DEF PageOK, ShowsWrites, ActOK, Dashboard, Press, Submit, WithToken, Leaving, Form, PublicForm, Loading, LoadingOr, Admin
<1>23. PageOK(AccessDenied)
  BY PagesNamed DEF PageOK, ShowsWrites, ActOK, AccessDenied, Press, Submit, WithToken, Leaving, Form, PublicForm, Loading, LoadingOr, Admin
<1>24. PageOK(AdminUsersPage)
  BY PagesNamed DEF PageOK, ShowsWrites, ActOK, AdminUsersPage, Press, Submit, WithToken, Leaving, Form, PublicForm, Loading, LoadingOr, Admin
<1>25. PageOK(AdminUserDetailPage)
  BY PagesNamed DEF PageOK, ShowsWrites, ActOK, AdminUserDetailPage, Press, Submit, WithToken, Leaving, Form, PublicForm, Loading, LoadingOr, Admin
<1>26. PageOK(AdminPitchesPage)
  BY PagesNamed DEF PageOK, ShowsWrites, ActOK, AdminPitchesPage, Press, Submit, WithToken, Leaving, Form, PublicForm, Loading, LoadingOr, Admin
<1>27. PageOK(AdminPitchDetailPage)
  BY PagesNamed DEF PageOK, ShowsWrites, ActOK, AdminPitchDetailPage, Press, Submit, WithToken, Leaving, Form, PublicForm, Loading, LoadingOr, Admin
<1>28. PageOK(ReviewsPage)
  BY PagesNamed DEF PageOK, ShowsWrites, ActOK, ReviewsPage, Press, Submit, WithToken, Leaving, Form, PublicForm, Loading, LoadingOr, Admin
<1>29. PageOK(ReviewAssignmentPage)
  BY PagesNamed DEF PageOK, ShowsWrites, ActOK, ReviewAssignmentPage, Press, Submit, WithToken, Leaving, Form, PublicForm, Loading, LoadingOr, Admin
<1>30. PageOK(AdminSponsorOrgsPage)
  BY PagesNamed DEF PageOK, ShowsWrites, ActOK, AdminSponsorOrgsPage, Press, Submit, WithToken, Leaving, Form, PublicForm, Loading, LoadingOr, Admin
<1>31. PageOK(AdminSponsorOrgDetailPage)
  BY PagesNamed DEF PageOK, ShowsWrites, ActOK, AdminSponsorOrgDetailPage, Press, Submit, WithToken, Leaving, Form, PublicForm, Loading, LoadingOr, Admin
<1> QED
  BY PagesNamed, <1>1, <1>2, <1>3, <1>4, <1>5, <1>6, <1>7, <1>8, <1>9, <1>10, <1>11,
     <1>12, <1>13, <1>14, <1>15, <1>16, <1>17, <1>18, <1>19, <1>20, <1>21, <1>22,
     <1>23, <1>24, <1>25, <1>26, <1>27, <1>28, <1>29, <1>30, <1>31 DEF Pages

\* A call is a record of its fields.
Shape(call) ==
  call = [act |-> call.act, stage |-> call.stage, public |-> call.public,
          answer |-> call.answer, at |-> call.at, access |-> call.access, csrf |-> call.csrf,
          live |-> call.live]

\* A call that its cookie or a public route may get past the session guard has
\* the header, if it is a write.
Carries(call) ==
  /\ call.stage \in {"write", "logout"} /\ call.answer = "none"
  /\ call.access \/ (call.stage = "write" /\ call.public)
  => call.csrf

CallOK(call) == call # Idle => Shape(call) /\ ActOK(call.act) /\ Carries(call)

VisitOK ==
  /\ visit = [page |-> visit.page, phase |-> visit.phase, busy |-> visit.busy,
              view |-> visit.view, mine |-> visit.mine, failed |-> visit.failed]
  /\ visit.page \in PageName

\* The cookies come and go together, but for the token of a form.
CookiesOK == access \in BOOLEAN /\ csrf \in BOOLEAN /\ (access => csrf)

\* The inductive invariant.
TInv ==
  /\ VisitOK /\ CookiesOK /\ DOMAIN calls = Calls
  /\ \A c \in Calls : CallOK(calls[c])

\* A step that changes one call preserves the invariant when the call, the page and
\* the cookies it leaves are sound.
LEMMA OneCall ==
  ASSUME TInv, NEW c \in Calls, NEW q, CallOK(q), VisitOK', CookiesOK',
         calls' = [calls EXCEPT ![c] = q]
  PROVE  TInv'
<1>1. DOMAIN calls' = Calls /\ \A d \in Calls : calls'[d] = q \/ calls'[d] = calls[d]
  BY DEF TInv
<1>2. ASSUME NEW d \in Calls
      PROVE  CallOK(calls[d])'
  <2>1. CallOK(calls[d])
    BY DEF TInv
  <2>2. CASE calls'[d] = q
    BY <2>2, Zenon DEF CallOK, Shape, ActOK, Carries
  <2>3. CASE calls'[d] = calls[d]
    BY <2>1, <2>3, Zenon DEF CallOK, Shape, ActOK, Carries
  <2> QED
    BY <1>1, <2>2, <2>3
<1> QED
  BY <1>1, <1>2 DEF TInv

LEMMA DeadOK ==
  ASSUME NEW call, CallOK(call)
  PROVE  CallOK(Dead(call))
<1>1. CASE Dead(call) = Idle
  BY <1>1 DEF CallOK
<1>2. CASE call # Idle /\ Dead(call) = [call EXCEPT !.live = FALSE, !.at = 0]
  <2>1. Shape(call) /\ ActOK(call.act) /\ Carries(call)
    BY <1>2 DEF CallOK
  <2>2. PICK q : q = Dead(call)
    OBVIOUS
  <2>3. q = [act |-> call.act, stage |-> call.stage, public |-> call.public,
             answer |-> call.answer, at |-> 0, access |-> call.access, csrf |-> call.csrf,
             live |-> FALSE]
    BY <1>2, <2>1, <2>2 DEF Shape
  <2>4. Shape(q) /\ ActOK(q.act) /\ Carries(q)
    BY <2>1, <2>3 DEF Shape, Carries
  <2> QED
    BY <2>2, <2>4 DEF CallOK
<1> QED
  BY <1>1, <1>2 DEF Dead

\* What is sent is a call, and carries the header when the cookie is there.
LEMMA SendOK ==
  ASSUME NEW act, ActOK(act), NEW public, NEW stage, NEW cookie, NEW token,
         stage = "write" /\ (cookie \/ public) => token,
         stage = "logout" /\ cookie => token
  PROVE  CallOK(Send(act, public, stage, cookie, token))
<1>1. PICK q : q = Send(act, public, stage, cookie, token)
  OBVIOUS
<1>2. Shape(q) /\ q.act = act /\ q.stage = stage /\ q.public = public /\ q.access = cookie
      /\ q.csrf = (stage \in {"write", "logout"} /\ token)
  BY <1>1 DEF Send, Shape
<1>3. Carries(q)
  BY <1>2, Zenon DEF Carries
<1> QED
  BY <1>1, <1>2, <1>3 DEF CallOK

\* A page that is opened, by the user or by the code of another one.
LEMMA GotoOK ==
  ASSUME TInv, NEW c \in Calls, NEW p \in PageName, Goto(c, p), CookiesOK'
  PROVE  TInv'
<1>1. VisitOK'
  BY DEF Goto, VisitOK
<1>2. DOMAIN calls' = Calls
  BY DEF Goto
<1>3. CallOK(Loads(p))
  <2>1. PICK cookie : cookie = access'
    OBVIOUS
  <2>2. ActOK(Load(p))
    <3>1. Load(p).then = "load" /\ Load(p).to = Pages[p].away
      BY DEF Load, Press
    <3> QED
      BY <3>1, EveryPageOK DEF PageOK, ActOK
  <2>3. CallOK(Send(Load(p), FALSE, "read", cookie, FALSE))
    BY <2>2, SendOK
  <2>4. CASE Pages[p].loads
    BY <2>1, <2>3, <2>4 DEF Loads
  <2>5. CASE ~Pages[p].loads
    BY <2>5 DEF Loads, CallOK
  <2> QED
    BY <2>4, <2>5
<1>4. ASSUME NEW d \in Calls
      PROVE  CallOK(calls[d])'
  <2>1. CASE d = c
    <3>1. calls'[d] = Loads(p)
      BY <2>1 DEF Goto
    <3> QED
      BY <1>3, <3>1, Zenon DEF CallOK, Shape, ActOK, Carries
  <2>2. CASE d # c
    <3>1. calls'[d] = Dead(calls[d])
      BY <2>2 DEF Goto
    <3>2. PICK call : call = calls[d]
      OBVIOUS
    <3>3. CallOK(call)
      BY <3>2 DEF TInv
    <3>4. CallOK(Dead(call))
      BY <3>3, DeadOK
    <3> QED
      BY <3>1, <3>2, <3>4, Zenon DEF CallOK, Shape, ActOK, Carries
  <2> QED
    BY <2>1, <2>2
<1> QED
  BY <1>1, <1>2, <1>4 DEF TInv

LEMMA RedirectsAreNamed ==
  ASSUME NEW p \in PageName
  PROVE  Redirects(p) \subseteq PageName
BY PagesNamed DEF Redirects

\* The page that is shown stays the same in every other step.
LEMMA SamePage ==
  ASSUME VisitOK, NEW phase, NEW busy, NEW view, NEW mine, NEW failed,
         visit' = [page |-> visit.page, phase |-> phase, busy |-> busy, view |-> view,
                   mine |-> mine, failed |-> failed]
  PROVE  VisitOK'
BY DEF VisitOK

LEMMA UserOK ==
  ASSUME TInv, NEW c \in Calls,
         \/ \E p \in PageName : Open(c, p)
         \/ \E act \in Shown.acts : Click(c, act)
  PROVE  TInv'
<1>1. ASSUME NEW p \in PageName, Open(c, p)
      PROVE  TInv'
  <2>1. PICK q \in PageName : Goto(c, q)
    BY <1>1, RedirectsAreNamed DEF Open
  <2>2. CookiesOK'
    BY <1>1 DEF Open, TInv, CookiesOK
  <2> QED
    BY <2>1, <2>2, GotoOK
<1>2. ASSUME NEW act \in Shown.acts, Click(c, act)
      PROVE  TInv'
  <2>1. PICK page, public, cookie, token, stage :
          /\ page = Shown /\ public = page.public /\ cookie = access /\ token = csrf
          /\ stage = IF act.token THEN "token" ELSE "write"
    OBVIOUS
  <2>2. PageOK(page) /\ act \in page.acts
    BY <2>1, EveryPageOK DEF TInv, VisitOK, Shown
  <2>3. ActOK(act) /\ (public => act.token)
    BY <2>1, <2>2 DEF PageOK
  <2>4. cookie => token
    BY <2>1 DEF TInv, CookiesOK
  <2>5. PICK q : q = Send(act, public, stage, cookie, token)
    OBVIOUS
  <2>6. CallOK(q)
    <3>1. stage = "write" => ~public
      BY <2>1, <2>3
    <3>2. stage # "logout"
      BY <2>1
    <3> QED
      BY <2>3, <2>4, <2>5, <3>1, <3>2, SendOK
  <2>7. calls' = [calls EXCEPT ![c] = q]
    BY <1>2, <2>1, <2>5 DEF Click
  <2>8. CookiesOK'
    BY <1>2 DEF Click, TInv, CookiesOK
  <2>9. VisitOK'
    <3>1. visit' = [visit EXCEPT !.busy = visit.busy \/ act.busy]
      BY <1>2, Zenon DEF Click
    <3>2. PICK busy : busy = (visit.busy \/ act.busy)
      OBVIOUS
    <3>3. visit' = [page |-> visit.page, phase |-> visit.phase, busy |-> busy,
                    view |-> visit.view, mine |-> visit.mine, failed |-> visit.failed]
      BY <3>1, <3>2 DEF TInv, VisitOK
    <3>4. PICK phase, view, mine, failed :
            /\ phase = visit.phase /\ view = visit.view /\ mine = visit.mine
            /\ failed = visit.failed
      OBVIOUS
    <3> QED
      BY <3>3, <3>4, SamePage DEF TInv
  <2> QED
    BY <2>6, <2>7, <2>8, <2>9, OneCall
<1> QED
  BY <1>1, <1>2

\* An answer takes the cookies off the call.
LEMMA ApiOK ==
  ASSUME TInv, NEW c \in Calls, Serve(c) \/ Refuse(c)
  PROVE  TInv'
<1>1. PICK call : call = calls[c] /\ call # Idle
  BY DEF Serve, Refuse, InFlight
<1>2. Shape(call) /\ ActOK(call.act)
  BY <1>1 DEF TInv, CallOK
<1>3. PICK q : /\ calls' = [calls EXCEPT ![c] = q]
               /\ Shape(q) /\ q.act = call.act /\ q.answer # "none"
  <2>1. CASE Serve(c)
    <3>1. PICK at : at = IF calls[c].live THEN version' ELSE 0
      OBVIOUS
    <3>2. PICK q : q = [call EXCEPT !.answer = "ok", !.at = at, !.access = FALSE,
                                !.csrf = FALSE]
      OBVIOUS
    <3>3. calls' = [calls EXCEPT ![c] = q]
      BY <1>1, <2>1, <3>1, <3>2, Zenon DEF Serve, Answer
    <3>4. q = [act |-> call.act, stage |-> call.stage, public |-> call.public,
               answer |-> "ok", at |-> at, access |-> FALSE, csrf |-> FALSE,
               live |-> call.live]
      BY <1>2, <3>2 DEF Shape
    <3>5. Shape(q) /\ q.act = call.act /\ q.answer # "none"
      BY <3>4 DEF Shape
    <3> QED
      BY <3>3, <3>5
  <2>2. CASE Refuse(c)
    <3>2. PICK q : q = [call EXCEPT !.answer = "refused", !.at = 0, !.access = FALSE,
                                !.csrf = FALSE]
      OBVIOUS
    <3>3. calls' = [calls EXCEPT ![c] = q]
      BY <1>1, <2>2, <3>2, Zenon DEF Refuse, Answer
    <3>4. q = [act |-> call.act, stage |-> call.stage, public |-> call.public,
               answer |-> "refused", at |-> 0, access |-> FALSE, csrf |-> FALSE,
               live |-> call.live]
      BY <1>2, <3>2 DEF Shape
    <3>5. Shape(q) /\ q.act = call.act /\ q.answer # "none"
      BY <3>4 DEF Shape
    <3> QED
      BY <3>3, <3>5
  <2> QED
    BY <2>1, <2>2
<1>4. CallOK(q)
  BY <1>2, <1>3, Zenon DEF CallOK, Carries
<1>5. CookiesOK'
  <2>1. CASE Serve(c)
    <3>1. csrf' = csrf /\ access' \in BOOLEAN /\ (access' => access)
      BY <2>1, Zenon DEF Serve, ServeWrite
    <3> QED
      BY <3>1 DEF TInv, CookiesOK
  <2>2. CASE Refuse(c)
    BY <2>2 DEF Refuse, TInv, CookiesOK
  <2> QED
    BY <2>1, <2>2
<1>6. VisitOK'
  BY DEF Serve, Refuse, TInv, VisitOK
<1> QED
  BY <1>3, <1>4, <1>5, <1>6, OneCall

\* The page's own changes to what it shows.
LEMMA IfLiveOK ==
  ASSUME VisitOK, NEW c, NEW phase, NEW busy, NEW view, NEW mine, NEW failed,
         IfLive(c, [page |-> visit.page, phase |-> phase, busy |-> busy, view |-> view,
                    mine |-> mine, failed |-> failed])
  PROVE  VisitOK'
<1>1. CASE visit' = visit
  BY <1>1 DEF VisitOK
<1>2. CASE visit' = [page |-> visit.page, phase |-> phase, busy |-> busy, view |-> view,
                     mine |-> mine, failed |-> failed]
  BY <1>2, SamePage
<1> QED
  BY <1>1, <1>2 DEF IfLive

\* Cookies taken with an answer keep each other company.
LEMMA TakeCookiesOK ==
  ASSUME CookiesOK, NEW change, TakeCookies(change)
  PROVE  CookiesOK'
<1>1. CASE change = "in"
  BY <1>1 DEF TakeCookies, CookiesOK
<1>2. CASE change = "out"
  BY <1>2 DEF TakeCookies, CookiesOK
<1>3. CASE change # "in" /\ change # "out"
  BY <1>3 DEF TakeCookies, CookiesOK
<1> QED
  BY <1>1, <1>2, <1>3

\* The next request of a sequence, sent with the cookies there are then.
LEMMA NextRequestOK ==
  ASSUME TInv, NEW c \in Calls, calls[c] # Idle, NEW stage, NEW token,
         NextRequest(c, stage, token), CookiesOK', VisitOK',
         stage \in {"read", "recount"} \/ token = TRUE \/ (stage = "logout" /\ token = csrf')
  PROVE  TInv'
<1>1. PICK call, cookie : call = calls[c] /\ cookie = access'
  OBVIOUS
<1>2. ActOK(call.act)
  BY <1>1 DEF TInv, CallOK
<1>3. PICK sent, act, public : /\ act = call.act /\ public = call.public
                              /\ sent = Send(act, public, stage, cookie, token)
  OBVIOUS
<1>4. CallOK(sent)
  <2>1. stage \in {"write", "logout"} /\ cookie => token
    BY <1>1 DEF CookiesOK
  <2>2. stage = "write" => token
    OBVIOUS
  <2> QED
    BY <1>2, <1>3, <2>1, <2>2, SendOK
<1>5. PICK q : q = [sent EXCEPT !.live = call.live]
  OBVIOUS
<1>6. CallOK(q)
  <2>1. sent # Idle => Shape(sent) /\ ActOK(sent.act) /\ Carries(sent)
    BY <1>4 DEF CallOK
  <2>2. Shape(sent)
    BY <1>3 DEF Send, Shape
  <2>3. sent # Idle
    BY <1>3 DEF Send, Idle
  <2>4. q = [act |-> sent.act, stage |-> sent.stage, public |-> sent.public,
             answer |-> sent.answer, at |-> sent.at, access |-> sent.access,
             csrf |-> sent.csrf, live |-> call.live]
    BY <1>5, <2>2 DEF Shape
  <2>5. Shape(q) /\ ActOK(q.act) /\ Carries(q)
    BY <2>1, <2>3, <2>4 DEF Shape, Carries
  <2> QED
    BY <2>5 DEF CallOK
<1>7. calls' = [calls EXCEPT ![c] = q]
  BY <1>1, <1>3, <1>5, Zenon DEF NextRequest
<1> QED
  BY <1>6, <1>7, OneCall

LEMMA OverOK ==
  ASSUME TInv, NEW c \in Calls, Over(c), CookiesOK', VisitOK'
  PROVE  TInv'
<1>1. CallOK(Idle)
  BY DEF CallOK
<1> QED
  BY <1>1, OneCall DEF Over

\* What a page becomes keeps the fields of a page, and its name.
LEMMA LivePageOK ==
  ASSUME VisitOK, NEW c, NEW v, IfLive(c, v), v.page = visit.page,
         v = [page |-> v.page, phase |-> v.phase, busy |-> v.busy, view |-> v.view,
              mine |-> v.mine, failed |-> v.failed]
  PROVE  VisitOK'
<1>1. CASE visit' = visit
  BY <1>1 DEF VisitOK
<1>2. CASE visit' = v
  BY <1>2 DEF VisitOK
<1> QED
  BY <1>1, <1>2 DEF IfLive

LEMMA ReceiveTokenOK ==
  ASSUME TInv, NEW c \in Calls, ReceiveToken(c)
  PROVE  TInv'
<1>1. calls[c] # Idle
  BY DEF ReceiveToken, Answered, InFlight
<1>2. VisitOK' /\ CookiesOK'
  BY DEF ReceiveToken, TInv, VisitOK, CookiesOK
<1>3. NextRequest(c, "write", TRUE)
  BY DEF ReceiveToken
<1> QED
  BY <1>1, <1>2, <1>3, NextRequestOK

LEMMA ReceiveWriteOK ==
  ASSUME TInv, NEW c \in Calls, ReceiveWrite(c)
  PROVE  TInv'
<1>1. PICK act, at, busy : /\ act = calls[c].act /\ at = calls[c].at
                           /\ busy = FlagAfter(calls[c].act)
  OBVIOUS
<1>2. calls[c] # Idle /\ ActOK(act)
  BY <1>1 DEF ReceiveWrite, Answered, InFlight, TInv, CallOK
<1>3. CookiesOK'
  <2>1. PICK change : change = act.session
    OBVIOUS
  <2>2. TakeCookies(change)
    BY <1>1, <2>1, Zenon DEF ReceiveWrite
  <2> QED
    BY <2>2, TakeCookiesOK DEF TInv
<1>4. CASE act.then = "leave" /\ \E p \in Redirects(act.to) : Goto(c, p)
  <2>1. act.to \in PageName
    BY <1>2, <1>4 DEF ActOK
  <2>2. PICK p \in PageName : Goto(c, p)
    BY <1>4, <2>1, RedirectsAreNamed
  <2> QED
    BY <1>3, <2>2, GotoOK
<1>5. CASE Over(c) /\ IfLive(c, [visit EXCEPT !.busy = busy, !.mine = at])
  <2>1. PICK v : v = [visit EXCEPT !.busy = busy, !.mine = at]
    OBVIOUS
  <2>2. IfLive(c, v)
    BY <1>5, <2>1
  <2>3. /\ v.page = visit.page
        /\ v = [page |-> v.page, phase |-> v.phase, busy |-> v.busy, view |-> v.view,
                mine |-> v.mine, failed |-> v.failed]
    BY <2>1 DEF TInv, VisitOK
  <2>4. VisitOK'
    BY <2>2, <2>3, LivePageOK DEF TInv
  <2> QED
    BY <1>3, <1>5, <2>4, OverOK
<1>6. CASE NextRequest(c, "read", FALSE) /\ IfLive(c, [visit EXCEPT !.mine = at])
  <2>1. PICK v : v = [visit EXCEPT !.mine = at]
    OBVIOUS
  <2>2. IfLive(c, v)
    BY <1>6, <2>1
  <2>3. /\ v.page = visit.page
        /\ v = [page |-> v.page, phase |-> v.phase, busy |-> v.busy, view |-> v.view,
                mine |-> v.mine, failed |-> v.failed]
    BY <2>1 DEF TInv, VisitOK
  <2>4. VisitOK'
    BY <2>2, <2>3, LivePageOK DEF TInv
  <2> QED
    BY <1>2, <1>3, <1>6, <2>4, NextRequestOK
<1>7. CASE /\ NextRequest(c, "recount", FALSE)
           /\ IfLive(c, [visit EXCEPT !.mine = at, !.view = at])
  <2>1. PICK v : v = [visit EXCEPT !.mine = at, !.view = at]
    OBVIOUS
  <2>2. IfLive(c, v)
    BY <1>7, <2>1
  <2>3. /\ v.page = visit.page
        /\ v = [page |-> v.page, phase |-> v.phase, busy |-> v.busy, view |-> v.view,
                mine |-> v.mine, failed |-> v.failed]
    BY <2>1 DEF TInv, VisitOK
  <2>4. VisitOK'
    BY <2>2, <2>3, LivePageOK DEF TInv
  <2> QED
    BY <1>2, <1>3, <1>7, <2>4, NextRequestOK
<1>8. CASE NextRequest(c, "logout", csrf') /\ UNCHANGED visit
  <2>1. PICK token : token = csrf'
    OBVIOUS
  <2>2. NextRequest(c, "logout", token)
    BY <1>8, <2>1
  <2>3. VisitOK'
    BY <1>8 DEF TInv, VisitOK
  <2> QED
    BY <1>2, <1>3, <2>1, <2>2, <2>3, NextRequestOK
<1> QED
  BY <1>1, <1>4, <1>5, <1>6, <1>7, <1>8, Zenon DEF ReceiveWrite

LEMMA ReceiveReadOK ==
  ASSUME TInv, NEW c \in Calls, ReceiveRead(c)
  PROVE  TInv'
<1>1. PICK v : v = [visit EXCEPT !.phase = "shown", !.view = calls[c].at,
                                 !.busy = FlagAfter(calls[c].act)]
  OBVIOUS
<1>2. Over(c) /\ IfLive(c, v)
  BY <1>1, Zenon DEF ReceiveRead
<1>3. PICK at, busy : at = calls[c].at /\ busy = FlagAfter(calls[c].act)
  OBVIOUS
<1>4. v = [visit EXCEPT !.phase = "shown", !.view = at, !.busy = busy]
  BY <1>1, <1>3
<1>5. /\ v.page = visit.page
      /\ v = [page |-> v.page, phase |-> v.phase, busy |-> v.busy, view |-> v.view,
              mine |-> v.mine, failed |-> v.failed]
  BY <1>4 DEF TInv, VisitOK
<1>6. VisitOK'
  BY <1>2, <1>5, LivePageOK DEF TInv
<1>7. CookiesOK'
  BY DEF ReceiveRead, TInv, CookiesOK
<1> QED
  BY <1>2, <1>6, <1>7, OverOK

LEMMA ReceiveLastOK ==
  ASSUME TInv, NEW c \in Calls, ReceiveLast(c)
  PROVE  TInv'
<1>1. PICK busy, change : /\ busy = FlagAfter(calls[c].act)
                          /\ change = IF calls[c].stage = "logout" THEN "out" ELSE "same"
  OBVIOUS
<1>2. PICK v : v = [visit EXCEPT !.busy = busy]
  OBVIOUS
<1>3. Over(c) /\ IfLive(c, v) /\ TakeCookies(change)
  BY <1>1, <1>2, Zenon DEF ReceiveLast
<1>4. /\ v.page = visit.page
      /\ v = [page |-> v.page, phase |-> v.phase, busy |-> v.busy, view |-> v.view,
              mine |-> v.mine, failed |-> v.failed]
  BY <1>2 DEF TInv, VisitOK
<1>5. VisitOK'
  BY <1>3, <1>4, LivePageOK DEF TInv
<1>6. CookiesOK'
  BY <1>3, TakeCookiesOK DEF TInv
<1> QED
  BY <1>3, <1>5, <1>6, OverOK

LEMMA ReceiveErrorOK ==
  ASSUME TInv, NEW c \in Calls, ReceiveError(c)
  PROVE  TInv'
<1>1. CookiesOK'
  BY DEF ReceiveError, TInv, CookiesOK
<1>2. PICK act : act = calls[c].act
  OBVIOUS
<1>3. ActOK(act)
  BY <1>2 DEF ReceiveError, InFlight, TInv, CallOK
<1>4. CASE act.then = "load" /\ act.to # "none" /\ Goto(c, act.to)
  <2>1. act.to \in PageName
    BY <1>3, <1>4 DEF ActOK
  <2> QED
    BY <1>1, <1>4, <2>1, GotoOK
<1>5. CASE Over(c) /\ \E after : IfLive(c, [visit EXCEPT !.phase = after, !.failed = TRUE])
  <2>1. PICK after : IfLive(c, [visit EXCEPT !.phase = after, !.failed = TRUE])
    BY <1>5
  <2>2. PICK v : v = [visit EXCEPT !.phase = after, !.failed = TRUE]
    OBVIOUS
  <2>3. IfLive(c, v)
    BY <2>1, <2>2
  <2>4. /\ v.page = visit.page
        /\ v = [page |-> v.page, phase |-> v.phase, busy |-> v.busy, view |-> v.view,
                mine |-> v.mine, failed |-> v.failed]
    BY <2>2 DEF TInv, VisitOK
  <2>5. VisitOK'
    BY <2>3, <2>4, LivePageOK DEF TInv
  <2> QED
    BY <1>1, <1>5, <2>5, OverOK
<1>6. CASE Over(c) /\ \E busy : IfLive(c, [visit EXCEPT !.busy = busy, !.failed = TRUE])
  <2>1. PICK busy : IfLive(c, [visit EXCEPT !.busy = busy, !.failed = TRUE])
    BY <1>6
  <2>2. PICK v : v = [visit EXCEPT !.busy = busy, !.failed = TRUE]
    OBVIOUS
  <2>3. IfLive(c, v)
    BY <2>1, <2>2
  <2>4. /\ v.page = visit.page
        /\ v = [page |-> v.page, phase |-> v.phase, busy |-> v.busy, view |-> v.view,
                mine |-> v.mine, failed |-> v.failed]
    BY <2>2 DEF TInv, VisitOK
  <2>5. VisitOK'
    BY <2>3, <2>4, LivePageOK DEF TInv
  <2> QED
    BY <1>1, <1>6, <2>5, OverOK
<1> QED
  BY <1>2, <1>4, <1>5, <1>6, Zenon DEF ReceiveError

LEMMA InitTInv == Init => TInv
<1> SUFFICES ASSUME Init
             PROVE  TInv
  OBVIOUS
<1>1. VisitOK
  BY PagesNamed DEF Init, VisitOK
<1>2. CookiesOK
  BY DEF Init, CookiesOK
<1>3. DOMAIN calls = Calls /\ \A c \in Calls : calls[c] = Idle
  BY DEF Init
<1> QED
  BY <1>1, <1>2, <1>3 DEF TInv, CallOK

LEMMA StepTInv == TInv /\ [Next]_vars => TInv'
<1> SUFFICES ASSUME TInv, [Next]_vars
             PROVE  TInv'
  OBVIOUS
<1>1. CASE UNCHANGED vars
  <2>1. calls' = calls /\ visit' = visit /\ access' = access /\ csrf' = csrf
    BY <1>1 DEF vars
  <2>2. VisitOK' /\ CookiesOK'
    BY <2>1 DEF TInv, VisitOK, CookiesOK
  <2> QED
    BY <2>1, <2>2 DEF TInv, CallOK, Shape, ActOK, Carries
<1>2. ASSUME NEW c \in Calls,
             \/ \E p \in PageName : Open(c, p)
             \/ \E act \in Shown.acts : Click(c, act)
      PROVE  TInv'
  BY <1>2, UserOK
<1>3. ASSUME NEW c \in Calls, Serve(c) \/ Refuse(c)
      PROVE  TInv'
  BY <1>3, ApiOK
<1>4. ASSUME NEW c \in Calls, Receive(c)
      PROVE  TInv'
  BY <1>4, ReceiveTokenOK, ReceiveWriteOK, ReceiveReadOK, ReceiveLastOK, ReceiveErrorOK
     DEF Receive
<1>5. CASE OthersWrite
  <2>1. calls' = calls /\ visit' = visit /\ access' = access /\ csrf' = csrf
    BY <1>5 DEF OthersWrite
  <2>2. VisitOK' /\ CookiesOK'
    BY <2>1 DEF TInv, VisitOK, CookiesOK
  <2> QED
    BY <2>1, <2>2 DEF TInv, CallOK, Shape, ActOK, Carries
<1>6. CASE AccessEnds
  <2>1. calls' = calls /\ visit' = visit /\ access' = FALSE /\ csrf' = csrf
    BY <1>6 DEF AccessEnds
  <2>2. VisitOK' /\ CookiesOK'
    BY <2>1 DEF TInv, VisitOK, CookiesOK
  <2> QED
    BY <2>1, <2>2 DEF TInv, CallOK, Shape, ActOK, Carries
<1> QED
  BY <1>1, <1>2, <1>3, <1>4, <1>5, <1>6 DEF Next

\* No write that the session guard lets pass lacks its CSRF header: whichever pages
\* are opened and left, however calls overlap, and whenever sessions begin and end.
THEOREM HeadersNeverMissing == Spec => []WritesCarryToken
<1>1. TInv => WritesCarryToken
  <2> SUFFICES ASSUME TInv, NEW c \in Calls, InFlight(c), calls[c].answer = "none",
                      JwtAuthGuard(calls[c])
               PROVE  CsrfGuard(calls[c])
    BY DEF WritesCarryToken
  <2>1. Carries(calls[c])
    BY DEF TInv, CallOK, InFlight
  <2> QED
    BY <2>1 DEF Carries, JwtAuthGuard, CsrfGuard
<1> QED
  BY <1>1, InitTInv, StepTInv, PTL DEF Spec

--------------------------------------------------------------------------------
(* The types.                                                                *)

LEMMA ActsKnown ==
  ASSUME NEW p \in PageName
  PROVE  /\ Load(p) \in Acts /\ Pages[p].acts \subseteq Acts
         /\ Pages[p].public \in BOOLEAN
<1>1. Load(p) \in Acts /\ Pages[p].acts \subseteq Acts
  BY DEF Acts
<1> QED
  BY <1>1, EveryPageOK DEF PageOK

\* Where an act leads to is a page.
LEMMA ActsLead ==
  ASSUME NEW act \in Acts
  PROVE  ActOK(act)
<1>1. CASE \E p \in PageName : act = Load(p)
  <2>1. PICK p \in PageName : act = Load(p)
    BY <1>1
  <2>2. act.then = "load" /\ act.to = Pages[p].away
    BY <2>1 DEF Load, Press
  <2> QED
    BY <2>2, EveryPageOK DEF PageOK, ActOK
<1>2. CASE \E p \in PageName : act \in Pages[p].acts
  BY <1>2, EveryPageOK DEF PageOK
<1> QED
  BY <1>1, <1>2 DEF Acts

Stage == {"token", "write", "read", "recount", "logout"}

LEMMA SendTyped ==
  ASSUME NEW act \in Acts, NEW public \in BOOLEAN, NEW stage \in Stage,
         NEW cookie \in BOOLEAN, NEW token
  PROVE  Send(act, public, stage, cookie, token) \in Call
<1>1. PICK header : header = (stage \in {"write", "logout"} /\ token)
  OBVIOUS
<1>2. header \in BOOLEAN
  BY <1>1, Zenon
<1>3. Send(act, public, stage, cookie, token) =
        [act |-> act, stage |-> stage, public |-> public, answer |-> "none", at |-> 0,
         access |-> cookie, csrf |-> header, live |-> TRUE]
  BY <1>1, Zenon DEF Send
<1>4. 0 \in 0..MaxVersion
  BY WebClientConstants
<1> QED
  BY <1>2, <1>3, <1>4 DEF Call, Stage

LEMMA DeadTyped ==
  ASSUME NEW call \in Call \union {Idle}
  PROVE  Dead(call) \in Call \union {Idle}
<1>1. 0 \in 0..MaxVersion
  BY WebClientConstants
<1>2. call \in Call => [call EXCEPT !.live = FALSE, !.at = 0] \in Call
  BY <1>1 DEF Call
<1> QED
  BY <1>2 DEF Dead

\* Whatever is upserted is a profile.
LEMMA UpsertTyped ==
  ASSUME NEW p \in Profile, NEW i \in Inputs
  PROVE  Upserted(p, i) \in Profile
<1>1. i.filled \subseteq Columns
  BY InputsAreRequests DEF Input
<1>2. Merged(p.fields, i) \subseteq Columns
  BY <1>1 DEF Merged, Profile
<1>3. StoredPercent(p.fields, i) \in 0..100
  BY PercentIsPercent DEF StoredPercent
<1> QED
  BY <1>2, <1>3 DEF Upserted, Profile

LEMMA RowsTyped == Rows \subseteq Profile
<1>1. NoProfile \in Profile
  BY DEF NoProfile, Profile
<1> QED
  BY <1>1, UpsertTyped DEF Rows

ProfileOK == profile \in Profile

\* Every step leaves a profile.
LEMMA ProfileTyped ==
  ASSUME profile \in Profile, [Next]_vars
  PROVE  profile' \in Profile
<1>1. ProfileChange
  BY StepChange
<1> QED
  BY <1>1, RowsTyped, UpsertTyped DEF ProfileChange, upsertProfile

\* The types of all but the profile.
ClientOK ==
  /\ visit \in Visit /\ calls \in [Calls -> Call \union {Idle}]
  /\ version \in 0..MaxVersion /\ access \in BOOLEAN /\ csrf \in BOOLEAN

\* A step that changes one call.
LEMMA OneCallTyped ==
  ASSUME ClientOK, NEW c \in Calls, NEW q \in Call \union {Idle},
         calls' = [calls EXCEPT ![c] = q], visit' \in Visit, version' \in 0..MaxVersion,
         access' \in BOOLEAN, csrf' \in BOOLEAN
  PROVE  ClientOK'
BY DEF ClientOK

LEMMA GotoTyped ==
  ASSUME ClientOK, NEW c \in Calls, NEW p \in PageName, Goto(c, p), access' \in BOOLEAN,
         csrf' \in BOOLEAN
  PROVE  ClientOK'
<1>1. 0 \in 0..MaxVersion
  BY WebClientConstants
<1>2. visit' \in Visit /\ version' \in 0..MaxVersion
  BY <1>1 DEF Goto, Visit
<1>3. Loads(p) \in Call \union {Idle}
  <2>1. PICK cookie \in BOOLEAN : cookie = access'
    OBVIOUS
  <2>2. Send(Load(p), FALSE, "read", cookie, FALSE) \in Call
    BY ActsKnown, SendTyped DEF Stage
  <2> QED
    BY <2>1, <2>2 DEF Loads
<1>4. calls' = [d \in Calls |-> IF d = c THEN Loads(p) ELSE Dead(calls[d])]
  BY DEF Goto
<1>5. \A d \in Calls : Dead(calls[d]) \in Call \union {Idle}
  BY DeadTyped DEF ClientOK
<1>6. calls' \in [Calls -> Call \union {Idle}]
  BY <1>3, <1>4, <1>5
<1> QED
  BY <1>2, <1>6 DEF ClientOK

LEMMA UserTyped ==
  ASSUME ClientOK, NEW c \in Calls,
         \/ \E p \in PageName : Open(c, p)
         \/ \E act \in Shown.acts : Click(c, act)
  PROVE  ClientOK'
<1>1. ASSUME NEW p \in PageName, Open(c, p)
      PROVE  ClientOK'
  <2>1. PICK q \in PageName : Goto(c, q)
    BY <1>1, RedirectsAreNamed DEF Open
  <2>2. access' \in BOOLEAN /\ csrf' \in BOOLEAN
    BY <1>1 DEF Open, ClientOK
  <2> QED
    BY <2>1, <2>2, GotoTyped
<1>2. ASSUME NEW act \in Shown.acts, Click(c, act)
      PROVE  ClientOK'
  <2>1. PICK public, stage : /\ public = Shown.public
                             /\ stage = IF act.token THEN "token" ELSE "write"
    OBVIOUS
  <2>2. visit.page \in PageName
    BY DEF ClientOK, Visit
  <2>3. act \in Acts /\ public \in BOOLEAN /\ stage \in Stage
    BY <2>1, <2>2, ActsKnown DEF Shown, Stage
  <2>4. PICK q, cookie, token : /\ cookie = access /\ token = csrf
                                 /\ q = Send(act, public, stage, cookie, token)
    OBVIOUS
  <2>5. q \in Call
    <3>1. cookie \in BOOLEAN
      BY <2>4 DEF ClientOK
    <3>2. Send(act, public, stage, cookie, token) \in Call
      BY <2>3, <3>1, SendTyped
    <3> QED
      BY <2>4, <3>2
  <2>6. calls' = [calls EXCEPT ![c] = q]
    BY <1>2, <2>1, <2>4 DEF Click
  <2>7. PICK busy : busy = (visit.busy \/ act.busy)
    OBVIOUS
  <2>8. busy \in BOOLEAN
    BY <2>7, Zenon
  <2>9. visit' = [visit EXCEPT !.busy = busy]
    BY <1>2, <2>7, Zenon DEF Click
  <2>10. visit' \in Visit
    BY <2>8, <2>9 DEF ClientOK, Visit
  <2> QED
    BY <1>2, <2>5, <2>6, <2>10, OneCallTyped DEF Click, ClientOK
<1> QED
  BY <1>1, <1>2

LEMMA ApiTyped ==
  ASSUME ClientOK, NEW c \in Calls, Serve(c) \/ Refuse(c)
  PROVE  ClientOK'
<1>1. PICK call \in Call : call = calls[c]
  BY DEF Serve, Refuse, InFlight, ClientOK
<1>2. CASE Serve(c)
  <2>1. version' \in 0..MaxVersion
    <3>1. PICK changes : changes = (call.stage = "write" /\ call.live)
      OBVIOUS
    <3>2. (changes => version < MaxVersion) /\ version' = IF changes THEN version + 1 ELSE version
      BY <1>1, <1>2, <3>1, Zenon DEF Serve, ServeWrite
    <3> QED
      BY <3>2, WebClientConstants DEF ClientOK
  <2>2. PICK at : at = IF call.live THEN version' ELSE 0
    OBVIOUS
  <2>3. at \in 0..MaxVersion
    BY <2>1, <2>2, WebClientConstants
  <2>4. PICK q : q = [call EXCEPT !.answer = "ok", !.at = at, !.access = FALSE, !.csrf = FALSE]
    OBVIOUS
  <2>5. q \in Call
    BY <2>3, <2>4 DEF Call
  <2>6. calls' = [calls EXCEPT ![c] = q]
    BY <1>1, <1>2, <2>2, <2>4, Zenon DEF Serve, Answer
  <2>7. visit' = visit /\ csrf' = csrf /\ access' \in BOOLEAN
    BY <1>2, Zenon DEF Serve, ServeWrite
  <2> QED
    BY <2>1, <2>5, <2>6, <2>7, OneCallTyped DEF ClientOK
<1>3. CASE Refuse(c)
  <2>1. PICK q : q = [call EXCEPT !.answer = "refused", !.at = 0, !.access = FALSE, !.csrf = FALSE]
    OBVIOUS
  <2>2. q \in Call
    <3>1. 0 \in 0..MaxVersion
      BY WebClientConstants
    <3> QED
      BY <2>1, <3>1 DEF Call
  <2>3. calls' = [calls EXCEPT ![c] = q]
    BY <1>1, <1>3, <2>1, Zenon DEF Refuse, Answer
  <2> QED
    BY <1>3, <2>2, <2>3, OneCallTyped DEF Refuse, ClientOK
<1> QED
  BY <1>2, <1>3

LEMMA NextRequestTyped ==
  ASSUME ClientOK, NEW c \in Calls, calls[c] # Idle, NEW stage \in Stage, NEW token,
         NextRequest(c, stage, token), visit' \in Visit, version' = version,
         access' \in BOOLEAN, csrf' \in BOOLEAN
  PROVE  ClientOK'
<1>1. PICK call \in Call : call = calls[c]
  BY DEF ClientOK
<1>2. PICK cookie \in BOOLEAN : cookie = access'
  OBVIOUS
<1>3. PICK act \in Acts, public \in BOOLEAN, live \in BOOLEAN :
        act = call.act /\ public = call.public /\ live = call.live
  BY DEF Call
<1>4. PICK sent \in Call : sent = Send(act, public, stage, cookie, token)
  BY SendTyped
<1>5. PICK q : q = [sent EXCEPT !.live = live]
  OBVIOUS
<1>6. q \in Call
  BY <1>5 DEF Call
<1>7. calls' = [calls EXCEPT ![c] = q]
  BY <1>1, <1>2, <1>3, <1>4, <1>5, Zenon DEF NextRequest
<1> QED
  BY <1>6, <1>7, OneCallTyped DEF ClientOK

LEMMA OverTyped ==
  ASSUME ClientOK, NEW c \in Calls, Over(c), visit' \in Visit, version' = version,
         access' \in BOOLEAN, csrf' \in BOOLEAN
  PROVE  ClientOK'
BY OneCallTyped DEF Over, ClientOK

LEMMA TakeCookiesTyped ==
  ASSUME ClientOK, NEW change, TakeCookies(change)
  PROVE  access' \in BOOLEAN /\ csrf' \in BOOLEAN
<1>1. CASE change = "in"
  BY <1>1 DEF TakeCookies
<1>2. CASE change = "out"
  BY <1>2 DEF TakeCookies
<1>3. CASE change # "in" /\ change # "out"
  BY <1>3 DEF TakeCookies, ClientOK
<1> QED
  BY <1>1, <1>2, <1>3

LEMMA FlagTyped == ASSUME NEW act PROVE FlagAfter(act) \in BOOLEAN
BY Zenon DEF FlagAfter

\* What a page makes of an answer is a page.
LEMMA VisitTyped ==
  ASSUME NEW v \in Visit, NEW busy \in BOOLEAN, NEW view \in 0..MaxVersion,
         NEW mine \in 0..MaxVersion, NEW phase \in {"loading", "shown", "notice"}
  PROVE  /\ [v EXCEPT !.busy = busy, !.mine = mine] \in Visit
         /\ [v EXCEPT !.mine = mine] \in Visit
         /\ [v EXCEPT !.mine = mine, !.view = view] \in Visit
         /\ [v EXCEPT !.phase = phase, !.view = view, !.busy = busy] \in Visit
         /\ [v EXCEPT !.busy = busy] \in Visit
         /\ [v EXCEPT !.phase = phase, !.failed = TRUE] \in Visit
         /\ [v EXCEPT !.busy = busy, !.failed = TRUE] \in Visit
BY DEF Visit

\* An answer that is received: the call, its page and what the page would become.
LEMMA ReceiveTyped ==
  ASSUME ClientOK, NEW c \in Calls, Receive(c)
  PROVE  ClientOK'
<1>1. PICK call \in Call : call = calls[c]
  BY DEF Receive, ReceiveToken, ReceiveWrite, ReceiveRead, ReceiveLast, ReceiveError, Answered,
     InFlight, ClientOK
<1>2. PICK act \in Acts, at \in 0..MaxVersion, live \in BOOLEAN :
        act = call.act /\ at = call.at /\ live = call.live
  BY DEF Call
<1>3. PICK v \in Visit : v = visit
  BY DEF ClientOK
<1>4. PICK busy \in BOOLEAN : busy = FlagAfter(act)
  BY FlagTyped
<1>5. calls[c] # Idle
  BY DEF Receive, ReceiveToken, ReceiveWrite, ReceiveRead, ReceiveLast, ReceiveError, Answered,
     InFlight
<1>6. ASSUME NEW w \in Visit, IfLive(c, w) PROVE visit' \in Visit
  BY <1>6 DEF IfLive, ClientOK
<1>7. ASSUME NEW p, ActOK(act), Goto(c, p), access' \in BOOLEAN, csrf' \in BOOLEAN,
             \/ act.then = "leave" /\ p \in Redirects(act.to)
             \/ act.then = "load" /\ act.to # "none" /\ p = act.to
      PROVE  ClientOK'
  <2>1. p \in PageName
    BY <1>7, RedirectsAreNamed DEF ActOK
  <2> QED
    BY <1>7, <2>1, GotoTyped
<1>8. CASE ReceiveToken(c)
  BY <1>5, <1>8, NextRequestTyped DEF ReceiveToken, ClientOK, Stage
<1>9. CASE ReceiveWrite(c)
  <2>1. access' \in BOOLEAN /\ csrf' \in BOOLEAN
    <3>1. PICK change : change = act.session
      OBVIOUS
    <3>2. TakeCookies(change)
      BY <1>1, <1>2, <1>9, <3>1, Zenon DEF ReceiveWrite
    <3> QED
      BY <3>2, TakeCookiesTyped
  <2>2. CASE act.then = "leave" /\ \E p \in Redirects(act.to) : Goto(c, p)
    BY <1>7, <2>1, <2>2, ActsLead
  <2>3. CASE Over(c) /\ IfLive(c, [v EXCEPT !.busy = busy, !.mine = at]) /\ UNCHANGED version
    BY <1>6, <2>1, <2>3, VisitTyped, OverTyped
  <2>4. CASE NextRequest(c, "read", FALSE) /\ IfLive(c, [v EXCEPT !.mine = at]) /\ UNCHANGED version
    BY <1>5, <1>6, <2>1, <2>4, VisitTyped, NextRequestTyped DEF Stage
  <2>5. CASE /\ NextRequest(c, "recount", FALSE) /\ UNCHANGED version
             /\ IfLive(c, [v EXCEPT !.mine = at, !.view = at])
    BY <1>5, <1>6, <2>1, <2>5, VisitTyped, NextRequestTyped DEF Stage
  <2>6. CASE NextRequest(c, "logout", csrf') /\ UNCHANGED <<visit, version>>
    <3>1. PICK token : token = csrf'
      OBVIOUS
    <3> QED
      BY <1>5, <2>1, <2>6, <3>1, NextRequestTyped DEF Stage, ClientOK
  <2> QED
    BY <1>1, <1>2, <1>3, <1>4, <1>9, <2>2, <2>3, <2>4, <2>5, <2>6, Zenon DEF ReceiveWrite
<1>10. CASE ReceiveRead(c)
  <2>1. IfLive(c, [v EXCEPT !.phase = "shown", !.view = at, !.busy = busy])
    BY <1>1, <1>2, <1>3, <1>4, <1>10, Zenon DEF ReceiveRead
  <2>2. visit' \in Visit
    BY <1>6, <2>1, VisitTyped
  <2> QED
    BY <1>10, <2>2, OverTyped DEF ReceiveRead, ClientOK
<1>11. CASE ReceiveLast(c)
  <2>1. IfLive(c, [v EXCEPT !.busy = busy])
    BY <1>1, <1>2, <1>3, <1>4, <1>11, Zenon DEF ReceiveLast
  <2>2. visit' \in Visit
    BY <1>6, <2>1, VisitTyped
  <2>3. PICK change : change = IF call.stage = "logout" THEN "out" ELSE "same"
    OBVIOUS
  <2>4. TakeCookies(change)
    BY <1>1, <1>11, <2>3, Zenon DEF ReceiveLast
  <2>5. access' \in BOOLEAN /\ csrf' \in BOOLEAN
    BY <2>4, TakeCookiesTyped
  <2> QED
    BY <1>11, <2>2, <2>5, OverTyped DEF ReceiveLast
<1>12. CASE ReceiveError(c)
  <2>1. access' \in BOOLEAN /\ csrf' \in BOOLEAN
    BY <1>12 DEF ReceiveError, ClientOK
  <2>2. CASE act.then = "load" /\ act.to # "none" /\ Goto(c, act.to)
    BY <1>7, <2>1, <2>2, ActsLead
  <2>3. CASE /\ Over(c) /\ UNCHANGED version
             /\ \E after \in {"notice", "shown", v.phase} :
                  IfLive(c, [v EXCEPT !.phase = after, !.failed = TRUE])
    <3>1. v.phase \in {"loading", "shown", "notice"}
      BY DEF Visit
    <3> QED
      BY <1>6, <2>1, <2>3, <3>1, VisitTyped, OverTyped
  <2>4. CASE Over(c) /\ UNCHANGED version /\ IfLive(c, [v EXCEPT !.busy = busy, !.failed = TRUE])
    BY <1>6, <2>1, <2>4, VisitTyped, OverTyped
  <2>5. PICK after : after = CASE Shown.onFail = "notice" -> "notice"
                               [] Shown.onFail = "empty" -> "shown" [] OTHER -> visit.phase
    OBVIOUS
  <2>6. after \in {"notice", "shown", v.phase}
    BY <1>3, <2>5
  <2> QED
    BY <1>1, <1>2, <1>3, <1>4, <1>12, <2>2, <2>3, <2>4, <2>5, <2>6, Zenon DEF ReceiveError
<1> QED
  BY <1>8, <1>9, <1>10, <1>11, <1>12 DEF Receive

LEMMA StepTyped == ClientOK /\ [Next]_vars => ClientOK'
<1> SUFFICES ASSUME ClientOK, [Next]_vars PROVE ClientOK'
  OBVIOUS
<1>1. CASE UNCHANGED vars
  BY <1>1 DEF vars, ClientOK
<1>2. CASE OthersWrite \/ AccessEnds
  <2>1. /\ UNCHANGED <<visit, calls, csrf>> /\ access' \in BOOLEAN
        /\ version' = version \/ (version < MaxVersion /\ version' = version + 1)
    BY <1>2 DEF OthersWrite, AccessEnds, ClientOK
  <2>2. version' \in 0..MaxVersion
    BY <2>1, WebClientConstants DEF ClientOK
  <2> QED
    BY <2>1, <2>2 DEF ClientOK
<1> QED
  BY <1>1, <1>2, UserTyped, ApiTyped, ReceiveTyped DEF Next

LEMMA InitTyped == Init => ClientOK
<1> SUFFICES ASSUME Init PROVE ClientOK
  OBVIOUS
<1>1. visit \in Visit /\ version \in 0..MaxVersion
  BY PagesNamed, WebClientConstants DEF Init, Visit
<1>2. calls \in [Calls -> Call \union {Idle}]
  BY DEF Init
<1> QED
  BY <1>1, <1>2 DEF Init, ClientOK

LEMMA ClientTyped == Spec => []ClientOK
BY InitTyped, StepTyped, PTL DEF Spec

\* Whatever pages are opened and left and however calls overlap, the page, every
\* call in flight, the cookies and the row of the profile have their types.
THEOREM TypeCorrect == Spec => []TypeOK
<1>1. Init => ProfileOK
  BY RowsTyped DEF Init, ProfileInit, Rows, ProfileOK
<1>2. ProfileOK /\ [Next]_vars => ProfileOK'
  BY ProfileTyped DEF ProfileOK
<1>3. ClientOK /\ ProfileOK => TypeOK
  BY DEF ClientOK, ProfileOK, TypeOK
<1> QED
  BY <1>1, <1>2, <1>3, ClientTyped, PTL DEF Spec

--------------------------------------------------------------------------------
(* A page shows what it has written.                                         *)

\* A call of the page that is shown.
Live(c) == InFlight(c) /\ calls[c].live

\* The only live call of a page that shows its writes: its load, before which there
\* is nothing to click, or the sequence of a button, which all wait for.
InTurn(call) ==
  /\ call.at <= version
  /\ \/ /\ call.act = Load(visit.page) /\ call.stage = "read"
        /\ visit.phase = "loading" /\ visit.mine = 0
     \/ /\ call.act \in Shown.acts /\ visit.busy
        /\ \/ call.stage \in {"token", "write"}
           \/ call.stage = "read" /\ call.act.then = "reload"
           \/ call.stage = "recount" /\ call.act.then = "answer"
  /\ call.stage = "read" /\ call.answer = "ok" => call.at >= visit.mine
  /\ call.stage = "recount" => visit.view >= visit.mine

Turns ==
  /\ visit.mine <= version
  /\ visit.busy \/ visit.failed \/ visit.view >= visit.mine
  /\ \A c \in Calls : Live(c) => InTurn(calls[c])
  /\ \A c, d \in Calls : Live(c) /\ Live(d) => c = d

\* The inductive invariant.
OInv == ClientOK /\ (ShowsWrites(Shown) => Turns)

LEMMA PageStays ==
  ASSUME visit'.page = visit.page
  PROVE  Shown' = Shown /\ (ShowsWrites(Shown)' <=> ShowsWrites(Shown))
BY DEF Shown, ShowsWrites

\* The only live call, if there is one at all, goes on as q or is over.
LEMMA OnlyOneTurns ==
  ASSUME ClientOK, NEW c \in Calls, NEW q, \A d \in Calls : Live(d) => d = c,
         calls' = [calls EXCEPT ![c] = q], q = Idle \/ InTurn(q)',
         visit'.mine <= version', visit'.busy \/ visit'.failed \/ visit'.view >= visit'.mine
  PROVE  Turns'
<1>1. calls'[c] = q /\ \A d \in Calls : d # c => calls'[d] = calls[d]
  BY DEF ClientOK
<1>2. \A d \in Calls : Live(d)' => d = c
  BY <1>1 DEF Live, InFlight
<1>3. Live(c)' => InTurn(calls[c])'
  BY <1>1 DEF Live, InFlight, InTurn
<1> QED
  BY <1>2, <1>3 DEF Turns

\* A call of a page that has been left goes on, and the page that is shown does not
\* notice.
LEMMA OthersTurn ==
  ASSUME ClientOK, Turns, NEW c \in Calls, NEW q, calls' = [calls EXCEPT ![c] = q],
         q = Idle \/ ~q.live, visit' = visit, version' = version
  PROVE  Turns'
<1>1. calls'[c] = q /\ \A d \in Calls : d # c => calls'[d] = calls[d]
  BY DEF ClientOK
<1>2. ~Live(c)'
  BY <1>1 DEF Live, InFlight
<1>3. \A d \in Calls : Live(d)' => d # c /\ Live(d)
  BY <1>1, <1>2 DEF Live, InFlight
<1>4. ASSUME NEW d \in Calls, Live(d)' PROVE InTurn(calls[d])'
  <2>1. InTurn(calls[d]) /\ calls'[d] = calls[d]
    BY <1>1, <1>3, <1>4 DEF Turns
  <2> QED
    BY <2>1 DEF InTurn, Shown
<1> QED
  BY <1>3, <1>4 DEF Turns

\* A page that is opened has at most its load.
LEMMA GotoTurns ==
  ASSUME ClientOK, NEW c \in Calls, NEW p \in PageName, Goto(c, p), ShowsWrites(Shown)'
  PROVE  Turns'
<1>1. /\ visit'.page = p /\ visit'.view = 0 /\ visit'.mine = 0 /\ version' = 0
      /\ visit'.phase = IF Pages[p].loads THEN "loading" ELSE "shown"
      /\ calls' = [d \in Calls |-> IF d = c THEN Loads(p) ELSE Dead(calls[d])]
  BY DEF Goto
<1>2. Pages[p].loads
  <2>1. ShowsWrites(Pages[p])
    BY <1>1 DEF Shown, ShowsWrites
  <2> QED
    BY <2>1, EveryPageOK DEF PageOK
<1>3. \A d \in Calls : Dead(calls[d]) = Idle \/ ~Dead(calls[d]).live
  <2>1. \A call \in Call \union {Idle} : Dead(call) = Idle \/ ~Dead(call).live
    BY DEF Dead, Call
  <2> QED
    BY <2>1 DEF ClientOK
<1>4. \A d \in Calls : Live(d)' => d = c
  BY <1>1, <1>3 DEF Live, InFlight
<1>5. PICK load : load = calls'[c]
  OBVIOUS
<1>6. /\ load.act = Load(p) /\ load.stage = "read" /\ load.at = 0 /\ load.answer = "none"
  BY <1>1, <1>2, <1>5 DEF Loads, Send
<1>7. InTurn(load)'
  BY <1>1, <1>2, <1>6 DEF InTurn
<1>8. InTurn(calls[c])'
  BY <1>5, <1>7 DEF InTurn
<1> QED
  BY <1>1, <1>4, <1>8 DEF Turns

--------------------------------------------------------------------------------
LEMMA UserTurns ==
  ASSUME OInv, ClientOK', NEW c \in Calls,
         \/ \E p \in PageName : Open(c, p)
         \/ \E act \in Shown.acts : Click(c, act),
         ShowsWrites(Shown)'
  PROVE  Turns'
<1>1. ASSUME NEW p \in PageName, Open(c, p) PROVE Turns'
  <2>1. PICK q \in PageName : Goto(c, q)
    BY <1>1, RedirectsAreNamed DEF Open
  <2> QED
    BY <2>1, GotoTurns DEF OInv
<1>2. ASSUME NEW act \in Shown.acts, Click(c, act) PROVE Turns'
  <2>1. PICK v \in Visit : v = visit
    BY DEF OInv, ClientOK
  <2>2. PICK busy : busy = (v.busy \/ act.busy)
    OBVIOUS
  <2>3. visit' = [v EXCEPT !.busy = busy]
    BY <1>2, <2>1, <2>2, Zenon DEF Click
  <2>4. /\ visit'.page = v.page /\ visit'.view = v.view /\ visit'.mine = v.mine
        /\ visit'.busy = busy
    BY <2>3 DEF Visit
  <2>5. Turns /\ Shown' = Shown /\ act.waits /\ act.busy
    BY <2>1, <2>4, PageStays DEF OInv, ShowsWrites
  <2>6. busy /\ visit.phase = "shown" /\ ~visit.busy
    BY <1>2, <2>2, <2>5 DEF Click, Enabled
  <2>7. \A d \in Calls : ~Live(d)
    BY <2>5, <2>6 DEF InTurn, Turns
  <2>8. PICK q, public, stage, cookie, token :
          /\ calls' = [calls EXCEPT ![c] = q] /\ q = Send(act, public, stage, cookie, token)
          /\ stage \in {"token", "write"}
    BY <1>2 DEF Click
  <2>9. q.act = act /\ q.stage = stage /\ q.at = 0
    BY <2>8 DEF Send
  <2>10. version' = version /\ version \in Nat
    BY <1>2, WebClientConstants DEF Click, OInv, ClientOK
  <2>11. InTurn(q)'
    BY <2>4, <2>5, <2>6, <2>8, <2>9, <2>10 DEF InTurn
  <2>12. visit'.mine <= version'
    BY <2>1, <2>4, <2>5, <2>10 DEF Turns
  <2> QED
    BY <2>4, <2>6, <2>7, <2>8, <2>11, <2>12, OnlyOneTurns DEF OInv
<1> QED
  BY <1>1, <1>2

LEMMA ApiTurns ==
  ASSUME OInv, NEW c \in Calls, Serve(c) \/ Refuse(c), ShowsWrites(Shown)'
  PROVE  Turns'
<1>1. PICK call \in Call : call = calls[c]
  BY DEF Serve, Refuse, InFlight, OInv, ClientOK
<1>2. visit' = visit /\ Shown' = Shown /\ Turns
  <2>1. visit' = visit
    BY DEF Serve, Refuse
  <2> QED
    BY <2>1, PageStays DEF OInv
<1>3. /\ version \in Nat /\ version' \in Nat /\ version' >= version
      /\ ~call.live => version' = version
  <2>1. CASE Serve(c)
    <3>1. PICK changes : changes = (call.stage = "write" /\ call.live)
      OBVIOUS
    <3>2. version' = IF changes THEN version + 1 ELSE version
      BY <1>1, <2>1, <3>1, Zenon DEF Serve, ServeWrite
    <3>3. ~call.live => ~changes
      BY <3>1
    <3>4. version \in Nat
      BY WebClientConstants DEF OInv, ClientOK
    <3> QED
      BY <3>2, <3>3, <3>4
  <2>2. CASE Refuse(c)
    BY <2>2, WebClientConstants DEF Refuse, OInv, ClientOK
  <2> QED
    BY <2>1, <2>2
<1>4. PICK q, answer, at :
        /\ calls' = [calls EXCEPT ![c] = q]
        /\ q = [call EXCEPT !.answer = answer, !.at = at, !.access = FALSE, !.csrf = FALSE]
        /\ \/ answer = "ok" /\ at = IF call.live THEN version' ELSE 0
           \/ answer = "refused" /\ at = 0
  <2>1. CASE Serve(c)
    <3>1. PICK at : at = IF call.live THEN version' ELSE 0
      OBVIOUS
    <3>2. calls' = [calls EXCEPT ![c] = [call EXCEPT !.answer = "ok", !.at = at,
                                                     !.access = FALSE, !.csrf = FALSE]]
      BY <1>1, <2>1, <3>1, Zenon DEF Serve, Answer
    <3> QED
      BY <3>1, <3>2
  <2>2. CASE Refuse(c)
    <3>1. calls' = [calls EXCEPT ![c] = [call EXCEPT !.answer = "refused", !.at = 0,
                                                     !.access = FALSE, !.csrf = FALSE]]
      BY <1>1, <2>2, Zenon DEF Refuse, Answer
    <3> QED
      BY <3>1
  <2> QED
    BY <2>1, <2>2
<1>5. /\ q.act = call.act /\ q.stage = call.stage /\ q.live = call.live
      /\ q.answer = answer /\ q.at = at
  BY <1>4 DEF Call
<1>6. CASE ~call.live
  BY <1>2, <1>3, <1>4, <1>5, <1>6, OthersTurn DEF OInv
<1>7. CASE call.live
  <2>1. Live(c) /\ InTurn(call)
    BY <1>1, <1>2, <1>7 DEF Live, InFlight, Serve, Refuse, Turns
  <2>2. \A d \in Calls : Live(d) => d = c
    BY <1>2, <2>1 DEF Turns
  <2>3. visit.mine \in Nat /\ visit.mine <= version
    BY <1>2, WebClientConstants DEF Turns, OInv, ClientOK, Visit
  <2>4. InTurn(q)'
    BY <1>2, <1>3, <1>4, <1>5, <1>7, <2>1, <2>3 DEF InTurn
  <2>5. visit'.mine <= version' /\ (visit'.busy \/ visit'.failed \/ visit'.view >= visit'.mine)
    BY <1>2, <1>3, <2>3 DEF Turns
  <2> QED
    BY <1>4, <2>2, <2>4, <2>5, OnlyOneTurns DEF OInv
<1> QED
  BY <1>6, <1>7

\* The next request of a sequence, sent by the same call.
LEMMA NextOfSequence ==
  ASSUME NEW c \in Calls, NEW call \in Call, call = calls[c], NEW stage, NEW token,
         NextRequest(c, stage, token)
  PROVE  \E q : /\ calls' = [calls EXCEPT ![c] = q]
                /\ q.act = call.act /\ q.stage = stage /\ q.at = 0
                /\ q.answer = "none" /\ q.live = call.live
<1>1. PICK sent, cookie : cookie = access' /\ sent = Send(call.act, call.public, stage, cookie, token)
  OBVIOUS
<1>2. PICK q : q = [sent EXCEPT !.live = call.live]
  OBVIOUS
<1>3. calls' = [calls EXCEPT ![c] = q]
  BY <1>1, <1>2, Zenon DEF NextRequest
<1>4. /\ q.act = call.act /\ q.stage = stage /\ q.at = 0 /\ q.answer = "none"
      /\ q.live = call.live
  BY <1>1, <1>2 DEF Send
<1> QED
  BY <1>3, <1>4

\* An answer to a call of a page that has been left.
LEMMA ReceiveAside ==
  ASSUME OInv, NEW c \in Calls, Receive(c), ~Live(c), ShowsWrites(Shown)'
  PROVE  Turns'
<1>1. PICK call \in Call : call = calls[c] /\ ~call.live
  BY DEF Receive, ReceiveToken, ReceiveWrite, ReceiveRead, ReceiveLast, ReceiveError, Answered,
     Live, InFlight, OInv, ClientOK
<1>2. PICK act \in Acts : act = call.act
  BY DEF Call
<1>3. ASSUME NEW v, IfLive(c, v) PROVE visit' = visit
  BY <1>1, <1>3 DEF IfLive
<1>4. ASSUME NEW p, ActOK(act), Goto(c, p),
             \/ act.then = "leave" /\ p \in Redirects(act.to)
             \/ act.then = "load" /\ act.to # "none" /\ p = act.to
      PROVE  Turns'
  <2>1. p \in PageName
    BY <1>4, RedirectsAreNamed DEF ActOK
  <2> QED
    BY <1>4, <2>1, GotoTurns DEF OInv
<1>5. ASSUME visit' = visit, version' = version,
             Over(c) \/ \E stage, token : NextRequest(c, stage, token)
      PROVE  Turns'
  <2>1. PICK q : calls' = [calls EXCEPT ![c] = q] /\ (q = Idle \/ ~q.live)
    <3>1. CASE Over(c)
      BY <3>1 DEF Over
    <3>2. ASSUME NEW stage, NEW token, NextRequest(c, stage, token)
          PROVE  \E q : calls' = [calls EXCEPT ![c] = q] /\ ~q.live
      BY <1>1, <3>2, NextOfSequence
    <3> QED
      BY <1>5, <3>1, <3>2
  <2>2. Turns
    BY <1>5, PageStays DEF OInv
  <2> QED
    BY <1>5, <2>1, <2>2, OthersTurn DEF OInv
<1>6. CASE ReceiveToken(c)
  BY <1>5, <1>6 DEF ReceiveToken
<1>7. CASE ReceiveWrite(c)
  <2>1. CASE act.then = "leave" /\ \E p \in Redirects(act.to) : Goto(c, p)
    BY <1>4, <2>1, ActsLead
  <2>2. CASE /\ Over(c) \/ \E stage, token : NextRequest(c, stage, token)
             /\ visit' = visit \/ \E v : IfLive(c, v)
             /\ UNCHANGED version
    BY <1>3, <1>5, <2>2
  <2> QED
    BY <1>1, <1>2, <1>7, <2>1, <2>2, Zenon DEF ReceiveWrite
<1>8. CASE ReceiveRead(c) \/ ReceiveLast(c)
  <2>1. Over(c) /\ UNCHANGED version /\ \E v : IfLive(c, v)
    BY <1>8, Zenon DEF ReceiveRead, ReceiveLast
  <2> QED
    BY <1>3, <1>5, <2>1
<1>9. CASE ReceiveError(c)
  <2>1. CASE act.then = "load" /\ act.to # "none" /\ Goto(c, act.to)
    BY <1>4, <2>1, ActsLead
  <2>2. CASE Over(c) /\ UNCHANGED version /\ \E v : IfLive(c, v)
    BY <1>3, <1>5, <2>2
  <2> QED
    BY <1>1, <1>2, <1>9, <2>1, <2>2, Zenon DEF ReceiveError
<1> QED
  BY <1>6, <1>7, <1>8, <1>9 DEF Receive

\* An answer to the live call of the page: the sequence goes on or is over, and it is
\* not over before the page shows what it wrote, unless it failed.
LEMMA ReceiveLive ==
  ASSUME OInv, ClientOK', NEW c \in Calls, Receive(c), Live(c), ShowsWrites(Shown)'
  PROVE  Turns'
<1>1. PICK call \in Call : call = calls[c] /\ call.live
  BY DEF Live, InFlight, OInv, ClientOK
<1>2. PICK act \in Acts, at \in 0..MaxVersion : act = call.act /\ at = call.at
  BY DEF Call
<1>3. PICK v \in Visit : v = visit
  BY DEF OInv, ClientOK
<1>4. PICK busy \in BOOLEAN : busy = FlagAfter(act)
  BY FlagTyped
<1>5. ASSUME NEW w, IfLive(c, w) PROVE visit' = w
  BY <1>1, <1>5 DEF IfLive
<1>6. /\ MaxVersion \in Nat /\ at \in Nat /\ v.mine \in Nat /\ v.view \in Nat /\ version \in Nat
  BY WebClientConstants DEF Visit, OInv, ClientOK
<1>7. ASSUME NEW p, ActOK(act), Goto(c, p),
             \/ act.then = "leave" /\ p \in Redirects(act.to)
             \/ act.then = "load" /\ act.to # "none" /\ p = act.to
      PROVE  Turns'
  <2>1. p \in PageName
    BY <1>7, RedirectsAreNamed DEF ActOK
  <2> QED
    BY <1>7, <2>1, GotoTurns DEF OInv
\* What is true while the page stays.
<1>8. ASSUME visit'.page = v.page
      PROVE  /\ Shown' = Shown /\ ShowsWrites(Shown) /\ InTurn(call)
             /\ \A d \in Calls : Live(d) => d = c
             /\ v.mine <= version /\ (v.busy \/ v.failed \/ v.view >= v.mine)
             /\ act.then = "load" => act = Load(v.page)
             /\ act.then \in {"load", "reload", "answer"}
  <2>1. Shown' = Shown /\ ShowsWrites(Shown) /\ Turns
    BY <1>3, <1>8, PageStays DEF OInv
  <2>2. InTurn(call) /\ \A d \in Calls : Live(d) => d = c
    BY <1>1, <2>1 DEF Turns
  <2>3. \A a \in Shown.acts : a.then \in {"reload", "answer"}
    BY <1>3, <2>1, EveryPageOK DEF Shown, PageOK, Visit
  <2>4. Load(v.page).then = "load"
    BY DEF Load, Press
  <2>5. act = Load(v.page) \/ act \in Shown.acts
    BY <1>2, <1>3, <2>2 DEF InTurn
  <2> QED
    BY <1>3, <2>1, <2>2, <2>3, <2>4, <2>5 DEF Turns
\* The sequence is over.
<1>9. ASSUME Over(c), version' = version, visit'.page = v.page, visit'.mine = v.mine,
             visit'.busy \/ visit'.failed \/ visit'.view >= v.mine
      PROVE  Turns'
  BY <1>8, <1>9, OnlyOneTurns DEF Over, OInv
\* The sequence goes on.
<1>10. ASSUME NEW stage, NEW token, NextRequest(c, stage, token), version' = version,
              visit'.page = v.page, visit'.busy = v.busy, v.busy, visit'.mine <= version,
              act \in Shown.acts,
              \/ stage = "write"
              \/ stage = "read" /\ act.then = "reload"
              \/ stage = "recount" /\ act.then = "answer" /\ visit'.view >= visit'.mine
       PROVE  Turns'
  <2>1. PICK q : /\ calls' = [calls EXCEPT ![c] = q]
                 /\ q.act = act /\ q.stage = stage /\ q.at = 0 /\ q.answer = "none"
    BY <1>1, <1>2, <1>10, NextOfSequence
  <2>2. InTurn(q)'
    BY <1>6, <1>8, <1>10, <2>1 DEF InTurn
  <2> QED
    BY <1>8, <1>10, <2>1, <2>2, OnlyOneTurns DEF OInv
<1>11. CASE ReceiveToken(c)
  <2>1. NextRequest(c, "write", TRUE) /\ visit' = visit /\ version' = version
    BY <1>11 DEF ReceiveToken
  <2>2. act \in Shown.acts /\ v.busy
    BY <1>1, <1>2, <1>3, <1>8, <1>11, <2>1 DEF ReceiveToken, Answered, InTurn
  <2> QED
    BY <1>3, <1>8, <1>10, <2>1, <2>2
<1>12. CASE ReceiveWrite(c)
  <2>1. call.stage = "write"
    BY <1>1, <1>12 DEF ReceiveWrite, Answered
  <2>2. visit'.page = v.page => act \in Shown.acts /\ v.busy /\ at <= version
    BY <1>1, <1>2, <1>3, <1>8, <2>1 DEF InTurn
  <2>3. CASE act.then = "leave" /\ \E p \in Redirects(act.to) : Goto(c, p)
    BY <1>7, <2>3, ActsLead
  <2>4. CASE act.then = "stay" /\ visit' = [v EXCEPT !.busy = busy, !.mine = at]
    <3>1. visit'.page = v.page
      BY <2>4 DEF Visit
    <3> QED
      BY <1>8, <2>4, <3>1
  <2>5. CASE /\ act.then = "reload" /\ NextRequest(c, "read", FALSE) /\ UNCHANGED version
             /\ visit' = [v EXCEPT !.mine = at]
    <3>1. visit'.page = v.page /\ visit'.busy = v.busy /\ visit'.mine = at
      BY <2>5 DEF Visit
    <3> QED
      BY <1>10, <2>2, <2>5, <3>1
  <2>6. CASE /\ act.then = "answer" /\ NextRequest(c, "recount", FALSE) /\ UNCHANGED version
             /\ visit' = [v EXCEPT !.mine = at, !.view = at]
    <3>1. visit'.page = v.page /\ visit'.busy = v.busy /\ visit'.mine = at /\ visit'.view = at
      BY <2>6 DEF Visit
    <3>2. visit'.mine <= version /\ visit'.view >= visit'.mine
      BY <1>6, <2>2, <3>1
    <3> QED
      BY <1>10, <2>2, <2>6, <3>1, <3>2
  <2>7. CASE act.then = "logout" /\ UNCHANGED visit
    BY <1>3, <1>8, <2>7
  <2> QED
    BY <1>1, <1>2, <1>3, <1>4, <1>5, <1>12, <2>3, <2>4, <2>5, <2>6, <2>7, Zenon DEF ReceiveWrite
<1>13. CASE ReceiveRead(c)
  <2>1. visit' = [v EXCEPT !.phase = "shown", !.view = at, !.busy = busy]
    BY <1>1, <1>2, <1>3, <1>4, <1>5, <1>13, Zenon DEF ReceiveRead
  <2>2. visit'.page = v.page /\ visit'.mine = v.mine /\ visit'.view = at
    BY <2>1 DEF Visit
  <2>3. call.stage = "read" /\ call.answer = "ok" /\ Over(c) /\ version' = version
    BY <1>1, <1>13 DEF ReceiveRead, Answered
  <2>4. at >= v.mine
    BY <1>2, <1>3, <1>8, <2>2, <2>3 DEF InTurn
  <2> QED
    BY <1>9, <2>2, <2>3, <2>4
<1>14. CASE ReceiveLast(c)
  <2>1. visit' = [v EXCEPT !.busy = busy]
    BY <1>1, <1>2, <1>3, <1>4, <1>5, <1>14, Zenon DEF ReceiveLast
  <2>2. visit'.page = v.page /\ visit'.mine = v.mine /\ visit'.view = v.view
    BY <2>1 DEF Visit
  <2>3. call.stage \in {"recount", "logout"} /\ Over(c) /\ version' = version
    BY <1>1, <1>14 DEF ReceiveLast, Answered
  <2>4. v.view >= v.mine
    BY <1>3, <1>8, <2>2, <2>3 DEF InTurn
  <2> QED
    BY <1>9, <2>2, <2>3, <2>4
<1>15. CASE ReceiveError(c)
  <2>1. CASE act.then = "load" /\ act.to # "none" /\ Goto(c, act.to)
    BY <1>7, <2>1, ActsLead
  <2>2. CASE /\ Over(c) /\ UNCHANGED version
             /\ \E after : visit' = [v EXCEPT !.phase = after, !.failed = TRUE]
    <3>1. PICK after : visit' = [v EXCEPT !.phase = after, !.failed = TRUE]
      BY <2>2
    <3>2. visit'.page = v.page /\ visit'.mine = v.mine /\ visit'.failed
      BY <3>1 DEF Visit
    <3> QED
      BY <1>9, <2>2, <3>2
  <2>3. CASE Over(c) /\ UNCHANGED version /\ visit' = [v EXCEPT !.busy = busy, !.failed = TRUE]
    <3>1. visit'.page = v.page /\ visit'.mine = v.mine /\ visit'.failed
      BY <2>3 DEF Visit
    <3> QED
      BY <1>9, <2>3, <3>1
  <2> QED
    BY <1>1, <1>2, <1>3, <1>4, <1>5, <1>15, <2>1, <2>2, <2>3, Zenon DEF ReceiveError
<1> QED
  BY <1>11, <1>12, <1>13, <1>14, <1>15 DEF Receive

\* Others' writes and the end of a session leave the page and its calls alone, and
\* versions only grow.
LEMMA WorldTurns ==
  ASSUME OInv, OthersWrite \/ AccessEnds \/ UNCHANGED vars, ShowsWrites(Shown)'
  PROVE  Turns'
<1>1. visit' = visit /\ calls' = calls /\ version' \in {version, version + 1}
  BY DEF OthersWrite, AccessEnds, vars
<1>2. Turns /\ Shown' = Shown
  BY <1>1, PageStays DEF OInv
<1>3. version \in Nat /\ visit.mine \in Nat /\ \A c \in Calls : Live(c) => calls[c].at \in Nat
  BY WebClientConstants DEF OInv, ClientOK, Visit, Call, Live, InFlight
<1>4. ASSUME NEW c \in Calls, Live(c) PROVE InTurn(calls[c])'
  BY <1>1, <1>2, <1>3, <1>4 DEF Turns, InTurn
<1> QED
  BY <1>1, <1>2, <1>3, <1>4 DEF Turns, Live, InFlight

LEMMA StepTurns == OInv /\ ClientOK' /\ [Next]_vars => OInv'
<1> SUFFICES ASSUME OInv, ClientOK', [Next]_vars, ShowsWrites(Shown)' PROVE Turns'
  BY DEF OInv
<1>1. CASE OthersWrite \/ AccessEnds \/ UNCHANGED vars
  BY <1>1, WorldTurns
<1>2. ASSUME NEW c \in Calls, Receive(c) PROVE Turns'
  BY <1>2, ReceiveAside, ReceiveLive
<1> QED
  BY <1>1, <1>2, UserTurns, ApiTurns DEF Next

\* A page whose buttons wait for one another, and which shows what they write, never
\* settles on data older than its own last write, unless a call failed: whatever
\* order answers come in, however often the page is left and opened again while
\* calls are in flight, and whatever other users write meanwhile.
THEOREM WritesAreSeen == Spec => []OwnWriteSeen
<1>1. Init => OInv
  <2> SUFFICES ASSUME Init PROVE OInv
    OBVIOUS
  <2>1. ClientOK
    BY InitTyped
  <2>2. Turns
    BY DEF Init, Turns, Live, InFlight
  <2> QED
    BY <2>1, <2>2 DEF OInv
<1>2. OInv => OwnWriteSeen
  BY DEF OInv, OwnWriteSeen, Orderly, ShowsWrites, Turns
<1> QED
  BY <1>1, <1>2, ClientTyped, StepTurns, PTL DEF Spec

================================================================================
