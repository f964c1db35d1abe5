------------------------------- MODULE ClientPages -----------------------------
(***************************************************************************)
(* The pages of the two web front ends as data: what a page loads when it   *)
(* is opened, what it does when that fails, and the calls its buttons make.  *)
(* Layout, texts and validation in the browser are left out, and calls that *)
(* one Promise.all awaits are one call.                                     *)
(***************************************************************************)

\* A button: it fetches a CSRF token first, is disabled while the page's flag is
\* set, sets that flag; what follows its write, and what that does to the session.
Press == [token |-> FALSE, waits |-> FALSE, busy |-> FALSE, then |-> "stay", to |-> "none",
          session |-> "same"]

\* The submit button of a form.
Submit == [Press EXCEPT !.waits = TRUE, !.busy = TRUE]

WithToken(act) == [act EXCEPT !.token = TRUE]
Leaving(act, to) == [act EXCEPT !.then = "leave", !.to = to]

Form(acts) == [public |-> FALSE, admin |-> FALSE, loads |-> FALSE, onFail |-> "none",
               away |-> "none", acts |-> acts]
PublicForm(acts) == [Form(acts) EXCEPT !.public = TRUE]

\* A page that loads: it leaves, shows a notice, shows an empty list or goes on
\* showing that it loads when that fails.
Loading(onFail, acts) == [Form(acts) EXCEPT !.loads = TRUE, !.onFail = onFail]
LoadingOr(away, acts) == [Loading("leave", acts) EXCEPT !.away = away]
Admin(page) == [page EXCEPT !.admin = TRUE]

--------------------------------------------------------------------------------
(* apps/web.  Slips (Bug_...) that no action uses stand before their page.     *)

Bug_LoginWithoutToken == PublicForm({[Leaving(Submit, "account") EXCEPT !.session = "in"]})
LoginForm == PublicForm({[Leaving(WithToken(Submit), "account") EXCEPT !.session = "in"]})

RegisterForm == PublicForm({Leaving(WithToken(Submit), "verifyEmail")})
ForgotPasswordPage == PublicForm({WithToken(Submit)})
ResetPasswordContent == PublicForm({Leaving(WithToken(Submit), "login")})
VerifyEmailContent == PublicForm({WithToken(Submit)})

AccountPage == LoadingOr("login", {})

\* Revoke, "Sign out other devices" and "Sign out".
AccountSecurityPage ==
  LoadingOr("login", {[WithToken(Press) EXCEPT !.then = "reload"],
                      [Leaving(WithToken(Press), "login") EXCEPT !.session = "out"]})

InnovatorProfilePage == LoadingOr("login", {[Submit EXCEPT !.then = "answer"]})

InnovatorPitchesPage == LoadingOr("login", {})
NewPitchPage == Form({Leaving(Submit, "editPitch")})
PitchDetailPage == LoadingOr("login", {})
PitchSubmissionsPage == LoadingOr("login", {})

\* Fields are saved when they are left, whatever else is being saved.
EditPitchPage ==
  LoadingOr("login", {[Press EXCEPT !.busy = TRUE, !.then = "answer"],
                      [Leaving(Press, "pitch") EXCEPT !.waits = TRUE]})

SponsorOrganizationsPage == LoadingOr("login", {})
NewOrganizationPage == Form({Leaving(Submit, "organization")})
OrganizationPage == LoadingOr("login", {})
OrganizationMembersPage == LoadingOr("login", {[Submit EXCEPT !.then = "reload"]})
VerificationPage == LoadingOr("login", {[Press EXCEPT !.then = "reload"]})
DiscoverPage == Loading("notice", {})
DiscoverPitchPage == LoadingOr("discover", {})

--------------------------------------------------------------------------------
(* apps/admin-web.                                                            *)

\* Who is no administrator is signed out again by a call of its own.
AdminLoginForm ==
  PublicForm({[Leaving(WithToken(Submit), "dashboard") EXCEPT !.session = "in"],
              [WithToken(Submit) EXCEPT !.then = "logout", !.session = "in"]})

Dashboard == Admin(Form({}))
AccessDenied == PublicForm({})

AdminUsersPage == Admin(Loading("notice", {}))
AdminUserDetailPage == Admin(Loading("notice", {[WithToken(Press) EXCEPT !.then = "reload"]}))
AdminPitchesPage == Admin(Loading("empty", {}))
AdminPitchDetailPage == Admin(Loading("stuck", {Press}))
ReviewsPage == Admin(Loading("empty", {}))
ReviewAssignmentPage == Admin(Loading("stuck", {Press}))
AdminSponsorOrgsPage == Admin(Loading("empty", {}))
AdminSponsorOrgDetailPage == Admin(Loading("stuck", {Press}))

--------------------------------------------------------------------------------
Pages ==
  [login |-> LoginForm, register |-> RegisterForm, forgotPassword |-> ForgotPasswordPage,
   resetPassword |-> ResetPasswordContent, verifyEmail |-> VerifyEmailContent,
   account |-> AccountPage, security |-> AccountSecurityPage,
   profile |-> InnovatorProfilePage, pitches |-> InnovatorPitchesPage,
   newPitch |-> NewPitchPage, pitch |-> PitchDetailPage, submissions |-> PitchSubmissionsPage,
   editPitch |-> EditPitchPage, organizations |-> SponsorOrganizationsPage,
   newOrganization |-> NewOrganizationPage, organization |-> OrganizationPage,
   members |-> OrganizationMembersPage, verification |-> VerificationPage,
   discover |-> DiscoverPage, discoverPitch |-> DiscoverPitchPage,
   adminLogin |-> AdminLoginForm, dashboard |-> Dashboard, accessDenied |-> AccessDenied,
   adminUsers |-> AdminUsersPage, adminUser |-> AdminUserDetailPage,
   adminPitches |-> AdminPitchesPage, adminPitch |-> AdminPitchDetailPage,
   reviews |-> ReviewsPage, review |-> ReviewAssignmentPage,
   adminOrganizations |-> AdminSponsorOrgsPage, adminOrganization |-> AdminSponsorOrgDetailPage]

PageName == DOMAIN Pages
================================================================================
