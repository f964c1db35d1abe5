-------------------------------- MODULE WebClient ------------------------------
(***************************************************************************)
(* One browser tab over the API: the page it shows (ClientPages), the calls  *)
(* in flight, the cookies, and what JwtAuthGuard, CsrfGuard and the handlers *)
(* make of a call.  The data of a page are a version number that the page's  *)
(* own writes raise; those of the profile page are an InnovatorProfile.      *)
(*                                                                         *)
(* The API may refuse any call (a role, a limit, a failure); it serves one   *)
(* in a single step.  How it overlaps requests is in the other modules.      *)
(***************************************************************************)
EXTENDS ClientPages, InnovatorProfile

CONSTANTS
  Calls,     \* slots: at most so many calls are in flight together
  MaxVersion \* bound: a write that would change the data of a page again is refused

ASSUME WebClientConstants == Calls \subseteq Nat /\ MaxVersion \in Nat

VARIABLES
  visit,   \* the page shown and the state of its component
  calls,   \* the calls in flight
  version, \* the version of the page's data
  access,  \* whether there is an access cookie of a session that is good
  csrf     \* whether the CSRF cookie is there

vars == <<visit, calls, version, access, csrf, profile>>

Visit ==
  [page : PageName, phase : {"loading", "shown", "notice"}, busy : BOOLEAN,
   view : 0..MaxVersion,  \* what the page shows
   mine : 0..MaxVersion,  \* history: what its own last write has made of the data
   failed : BOOLEAN]      \* history: a call of this visit has failed

\* The load of a page, as an act whose error may lead to another page.
Load(p) == [Press EXCEPT !.then = "load", !.to = Pages[p].away]
Acts == {Load(p) : p \in PageName} \union UNION {Pages[p].acts : p \in PageName}

\* A call: the button it serves, which request of its sequence is in flight, what
\* has become of that, and whether the page that made it is still shown.
Idle == [stage |-> "idle"]
Call ==
  [act : Acts, stage : {"token", "write", "read", "recount", "logout"}, public : BOOLEAN,
   answer : {"none", "ok", "refused"}, at : 0..MaxVersion, access : BOOLEAN, csrf : BOOLEAN,
   live : BOOLEAN]

InFlight(c) == calls[c] # Idle

\* Slots have no meaning: a new call takes the first one that is free.
Free(c) == ~InFlight(c) /\ \A d \in Calls : d < c => InFlight(d)
Shown == Pages[visit.page]

--------------------------------------------------------------------------------
(* Sending and opening.                                                      *)

\* apiFetch(): the browser adds the access cookie, a write the CSRF cookie's value as
\* a header, if there is one.
Send(act, public, stage, cookie, token) ==
  [act |-> act, stage |-> stage, public |-> public, answer |-> "none", at |-> 0,
   access |-> cookie, csrf |-> stage \in {"write", "logout"} /\ token, live |-> TRUE]

\* What still happens for a page that is no longer shown: cookies come and go, a
\* token is followed by its write, and the page may redirect.  A call that can do
\* none of it is followed no further.
Matters(call) ==
  call.stage \in {"token", "logout"} \/ call.act.session # "same" \/ call.act.to # "none"

Dead(call) ==
  IF call = Idle \/ ~Matters(call) THEN Idle ELSE [call EXCEPT !.live = FALSE, !.at = 0]

Loads(p) == IF Pages[p].loads THEN Send(Load(p), FALSE, "read", access', FALSE) ELSE Idle

\* The rows other clients may have left behind.
Rows == {NoProfile} \union {Upserted(NoProfile, i) : i \in Inputs}

\* Page p replaces the one shown; what call slot c had is over.  The data of the
\* page that is left are followed no further.
Goto(c, p) ==
  /\ visit' = [page |-> p, phase |-> IF Pages[p].loads THEN "loading" ELSE "shown",
               busy |-> FALSE, view |-> 0, mine |-> 0, failed |-> FALSE]
  /\ calls' = [d \in Calls |-> IF d = c THEN Loads(p) ELSE Dead(calls[d])]
  /\ version' = 0
  /\ profile' \in (IF p = "profile" THEN Rows ELSE {NoProfile})

\* ProtectedLayout asks the API who is there: nobody, or neither an
\* administrator nor a reviewer.
Redirects(p) ==
  IF ~Pages[p].admin THEN {p}
  ELSE IF access' THEN {p, "adminLogin", "accessDenied"} ELSE {"adminLogin"}

\* The user opens another page, also while calls of this one are in flight.
Open(c, p) ==
  /\ Free(c) /\ p # visit.page
  /\ UNCHANGED <<access, csrf>>
  /\ \E q \in Redirects(p) : Goto(c, q)

\* A button is disabled while the flag is set, if the page says so.
Bug_NeverDisabled(act) == TRUE
Enabled(act) == act.waits => ~visit.busy

Click(c, act) ==
  /\ visit.phase = "shown" /\ act \in Shown.acts /\ Enabled(act)
  /\ Free(c)
  /\ calls' = [calls EXCEPT ![c] = Send(act, Shown.public, IF act.token THEN "token" ELSE "write",
                                         access, csrf)]
  /\ visit' = [visit EXCEPT !.busy = @ \/ act.busy]
  /\ UNCHANGED <<version, access, csrf, profile>>

--------------------------------------------------------------------------------
(* The API.                                                                  *)

\* JwtAuthGuard: a public route, or a good session.
JwtAuthGuard(call) ==
  \/ call.stage = "token" \/ (call.stage = "write" /\ call.public)
  \/ call.access /\ access

\* CsrfGuard, after it: any write, a public one too.
CsrfGuard(call) == call.stage \in {"write", "logout"} => call.csrf

PageInputs == {i \in Inputs : i.given = {"headline", "biography", "organizationName", "isIndependent"}}

ServeWrite(c) ==
  LET call == calls[c]
      changes == call.stage = "write" /\ call.live
  IN  /\ changes => version < MaxVersion
      /\ version' = IF changes THEN version + 1 ELSE version
      /\ IF changes /\ visit.page = "profile" THEN \E i \in PageInputs : upsertProfile(i)
                                             ELSE UNCHANGED profile
      /\ access' = (access /\ ~(call.stage = "logout"
                                  \/ (call.stage = "write" /\ call.act.session = "out")))

\* The cookies a call was sent with make no difference once it is answered.
Answer(c, answer, at) ==
  calls' = [calls EXCEPT ![c] = [@ EXCEPT !.answer = answer, !.at = at, !.access = FALSE,
                                          !.csrf = FALSE]]

Serve(c) ==
  /\ InFlight(c) /\ calls[c].answer = "none"
  /\ JwtAuthGuard(calls[c]) /\ CsrfGuard(calls[c])
  /\ ServeWrite(c)
  /\ Answer(c, "ok", IF calls[c].live THEN version' ELSE 0)
  /\ UNCHANGED <<visit, csrf>>

Refuse(c) ==
  /\ InFlight(c) /\ calls[c].answer = "none"
  /\ Answer(c, "refused", 0)
  /\ UNCHANGED <<visit, version, access, csrf, profile>>

--------------------------------------------------------------------------------
(* What the page does with an answer.  A component that is gone takes no new   *)
(* state, but its code runs on and may still redirect.                        *)

Answered(c, answer, stage) ==
  InFlight(c) /\ calls[c].answer = answer /\ calls[c].stage = stage

\* The flag once the sequence of calls is over, also by an error (finally).
Bug_NoFinally(act) == visit.busy
FlagAfter(act) == visit.busy /\ ~act.busy

Over(c) == calls' = [calls EXCEPT ![c] = Idle]
NextRequest(c, stage, token) ==
  calls' = [calls EXCEPT ![c] = [Send(@.act, @.public, stage, access', token) EXCEPT !.live = calls[c].live]]
IfLive(c, v) == visit' = IF calls[c].live THEN v ELSE visit

ReceiveToken(c) ==
  /\ Answered(c, "ok", "token")
  /\ csrf' = TRUE
  /\ UNCHANGED <<visit, version, access, profile>>
  /\ NextRequest(c, "write", TRUE)

\* The cookies come with the answer: setAuthCookies and clearAuthCookies.
TakeCookies(change) ==
  /\ access' = CASE change = "in" -> TRUE [] change = "out" -> FALSE [] OTHER -> access
  /\ csrf' = CASE change = "in" -> TRUE [] change = "out" -> FALSE [] OTHER -> csrf

ReceiveWrite(c) ==
  LET call == calls[c]
      done == [visit EXCEPT !.busy = FlagAfter(call.act), !.mine = call.at]
  IN  /\ Answered(c, "ok", "write")
      /\ TakeCookies(call.act.session)
      /\ \/ /\ call.act.then = "leave"
            /\ \E p \in Redirects(call.act.to) : Goto(c, p)
         \/ /\ call.act.then = "stay"
            /\ Over(c) /\ IfLive(c, done) /\ UNCHANGED <<version, profile>>
         \/ /\ call.act.then = "reload"
            /\ NextRequest(c, "read", FALSE)
            /\ IfLive(c, [visit EXCEPT !.mine = call.at]) /\ UNCHANGED <<version, profile>>
         \/ /\ call.act.then = "answer"
            /\ NextRequest(c, "recount", FALSE)
            /\ IfLive(c, [visit EXCEPT !.mine = call.at, !.view = call.at])
            /\ UNCHANGED <<version, profile>>
         \/ /\ call.act.then = "logout"
            /\ NextRequest(c, "logout", csrf')
            /\ UNCHANGED <<visit, version, profile>>

ReceiveRead(c) ==
  /\ Answered(c, "ok", "read")
  /\ Over(c)
  /\ IfLive(c, [visit EXCEPT !.phase = "shown", !.view = calls[c].at,
                             !.busy = FlagAfter(calls[c].act)])
  /\ UNCHANGED <<version, access, csrf, profile>>

\* The last call of its sequence, whose answer is only a percentage or nothing.
ReceiveLast(c) ==
  /\ Answered(c, "ok", "recount") \/ Answered(c, "ok", "logout")
  /\ TakeCookies(IF calls[c].stage = "logout" THEN "out" ELSE "same")
  /\ Over(c)
  /\ IfLive(c, [visit EXCEPT !.busy = FlagAfter(calls[c].act)])
  /\ UNCHANGED <<version, profile>>

\* An error of a button ends it; an error of the load is what onFail says.
ReceiveError(c) ==
  LET act == calls[c].act
      after == CASE Shown.onFail = "notice" -> "notice" [] Shown.onFail = "empty" -> "shown"
                 [] OTHER -> visit.phase
  IN  /\ InFlight(c) /\ calls[c].answer = "refused"
      /\ UNCHANGED <<access, csrf>>
      /\ \/ /\ act.then = "load" /\ act.to # "none"
            /\ Goto(c, act.to)
         \/ /\ act.then = "load" /\ act.to = "none"
            /\ Over(c) /\ IfLive(c, [visit EXCEPT !.phase = after, !.failed = TRUE])
            /\ UNCHANGED <<version, profile>>
         \/ /\ act.then # "load"
            /\ Over(c)
            /\ IfLive(c, [visit EXCEPT !.busy = FlagAfter(calls[c].act), !.failed = TRUE])
            /\ UNCHANGED <<version, profile>>

--------------------------------------------------------------------------------
\* A page whose buttons wait for one another.
Orderly == Shown.acts # {} /\ \A act \in Shown.acts : act.waits /\ act.busy

\* Another device or another user changes what the page shows.  Bound: on an
\* orderly page, as no property looks at the data of the others.
OthersWrite ==
  /\ Shown.loads /\ Orderly /\ version < MaxVersion
  /\ version' = version + 1
  /\ UNCHANGED <<visit, calls, access, csrf, profile>>

\* The access cookie expires, or its session is revoked from another device; the
\* web client never asks for a refresh.
AccessEnds ==
  /\ access /\ access' = FALSE
  /\ UNCHANGED <<visit, calls, version, csrf, profile>>

Init ==
  /\ visit = [page |-> "login", phase |-> "shown", busy |-> FALSE, view |-> 0, mine |-> 0,
              failed |-> FALSE]
  /\ calls = [c \in Calls |-> Idle]
  /\ version = 0 /\ access = FALSE /\ csrf = FALSE
  /\ ProfileInit

Receive(c) ==
  \/ ReceiveToken(c) \/ ReceiveWrite(c) \/ ReceiveRead(c) \/ ReceiveLast(c) \/ ReceiveError(c)

Next ==
  \/ \E c \in Calls :
        \/ \E p \in PageName : Open(c, p)
        \/ \E act \in Shown.acts : Click(c, act)
        \/ Serve(c) \/ Refuse(c) \/ Receive(c)
  \/ OthersWrite \/ AccessEnds

\* Every call is answered in some way, and the browser runs what waits for it.
Fairness == \A c \in Calls : WF_vars(Serve(c) \/ Refuse(c)) /\ WF_vars(Receive(c))

Spec == Init /\ [][Next]_vars /\ Fairness

TypeOK ==
  /\ visit \in Visit
  /\ calls \in [Calls -> Call \union {Idle}]
  /\ version \in 0..MaxVersion
  /\ access \in BOOLEAN /\ csrf \in BOOLEAN
  /\ profile \in Profile

--------------------------------------------------------------------------------
(* Properties.                                                               *)

\* A page whose buttons wait for one another never settles on data older than its
\* own last write, whatever order the answers come in, unless a call of this
\* visit has failed (OrganizationMembersPage, InnovatorProfilePage).
OwnWriteSeen ==
  Orderly /\ (\E act \in Shown.acts : act.then \in {"reload", "answer"})
    => visit.busy \/ visit.failed \/ visit.view >= visit.mine

\* No write that the session guard lets pass is refused for its CSRF header: the
\* forms of signed-out users fetch a token first, and everybody else has the
\* cookie as long as the access cookie.
WritesCarryToken ==
  \A c \in Calls : InFlight(c) /\ calls[c].answer = "none" /\ JwtAuthGuard(calls[c])
                     => CsrfGuard(calls[c])

\* A page does not go on for ever to show that it loads, unless it is one that does
\* not catch the failure of its load or the user keeps opening others, and a flag
\* that disables its buttons is cleared again.
PagesSettle ==
  /\ \/ []<>(visit.phase # "loading" \/ Shown.onFail = "stuck")
     \/ []<><<visit'.page # visit.page>>_vars
  /\ visit.busy ~> ~visit.busy
================================================================================
