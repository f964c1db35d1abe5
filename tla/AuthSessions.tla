------------------------------ MODULE AuthSessions ------------------------------
(***************************************************************************)
(* One user account, its single-use tokens and its refresh sessions: the   *)
(* handlers of auth.service.ts over session.service.ts, and the two admin   *)
(* operations that reach the same rows (admin-users.service.ts).           *)
(*                                                                         *)
(* A handler is a Begin action (its reads and checks) and one action per   *)
(* later statement, since no statement waits for another request's.  A     *)
(* handler whose only write is one conditional statement is one action.    *)
(* Rate limits, cookies, CSRF, e-mail delivery and argon2 are left out.    *)
(***************************************************************************)
EXTENDS Naturals

CONSTANTS
  Requests,           \* slots for the requests in flight at the same time
  Sessions,           \* rows of auth_sessions
  VerificationTokens, \* rows of email_verification_tokens
  ResetTokens,        \* rows of password_reset_tokens
  None,               \* no session, no token
  MaxPasswords,       \* bound: passwords the account goes through
  Interrupted         \* whether a request may be cut short between two statements

ASSUME AuthConstants ==
  /\ VerificationTokens \intersect ResetTokens = {}
  /\ None \notin Sessions \union VerificationTokens \union ResetTokens
  /\ MaxPasswords \in Nat \ {0}
  /\ Interrupted \in BOOLEAN

VARIABLES
  account,    \* the row of table users
  tokens,     \* the state of each single-use token
  sessions,   \* the rows of auth_sessions
  reuseAudit, \* the families REFRESH_REUSE was logged for
  reqs        \* what each request in flight keeps between two awaits

vars == <<account, tokens, sessions, reuseAudit, reqs>>

--------------------------------------------------------------------------------
Tokens == VerificationTokens \union ResetTokens

AccountStatus == {"PENDING_VERIFICATION", "ACTIVE", "SUSPENDED", "DEACTIVATED"}

Blocked == {"SUSPENDED", "DEACTIVATED"}

\* password counts the passwords set so far; 0 is a null passwordHash.
Account == [exists : BOOLEAN, status : AccountStatus, verified : BOOLEAN,
            password : 0..MaxPasswords]

\* family is the session the login created; parent is the session whose refresh
\* token was exchanged for this one.  password is the one the login checked: no
\* column, it is only here for ResetRevokesAll.
Session == [family : Sessions \union {None}, parent : Sessions \union {None},
            password : 0..MaxPasswords, revoked : BOOLEAN, expired : BOOLEAN]

NoRow == [family |-> None, parent |-> None, password |-> 0,
          revoked |-> FALSE, expired |-> FALSE]

Exists(s) == sessions[s].family # None

\* getValidSession: what the JWT guard asks of the session a request names.
Valid(s) == Exists(s) /\ ~sessions[s].revoked /\ ~sessions[s].expired

Steps == {"idle", "issueVerification", "issueReset", "confirm", "login", "rotate",
          "rotated", "reuse", "reset", "revokeAll", "setStatus"}

Request == [step : Steps,
            session : Sessions \union {None},    \* the session it read
            token : Tokens \union {None},        \* the token it read
            password : 0..MaxPasswords,          \* the password it checked
            status : AccountStatus]              \* the status it will write

Idle == [step |-> "idle", session |-> None, token |-> None, password |-> 0,
         status |-> "ACTIVE"]

Keep(r, rec) == reqs' = [reqs EXCEPT ![r] = rec]
Finish(r) == Keep(r, Idle)

\* updateMany({ where: { ..., revokedAt: null }, data: { revokedAt } })
Revoke(S) ==
  sessions' = [s \in Sessions |->
                 IF s \in S /\ Exists(s) THEN [sessions[s] EXCEPT !.revoked = TRUE]
                                         ELSE sessions[s]]

\* The bounds: an operation that would need one row more does not begin.
RowLeft == \E s \in Sessions : ~Exists(s)
TokenLeft(T) == \E t \in T : tokens[t] = "none"

FamilyOf(s) == {t \in Sessions : Exists(t) /\ sessions[t].family = sessions[s].family}

--------------------------------------------------------------------------------
(* The conditions of the handlers the properties rest on, each with a slip   *)
(* (Bug_...) that no action uses.                                            *)

Bug_TokenReusable(t) == tokens[t] # "none"
Fresh(t) == tokens[t] = "fresh"

AccountActive == account.status \notin Blocked

Bug_UnverifiedMayLogin == TRUE
EmailVerified == account.verified

--------------------------------------------------------------------------------
(* Registration, verification and the administrator's operations.            *)

\* register(): the user row and then, in a statement of its own, the token.
Register(r) ==
  /\ reqs[r] = Idle
  /\ ~account.exists
  /\ account' = [account EXCEPT !.exists = TRUE, !.password = 1]
  /\ Keep(r, [Idle EXCEPT !.step = "issueVerification"])
  /\ UNCHANGED <<tokens, sessions, reuseAudit>>

\* createUser(): an account without a password and a token to set one.
CreateUser(r) ==
  /\ reqs[r] = Idle
  /\ ~account.exists
  /\ account' = [account EXCEPT !.exists = TRUE]
  /\ Keep(r, [Idle EXCEPT !.step = "issueReset"])
  /\ UNCHANGED <<tokens, sessions, reuseAudit>>

RequestVerification(r) ==
  /\ reqs[r] = Idle
  /\ account.exists /\ ~account.verified
  /\ TokenLeft(VerificationTokens)
  /\ Keep(r, [Idle EXCEPT !.step = "issueVerification"])
  /\ UNCHANGED <<account, tokens, sessions, reuseAudit>>

ForgotPassword(r) ==
  /\ reqs[r] = Idle
  /\ account.exists
  /\ TokenLeft(ResetTokens)
  /\ Keep(r, [Idle EXCEPT !.step = "issueReset"])
  /\ UNCHANGED <<account, tokens, sessions, reuseAudit>>

\* Earlier tokens of the account stay good.
IssueToken(r) ==
  /\ \E t \in Tokens :
        /\ \/ reqs[r].step = "issueVerification" /\ t \in VerificationTokens
           \/ reqs[r].step = "issueReset" /\ t \in ResetTokens
        /\ tokens[t] = "none"
        /\ tokens' = [tokens EXCEPT ![t] = "fresh"]
  /\ Finish(r)
  /\ UNCHANGED <<account, sessions, reuseAudit>>

BeginConfirm(r) ==
  /\ reqs[r] = Idle
  /\ \E t \in VerificationTokens :
        Fresh(t) /\ Keep(r, [Idle EXCEPT !.step = "confirm", !.token = t])
  /\ UNCHANGED <<account, tokens, sessions, reuseAudit>>

CommitConfirm(r) ==
  /\ reqs[r].step = "confirm"
  /\ tokens' = [tokens EXCEPT ![reqs[r].token] = "used"]
  /\ account' = [account EXCEPT !.verified = TRUE, !.status = "ACTIVE"]
  /\ Finish(r)
  /\ UNCHANGED <<sessions, reuseAudit>>

\* updateStatus(): sessions are left as they are.
BeginSetStatus(r) ==
  /\ reqs[r] = Idle
  /\ account.exists
  /\ \E st \in AccountStatus \ {"PENDING_VERIFICATION"} :
        Keep(r, [Idle EXCEPT !.step = "setStatus", !.status = st])
  /\ UNCHANGED <<account, tokens, sessions, reuseAudit>>

CommitSetStatus(r) ==
  /\ reqs[r].step = "setStatus"
  /\ account' = [account EXCEPT !.status = reqs[r].status]
  /\ Finish(r)
  /\ UNCHANGED <<tokens, sessions, reuseAudit>>

--------------------------------------------------------------------------------
(* Sessions: login, refresh, logout.                                         *)

\* login(): the password is compared with the hash it read, then the session
\* is created by a later statement.
BeginLogin(r) ==
  /\ reqs[r] = Idle
  /\ account.exists /\ account.password # 0
  /\ EmailVerified
  /\ AccountActive
  /\ RowLeft
  /\ Keep(r, [Idle EXCEPT !.step = "login", !.password = account.password])
  /\ UNCHANGED <<account, tokens, sessions, reuseAudit>>

CreateSession(r) ==
  /\ reqs[r].step = "login"
  /\ \E s \in Sessions :
        /\ ~Exists(s)
        /\ sessions' = [sessions EXCEPT ![s] =
             [family |-> s, parent |-> None, password |-> reqs[r].password,
              revoked |-> FALSE, expired |-> FALSE]]
  /\ Finish(r)
  /\ UNCHANGED <<account, tokens, reuseAudit>>

\* refresh(), rotateSession(): the read of the presented token.  A revoked one
\* is reuse, an expired one ends the request.
BeginRefresh(r) ==
  /\ reqs[r] = Idle
  /\ \E s \in Sessions :
        /\ Exists(s)
        /\ sessions[s].revoked \/ (~sessions[s].expired /\ RowLeft)
        /\ Keep(r, [Idle EXCEPT !.step = IF sessions[s].revoked THEN "reuse" ELSE "rotate",
                                !.session = s])
  /\ UNCHANGED <<account, tokens, sessions, reuseAudit>>

Bug_OldTokenKept(r) ==
  /\ reqs[r].step = "rotate"
  /\ Keep(r, [reqs[r] EXCEPT !.step = "rotated"])
  /\ UNCHANGED <<account, tokens, sessions, reuseAudit>>

RevokeOld(r) ==
  /\ reqs[r].step = "rotate"
  /\ Revoke({reqs[r].session})
  /\ Keep(r, [reqs[r] EXCEPT !.step = "rotated"])
  /\ UNCHANGED <<account, tokens, reuseAudit>>

Bug_RowReused(r) ==
  /\ reqs[r].step = "rotated"
  /\ sessions' = [sessions EXCEPT ![reqs[r].session].revoked = FALSE]
  /\ Finish(r)
  /\ UNCHANGED <<account, tokens, reuseAudit>>

\* The status of the account is checked after this and decides the answer only.
CreateRotated(r) ==
  LET old == reqs[r].session IN
  /\ reqs[r].step = "rotated"
  /\ \E s \in Sessions :
        /\ ~Exists(s)
        /\ sessions' = [sessions EXCEPT ![s] =
             [family |-> sessions[old].family, parent |-> old,
              password |-> sessions[old].password,
              revoked |-> FALSE, expired |-> FALSE]]
  /\ Finish(r)
  /\ UNCHANGED <<account, tokens, reuseAudit>>

Bug_OnlyPresentedRevoked(r) ==
  /\ reqs[r].step = "reuse"
  /\ Revoke({reqs[r].session})
  /\ reuseAudit' = reuseAudit \union {sessions[reqs[r].session].family}
  /\ Finish(r)
  /\ UNCHANGED <<account, tokens>>

Bug_ParentLogged(r) ==
  /\ reqs[r].step = "reuse"
  /\ Revoke(FamilyOf(reqs[r].session))
  /\ reuseAudit' = reuseAudit \union {sessions[reqs[r].session].parent}
  /\ Finish(r)
  /\ UNCHANGED <<account, tokens>>

\* revokeFamily() and the audit row after it.
RevokeFamily(r) ==
  /\ reqs[r].step = "reuse"
  /\ Revoke(FamilyOf(reqs[r].session))
  /\ reuseAudit' = reuseAudit \union {sessions[reqs[r].session].family}
  /\ Finish(r)
  /\ UNCHANGED <<account, tokens>>

\* logout() revokes the caller's session s, revokeSession() any session the
\* caller names.
RevokeSession ==
  /\ \E s, caller \in Sessions : Valid(caller) /\ Exists(s) /\ Revoke({s})
  /\ UNCHANGED <<account, tokens, reuseAudit, reqs>>

\* logoutAll() spares the caller's own session.
LogoutAll ==
  /\ \E caller \in Sessions : Valid(caller) /\ Revoke(Sessions \ {caller})
  /\ UNCHANGED <<account, tokens, reuseAudit, reqs>>

--------------------------------------------------------------------------------
(* resetPassword().                                                          *)

BeginReset(r) ==
  /\ reqs[r] = Idle
  /\ account.password < MaxPasswords
  /\ \E t \in ResetTokens :
        Fresh(t) /\ Keep(r, [Idle EXCEPT !.step = "reset", !.token = t])
  /\ UNCHANGED <<account, tokens, sessions, reuseAudit>>

\* The transaction: the token is used and the password replaced.
CommitReset(r) ==
  /\ reqs[r].step = "reset"
  /\ account.password < MaxPasswords
  /\ tokens' = [tokens EXCEPT ![reqs[r].token] = "used"]
  /\ account' = [account EXCEPT !.password = @ + 1]
  /\ Keep(r, [Idle EXCEPT !.step = "revokeAll"])
  /\ UNCHANGED <<sessions, reuseAudit>>

Bug_OneSessionSpared(r) ==
  /\ reqs[r].step = "revokeAll"
  /\ \E s \in Sessions : Revoke(Sessions \ {s})
  /\ Finish(r)
  /\ UNCHANGED <<account, tokens, reuseAudit>>

RevokeAllSessions(r) ==
  /\ reqs[r].step = "revokeAll"
  /\ Revoke(Sessions)
  /\ Finish(r)
  /\ UNCHANGED <<account, tokens, reuseAudit>>

--------------------------------------------------------------------------------
\* Time passes: expiresAt of a session or of a token is reached.
ExpireSession ==
  /\ \E s \in Sessions : /\ Valid(s)
                         /\ sessions' = [sessions EXCEPT ![s].expired = TRUE]
  /\ UNCHANGED <<account, tokens, reuseAudit, reqs>>

ExpireToken ==
  /\ \E t \in Tokens : /\ tokens[t] = "fresh"
                       /\ tokens' = [tokens EXCEPT ![t] = "expired"]
  /\ UNCHANGED <<account, sessions, reuseAudit, reqs>>

\* The process restarts or loses the database between two statements.
Interrupt(r) ==
  /\ Interrupted
  /\ reqs[r] # Idle
  /\ Finish(r)
  /\ UNCHANGED <<account, tokens, sessions, reuseAudit>>

Init ==
  /\ account = [exists |-> FALSE, status |-> "PENDING_VERIFICATION",
                verified |-> FALSE, password |-> 0]
  /\ tokens = [t \in Tokens |-> "none"]
  /\ sessions = [s \in Sessions |-> NoRow]
  /\ reuseAudit = {}
  /\ reqs = [r \in Requests |-> Idle]

AccountStep(r) ==
  \/ Register(r) \/ CreateUser(r) \/ RequestVerification(r) \/ ForgotPassword(r)
  \/ IssueToken(r) \/ BeginConfirm(r) \/ CommitConfirm(r)
  \/ BeginSetStatus(r) \/ CommitSetStatus(r)
  \/ BeginReset(r) \/ CommitReset(r) \/ RevokeAllSessions(r)

SessionStep(r) ==
  \/ BeginLogin(r) \/ CreateSession(r)
  \/ BeginRefresh(r) \/ RevokeOld(r) \/ CreateRotated(r) \/ RevokeFamily(r)

Next ==
  \/ RevokeSession \/ LogoutAll \/ ExpireSession \/ ExpireToken
  \/ \E r \in Requests : AccountStep(r) \/ SessionStep(r) \/ Interrupt(r)

Spec == Init /\ [][Next]_vars

--------------------------------------------------------------------------------
(* Properties.                                                               *)

\* Every variable keeps its type.
TypeOK ==
  /\ account \in Account
  /\ tokens \in [Tokens -> {"none", "fresh", "used", "expired"}]
  /\ sessions \in [Sessions -> Session]
  /\ reuseAudit \subseteq Sessions
  /\ reqs \in [Requests -> Request]

\* However refreshes race, a refresh token that was exchanged is revoked, and
\* the session it was exchanged for is in its family and rests on the same
\* login: presenting it again is always detected and reaches the whole chain.
ExchangedIsRevoked ==
  \A s, old \in Sessions :
    sessions[s].parent = old =>
      /\ Exists(old) /\ sessions[old].revoked
      /\ sessions[old].family = sessions[s].family
      /\ sessions[old].password = sessions[s].password

\* Nobody holds a session of an account whose e-mail was never confirmed, by
\* whatever way the account was created and got its password.
SessionsVerified == (\E s \in Sessions : Exists(s)) => account.verified

\* A revoked session is never good again: nothing a concurrent refresh, login
\* or logout writes brings it back.
RevokedStays ==
  [][\A s \in Sessions : sessions[s].revoked => sessions'[s].revoked]_vars

\* Once reuse was logged for a family, none of its sessions is good.
ReuseRevokesFamily ==
  \A s \in Sessions : Exists(s) /\ sessions[s].family \in reuseAudit => sessions[s].revoked

\* A refresh token is exchanged at most once.
RotatedOnce ==
  \A s, t \in Sessions :
    sessions[s].parent # None /\ sessions[s].parent = sessions[t].parent => s = t

\* After a password reset no session of an older password is left.
ResetRevokesAll ==
  (\A r \in Requests : reqs[r].step # "revokeAll") =>
    \A s \in Sessions : Valid(s) => sessions[s].password = account.password

\* Each change of an existing password, and the confirmation of the e-mail,
\* uses up a token that was not used before.
TokensSingleUse ==
  [][\/ account'.password # account.password
     \/ ~account.verified /\ account'.verified
     => \/ ~account.exists
        \/ \E t \in Tokens : tokens[t] # "used" /\ tokens'[t] = "used"]_vars

\* A login that creates a session finds the account verified and not blocked.
BlockedAtLogin ==
  [][\A s \in Sessions :
       ~Exists(s) /\ sessions'[s].family = s =>
         account.verified /\ account.status \notin Blocked]_vars

\* Only an administrator ends a suspension.
SuspensionSticks ==
  [][account.status \in Blocked /\ account'.status \notin Blocked =>
       \E r \in Requests : reqs[r].step = "setStatus" /\ reqs'[r] = Idle]_vars
================================================================================
