---------------------------- MODULE AuthSerialProofs ----------------------------
(***************************************************************************)
(* What AuthSessions promises when requests do not overlap: the properties  *)
(* two racing requests can break, which therefore rest on each handler      *)
(* alone.  A request may still be cut short, but for ResetRevokesAll.       *)
(***************************************************************************)
EXTENDS AuthSessionsProofs

\* At most one request is in flight.
Serial == \A r, q \in Requests : r = q

\* The login a family descends from has a row, and so has every family reuse was
\* logged for.
Lineage ==
  /\ \A s \in Sessions : Exists(s) => \E f \in Sessions : Exists(f) /\ sessions[s].family = f
  /\ \A f \in reuseAudit : Exists(f)

\* A refresh in flight presents a token of a family without reuse that was not
\* exchanged yet.
RefreshKnows(q) ==
  q.step \in {"rotate", "rotated"} =>
    /\ sessions[q.session].family \notin reuseAudit
    /\ \A s \in Sessions : sessions[s].parent # q.session

\* A token presented to confirm or to reset is not used; a login found the account
\* active.
TokenKnows(q) ==
  /\ q.step \in {"confirm", "reset"} => q.token \in Tokens /\ tokens[q.token] # "used"
  /\ q.step = "login" => AccountActive

\* The inductive invariant.
SInv ==
  /\ AInv /\ Serial
  /\ Lineage /\ ReuseRevokesFamily /\ RotatedOnce
  /\ \A r \in Requests : RefreshKnows(reqs[r]) /\ TokenKnows(reqs[r])

--------------------------------------------------------------------------------
\* The slot that changes is the only one.
LEMMA OneSlot ==
  ASSUME SInv, NEW r \in Requests, NEW q, Keep(r, q), RefreshKnows(q)', TokenKnows(q)'
  PROVE  \A p \in Requests : RefreshKnows(reqs[p])' /\ TokenKnows(reqs[p])'
<1>1. reqs'[r] = q
  BY DEF SInv, AInv, TypeOK, Keep
<1>2. \A p \in Requests : p = r
  BY DEF SInv, Serial
<1>3. RefreshKnows(reqs[r])' /\ TokenKnows(reqs[r])'
  BY <1>1 DEF RefreshKnows, TokenKnows
<1> QED
  BY <1>2, <1>3

\* A request of another kind knows nothing it could be wrong about.
LEMMA NothingToKnow ==
  ASSUME NEW q, q.step \notin {"rotate", "rotated", "confirm", "reset", "login"}
  PROVE  RefreshKnows(q)' /\ TokenKnows(q)'
BY DEF RefreshKnows, TokenKnows

\* A step that keeps every row keeps what is true of families and chains.
LEMMA FamiliesKept ==
  ASSUME SInv, UNCHANGED reuseAudit, \A s \in Sessions : RowKept(s)
  PROVE  Lineage' /\ ReuseRevokesFamily' /\ RotatedOnce'
<1>1. \A s \in Sessions : Exists(s)' <=> Exists(s)
  BY DEF RowKept, Exists
<1>2. reuseAudit \subseteq Sessions
  BY DEF SInv, AInv, TypeOK
<1>3. Lineage'
  <2>1. ASSUME NEW s \in Sessions, Exists(s)'
        PROVE  \E f \in Sessions : Exists(f)' /\ sessions'[s].family = f
    <3>1. PICK f \in Sessions : Exists(f) /\ sessions[s].family = f
      BY <1>1, <2>1 DEF SInv, Lineage
    <3> QED
      BY <1>1, <3>1 DEF RowKept
  <2>2. \A f \in reuseAudit' : Exists(f)'
    BY <1>1, <1>2 DEF SInv, Lineage
  <2> QED
    BY <2>1, <2>2 DEF Lineage
<1>4. ReuseRevokesFamily'
  BY <1>1 DEF SInv, ReuseRevokesFamily, RowKept
<1>5. RotatedOnce'
  BY DEF SInv, RotatedOnce, RowKept
<1> QED
  BY <1>3, <1>4, <1>5

\* The steps of a request that leave the rows of auth_sessions alone.
LEMMA QuietSerialStep ==
  ASSUME SInv, AInv', UNCHANGED <<sessions, reuseAudit>>,
         NEW r \in Requests, NEW q, Keep(r, q), RefreshKnows(q)', TokenKnows(q)'
  PROVE  SInv'
<1>1. Lineage' /\ ReuseRevokesFamily' /\ RotatedOnce'
  BY FamiliesKept DEF RowKept
<1>2. \A p \in Requests : RefreshKnows(reqs[p])' /\ TokenKnows(reqs[p])'
  BY OneSlot
<1> QED
  BY <1>1, <1>2 DEF SInv, Serial

LEMMA QuietSerial ==
  ASSUME SInv, AInv', NEW r \in Requests,
         AccountStep(r) \/ SessionStep(r) \/ Interrupt(r), UNCHANGED <<sessions, reuseAudit>>
  PROVE  \/ SInv'
         \/ RevokeOld(r) \/ RevokeFamily(r) \/ RevokeAllSessions(r)
         \/ CreateSession(r) \/ CreateRotated(r)
<1>1. CASE \/ Register(r) \/ CreateUser(r) \/ RequestVerification(r) \/ ForgotPassword(r)
           \/ CommitReset(r)
  <2>1. PICK st \in {"issueVerification", "issueReset", "revokeAll"} :
          Keep(r, [Idle EXCEPT !.step = st])
    BY <1>1 DEF Register, CreateUser, RequestVerification, ForgotPassword, CommitReset
  <2>2. PICK q : q = [Idle EXCEPT !.step = st]
    OBVIOUS
  <2>3. q.step = st
    BY <2>2 DEF Idle
  <2>4. RefreshKnows(q)' /\ TokenKnows(q)'
    BY <2>3, NothingToKnow
  <2> QED
    BY <2>1, <2>2, <2>4, QuietSerialStep
<1>2. CASE IssueToken(r) \/ CommitConfirm(r) \/ CommitSetStatus(r) \/ Interrupt(r)
  <2>1. PICK q : q = Idle
    OBVIOUS
  <2>2. Keep(r, q)
    BY <1>2, <2>1 DEF IssueToken, CommitConfirm, CommitSetStatus, Interrupt, Finish
  <2>3. q.step = "idle"
    BY <2>1 DEF Idle
  <2>4. RefreshKnows(q)' /\ TokenKnows(q)'
    BY <2>3, NothingToKnow
  <2> QED
    BY <2>2, <2>4, QuietSerialStep
<1>3. CASE BeginSetStatus(r)
  <2>1. PICK st : Keep(r, [Idle EXCEPT !.step = "setStatus", !.status = st])
    BY <1>3 DEF BeginSetStatus
  <2>2. PICK q : q = [Idle EXCEPT !.step = "setStatus", !.status = st]
    OBVIOUS
  <2>3. q.step = "setStatus"
    BY <2>2 DEF Idle
  <2>4. RefreshKnows(q)' /\ TokenKnows(q)'
    BY <2>3, NothingToKnow
  <2> QED
    BY <2>1, <2>2, <2>4, QuietSerialStep
<1>4. CASE BeginConfirm(r) \/ BeginReset(r)
  <2>1. PICK t \in Tokens, st \in {"confirm", "reset"} :
          Fresh(t) /\ Keep(r, [Idle EXCEPT !.step = st, !.token = t])
    BY <1>4 DEF BeginConfirm, BeginReset, Tokens
  <2>2. PICK q : q = [Idle EXCEPT !.step = st, !.token = t]
    OBVIOUS
  <2>3. q.step = st /\ q.token = t
    BY <2>2 DEF Idle
  <2>4. tokens' = tokens
    BY <1>4 DEF BeginConfirm, BeginReset
  <2>5. RefreshKnows(q)' /\ TokenKnows(q)'
    BY <2>1, <2>3, <2>4 DEF RefreshKnows, TokenKnows, Fresh
  <2> QED
    BY <2>1, <2>2, <2>5, QuietSerialStep
<1>5. CASE BeginLogin(r)
  <2>1. PICK q : q = [Idle EXCEPT !.step = "login", !.password = account.password]
    OBVIOUS
  <2>2. q.step = "login" /\ Keep(r, q) /\ AccountActive /\ account' = account
    BY <1>5, <2>1 DEF BeginLogin, Idle
  <2>3. RefreshKnows(q)' /\ TokenKnows(q)'
    BY <2>2 DEF RefreshKnows, TokenKnows, AccountActive
  <2> QED
    BY <2>2, <2>3, QuietSerialStep
<1>6. CASE BeginRefresh(r)
  <2>1. PICK s \in Sessions, st \in {"reuse", "rotate"} :
          /\ Exists(s) /\ (st = "rotate" => ~sessions[s].revoked)
          /\ Keep(r, [Idle EXCEPT !.step = st, !.session = s])
    BY <1>6 DEF BeginRefresh
  <2>2. PICK q : q = [Idle EXCEPT !.step = st, !.session = s]
    OBVIOUS
  <2>3. q.step = st /\ q.session = s
    BY <2>2 DEF Idle
  <2>4. st = "rotate" => sessions[s].family \notin reuseAudit
    BY <2>1 DEF SInv, ReuseRevokesFamily
  <2>5. st = "rotate" => \A t \in Sessions : sessions[t].parent # s
    BY <2>1 DEF SInv, AInv, ExchangedIsRevoked
  <2>6. RefreshKnows(q)' /\ TokenKnows(q)'
    BY <2>3, <2>4, <2>5 DEF RefreshKnows, TokenKnows
  <2> QED
    BY <2>1, <2>2, <2>6, QuietSerialStep
<1> QED
  BY <1>1, <1>2, <1>3, <1>4, <1>5, <1>6 DEF AccountStep, SessionStep

--------------------------------------------------------------------------------
\* A request that revokes rows and logs nothing.
LEMMA RevokeSerial ==
  ASSUME SInv, AInv', NEW r \in Requests, RevokeOld(r) \/ RevokeAllSessions(r)
  PROVE  SInv'
<1>1. UNCHANGED <<reuseAudit, tokens, account>> /\ \A s \in Sessions : RowKept(s)
  BY RevokingRequests DEF SInv, RevokeOld, RevokeAllSessions
<1>2. Lineage' /\ ReuseRevokesFamily' /\ RotatedOnce'
  BY <1>1, FamiliesKept
<1>3. CASE RevokeOld(r)
  <2>1. PICK old : old = reqs[r] /\ old \in Request
    BY DEF SInv, AInv, TypeOK
  <2>2. PICK q : q = [old EXCEPT !.step = "rotated"]
    OBVIOUS
  <2>3. q.step = "rotated" /\ q.session = old.session
    BY <2>1, <2>2 DEF Request
  <2>4. Keep(r, q) /\ old.step = "rotate"
    BY <1>3, <2>1, <2>2 DEF RevokeOld
  <2>5. /\ old.session \in Sessions /\ sessions[old.session].family \notin reuseAudit
        /\ \A s \in Sessions : sessions[s].parent # old.session
    BY <2>1, <2>4 DEF SInv, AInv, RequestKnows, RefreshKnows
  <2>6. RefreshKnows(q)' /\ TokenKnows(q)'
    BY <1>1, <2>3, <2>5 DEF RefreshKnows, TokenKnows, RowKept
  <2>7. \A p \in Requests : RefreshKnows(reqs[p])' /\ TokenKnows(reqs[p])'
    BY <2>4, <2>6, OneSlot
  <2> QED
    BY <1>2, <2>7 DEF SInv, Serial
<1>4. CASE RevokeAllSessions(r)
  <2>1. PICK q : q = Idle
    OBVIOUS
  <2>2. Keep(r, q) /\ q.step = "idle"
    BY <1>4, <2>1 DEF RevokeAllSessions, Finish, Idle
  <2>3. RefreshKnows(q)' /\ TokenKnows(q)'
    BY <2>2, NothingToKnow
  <2>4. \A p \in Requests : RefreshKnows(reqs[p])' /\ TokenKnows(reqs[p])'
    BY <2>2, <2>3, OneSlot
  <2> QED
    BY <1>2, <2>4 DEF SInv, Serial
<1> QED
  BY <1>3, <1>4

\* Reuse revokes the family it logs.
LEMMA ReuseSerial ==
  ASSUME SInv, AInv', NEW r \in Requests, RevokeFamily(r)
  PROVE  SInv'
<1>1. PICK old : old = reqs[r].session
  OBVIOUS
<1>2. old \in Sessions /\ Exists(old)
  BY <1>1 DEF RevokeFamily, SInv, AInv, RequestKnows
<1>3. PICK fam \in Sessions : Exists(fam) /\ sessions[old].family = fam
  BY <1>2 DEF SInv, Lineage
<1>4. Revoke(FamilyOf(old)) /\ reuseAudit' = reuseAudit \union {fam}
  BY <1>1, <1>3 DEF RevokeFamily
<1>5. /\ \A s \in Sessions : RowKept(s)
      /\ \A s \in Sessions \intersect FamilyOf(old) : Exists(s) => sessions'[s].revoked
  BY <1>4, RevokeKeeps DEF SInv, AInv
<1>6. \A s \in Sessions : Exists(s)' <=> Exists(s)
  BY <1>5 DEF RowKept, Exists
<1>7. Lineage'
  <2>1. ASSUME NEW s \in Sessions, Exists(s)'
        PROVE  \E f \in Sessions : Exists(f)' /\ sessions'[s].family = f
    <3>1. PICK f \in Sessions : Exists(f) /\ sessions[s].family = f
      BY <1>6, <2>1 DEF SInv, Lineage
    <3> QED
      BY <1>5, <1>6, <3>1 DEF RowKept
  <2>2. \A f \in reuseAudit' : Exists(f)'
    BY <1>3, <1>4, <1>6 DEF SInv, AInv, TypeOK, Lineage
  <2> QED
    BY <2>1, <2>2 DEF Lineage
<1>8. ReuseRevokesFamily'
  <2> SUFFICES ASSUME NEW s \in Sessions, Exists(s), sessions[s].family \in reuseAudit'
               PROVE  sessions'[s].revoked
    BY <1>5, <1>6 DEF ReuseRevokesFamily, RowKept
  <2>1. CASE sessions[s].family \in reuseAudit
    BY <1>5, <2>1 DEF SInv, ReuseRevokesFamily, RowKept
  <2>2. CASE sessions[s].family = fam
    BY <1>3, <1>5, <2>2 DEF FamilyOf
  <2> QED
    BY <1>4, <2>1, <2>2
<1>9. RotatedOnce'
  BY <1>5 DEF SInv, RotatedOnce, RowKept
<1>10. PICK q : q = Idle
  OBVIOUS
<1>11. Keep(r, q) /\ q.step = "idle"
  BY <1>10 DEF RevokeFamily, Finish, Idle
<1>12. RefreshKnows(q)' /\ TokenKnows(q)'
  BY <1>11, NothingToKnow
<1>13. \A p \in Requests : RefreshKnows(reqs[p])' /\ TokenKnows(reqs[p])'
  BY <1>11, <1>12, OneSlot
<1> QED
  BY <1>7, <1>8, <1>9, <1>13 DEF SInv, Serial

\* A row that is inserted starts a family no reuse was logged for, or continues one,
\* as the only successor of the token that was exchanged.
LEMMA InsertSerial ==
  ASSUME SInv, AInv', UNCHANGED reuseAudit, NEW s \in Sessions, ~Exists(s),
         NEW row, sessions' = [sessions EXCEPT ![s] = row],
         row.family = s \/ (row.family \in Sessions /\ Exists(row.family)),
         row.family \notin reuseAudit,
         row.parent = None \/ \A t \in Sessions : sessions[t].parent # row.parent,
         NEW r \in Requests, Finish(r)
  PROVE  SInv'
<1>1. PICK fam : fam = row.family
  OBVIOUS
<1>2. /\ sessions'[s] = row /\ s # None
      /\ \A t \in Sessions : t # s => sessions'[t] = sessions[t]
      /\ \A t \in Sessions : Exists(t) => Exists(t)' /\ t # s
      /\ Exists(s)' /\ reuseAudit \subseteq Sessions /\ None \notin Sessions
  BY AuthConstants DEF SInv, AInv, TypeOK, Exists
<1>3. Lineage'
  <2>1. ASSUME NEW t \in Sessions, Exists(t)'
        PROVE  \E f \in Sessions : Exists(f)' /\ sessions'[t].family = f
    <3>1. CASE t = s
      BY <1>2, <3>1
    <3>2. CASE t # s
      <4>1. Exists(t) /\ sessions'[t] = sessions[t]
        BY <1>2, <2>1, <3>2 DEF Exists
      <4>2. PICK f \in Sessions : Exists(f) /\ sessions[t].family = f
        BY <4>1 DEF SInv, Lineage
      <4> QED
        BY <1>2, <4>1, <4>2
    <3> QED
      BY <3>1, <3>2
  <2>2. \A f \in reuseAudit' : Exists(f)'
    BY <1>2 DEF SInv, Lineage
  <2> QED
    BY <2>1, <2>2 DEF Lineage
<1>4. ReuseRevokesFamily'
  <2> SUFFICES ASSUME NEW t \in Sessions, Exists(t)', sessions'[t].family \in reuseAudit
               PROVE  sessions'[t].revoked
    BY DEF ReuseRevokesFamily
  <2>1. t # s
    BY <1>2
  <2>2. Exists(t) /\ sessions'[t] = sessions[t]
    BY <1>2, <2>1 DEF Exists
  <2> QED
    BY <2>2 DEF SInv, ReuseRevokesFamily
<1>5. RotatedOnce'
  BY <1>2 DEF SInv, RotatedOnce
<1>6. PICK q : q = Idle
  OBVIOUS
<1>7. Keep(r, q) /\ q.step = "idle"
  BY <1>6 DEF Finish, Idle
<1>8. RefreshKnows(q)' /\ TokenKnows(q)'
  BY <1>7, NothingToKnow
<1>9. \A p \in Requests : RefreshKnows(reqs[p])' /\ TokenKnows(reqs[p])'
  BY <1>7, <1>8, OneSlot
<1> QED
  BY <1>3, <1>4, <1>5, <1>9 DEF SInv, Serial

LEMMA CreateSerial ==
  ASSUME SInv, AInv', NEW r \in Requests, CreateSession(r) \/ CreateRotated(r)
  PROVE  SInv'
<1>1. CASE CreateSession(r)
  <2>1. PICK s \in Sessions :
          /\ ~Exists(s)
          /\ sessions' = [sessions EXCEPT ![s] =
               [family |-> s, parent |-> None, password |-> reqs[r].password,
                revoked |-> FALSE, expired |-> FALSE]]
    BY <1>1 DEF CreateSession
  <2>2. PICK row : row = [family |-> s, parent |-> None, password |-> reqs[r].password,
                          revoked |-> FALSE, expired |-> FALSE]
    OBVIOUS
  <2>3. row.family = s /\ row.parent = None
    BY <2>2
  <2>4. s \notin reuseAudit
    BY <2>1 DEF SInv, Lineage
  <2>5. UNCHANGED reuseAudit /\ Finish(r)
    BY <1>1 DEF CreateSession
  <2> QED
    BY <2>1, <2>2, <2>3, <2>4, <2>5, InsertSerial
<1>2. CASE CreateRotated(r)
  <2>1. PICK old : old = reqs[r].session
    OBVIOUS
  <2>2. /\ old \in Sessions /\ Exists(old) /\ sessions[old].family \notin reuseAudit
        /\ \A t \in Sessions : sessions[t].parent # old
    BY <1>2, <2>1 DEF CreateRotated, SInv, AInv, RequestKnows, RefreshKnows
  <2>3. PICK fam \in Sessions : Exists(fam) /\ sessions[old].family = fam
    BY <2>2 DEF SInv, Lineage
  <2>4. PICK s \in Sessions :
          /\ ~Exists(s)
          /\ sessions' = [sessions EXCEPT ![s] =
               [family |-> fam, parent |-> old, password |-> sessions[old].password,
                revoked |-> FALSE, expired |-> FALSE]]
    BY <1>2, <2>1, <2>3 DEF CreateRotated
  <2>5. PICK row : row = [family |-> fam, parent |-> old,
                          password |-> sessions[old].password,
                          revoked |-> FALSE, expired |-> FALSE]
    OBVIOUS
  <2>6. row.family = fam /\ row.parent = old
    BY <2>5
  <2>7. UNCHANGED reuseAudit /\ Finish(r)
    BY <1>2 DEF CreateRotated
  <2> QED
    BY <2>2, <2>3, <2>4, <2>5, <2>6, <2>7, InsertSerial
<1> QED
  BY <1>1, <1>2

\* Logout, and time passing.
LEMMA EnvironmentSerial ==
  ASSUME SInv, AInv', RevokeSession \/ LogoutAll \/ ExpireSession \/ ExpireToken
  PROVE  SInv'
<1>1. UNCHANGED <<account, reuseAudit, reqs>> /\ \A s \in Sessions : RowKept(s)
  BY EnvironmentSteps
     DEF SInv, RevokeSession, LogoutAll, ExpireSession, ExpireToken
<1>2. Lineage' /\ ReuseRevokesFamily' /\ RotatedOnce'
  BY <1>1, FamiliesKept
<1>3. \A t \in Tokens : tokens[t] # "used" => tokens'[t] # "used"
  BY DEF SInv, AInv, TypeOK, RevokeSession, LogoutAll, ExpireSession, ExpireToken
<1>4. ASSUME NEW p \in Requests
      PROVE  RefreshKnows(reqs[p])' /\ TokenKnows(reqs[p])'
  <2>1. PICK q : q = reqs[p] /\ q = reqs'[p]
    BY <1>1
  <2>2. RefreshKnows(q) /\ TokenKnows(q) /\ RequestKnows(q)
    BY <2>1 DEF SInv, AInv
  <2>3. RefreshKnows(q)' /\ TokenKnows(q)'
    BY <1>1, <1>3, <2>2 DEF RefreshKnows, TokenKnows, RequestKnows, RowKept, AccountActive
  <2> QED
    BY <2>1, <2>3 DEF RefreshKnows, TokenKnows
<1> QED
  BY <1>2, <1>4 DEF SInv, Serial

LEMMA InitSInv == Serial /\ Init => SInv
<1> SUFFICES ASSUME Serial, Init
             PROVE  SInv
  OBVIOUS
<1>1. \A s \in Sessions : ~Exists(s) /\ sessions[s].parent = None
  BY DEF Init, Exists, NoRow
<1>2. Lineage /\ ReuseRevokesFamily /\ RotatedOnce
  BY <1>1 DEF Init, Lineage, ReuseRevokesFamily, RotatedOnce
<1>3. \A r \in Requests : RefreshKnows(reqs[r]) /\ TokenKnows(reqs[r])
  BY DEF Init, Idle, RefreshKnows, TokenKnows
<1> QED
  BY <1>2, <1>3, InitAInv DEF SInv

LEMMA InductiveSerial == SInv /\ [Next]_vars => SInv'
<1> SUFFICES ASSUME SInv, [Next]_vars
             PROVE  SInv'
  OBVIOUS
<1>1. AInv'
  BY Inductive DEF SInv
<1>2. CASE RevokeSession \/ LogoutAll \/ ExpireSession \/ ExpireToken
  BY <1>1, <1>2, EnvironmentSerial
<1>3. ASSUME NEW r \in Requests, AccountStep(r) \/ SessionStep(r) \/ Interrupt(r)
      PROVE  SInv'
  BY <1>1, <1>3, QuietRequests, QuietSerial, RevokeSerial, ReuseSerial, CreateSerial
<1>4. CASE UNCHANGED vars
  BY <1>1, <1>4 DEF vars, SInv, Serial, Lineage, ReuseRevokesFamily, RotatedOnce,
                    RefreshKnows, TokenKnows, AccountActive, Exists
<1> QED
  BY <1>2, <1>3, <1>4 DEF Next

LEMMA SerialInvariance == Serial /\ Spec => []SInv
BY InitSInv, InductiveSerial, PTL DEF Spec

\* Once reuse was logged for a family, none of its sessions is good (rotateSession,
\* revokeFamily), as long as no refresh overlaps the detection.
THEOREM ReuseEndsFamily == Serial /\ Spec => []ReuseRevokesFamily
<1>1. SInv => ReuseRevokesFamily
  BY DEF SInv
<1> QED
  BY <1>1, SerialInvariance, PTL

\* Without overlapping refreshes a token is exchanged at most once, also when a
\* refresh breaks off after it revoked the old session.
THEOREM ExchangedOnce == Serial /\ Spec => []RotatedOnce
<1>1. SInv => RotatedOnce
  BY DEF SInv
<1> QED
  BY <1>1, SerialInvariance, PTL

--------------------------------------------------------------------------------
(* What a step of a handler rests on.                                        *)

\* The steps that change the password or confirm the e-mail.
LEMMA CredentialSteps ==
  ASSUME [Next]_vars, account'.password # account.password
                        \/ (~account.verified /\ account'.verified)
  PROVE  \/ ~account.exists
         \/ \E r \in Requests : CommitConfirm(r) \/ CommitReset(r)
<1>1. CASE RevokeSession \/ LogoutAll \/ ExpireSession \/ ExpireToken \/ UNCHANGED vars
  BY <1>1 DEF RevokeSession, LogoutAll, ExpireSession, ExpireToken, vars
<1>2. ASSUME NEW r \in Requests, AccountStep(r)
      PROVE  ~account.exists \/ CommitConfirm(r) \/ CommitReset(r)
  <2>1. CASE CommitSetStatus(r)
    <3>1. PICK st : account' = [account EXCEPT !.status = st]
      BY <2>1 DEF CommitSetStatus
    <3>2. account'.password = account.password /\ account'.verified = account.verified
      BY <3>1
    <3> QED
      BY <3>2
  <2>2. CASE Register(r) \/ CreateUser(r)
    BY <2>2 DEF Register, CreateUser
  <2>3. CASE \/ RequestVerification(r) \/ ForgotPassword(r) \/ IssueToken(r)
             \/ BeginConfirm(r) \/ BeginSetStatus(r) \/ BeginReset(r)
             \/ RevokeAllSessions(r)
    BY <2>3 DEF RequestVerification, ForgotPassword, IssueToken, BeginConfirm,
       BeginSetStatus, BeginReset, RevokeAllSessions
  <2> QED
    BY <1>2, <2>1, <2>2, <2>3 DEF AccountStep
<1>3. ASSUME NEW r \in Requests, SessionStep(r) \/ Interrupt(r)
      PROVE  FALSE
  BY <1>3 DEF SessionStep, BeginLogin, CreateSession, BeginRefresh, RevokeOld,
     CreateRotated, RevokeFamily, Interrupt
<1> QED
  BY <1>1, <1>2, <1>3 DEF Next

\* Without overlap every change of an existing password and every confirmation uses
\* up a token nobody used before (verifyEmail, resetPassword).
THEOREM CredentialsCostTokens == Serial /\ Spec => TokensSingleUse
<1> DEFINE Change == account'.password # account.password
                       \/ (~account.verified /\ account'.verified)
           Cost == ~account.exists
                     \/ \E t \in Tokens : tokens[t] # "used" /\ tokens'[t] = "used"
<1>1. ASSUME SInv, [Next]_vars, Change
      PROVE  Cost
  <2>1. CASE ~account.exists
    BY <2>1
  <2>2. ASSUME NEW r \in Requests, CommitConfirm(r) \/ CommitReset(r)
        PROVE  Cost
    <3>1. PICK t : t = reqs[r].token
      OBVIOUS
    <3>2. t \in Tokens /\ tokens[t] # "used"
      BY <1>1, <2>2, <3>1 DEF CommitConfirm, CommitReset, SInv, TokenKnows
    <3>3. tokens' = [tokens EXCEPT ![t] = "used"]
      BY <2>2, <3>1 DEF CommitConfirm, CommitReset
    <3>4. tokens'[t] = "used"
      BY <1>1, <3>2, <3>3 DEF SInv, AInv, TypeOK
    <3> QED
      BY <3>2, <3>4
  <2> QED
    BY <1>1, <2>1, <2>2, CredentialSteps
<1>2. SInv /\ [Next]_vars =>
        [\/ account'.password # account.password
         \/ ~account.verified /\ account'.verified
         => \/ ~account.exists
            \/ \E t \in Tokens : tokens[t] # "used" /\ tokens'[t] = "used"]_vars
  BY <1>1
<1> QED
  BY <1>2, SerialInvariance, PTL DEF Spec, TokensSingleUse

\* Without overlap a login that creates a session finds the account verified and not
\* blocked; a refresh never starts a family.
THEOREM BlockedStayOut == Serial /\ Spec => BlockedAtLogin
<1>1. ASSUME SInv, [Next]_vars, NEW s \in Sessions, ~Exists(s), sessions'[s].family = s
      PROVE  account.verified /\ account.status \notin Blocked
  <2>1. s # None
    BY AuthConstants
  <2>2. ~ \A t \in Sessions : RowKept(t)
    BY <1>1, <2>1 DEF RowKept, Exists
  <2>3. sessions' # sessions /\ ~(RevokeSession \/ LogoutAll \/ ExpireSession \/ ExpireToken)
    BY <1>1, <2>1, <2>2, EnvironmentSteps DEF SInv, Exists
  <2>4. PICK r \in Requests : AccountStep(r) \/ SessionStep(r) \/ Interrupt(r)
    BY <1>1, <2>3 DEF Next, vars
  <2>5. CreateSession(r) \/ CreateRotated(r)
    BY <1>1, <2>2, <2>3, <2>4, QuietRequests, RevokingRequests DEF SInv
  <2>6. CASE CreateSession(r)
    BY <1>1, <2>6 DEF CreateSession, SInv, AInv, RequestKnows, TokenKnows, AccountActive
  <2>7. CASE CreateRotated(r)
    <3>1. PICK old : old = reqs[r].session
      OBVIOUS
    <3>2. PICK fam \in Sessions : Exists(fam) /\ sessions[old].family = fam
      BY <1>1, <2>7, <3>1 DEF CreateRotated, SInv, AInv, RequestKnows, Lineage
    <3>3. PICK t \in Sessions :
            \E parent, password :
              sessions' = [sessions EXCEPT ![t] =
                [family |-> fam, parent |-> parent, password |-> password,
                 revoked |-> FALSE, expired |-> FALSE]]
      BY <2>7, <3>1, <3>2 DEF CreateRotated
    <3>4. sessions'[s].family = sessions[s].family \/ sessions'[s].family = fam
      BY <1>1, <3>3 DEF SInv, AInv, TypeOK
    <3> QED
      BY <1>1, <2>1, <3>2, <3>4 DEF Exists
  <2> QED
    BY <2>5, <2>6, <2>7
<1>2. SInv /\ [Next]_vars =>
        [\A s \in Sessions :
           ~Exists(s) /\ sessions'[s].family = s =>
             account.verified /\ account.status \notin Blocked]_vars
  BY <1>1
<1> QED
  BY <1>2, SerialInvariance, PTL DEF Spec, BlockedAtLogin

--------------------------------------------------------------------------------
(* A password reset, when no request is cut short either.                    *)

\* Before the account exists there is nothing of it.
NothingBefore ==
  ~account.exists =>
    /\ ~account.verified
    /\ \A t \in Tokens : tokens[t] = "none"
    /\ \A r \in Requests : reqs[r] = Idle

\* The password a login checked, or the login a refresh rests on, is the newest.
PasswordKnows(q) ==
  /\ q.step = "login" => q.password = account.password
  /\ q.step \in {"rotate", "rotated"} => sessions[q.session].password = account.password

\* The inductive invariant.
PInv ==
  /\ SInv /\ ~Interrupted
  /\ NothingBefore /\ ResetRevokesAll
  /\ \A r \in Requests : PasswordKnows(reqs[r])

LEMMA NothingBeforeKept ==
  ASSUME AInv, NothingBefore, [Next]_vars
  PROVE  NothingBefore'
<1> SUFFICES ASSUME ~account'.exists
             PROVE  /\ ~account'.verified
                    /\ \A t \in Tokens : tokens'[t] = "none"
                    /\ \A r \in Requests : reqs'[r] = Idle
  BY DEF NothingBefore
<1>0. account \in Account
  BY DEF AInv, TypeOK
<1>1. CASE RevokeSession \/ LogoutAll \/ ExpireSession \/ UNCHANGED vars
  BY <1>1 DEF RevokeSession, LogoutAll, ExpireSession, vars, NothingBefore
<1>2. CASE ExpireToken
  BY <1>2 DEF ExpireToken, NothingBefore
<1>3. ASSUME NEW r \in Requests, AccountStep(r) \/ SessionStep(r) \/ Interrupt(r)
      PROVE  FALSE
  <2>1. CASE account.exists
    <3>1. account' = account
          \/ \E a, b, c : account' = [account EXCEPT !.password = a]
                        \/ account' = [account EXCEPT !.status = b]
                        \/ account' = [account EXCEPT !.verified = c, !.status = b]
                        \/ ~account.exists
      BY <1>3 DEF AccountStep, SessionStep, Interrupt, Register, CreateUser,
         RequestVerification, ForgotPassword, IssueToken, BeginConfirm, CommitConfirm,
         BeginSetStatus, CommitSetStatus, BeginReset, CommitReset, RevokeAllSessions,
         BeginLogin, CreateSession, BeginRefresh, RevokeOld, CreateRotated, RevokeFamily
    <3> QED
      BY <1>0, <2>1, <3>1 DEF Account
  <2>2. CASE ~account.exists
    <3>1. reqs[r] = Idle /\ \A t \in Tokens : tokens[t] = "none"
      BY <2>2 DEF NothingBefore
    <3>2. reqs[r].step = "idle" /\ \A t \in Tokens : ~Fresh(t)
      BY <3>1 DEF Idle, Fresh
    <3>3. \A s \in Sessions : ~Exists(s)
      BY <2>2 DEF AInv, SessionsVerified, NothingBefore
    <3>4. CASE Register(r) \/ CreateUser(r)
      <4>1. account'.exists
        BY <1>0, <3>4 DEF Register, CreateUser, Account
      <4> QED
        BY <4>1
    <3> QED
      BY <1>3, <2>2, <3>1, <3>2, <3>3, <3>4
         DEF AccountStep, SessionStep, Interrupt, RequestVerification, ForgotPassword,
         IssueToken, BeginConfirm, CommitConfirm, BeginSetStatus, CommitSetStatus,
         BeginReset, CommitReset, RevokeAllSessions, BeginLogin, CreateSession,
         BeginRefresh, RevokeOld, CreateRotated, RevokeFamily, Tokens
  <2> QED
    BY <2>1, <2>2
<1> QED
  BY <1>1, <1>2, <1>3 DEF Next

\* A step that keeps the rows and the password, and ends no reset.
LEMMA PasswordKept ==
  ASSUME PInv, SInv', NothingBefore', \A s \in Sessions : RowKept(s),
         account'.password = account.password,
         NEW r \in Requests, reqs[r].step # "revokeAll",
         NEW q, Keep(r, q), PasswordKnows(q)'
  PROVE  PInv'
<1>1. reqs'[r] = q /\ \A p \in Requests : p = r
  BY DEF PInv, SInv, Serial, AInv, TypeOK, Keep
<1>2. PasswordKnows(reqs[r])'
  BY <1>1 DEF PasswordKnows
<1>3. \A p \in Requests : PasswordKnows(reqs[p])'
  BY <1>1, <1>2
<1>4. \A p \in Requests : reqs[p].step # "revokeAll"
  BY <1>1
<1>5. \A s \in Sessions : Valid(s) => sessions[s].password = account.password
  BY <1>4 DEF PInv, ResetRevokesAll
<1>6. \A s \in Sessions : Valid(s)' => Valid(s)
  BY DEF RowKept, Valid, Exists
<1>7. ResetRevokesAll'
  BY <1>5, <1>6 DEF ResetRevokesAll, RowKept
<1> QED
  BY <1>3, <1>7 DEF PInv

\* A request of another kind knows nothing of a password.
LEMMA NoPasswordToKnow ==
  ASSUME NEW q, q.step \notin {"login", "rotate", "rotated"}
  PROVE  PasswordKnows(q)'
BY DEF PasswordKnows

LEMMA AccountPassword ==
  ASSUME PInv, SInv', NothingBefore', NEW r \in Requests, AccountStep(r)
  PROVE  PInv'
<1>0. account \in Account /\ reqs[r] \in Request
  BY DEF PInv, SInv, AInv, TypeOK
<1>1. CASE RevokeAllSessions(r)
  <2>1. PICK q : q = Idle
    OBVIOUS
  <2>2. Keep(r, q) /\ q.step = "idle" /\ Revoke(Sessions)
    BY <1>1, <2>1 DEF RevokeAllSessions, Finish, Idle
  <2>3. \A s \in Sessions : ~Valid(s)'
    <3>1. /\ \A s \in Sessions : RowKept(s)
          /\ \A s \in Sessions \intersect Sessions : Exists(s) => sessions'[s].revoked
      BY <2>2, RevokeKeeps DEF PInv, SInv, AInv
    <3> QED
      BY <3>1 DEF Valid, Exists, RowKept
  <2>4. reqs'[r] = q /\ \A p \in Requests : p = r
    BY <2>2 DEF PInv, SInv, Serial, AInv, TypeOK, Keep
  <2>5. PasswordKnows(reqs[r])'
    BY <2>2, <2>4 DEF PasswordKnows
  <2> QED
    BY <2>3, <2>4, <2>5 DEF PInv, ResetRevokesAll
<1>2. CASE CommitReset(r)
  <2>1. PICK q : q = [Idle EXCEPT !.step = "revokeAll"]
    OBVIOUS
  <2>2. Keep(r, q) /\ q.step = "revokeAll"
    BY <1>2, <2>1 DEF CommitReset, Idle
  <2>4. reqs'[r] = q /\ \A p \in Requests : p = r
    BY <2>2 DEF PInv, SInv, Serial, AInv, TypeOK, Keep
  <2>5. PasswordKnows(reqs[r])'
    BY <2>2, <2>4 DEF PasswordKnows
  <2> QED
    BY <2>2, <2>4, <2>5 DEF PInv, ResetRevokesAll
<1>3. CASE Register(r)
  <2>1. \A s \in Sessions : ~Exists(s)
    BY <1>3 DEF Register, PInv, SInv, AInv, SessionsVerified, NothingBefore
  <2>2. \A s \in Sessions : ~Valid(s)'
    BY <1>3, <2>1 DEF Register, Valid, Exists
  <2>3. PICK q : q = [Idle EXCEPT !.step = "issueVerification"]
    OBVIOUS
  <2>4. Keep(r, q) /\ q.step = "issueVerification"
    BY <1>3, <2>3 DEF Register, Idle
  <2>5. reqs'[r] = q /\ \A p \in Requests : p = r
    BY <2>4 DEF PInv, SInv, Serial, AInv, TypeOK, Keep
  <2>6. PasswordKnows(reqs[r])'
    BY <2>4, <2>5 DEF PasswordKnows
  <2> QED
    BY <2>2, <2>5, <2>6 DEF PInv, ResetRevokesAll
<1>4. CASE \/ CreateUser(r) \/ RequestVerification(r) \/ ForgotPassword(r)
           \/ IssueToken(r) \/ BeginConfirm(r) \/ CommitConfirm(r)
           \/ BeginSetStatus(r) \/ CommitSetStatus(r) \/ BeginReset(r)
  <2>1. UNCHANGED sessions /\ reqs[r].step # "revokeAll"
    <3>1. \/ reqs[r] = Idle
          \/ reqs[r].step \in {"issueVerification", "issueReset", "confirm", "setStatus"}
      BY <1>4 DEF CreateUser, RequestVerification, ForgotPassword,
         IssueToken, BeginConfirm, CommitConfirm, BeginSetStatus, CommitSetStatus, BeginReset
    <3>2. UNCHANGED sessions
      BY <1>4 DEF CreateUser, RequestVerification, ForgotPassword,
         IssueToken, BeginConfirm, CommitConfirm, BeginSetStatus, CommitSetStatus, BeginReset
    <3> QED
      BY <3>1, <3>2 DEF Idle
  <2>2. account'.password = account.password
    <3>1. account' = account
          \/ \E b, c : \/ account' = [account EXCEPT !.exists = c]
                      \/ account' = [account EXCEPT !.status = b]
                      \/ account' = [account EXCEPT !.verified = c, !.status = b]
      BY <1>4 DEF CreateUser, RequestVerification, ForgotPassword,
         IssueToken, BeginConfirm, CommitConfirm, BeginSetStatus, CommitSetStatus, BeginReset
    <3> QED
      BY <1>0, <3>1 DEF Account
  <2>3. PICK q : /\ Keep(r, q)
                 /\ \/ q = Idle
                    \/ \E st \in {"issueVerification", "issueReset"} :
                         q = [Idle EXCEPT !.step = st]
                    \/ \E st \in {"confirm", "reset"}, t \in Tokens :
                         q = [Idle EXCEPT !.step = st, !.token = t]
                    \/ \E x : q = [Idle EXCEPT !.step = "setStatus", !.status = x]
    <3>1. CASE CreateUser(r) \/ RequestVerification(r) \/ ForgotPassword(r)
      BY <3>1 DEF CreateUser, RequestVerification, ForgotPassword
    <3>2. CASE IssueToken(r) \/ CommitConfirm(r) \/ CommitSetStatus(r)
      BY <3>2 DEF IssueToken, CommitConfirm, CommitSetStatus, Finish
    <3>3. CASE BeginConfirm(r)
      BY <3>3, Zenon DEF BeginConfirm, Tokens
    <3>4. CASE BeginReset(r)
      BY <3>4, Zenon DEF BeginReset, Tokens
    <3>5. CASE BeginSetStatus(r)
      BY <3>5, Zenon DEF BeginSetStatus
    <3> QED
      BY <1>4, <3>1, <3>2, <3>3, <3>4, <3>5
  <2>4. q.step \notin {"login", "rotate", "rotated"}
    <3>1. ASSUME NEW st, q = [Idle EXCEPT !.step = st]
          PROVE  q.step = st
      BY <3>1 DEF Idle
    <3>2. ASSUME NEW st, NEW t, q = [Idle EXCEPT !.step = st, !.token = t]
          PROVE  q.step = st
      BY <3>2 DEF Idle
    <3>3. ASSUME NEW st, NEW x, q = [Idle EXCEPT !.step = st, !.status = x]
          PROVE  q.step = st
      BY <3>3 DEF Idle
    <3>4. Idle.step = "idle"
      BY DEF Idle
    <3> QED
      BY <2>3, <3>1, <3>2, <3>3, <3>4
  <2>5. PasswordKnows(q)'
    BY <2>4, NoPasswordToKnow
  <2>6. \A s \in Sessions : RowKept(s)
    BY <2>1 DEF RowKept
  <2> QED
    BY <2>1, <2>2, <2>3, <2>5, <2>6, PasswordKept
<1> QED
  BY <1>1, <1>2, <1>3, <1>4 DEF AccountStep

\* A row that is inserted carries the newest password.
LEMMA InsertPassword ==
  ASSUME PInv, SInv', NothingBefore', UNCHANGED account,
         NEW s \in Sessions, NEW row, row.password = account.password,
         sessions' = [sessions EXCEPT ![s] = row],
         NEW r \in Requests, reqs[r].step # "revokeAll", Finish(r)
  PROVE  PInv'
<1>1. PICK q : q = Idle
  OBVIOUS
<1>2. Keep(r, q) /\ q.step = "idle"
  BY <1>1 DEF Finish, Idle
<1>3. reqs'[r] = q /\ \A p \in Requests : p = r
  BY <1>2 DEF PInv, SInv, Serial, AInv, TypeOK, Keep
<1>4. PasswordKnows(reqs[r])'
  BY <1>2, <1>3 DEF PasswordKnows
<1>5. \A t \in Sessions : Valid(t) => sessions[t].password = account.password
  BY <1>3 DEF PInv, ResetRevokesAll
<1>6. \A t \in Sessions : sessions'[t] = sessions[t] \/ sessions'[t].password = account.password
  BY DEF PInv, SInv, AInv, TypeOK
<1>7. \A t \in Sessions : Valid(t)' => sessions'[t].password = account.password
  BY <1>5, <1>6 DEF Valid, Exists
<1>8. ResetRevokesAll'
  BY <1>7 DEF ResetRevokesAll
<1> QED
  BY <1>3, <1>4, <1>8 DEF PInv

LEMMA SessionPassword ==
  ASSUME PInv, SInv', NothingBefore', NEW r \in Requests, SessionStep(r)
  PROVE  PInv'
<1>1. reqs[r] \in Request /\ PasswordKnows(reqs[r]) /\ RequestKnows(reqs[r])
  BY DEF PInv, SInv, AInv, TypeOK
<1>2. CASE BeginLogin(r)
  <2>1. PICK q : q = [Idle EXCEPT !.step = "login", !.password = account.password]
    OBVIOUS
  <2>2. q.step = "login" /\ q.password = account.password
    BY <2>1 DEF Idle
  <2>3. /\ Keep(r, q) /\ UNCHANGED <<account, sessions>> /\ reqs[r].step # "revokeAll"
    BY <1>2, <2>1 DEF BeginLogin, Idle
  <2>4. PasswordKnows(q)' /\ \A s \in Sessions : RowKept(s)
    BY <2>2, <2>3 DEF PasswordKnows, RowKept
  <2> QED
    BY <2>3, <2>4, PasswordKept
<1>3. CASE BeginRefresh(r)
  <2>1. PICK s \in Sessions, st \in {"reuse", "rotate"} :
          /\ Exists(s) /\ (st = "rotate" => ~sessions[s].revoked /\ ~sessions[s].expired)
          /\ Keep(r, [Idle EXCEPT !.step = st, !.session = s])
    BY <1>3 DEF BeginRefresh
  <2>2. PICK q : q = [Idle EXCEPT !.step = st, !.session = s]
    OBVIOUS
  <2>3. q.step = st /\ q.session = s
    BY <2>2 DEF Idle
  <2>4. /\ Keep(r, q) /\ UNCHANGED <<account, sessions>> /\ reqs[r].step # "revokeAll"
    BY <1>3, <2>1, <2>2 DEF BeginRefresh, Idle
  <2>5. \A p \in Requests : reqs[p].step # "revokeAll"
    BY <2>4 DEF PInv, SInv, Serial
  <2>6. st = "rotate" => sessions[s].password = account.password
    BY <2>1, <2>5 DEF PInv, ResetRevokesAll, Valid
  <2>7. PasswordKnows(q)' /\ \A t \in Sessions : RowKept(t)
    BY <2>3, <2>4, <2>6 DEF PasswordKnows, RowKept
  <2> QED
    BY <2>4, <2>7, PasswordKept
<1>4. CASE RevokeOld(r)
  <2>1. PICK old \in Request : old = reqs[r]
    BY <1>1
  <2>2. PICK q : q = [old EXCEPT !.step = "rotated"]
    OBVIOUS
  <2>3. q.step = "rotated" /\ q.session = old.session
    BY <2>2 DEF Request
  <2>4. Keep(r, q) /\ old.step = "rotate" /\ UNCHANGED account
    BY <1>4, <2>1, <2>2 DEF RevokeOld
  <2>5. \A s \in Sessions : RowKept(s)
    BY <1>4, RevokingRequests DEF PInv, SInv
  <2>6. old.session \in Sessions /\ sessions[old.session].password = account.password
    BY <1>1, <2>1, <2>4 DEF PasswordKnows, RequestKnows
  <2>7. PasswordKnows(q)'
    BY <2>3, <2>4, <2>5, <2>6 DEF PasswordKnows, RowKept
  <2> QED
    BY <2>1, <2>4, <2>5, <2>7, PasswordKept
<1>5. CASE RevokeFamily(r)
  <2>1. PICK q : q = Idle
    OBVIOUS
  <2>2. Keep(r, q) /\ q.step = "idle" /\ UNCHANGED account /\ reqs[r].step # "revokeAll"
    BY <1>5, <2>1 DEF RevokeFamily, Finish, Idle
  <2>3. PasswordKnows(q)'
    BY <2>2, NoPasswordToKnow
  <2>4. \A s \in Sessions : RowKept(s)
    BY <1>5, RevokingRequests DEF PInv, SInv
  <2> QED
    BY <2>2, <2>3, <2>4, PasswordKept
<1>6. CASE CreateSession(r)
  <2>1. PICK s \in Sessions :
          sessions' = [sessions EXCEPT ![s] =
            [family |-> s, parent |-> None, password |-> reqs[r].password,
             revoked |-> FALSE, expired |-> FALSE]]
    BY <1>6 DEF CreateSession
  <2>2. PICK row : row = [family |-> s, parent |-> None, password |-> reqs[r].password,
                          revoked |-> FALSE, expired |-> FALSE]
    OBVIOUS
  <2>3. Finish(r) /\ UNCHANGED account /\ reqs[r].step = "login"
    BY <1>6 DEF CreateSession
  <2>4. row.password = account.password
    BY <1>1, <2>2, <2>3 DEF PasswordKnows
  <2> QED
    BY <2>1, <2>2, <2>3, <2>4, InsertPassword
<1>7. CASE CreateRotated(r)
  <2>1. PICK old : old = reqs[r].session
    OBVIOUS
  <2>2. PICK s \in Sessions :
          sessions' = [sessions EXCEPT ![s] =
            [family |-> sessions[old].family, parent |-> old,
             password |-> sessions[old].password, revoked |-> FALSE, expired |-> FALSE]]
    BY <1>7, <2>1 DEF CreateRotated
  <2>3. PICK row : row = [family |-> sessions[old].family, parent |-> old,
                          password |-> sessions[old].password,
                          revoked |-> FALSE, expired |-> FALSE]
    OBVIOUS
  <2>4. Finish(r) /\ UNCHANGED account /\ reqs[r].step = "rotated"
    BY <1>7 DEF CreateRotated
  <2>5. row.password = account.password
    BY <1>1, <2>1, <2>3, <2>4 DEF PasswordKnows
  <2> QED
    BY <2>2, <2>3, <2>4, <2>5, InsertPassword
<1> QED
  BY <1>2, <1>3, <1>4, <1>5, <1>6, <1>7 DEF SessionStep

LEMMA EnvironmentPassword ==
  ASSUME PInv, SInv', NothingBefore',
         \/ RevokeSession \/ LogoutAll \/ ExpireSession \/ ExpireToken
         \/ UNCHANGED vars
  PROVE  PInv'
<1>1. UNCHANGED <<account, reqs>> /\ \A s \in Sessions : RowKept(s)
  BY EnvironmentSteps
     DEF PInv, SInv, RevokeSession, LogoutAll, ExpireSession, ExpireToken, vars, RowKept
<1>2. \A s \in Sessions : Valid(s)' => Valid(s)
  BY <1>1 DEF RowKept, Valid, Exists
<1>3. ResetRevokesAll'
  BY <1>1, <1>2 DEF PInv, ResetRevokesAll, RowKept
<1>4. ASSUME NEW p \in Requests
      PROVE  PasswordKnows(reqs[p])'
  <2>1. PasswordKnows(reqs[p]) /\ RequestKnows(reqs[p])
    BY DEF PInv, SInv, AInv
  <2> QED
    BY <1>1, <2>1 DEF PasswordKnows, RequestKnows, RowKept
<1> QED
  BY <1>3, <1>4 DEF PInv

LEMMA InductivePassword == PInv /\ [Next]_vars => PInv'
<1> SUFFICES ASSUME PInv, [Next]_vars
             PROVE  PInv'
  OBVIOUS
<1>1. SInv' /\ NothingBefore'
  BY InductiveSerial, NothingBeforeKept DEF PInv, SInv
<1>2. ASSUME NEW r \in Requests
      PROVE  ~Interrupt(r)
  BY DEF PInv, Interrupt
<1> QED
  BY <1>1, <1>2, AccountPassword, SessionPassword, EnvironmentPassword DEF Next

\* Without overlap and interruption a password reset leaves no session of an older
\* password (resetPassword, revokeAllForUser).
THEOREM ResetEndsSessions == Serial /\ ~Interrupted /\ Spec => []ResetRevokesAll
<1>1. Serial /\ ~Interrupted /\ Init => PInv
  <2> SUFFICES ASSUME Serial, ~Interrupted, Init
               PROVE  PInv
    OBVIOUS
  <2>1. \A s \in Sessions : ~Valid(s)
    BY DEF Init, Valid, Exists, NoRow
  <2>2. \A r \in Requests : PasswordKnows(reqs[r])
    BY DEF Init, Idle, PasswordKnows
  <2>3. NothingBefore
    BY DEF Init, NothingBefore
  <2> QED
    BY <2>1, <2>2, <2>3, InitSInv DEF PInv, ResetRevokesAll
<1>2. PInv => ResetRevokesAll
  BY DEF PInv
<1> QED
  BY <1>1, <1>2, InductivePassword, PTL DEF Spec
================================================================================
