--------------------------- MODULE AuthSessionsProofs ---------------------------
(***************************************************************************)
(* Theorems about AuthSessions, for any number of overlapping requests,    *)
(* sessions and tokens, and with requests cut short at any point.          *)
(***************************************************************************)
EXTENDS AuthSessions, TLAPS

\* What a request in flight still knows: a login saw a confirmed e-mail, and a
\* refresh names a row that exists and, past its first write, is revoked.
RequestKnows(q) ==
  /\ q.step = "login" => account.verified
  /\ q.step \in {"rotate", "rotated", "reuse"} => q.session \in Sessions /\ Exists(q.session)
  /\ q.step = "rotated" => sessions[q.session].revoked

\* The inductive invariant.
AInv ==
  /\ TypeOK
  /\ SessionsVerified
  /\ ExchangedIsRevoked
  /\ \A r \in Requests : RequestKnows(reqs[r])

\* A row keeps its identity and, once revoked or expired, stays so; one that is not
\* there stays away.
RowKept(s) ==
  /\ sessions'[s].family = sessions[s].family
  /\ sessions'[s].parent = sessions[s].parent
  /\ sessions'[s].password = sessions[s].password
  /\ sessions[s].revoked => sessions'[s].revoked
  /\ sessions[s].expired => sessions'[s].expired
  /\ ~Exists(s) => sessions'[s] = sessions[s]

--------------------------------------------------------------------------------
LEMMA IdleIsRequest == Idle \in Request /\ RequestKnows(Idle)
BY AuthConstants DEF Idle, Request, Steps, AccountStatus, RequestKnows

\* Revoking rows keeps their type and their identity.
LEMMA RevokeKeeps ==
  ASSUME TypeOK, NEW S, Revoke(S)
  PROVE  /\ sessions' \in [Sessions -> Session]
         /\ \A s \in Sessions : RowKept(s)
         /\ \A s \in Sessions \intersect S : Exists(s) => sessions'[s].revoked
<1> DEFINE row(s) == IF s \in S /\ Exists(s) THEN [sessions[s] EXCEPT !.revoked = TRUE]
                                             ELSE sessions[s]
<1>1. sessions' = [s \in Sessions |-> row(s)] /\ sessions \in [Sessions -> Session]
  BY DEF Revoke, TypeOK
<1>2. ASSUME NEW s \in Sessions
      PROVE  /\ row(s) \in Session
             /\ row(s).family = sessions[s].family
             /\ row(s).parent = sessions[s].parent
             /\ row(s).password = sessions[s].password
             /\ sessions[s].revoked => row(s).revoked
             /\ sessions[s].expired => row(s).expired
             /\ s \in S /\ Exists(s) => row(s).revoked
             /\ ~Exists(s) => row(s) = sessions[s]
  <2>1. sessions[s] \in Session
    BY <1>1
  <2>2. CASE s \in S /\ Exists(s)
    BY <2>1, <2>2 DEF Session
  <2>3. CASE ~(s \in S /\ Exists(s))
    BY <2>1, <2>3
  <2> QED
    BY <2>2, <2>3
<1>3. \A s \in Sessions : sessions'[s] = row(s)
  BY <1>1
<1> HIDE DEF row
<1>4. sessions' \in [Sessions -> Session]
  BY <1>1, <1>2
<1> QED
  BY <1>2, <1>3, <1>4 DEF RowKept

\* A step that keeps every row's identity keeps what the rows satisfy.
LEMMA KeptRows ==
  ASSUME AInv, TypeOK', account.verified => account'.verified,
         \A s \in Sessions : RowKept(s)
  PROVE  /\ \A s \in Sessions : Exists(s)' <=> Exists(s)
         /\ SessionsVerified' /\ ExchangedIsRevoked'
<1>1. \A s \in Sessions : Exists(s)' <=> Exists(s)
  BY DEF RowKept, Exists
<1>2. SessionsVerified'
  BY <1>1 DEF AInv, SessionsVerified
<1>3. ExchangedIsRevoked'
  <2> SUFFICES ASSUME NEW s \in Sessions, NEW old \in Sessions, sessions'[s].parent = old
               PROVE  /\ Exists(old)' /\ sessions'[old].revoked
                      /\ sessions'[old].family = sessions'[s].family
                      /\ sessions'[old].password = sessions'[s].password
    BY DEF ExchangedIsRevoked, Exists
  <2>1. sessions[s].parent = old
    BY DEF RowKept
  <2>2. Exists(old) /\ sessions[old].revoked
        /\ sessions[old].family = sessions[s].family
        /\ sessions[old].password = sessions[s].password
    BY <2>1 DEF AInv, ExchangedIsRevoked
  <2> QED
    BY <1>1, <2>2 DEF RowKept
<1> QED
  BY <1>1, <1>2, <1>3

\* Such a step preserves the invariant when it fills one slot with a content
\* that satisfies RequestKnows, or touches no slot.
LEMMA SlotStep ==
  ASSUME AInv, TypeOK', account.verified => account'.verified,
         \A s \in Sessions : RowKept(s),
         NEW r \in Requests, NEW q \in Request, Keep(r, q), RequestKnows(q)'
  PROVE  AInv'
<1>1. reqs' = [reqs EXCEPT ![r] = q] /\ reqs \in [Requests -> Request]
  BY DEF Keep, AInv, TypeOK
<1>2. ASSUME NEW p \in Requests
      PROVE  RequestKnows(reqs[p])'
  <2>1. CASE p = r
    BY <1>1, <2>1 DEF RequestKnows, Exists
  <2>2. CASE p # r
    <3>1. reqs'[p] = reqs[p] /\ RequestKnows(reqs[p])
      BY <1>1, <2>2 DEF AInv
    <3> QED
      BY KeptRows, <3>1 DEF RequestKnows, RowKept, Exists
  <2> QED
    BY <2>1, <2>2
<1> QED
  BY KeptRows, <1>2 DEF AInv

LEMMA NoSlotStep ==
  ASSUME AInv, TypeOK', account.verified => account'.verified,
         \A s \in Sessions : RowKept(s), UNCHANGED reqs
  PROVE  AInv'
<1>1. ASSUME NEW p \in Requests
      PROVE  RequestKnows(reqs[p])'
  <2>1. reqs'[p] = reqs[p] /\ RequestKnows(reqs[p])
    BY DEF AInv
  <2> QED
    BY KeptRows, <2>1 DEF RequestKnows, RowKept, Exists
<1> QED
  BY KeptRows, <1>1 DEF AInv

\* The steps whose statement does not touch auth_sessions.
LEMMA QuietStep ==
  ASSUME AInv, UNCHANGED <<sessions, reuseAudit>>, account' \in Account,
         tokens' \in [Tokens -> {"none", "fresh", "used", "expired"}],
         account.verified => account'.verified,
         NEW r \in Requests, NEW q \in Request, Keep(r, q), RequestKnows(q)'
  PROVE  AInv'
<1>1. TypeOK'
  BY DEF AInv, TypeOK, Keep
<1>2. \A s \in Sessions : RowKept(s)
  BY DEF RowKept
<1> QED
  BY <1>1, <1>2, SlotStep

\* The steps that revoke some rows and end.
LEMMA RevokingStep ==
  ASSUME AInv, UNCHANGED <<account, tokens>>, reuseAudit' \subseteq Sessions,
         NEW S, Revoke(S), NEW r \in Requests, Finish(r)
  PROVE  AInv'
<1>1. Keep(r, Idle) /\ Idle \in Request /\ RequestKnows(Idle)'
  BY IdleIsRequest DEF Finish, RequestKnows, Idle
<1>2. sessions' \in [Sessions -> Session] /\ \A s \in Sessions : RowKept(s)
  BY RevokeKeeps DEF AInv
<1>3. TypeOK'
  BY <1>1, <1>2 DEF AInv, TypeOK, Keep
<1> QED
  BY <1>1, <1>2, <1>3, SlotStep

\* Creating a row: a login's starts a family, a refresh's continues one.
LEMMA NewRowStep ==
  ASSUME AInv, UNCHANGED <<account, tokens, reuseAudit>>, account.verified,
         NEW s \in Sessions, ~Exists(s), NEW row \in Session, row.family # None,
         sessions' = [sessions EXCEPT ![s] = row],
         \A old \in Sessions :
           row.parent = old =>
             /\ Exists(old) /\ sessions[old].revoked
             /\ sessions[old].family = row.family
             /\ sessions[old].password = row.password,
         NEW r \in Requests, Finish(r)
  PROVE  AInv'
<1>1. Idle \in Request /\ sessions \in [Sessions -> Session]
      /\ reqs' = [reqs EXCEPT ![r] = Idle] /\ reqs \in [Requests -> Request]
  BY IdleIsRequest DEF AInv, TypeOK, Finish, Keep
<1>2. TypeOK'
  BY <1>1 DEF AInv, TypeOK
<1>3. /\ sessions'[s] = row
      /\ \A t \in Sessions : t # s => sessions'[t] = sessions[t]
      /\ \A t \in Sessions : Exists(t) => sessions'[t] = sessions[t] /\ Exists(t)'
  BY <1>1 DEF Exists
<1>4. SessionsVerified'
  BY DEF SessionsVerified
<1>5. ExchangedIsRevoked'
  <2> SUFFICES ASSUME NEW t \in Sessions, NEW old \in Sessions, sessions'[t].parent = old
               PROVE  /\ Exists(old)' /\ sessions'[old].revoked
                      /\ sessions'[old].family = sessions'[t].family
                      /\ sessions'[old].password = sessions'[t].password
    BY DEF ExchangedIsRevoked, Exists
  <2>1. CASE t = s
    BY <1>3, <2>1
  <2>2. CASE t # s
    BY <1>3, <2>2 DEF AInv, ExchangedIsRevoked
  <2> QED
    BY <2>1, <2>2
<1>6. ASSUME NEW p \in Requests
      PROVE  RequestKnows(reqs[p])'
  <2>1. reqs'[p] = Idle \/ (reqs'[p] = reqs[p] /\ RequestKnows(reqs[p]))
    BY <1>1 DEF AInv
  <2> QED
    BY <1>3, <2>1 DEF RequestKnows, Idle, Exists
<1> QED
  BY <1>2, <1>4, <1>5, <1>6 DEF AInv

--------------------------------------------------------------------------------
LEMMA InitAInv == Init => AInv
<1> SUFFICES ASSUME Init PROVE AInv
  OBVIOUS
<1>1. NoRow \in Session /\ Idle \in Request
  BY AuthConstants, IdleIsRequest DEF NoRow, Session
<1>2. TypeOK
  BY <1>1, AuthConstants DEF Init, TypeOK, Account, AccountStatus
<1>3. \A s \in Sessions : ~Exists(s) /\ sessions[s].parent = None
  BY DEF Init, Exists, NoRow
<1>4. SessionsVerified /\ ExchangedIsRevoked
  BY <1>3, AuthConstants DEF SessionsVerified, ExchangedIsRevoked
<1>5. \A r \in Requests : RequestKnows(reqs[r])
  BY DEF Init, RequestKnows, Idle
<1> QED
  BY <1>2, <1>4, <1>5 DEF AInv

\* The steps that only read, and those that write users or a token.
LEMMA AccountSteps ==
  ASSUME AInv, NEW r \in Requests,
         \/ Register(r) \/ CreateUser(r) \/ RequestVerification(r) \/ ForgotPassword(r)
         \/ IssueToken(r) \/ BeginConfirm(r) \/ CommitConfirm(r)
         \/ BeginSetStatus(r) \/ CommitSetStatus(r) \/ BeginReset(r) \/ CommitReset(r)
         \/ Interrupt(r)
  PROVE  AInv'
<1> USE DEF Account, AccountStatus
<1>1. /\ account \in Account /\ reqs[r] \in Request /\ Idle \in Request
      /\ tokens \in [Tokens -> {"none", "fresh", "used", "expired"}]
      /\ MaxPasswords \in Nat /\ MaxPasswords >= 1
  BY AuthConstants, IdleIsRequest DEF AInv, TypeOK
<1>2. ASSUME NEW st \in Steps \ {"login", "rotate", "rotated", "reuse"}
      PROVE  /\ [Idle EXCEPT !.step = st] \in Request
             /\ RequestKnows([Idle EXCEPT !.step = st])'
             /\ \A t \in Tokens :
                  /\ [Idle EXCEPT !.step = st, !.token = t] \in Request
                  /\ RequestKnows([Idle EXCEPT !.step = st, !.token = t])'
             /\ \A a \in AccountStatus :
                  /\ [Idle EXCEPT !.step = st, !.status = a] \in Request
                  /\ RequestKnows([Idle EXCEPT !.step = st, !.status = a])'
  BY <1>1 DEF Request, Idle, RequestKnows
<1>3. RequestKnows(Idle)'
  BY DEF RequestKnows, Idle
<1>4. CASE Register(r)
  <2>1. account' = [exists |-> TRUE, status |-> account.status,
                    verified |-> account.verified, password |-> 1]
    BY <1>1, <1>4 DEF Register
  <2>2. 1 \in 0..MaxPasswords
    BY <1>1
  <2>3. account' \in Account /\ account'.verified = account.verified
    BY <1>1, <2>1, <2>2
  <2> QED
    BY <1>1, <1>2, <1>4, <2>3, QuietStep DEF Register, Steps
<1>13. CASE CreateUser(r)
  <2>1. account' \in Account /\ account'.verified = account.verified
    BY <1>1, <1>13 DEF CreateUser
  <2> QED
    BY <1>1, <1>2, <1>13, <2>1, QuietStep DEF CreateUser, Steps
<1>5. CASE RequestVerification(r) \/ ForgotPassword(r)
  BY <1>1, <1>2, <1>5, QuietStep DEF RequestVerification, ForgotPassword, Steps
<1>6. CASE IssueToken(r)
  BY <1>1, <1>3, <1>6, QuietStep DEF IssueToken, Finish
<1>7. CASE BeginConfirm(r) \/ BeginReset(r)
  BY <1>1, <1>2, <1>7, QuietStep DEF BeginConfirm, BeginReset, Tokens, Steps
<1>8. CASE CommitConfirm(r)
  <2>1. account' \in Account /\ account'.verified
    BY <1>1, <1>8 DEF CommitConfirm
  <2> QED
    BY <1>1, <1>3, <1>8, <2>1, QuietStep DEF CommitConfirm, Finish
<1>9. CASE BeginSetStatus(r)
  BY <1>1, <1>2, <1>9, QuietStep DEF BeginSetStatus, Steps
<1>10. CASE CommitSetStatus(r)
  <2>1. reqs[r].status \in AccountStatus
    BY <1>1 DEF Request
  <2>2. account' \in Account /\ account'.verified = account.verified
    BY <1>1, <1>10, <2>1 DEF CommitSetStatus
  <2> QED
    BY <1>1, <1>3, <1>10, <2>2, QuietStep DEF CommitSetStatus, Finish
<1>11. CASE CommitReset(r)
  <2> DEFINE next == account.password + 1
  <2>1. next \in 0..MaxPasswords
    BY <1>1, <1>11 DEF CommitReset
  <2>2. account' = [account EXCEPT !.password = next]
    BY <1>11 DEF CommitReset
  <2> HIDE DEF next
  <2>3. account' \in Account /\ account'.verified = account.verified
    BY <1>1, <2>1, <2>2
  <2> QED
    BY <1>1, <1>2, <1>11, <2>3, QuietStep DEF CommitReset, Steps
<1>12. CASE Interrupt(r)
  BY <1>1, <1>3, <1>12, QuietStep DEF Interrupt, Finish
<1> QED
  BY <1>4, <1>5, <1>6, <1>7, <1>8, <1>9, <1>10, <1>11, <1>12, <1>13

\* Login, refresh and reuse, and the revocation after a reset.
LEMMA SessionSteps ==
  ASSUME AInv, NEW r \in Requests, SessionStep(r) \/ RevokeAllSessions(r)
  PROVE  AInv'
<1>1. /\ account \in Account /\ reqs[r] \in Request /\ Idle \in Request
      /\ tokens \in [Tokens -> {"none", "fresh", "used", "expired"}]
      /\ sessions \in [Sessions -> Session] /\ reuseAudit \subseteq Sessions
      /\ RequestKnows(reqs[r])
  BY IdleIsRequest DEF AInv, TypeOK
<1>2. CASE BeginLogin(r)
  <2>1. PICK pw \in 0..MaxPasswords : pw = account.password
    BY <1>1 DEF Account
  <2> DEFINE q == [Idle EXCEPT !.step = "login", !.password = pw]
  <2>2. q \in Request
    BY <1>1 DEF Request, Steps
  <2>3. RequestKnows(q)'
    BY <1>2 DEF BeginLogin, EmailVerified, RequestKnows, Idle
  <2>4. Keep(r, q) /\ UNCHANGED <<account, tokens, sessions, reuseAudit>>
    BY <1>2, <2>1 DEF BeginLogin
  <2> HIDE DEF q
  <2> QED
    BY <1>1, <2>2, <2>3, <2>4, QuietStep
<1>3. CASE CreateSession(r)
  <2>1. PICK s \in Sessions :
          /\ ~Exists(s)
          /\ sessions' = [sessions EXCEPT ![s] =
               [family |-> s, parent |-> None, password |-> reqs[r].password,
                revoked |-> FALSE, expired |-> FALSE]]
    BY <1>3 DEF CreateSession
  <2> DEFINE row == [family |-> s, parent |-> None, password |-> reqs[r].password,
                     revoked |-> FALSE, expired |-> FALSE]
  <2>2. row \in Session
    BY <1>1 DEF Session, Request
  <2>3. row.family # None /\ \A old \in Sessions : row.parent # old
    BY AuthConstants
  <2>4. account.verified /\ Finish(r) /\ UNCHANGED <<account, tokens, reuseAudit>>
    BY <1>1, <1>3 DEF CreateSession, RequestKnows
  <2>5. sessions' = [sessions EXCEPT ![s] = row]
    BY <2>1
  <2> HIDE DEF row
  <2> QED
    BY <2>1, <2>2, <2>3, <2>4, <2>5, NewRowStep
<1>4. CASE BeginRefresh(r)
  <2>1. PICK s \in Sessions :
          /\ Exists(s)
          /\ Keep(r, [Idle EXCEPT !.step = IF sessions[s].revoked THEN "reuse" ELSE "rotate",
                                  !.session = s])
    BY <1>4 DEF BeginRefresh
  <2>2. PICK st \in {"reuse", "rotate"} :
          st = IF sessions[s].revoked THEN "reuse" ELSE "rotate"
    OBVIOUS
  <2> DEFINE q == [Idle EXCEPT !.step = st, !.session = s]
  <2>3. q \in Request
    BY <1>1 DEF Request, Steps
  <2>4. q.step = st /\ q.session = s
    BY DEF Idle
  <2>5. UNCHANGED <<account, tokens, sessions, reuseAudit>> /\ Keep(r, q)
    BY <1>4, <2>1, <2>2 DEF BeginRefresh
  <2> HIDE DEF q
  <2>6. RequestKnows(q)'
    BY <2>1, <2>4, <2>5 DEF RequestKnows, Exists
  <2> QED
    BY <1>1, <2>3, <2>5, <2>6, QuietStep
<1>5. CASE RevokeOld(r)
  <2>1. PICK known \in Request : known = reqs[r]
    BY <1>1
  <2> DEFINE old == known.session
             q   == [known EXCEPT !.step = "rotated"]
  <2>2. old \in Sessions /\ Exists(old)
    BY <1>1, <1>5, <2>1 DEF RevokeOld, RequestKnows
  <2>3. Revoke({old}) /\ Keep(r, q) /\ UNCHANGED <<account, tokens, reuseAudit>>
    BY <1>5, <2>1 DEF RevokeOld
  <2>4. /\ sessions' \in [Sessions -> Session]
        /\ \A s \in Sessions : RowKept(s)
        /\ sessions'[old].revoked
    BY <2>2, <2>3, RevokeKeeps DEF AInv
  <2>5. q \in Request /\ q.session = old /\ q.step = "rotated"
    BY DEF Request, Steps
  <2> HIDE DEF q, old
  <2>6. Exists(old)'
    BY <2>2, <2>4 DEF RowKept, Exists
  <2>7. TypeOK'
    BY <1>1, <2>3, <2>4, <2>5 DEF AInv, TypeOK, Keep
  <2>8. RequestKnows(q)'
    BY <2>2, <2>4, <2>5, <2>6 DEF RequestKnows, Exists
  <2> QED
    BY <2>3, <2>4, <2>5, <2>7, <2>8, SlotStep
<1>6. CASE CreateRotated(r)
  <2> DEFINE old == reqs[r].session
             row == [family |-> sessions[old].family, parent |-> old,
                     password |-> sessions[old].password,
                     revoked |-> FALSE, expired |-> FALSE]
  <2>1. old \in Sessions /\ Exists(old) /\ sessions[old].revoked
    BY <1>1, <1>6 DEF CreateRotated, RequestKnows
  <2>2. PICK s \in Sessions : ~Exists(s) /\ sessions' = [sessions EXCEPT ![s] = row]
    BY <1>6 DEF CreateRotated
  <2>3. row \in Session
    BY <1>1, <2>1 DEF Session
  <2>4. row.family # None /\ \A t \in Sessions :
          row.parent = t => /\ Exists(t) /\ sessions[t].revoked
                            /\ sessions[t].family = row.family
                            /\ sessions[t].password = row.password
    BY <2>1 DEF Exists
  <2>5. account.verified
    BY <2>1 DEF AInv, SessionsVerified
  <2>6. Finish(r) /\ UNCHANGED <<account, tokens, reuseAudit>>
    BY <1>6 DEF CreateRotated
  <2> HIDE DEF row
  <2> QED
    BY <2>2, <2>3, <2>4, <2>5, <2>6, NewRowStep
<1>7. CASE RevokeFamily(r)
  <2>1. reqs[r].session \in Sessions /\ Exists(reqs[r].session)
    BY <1>1, <1>7 DEF RevokeFamily, RequestKnows
  <2>2. sessions[reqs[r].session].family \in Sessions
    BY <1>1, <2>1 DEF Exists, Session
  <2>3. reuseAudit' \subseteq Sessions
    BY <1>1, <1>7, <2>2 DEF RevokeFamily
  <2> QED
    BY <1>7, <2>3, RevokingStep DEF RevokeFamily
<1>8. CASE RevokeAllSessions(r)
  BY <1>1, <1>8, RevokingStep DEF RevokeAllSessions
<1> QED
  BY <1>2, <1>3, <1>4, <1>5, <1>6, <1>7, <1>8 DEF SessionStep

\* The steps that hold no request: logout, and time passing.
LEMMA EnvironmentSteps ==
  ASSUME AInv, RevokeSession \/ LogoutAll \/ ExpireSession \/ ExpireToken
  PROVE  AInv' /\ \A s \in Sessions : RowKept(s)
<1>1. /\ tokens \in [Tokens -> {"none", "fresh", "used", "expired"}]
      /\ sessions \in [Sessions -> Session]
  BY DEF AInv, TypeOK
<1>2. CASE RevokeSession \/ LogoutAll
  <2>1. PICK S : Revoke(S)
    BY <1>2 DEF RevokeSession, LogoutAll
  <2>2. UNCHANGED <<account, tokens, reuseAudit, reqs>>
    BY <1>2 DEF RevokeSession, LogoutAll
  <2>3. sessions' \in [Sessions -> Session] /\ \A s \in Sessions : RowKept(s)
    BY <2>1, RevokeKeeps DEF AInv
  <2>4. TypeOK'
    BY <2>2, <2>3 DEF AInv, TypeOK
  <2> QED
    BY <2>2, <2>3, <2>4, NoSlotStep
<1>3. CASE ExpireSession
  <2>1. PICK s \in Sessions : Valid(s) /\ sessions' = [sessions EXCEPT ![s].expired = TRUE]
    BY <1>3 DEF ExpireSession
  <2>2. UNCHANGED <<account, tokens, reuseAudit, reqs>>
    BY <1>3 DEF ExpireSession
  <2>3. sessions' \in [Sessions -> Session]
    BY <1>1, <2>1 DEF Session
  <2>4. ASSUME NEW t \in Sessions PROVE RowKept(t)
    <3>1. sessions[t] \in Session
      BY <1>1
    <3> QED
      BY <1>1, <2>1, <3>1 DEF RowKept, Session, Valid
  <2>5. TypeOK'
    BY <2>2, <2>3 DEF AInv, TypeOK
  <2> QED
    BY <2>2, <2>4, <2>5, NoSlotStep
<1>4. CASE ExpireToken
  <2>1. tokens' \in [Tokens -> {"none", "fresh", "used", "expired"}]
        /\ UNCHANGED <<account, sessions, reuseAudit, reqs>>
    BY <1>1, <1>4 DEF ExpireToken
  <2>2. TypeOK' /\ \A s \in Sessions : RowKept(s)
    BY <2>1 DEF AInv, TypeOK, RowKept
  <2> QED
    BY <2>1, <2>2, NoSlotStep
<1> QED
  BY <1>2, <1>3, <1>4

--------------------------------------------------------------------------------
LEMMA Inductive == AInv /\ [Next]_vars => AInv'
<1> SUFFICES ASSUME AInv, [Next]_vars PROVE AInv'
  OBVIOUS
<1>1. CASE RevokeSession \/ LogoutAll \/ ExpireSession \/ ExpireToken
  BY <1>1, EnvironmentSteps
<1>2. ASSUME NEW r \in Requests, AccountStep(r) \/ SessionStep(r) \/ Interrupt(r)
      PROVE  AInv'
  BY <1>2, AccountSteps, SessionSteps DEF AccountStep
<1>3. CASE UNCHANGED vars
  BY <1>3 DEF vars, AInv, TypeOK, SessionsVerified, ExchangedIsRevoked, RequestKnows, Exists
<1> QED
  BY <1>1, <1>2, <1>3 DEF Next

LEMMA Invariance == Spec => []AInv
BY InitAInv, Inductive, PTL DEF Spec

\* Every variable keeps its type.
THEOREM AuthTypesCorrect == Spec => []TypeOK
<1>1. AInv => TypeOK
  BY DEF AInv
<1> QED
  BY <1>1, Invariance, PTL

\* A refresh token that was exchanged is revoked, in the family and on the login
\* of what it was exchanged for, however many refreshes race (rotateSession).
THEOREM ExchangedTokensAreRevoked == Spec => []ExchangedIsRevoked
<1>1. AInv => ExchangedIsRevoked
  BY DEF AInv
<1> QED
  BY <1>1, Invariance, PTL

\* Sessions exist only for an account whose e-mail was confirmed (login).
THEOREM SessionsAreVerified == Spec => []SessionsVerified
<1>1. AInv => SessionsVerified
  BY DEF AInv
<1> QED
  BY <1>1, Invariance, PTL

--------------------------------------------------------------------------------
(* What a step may do to the rows.                                           *)

\* The writes of a request that revoke rows.
LEMMA RevokingRequests ==
  ASSUME AInv, NEW r \in Requests, RevokeOld(r) \/ RevokeFamily(r) \/ RevokeAllSessions(r)
  PROVE  \A s \in Sessions : RowKept(s)
<1>1. PICK S : Revoke(S)
  BY DEF RevokeOld, RevokeFamily, RevokeAllSessions
<1> QED
  BY <1>1, RevokeKeeps DEF AInv

\* The steps of a request that leave auth_sessions alone.
LEMMA QuietRequests ==
  ASSUME NEW r \in Requests, AccountStep(r) \/ SessionStep(r) \/ Interrupt(r)
  PROVE  \/ RevokeOld(r) \/ RevokeFamily(r) \/ RevokeAllSessions(r)
         \/ CreateSession(r) \/ CreateRotated(r)
         \/ UNCHANGED <<sessions, reuseAudit>>
BY DEF AccountStep, SessionStep, Interrupt, Register, CreateUser, RequestVerification,
       ForgotPassword, IssueToken, BeginConfirm, CommitConfirm, BeginSetStatus,
       CommitSetStatus, BeginReset, CommitReset, BeginLogin, BeginRefresh

\* A step keeps every row, or inserts one where there was none.
LEMMA StepKeepsRows ==
  ASSUME AInv, [Next]_vars
  PROVE  \/ \A s \in Sessions : RowKept(s)
         \/ \E s \in Sessions :
              /\ ~Exists(s) /\ Exists(s)' /\ ~sessions'[s].revoked
              /\ \A t \in Sessions \ {s} : sessions'[t] = sessions[t]
<1> DEFINE Inserted == \E s \in Sessions :
                         /\ ~Exists(s) /\ Exists(s)' /\ ~sessions'[s].revoked
                         /\ \A t \in Sessions \ {s} : sessions'[t] = sessions[t]
<1>1. CASE UNCHANGED sessions
  BY <1>1 DEF RowKept
<1>2. CASE RevokeSession \/ LogoutAll \/ ExpireSession \/ ExpireToken
  BY <1>2, EnvironmentSteps
<1>3. ASSUME NEW r \in Requests, CreateSession(r) \/ CreateRotated(r)
      PROVE  Inserted
  <2>1. PICK family, s \in Sessions :
          /\ ~Exists(s) /\ family # None
          /\ \E parent, password :
               sessions' = [sessions EXCEPT ![s] =
                 [family |-> family, parent |-> parent, password |-> password,
                  revoked |-> FALSE, expired |-> FALSE]]
    <3>1. CASE CreateSession(r)
      BY <3>1, AuthConstants DEF CreateSession
    <3>2. CASE CreateRotated(r)
      <4>1. reqs[r].session \in Sessions /\ Exists(reqs[r].session)
        BY <3>2 DEF AInv, RequestKnows, CreateRotated
      <4>2. PICK family \in Sessions : family = sessions[reqs[r].session].family
        BY <4>1 DEF AInv, TypeOK, Session, Exists
      <4> QED
        BY <3>2, <4>2, AuthConstants DEF CreateRotated
    <3> QED
      BY <1>3, <3>1, <3>2
  <2>2. sessions \in [Sessions -> Session]
    BY DEF AInv, TypeOK
  <2>3. Exists(s)' /\ ~sessions'[s].revoked
    BY <2>1, <2>2 DEF Exists
  <2>4. \A t \in Sessions \ {s} : sessions'[t] = sessions[t]
    BY <2>1, <2>2
  <2> QED
    BY <2>1, <2>3, <2>4
<1>4. ASSUME NEW r \in Requests, AccountStep(r) \/ SessionStep(r) \/ Interrupt(r)
      PROVE  Inserted \/ \A s \in Sessions : RowKept(s)
  BY <1>1, <1>3, <1>4, QuietRequests, RevokingRequests
<1>5. CASE UNCHANGED vars
  BY <1>1, <1>5 DEF vars
<1> QED
  BY <1>2, <1>4, <1>5 DEF Next

\* A row that is not there is not revoked.
AbsentIsBlank == \A s \in Sessions : ~Exists(s) => ~sessions[s].revoked

LEMMA StepKeepsBlank ==
  ASSUME AInv, AbsentIsBlank, [Next]_vars
  PROVE  AbsentIsBlank' /\ \A s \in Sessions : sessions[s].revoked => sessions'[s].revoked
<1>1. \/ \A s \in Sessions : RowKept(s)
      \/ \E s \in Sessions :
           /\ ~Exists(s) /\ Exists(s)' /\ ~sessions'[s].revoked
           /\ \A t \in Sessions \ {s} : sessions'[t] = sessions[t]
  BY StepKeepsRows
<1>2. CASE \E s \in Sessions :
             /\ ~Exists(s) /\ Exists(s)' /\ ~sessions'[s].revoked
             /\ \A t \in Sessions \ {s} : sessions'[t] = sessions[t]
  BY <1>2 DEF AbsentIsBlank, Exists
<1>3. CASE \A s \in Sessions : RowKept(s)
  BY <1>3 DEF AbsentIsBlank, Exists, RowKept
<1> QED
  BY <1>1, <1>2, <1>3

\* No step of any handler, login and refresh included, makes a revoked session
\* good again, for any number of overlapping and interrupted requests.
THEOREM RevocationIsFinal == Spec => RevokedStays
<1>1. Init => AbsentIsBlank
  BY DEF Init, AbsentIsBlank, NoRow
<1>2. AInv /\ AbsentIsBlank /\ [Next]_vars => AbsentIsBlank'
  BY StepKeepsBlank
<1>3. AInv /\ AbsentIsBlank /\ [Next]_vars =>
        [\A s \in Sessions : sessions[s].revoked => sessions'[s].revoked]_vars
  BY StepKeepsBlank
<1> QED
  BY <1>1, <1>2, <1>3, Invariance, PTL DEF Spec, RevokedStays
================================================================================
