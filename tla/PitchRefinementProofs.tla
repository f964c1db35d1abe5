-------------------------- MODULE PitchRefinementProofs --------------------------
(***************************************************************************)
(* PitchWorkflow implements its abstract specifications: SubmissionLedger  *)
(* however requests overlap, PitchLifecycle when they do not.              *)
(***************************************************************************)
EXTENDS PitchWorkflowProofs, Sequences, SequenceTheorems

\* Appending is adding one more entry.
LEMMA AppendIsExtension ==
  ASSUME NEW S, NEW s \in Seq(S), NEW t \in Seq(S), NEW x \in S,
         Len(t) = Len(s) + 1, t[Len(s) + 1] = x,
         \A i \in 1..Len(s) : t[i] = s[i]
  PROVE  t = Append(s, x)
<1> DEFINE a == Append(s, x)
<1>1. /\ a \in Seq(S) /\ Len(a) = Len(s) + 1 /\ a[Len(s) + 1] = x
      /\ \A i \in 1..Len(s) : a[i] = s[i]
  BY AppendProperties
<1> HIDE DEF a
<1>2. Len(s) \in Nat
  BY LenProperties
<1>3. \A i \in 1..Len(t) : t[i] = a[i]
  BY <1>1, <1>2
<1>4. t = a
  BY <1>1, <1>3, SeqEqual
<1> QED
  BY <1>4 DEF a

--------------------------------------------------------------------------------
(* The ledger.                                                               *)

Entries == [content : Contents, deck : BOOLEAN]

Entry(v) == [content |-> submissions[v].content, deck |-> submissions[v].deck]

\* The rows as SubmissionLedger sees them.
LedgerRows == [v \in 1..pitch.lastSubmittedVersion |-> Entry(v)]

LedgerGood == /\ pitch.lastSubmittedVersion \in 0..MaxVersion
              /\ \A v \in 1..pitch.lastSubmittedVersion : v \in Submitted /\ Entry(v) \in Entries
              /\ LedgerRows \in Seq(Entries)
              /\ Len(LedgerRows) = pitch.lastSubmittedVersion

LEMMA LedgerIsSequence == IInv => LedgerGood
<1> SUFFICES ASSUME IInv PROVE LedgerGood
  OBVIOUS
<1>1. pitch.lastSubmittedVersion \in 0..MaxVersion
  BY SubmittedPitch DEF IInv
<1>2. \A v \in 1..pitch.lastSubmittedVersion : v \in Submitted /\ submissions[v] \in Submission
  BY <1>1, PitchConstants DEF IInv, TypeOK, LedgerShape, Submitted, Versions
<1>3. \A v \in 1..pitch.lastSubmittedVersion : Entry(v) \in Entries
  BY <1>2 DEF Submission, Entries, Entry
<1>4. LedgerRows \in Seq(Entries) /\ Len(LedgerRows) = pitch.lastSubmittedVersion
  BY <1>1, <1>3, PitchConstants DEF LedgerRows
<1> QED
  BY <1>1, <1>2, <1>3, <1>4 DEF LedgerGood

LEMMA GoodNext == IInv' => LedgerGood'
BY LedgerIsSequence, PTL

\* The verdicts as SubmissionLedger sees them.
VerdictRows == [v \in 1..pitch.lastSubmittedVersion |-> submissions[v].reviewStatus]

VerdictGood == VerdictRows \in Seq(PitchStatus) /\ Len(VerdictRows) = pitch.lastSubmittedVersion

LEMMA VerdictIsSequence == IInv => VerdictGood
<1> SUFFICES ASSUME IInv PROVE VerdictGood
  OBVIOUS
<1>1. pitch.lastSubmittedVersion \in Nat
  BY LedgerIsSequence, PitchConstants DEF LedgerGood
<1>2. \A v \in 1..pitch.lastSubmittedVersion : submissions[v].reviewStatus \in PitchStatus
  BY LedgerIsSequence DEF LedgerGood, IInv, TypeOK, Submitted, Submission
<1> QED
  BY <1>1, <1>2 DEF VerdictGood, VerdictRows

LEMMA VerdictNext == IInv' => VerdictGood'
BY VerdictIsSequence, PTL

\* A step that leaves the ledger's view of the rows as it is.
Quiet == /\ pitch'.status = pitch.status
         /\ pitch'.lastSubmittedVersion = pitch.lastSubmittedVersion
         /\ UNCHANGED submissions

\* The three transactions that are steps of the ledger; every other step is quiet.
LEMMA LedgerWriters ==
  ASSUME IInv, [Next]_vars
  PROVE  \/ Quiet
         \/ \E r \in Requests :
              /\ Found
              /\ \/ CommitSubmit(r) /\ VersionFree(reqs[r].version)
                 \/ CommitTransition(r)
                 \/ CommitWithdraw(r)
<1> USE DEF Quiet
<1>1. pitch \in Pitch
  BY DEF IInv, TypeOK
<1>2. CASE CreatePitch \/ DeckAvailable \/ DeckDeleted \/ UNCHANGED vars
  BY <1>1, <1>2 DEF CreatePitch, DeckAvailable, DeckDeleted, vars, Pitch
<1>3. ASSUME NEW r \in Requests, CommitUpdate(r) \/ CommitDelete(r) \/ CommitSuspend(r)
      PROVE  Quiet
  <2>1. CASE CommitUpdate(r)
    BY <1>1, <2>1 DEF CommitUpdate, Pitch
  <2>2. CASE CommitDelete(r) \/ CommitSuspend(r)
    BY <1>1, <2>2 DEF CommitDelete, CommitSuspend, Pitch
  <2> QED
    BY <1>3, <2>1, <2>2
<1>4. ASSUME NEW r \in Requests, OwnerStep(r) \/ AdminStep(r) \/ SponsorStep(r) \/ Abandon(r)
      PROVE  \/ CommitSubmit(r) \/ CommitTransition(r) \/ CommitWithdraw(r)
             \/ CommitUpdate(r) \/ CommitDelete(r) \/ CommitSuspend(r)
             \/ UNCHANGED Rows
  BY <1>4 DEF OwnerStep, AdminStep, SponsorStep, Abandon, BeginUpdate, BeginDelete,
     BeginResubmit, BeginSubmit, CheckContent, CheckDeck, BeginWithdraw, BeginTransition,
     ReadLatest, BeginSuspend, BeginDiscovery, ReadApproved, AnswerDiscovery
<1>5. ASSUME NEW r \in Requests, CommitSubmit(r), ~(Found /\ VersionFree(reqs[r].version))
      PROVE  Quiet
  BY <1>5 DEF CommitSubmit
<1>6. ASSUME NEW r \in Requests, CommitTransition(r) \/ CommitWithdraw(r), ~Found
      PROVE  Quiet
  BY <1>6 DEF CommitTransition, CommitWithdraw
<1>7. UNCHANGED Rows => Quiet
  BY DEF Rows
<1> QED
  BY <1>2, <1>3, <1>4, <1>5, <1>6, <1>7 DEF Next

\* submit() appends its snapshot, and the entry waits.
LEMMA AppendStep ==
  ASSUME IInv, IInv', NEW r \in Requests, CommitSubmit(r),
         Found, VersionFree(reqs[r].version)
  PROVE  Ledger!Next
<1> DEFINE n == pitch.lastSubmittedVersion
           x == [content |-> submissions'[n + 1].content, deck |-> submissions'[n + 1].deck]
<1>1. /\ pitch'.lastSubmittedVersion = reqs[r].version
      /\ pitch'.status = "SUBMITTED"
      /\ submissions' = [submissions EXCEPT ![reqs[r].version] =
            [content |-> reqs[r].content, deck |-> deckReady, reviewStatus |-> "SUBMITTED"]]
  BY DEF CommitSubmit, IInv, TypeOK, Pitch
<1>2. n \in Nat /\ n + 1 = pitch'.lastSubmittedVersion /\ n + 1 <= MaxVersion
  <2>1. n \in 0..MaxVersion /\ pitch'.lastSubmittedVersion \in 0..MaxVersion
    BY GoodNext, LedgerIsSequence DEF LedgerGood
  <2>2. reqs[r].version \in 1..(n + 1)
    BY DEF IInv, RequestKnows, CommitSubmit
  <2>3. reqs[r].version \notin 1..n
    BY LedgerIsSequence DEF LedgerGood, VersionFree, Submitted
  <2> QED
    BY <1>1, <2>1, <2>2, <2>3, PitchConstants
<1>3. /\ LedgerRows \in Seq(Entries) /\ Len(LedgerRows) = n
      /\ LedgerRows' \in Seq(Entries) /\ Len(LedgerRows') = n + 1
      /\ x \in Entries
  <2>1. /\ LedgerRows' \in Seq(Entries)
        /\ Len(LedgerRows') = pitch'.lastSubmittedVersion
        /\ \A v \in 1..pitch'.lastSubmittedVersion :
              [content |-> submissions'[v].content, deck |-> submissions'[v].deck] \in Entries
    BY GoodNext DEF LedgerGood, Entry
  <2>2. n + 1 \in 1..pitch'.lastSubmittedVersion
    BY <1>2
  <2> QED
    BY <1>2, <2>1, <2>2, LedgerIsSequence DEF LedgerGood
<1>4. n + 1 \in Versions /\ \A v \in 1..n : v \in Versions /\ v # n + 1
  BY <1>2, PitchConstants DEF Versions
<1>5. /\ submissions'[n + 1].reviewStatus = "SUBMITTED"
      /\ \A v \in 1..n : submissions'[v] = submissions[v]
  BY <1>1, <1>2, <1>4 DEF IInv, TypeOK
<1>6. LedgerRows' = Append(LedgerRows, x)
  <2>1. /\ LedgerRows'[n + 1] = x
        /\ \A v \in 1..n : LedgerRows'[v] = LedgerRows[v]
    BY <1>2, <1>5 DEF LedgerRows, Entry
  <2>2. PICK S, s, t, e : S = Entries /\ s = LedgerRows /\ t = LedgerRows' /\ e = x
    OBVIOUS
  <2>3. t = Append(s, e)
    BY <1>3, <2>1, <2>2, AppendIsExtension
  <2> QED
    BY <2>2, <2>3
<1>7. VerdictRows' = Append(VerdictRows, "SUBMITTED")
  <2>1. /\ VerdictRows \in Seq(PitchStatus) /\ Len(VerdictRows) = n
        /\ VerdictRows' \in Seq(PitchStatus) /\ Len(VerdictRows') = n + 1
    BY <1>2, VerdictIsSequence, VerdictNext DEF VerdictGood
  <2>2. /\ VerdictRows'[n + 1] = "SUBMITTED"
        /\ \A v \in 1..n : VerdictRows'[v] = VerdictRows[v]
    BY <1>2, <1>5 DEF VerdictRows
  <2>3. PICK S, s, t, e :
          S = PitchStatus /\ s = VerdictRows /\ t = VerdictRows' /\ e = "SUBMITTED"
    OBVIOUS
  <2>4. e \in S
    BY <2>3 DEF PitchStatus
  <2>5. t = Append(s, e)
    BY <2>1, <2>2, <2>3, <2>4, AppendIsExtension
  <2> QED
    BY <2>3, <2>5
<1>8. /\ Len(LedgerRows) < MaxVersion
      /\ \E e \in Entries : LedgerRows' = Append(LedgerRows, e)
  BY <1>2, <1>3, <1>6, PitchConstants
<1>9. Ledger!Submit
  BY <1>1, <1>7, <1>8 DEF Ledger!Submit, LedgerRows, VerdictRows, Entry, Entries
<1> QED
  BY <1>9 DEF Ledger!Next

\* A decision gives the pitch's new status to an entry of the ledger.
LEMMA DecideStep ==
  ASSUME IInv, NEW r \in Requests, CommitTransition(r), Found
  PROVE  Ledger!Next
<1> DEFINE n == pitch.lastSubmittedVersion
           to == reqs[r].to
           v0 == reqs[r].version
<1>1. /\ submissions' = [v \in Versions |->
            IF v = v0 THEN [submissions[v] EXCEPT !.reviewStatus = to] ELSE submissions[v]]
      /\ pitch' = [pitch EXCEPT !.status = to]
  BY DEF CommitTransition
<1>2. to \in Decisions /\ v0 \in 1..n
  BY DEF IInv, RequestKnows, CommitTransition
<1>3. /\ n \in Nat /\ Len(LedgerRows) = n
      /\ \A v \in 1..n : v \in Versions /\ submissions[v] \in Submission
  BY LedgerIsSequence, PitchConstants DEF LedgerGood, IInv, TypeOK, Submitted
<1> HIDE DEF to, v0
<1>4. pitch'.status = to /\ pitch'.lastSubmittedVersion = n
  BY <1>1 DEF IInv, TypeOK, Pitch
<1>5. ASSUME NEW v \in 1..n
      PROVE  /\ submissions'[v].content = submissions[v].content
             /\ submissions'[v].deck = submissions[v].deck
             /\ submissions'[v].reviewStatus =
                   IF v = v0 THEN to ELSE submissions[v].reviewStatus
  <2>1. submissions'[v] = IF v = v0 THEN [submissions[v] EXCEPT !.reviewStatus = to]
                                   ELSE submissions[v]
    BY <1>1, <1>3
  <2> QED
    BY <1>3, <2>1 DEF Submission
<1>6. LedgerRows' = LedgerRows
  BY <1>4, <1>5 DEF LedgerRows, Entry
<1>7. VerdictRows' = [VerdictRows EXCEPT ![v0] = to]
  BY <1>2, <1>4, <1>5 DEF VerdictRows
<1>8. PICK d \in Decisions : d = to
  BY <1>2
<1>9. Ledger!Decide(d)
  <2>1. v0 \in 1..Len(LedgerRows)
    BY <1>2, <1>3
  <2> QED
    BY <1>4, <1>6, <1>7, <1>8, <2>1 DEF Ledger!Decide, LedgerRows, VerdictRows, Entry
<1> QED
  BY <1>9 DEF Ledger!Next

LEMMA WithdrawIsWithdraw ==
  ASSUME IInv, NEW r \in Requests, CommitWithdraw(r), Found
  PROVE  Ledger!Next
<1>1. /\ pitch'.status = "WITHDRAWN"
      /\ pitch'.lastSubmittedVersion = pitch.lastSubmittedVersion
      /\ UNCHANGED submissions
  BY DEF CommitWithdraw, IInv, TypeOK, Pitch
<1>2. pitch.lastSubmittedVersion >= 1
  BY DEF IInv, RequestKnows, CommitWithdraw
<1>3. LedgerRows # <<>>
  <2>1. Len(LedgerRows) >= 1
    BY <1>2, LedgerIsSequence DEF LedgerGood
  <2> QED
    BY <2>1
<1>4. LedgerRows' = LedgerRows /\ VerdictRows' = VerdictRows
  BY <1>1 DEF LedgerRows, VerdictRows, Entry
<1> QED
  BY <1>1, <1>3, <1>4 DEF Ledger!Next, Ledger!Withdraw, LedgerRows, VerdictRows, Entry

LEMMA LedgerStep == IInv /\ IInv' /\ [Next]_vars => [Ledger!Next]_Ledger!vars
<1> SUFFICES ASSUME IInv, IInv', [Next]_vars PROVE [Ledger!Next]_Ledger!vars
  OBVIOUS
<1>1. CASE Quiet
  BY <1>1 DEF Quiet, Ledger!vars
<1>2. CASE ~Quiet
  BY <1>2, LedgerWriters, AppendStep, DecideStep, WithdrawIsWithdraw
<1> QED
  BY <1>1, <1>2

LEMMA LedgerInit == Init => Ledger!Init
<1> SUFFICES ASSUME Init PROVE Ledger!Init
  OBVIOUS
<1>1. pitch.lastSubmittedVersion = 0 /\ pitch.status = "DRAFT"
  BY DEF Init
<1> QED
  BY <1>1 DEF Ledger!Init

\* However many requests overlap, submitting appends an entry to a ledger nothing
\* rewrites, and every status an administrator gives the pitch is given in the
\* same step to an entry of that ledger.
THEOREM LedgerRefined == Spec => LedgerImplemented
<1> QED
  BY LedgerStep, LedgerInit, Invariance, PTL DEF Spec, LedgerImplemented, Ledger!Spec

--------------------------------------------------------------------------------
(* One request at a time.                                                    *)

Serial == \A r, q \in Requests : r = q

\* What the one request read is still what the rows hold.
StillTrue(q) ==
  /\ q.step = "update" => q.base = pitch.lockVersion /\ pitch.status \in Editable
  /\ q.step \in {"submit", "submitDeck", "submitCommit"} =>
       q.from = pitch.status /\ q.content = pitch.content
  /\ q.step \in {"submitDeck", "submitCommit"} => q.content \in CompleteContents
  /\ q.step \in {"withdraw", "transition", "decide"} => q.from = pitch.status
  /\ q.step = "decide" => q.version = pitch.lastSubmittedVersion
  /\ q.step \in {"discover", "show"} =>
       pitch.status = "APPROVED" /\ q.content = pitch.content
  /\ q.step = "show" => q.version = pitch.lastSubmittedVersion

\* The newest submission follows the pitch until the owner withdraws it.
NewestFollows ==
  pitch.lastSubmittedVersion >= 1 /\ pitch.status # "WITHDRAWN" =>
    submissions[pitch.lastSubmittedVersion].reviewStatus = pitch.status

\* Where the owner cannot edit, the row holds what was submitted last.
ContentFollows ==
  pitch.lastSubmittedVersion >= 1 /\ pitch.status \notin Editable =>
    pitch.content = submissions[pitch.lastSubmittedVersion].content

\* The inductive invariant of a pitch that is worked on by one request at a time.
SerialInv ==
  /\ Serial
  /\ IInv
  /\ \A r \in Requests : StillTrue(reqs[r])
  /\ NewestFollows
  /\ ContentFollows
  /\ SnapshotsComplete

LEMMA SlotStillTrue ==
  ASSUME Serial, TypeOK, NEW r \in Requests, NEW q, Keep(r, q), StillTrue(q), UNCHANGED pitch
  PROVE  \A s \in Requests : StillTrue(reqs[s])'
<1>1. \A s \in Requests : reqs'[s] = q
  BY DEF Serial, TypeOK, Keep
<1> QED
  BY <1>1 DEF StillTrue

LEMMA IdleStillTrue ==
  ASSUME Serial, TypeOK, NEW r \in Requests, Finish(r)
  PROVE  \A s \in Requests : StillTrue(reqs[s])'
<1>1. \A s \in Requests : reqs'[s] = Idle
  BY DEF Serial, TypeOK, Finish, Keep
<1> QED
  BY <1>1 DEF StillTrue, Idle

\* Of an APPROVED pitch the newest submission is the newest approved one.
LEMMA ApprovedIsLast ==
  ASSUME SerialInv, pitch.status = "APPROVED"
  PROVE  /\ NewestApproved = pitch.lastSubmittedVersion
         /\ pitch.lastSubmittedVersion \in Submitted
         /\ submissions[pitch.lastSubmittedVersion].reviewStatus = "APPROVED"
         /\ submissions[pitch.lastSubmittedVersion].content = pitch.content
<1> DEFINE n == pitch.lastSubmittedVersion
<1>1. TypeOK /\ LedgerShape /\ NewestFollows /\ ContentFollows
  BY DEF SerialInv, IInv
<1>2. n \in 0..MaxVersion /\ n >= 1 /\ MaxVersion \in Nat
  BY <1>1, SubmittedPitch, PitchConstants
<1>3. n \in Submitted /\ \A v \in Submitted : v \in 1..n
  BY <1>1, <1>2 DEF LedgerShape, Versions
<1>4. submissions[n].reviewStatus = "APPROVED" /\ submissions[n].content = pitch.content
  BY <1>1, <1>2 DEF NewestFollows, ContentFollows, Editable
<1>5. NewestApproved \in Submitted /\ n <= NewestApproved
  BY <1>1, <1>3, <1>4, NewestApprovedRange
<1> QED
  BY <1>2, <1>3, <1>4, <1>5

\* The reads: nothing is written, and the slot holds what was just read.
LEMMA SerialReads ==
  ASSUME SerialInv, NEW r \in Requests,
         \/ BeginUpdate(r) \/ BeginDelete(r) \/ BeginResubmit(r) \/ BeginSubmit(r)
         \/ CheckContent(r) \/ CheckDeck(r) \/ BeginWithdraw(r)
         \/ BeginTransition(r) \/ ReadLatest(r) \/ BeginSuspend(r) \/ Abandon(r)
         \/ SponsorStep(r)
  PROVE  UNCHANGED Rows /\ \A s \in Requests : StillTrue(reqs[s])'
<1> USE DEF Rows
<1>1. Serial /\ TypeOK /\ LedgerShape /\ reqs[r] \in Request /\ RequestKnows(reqs[r])
      /\ StillTrue(reqs[r])
  BY DEF SerialInv, IInv, TypeOK
<1>2. Finish(r) /\ UNCHANGED Rows => \A s \in Requests : StillTrue(reqs[s])'
  BY <1>1, IdleStillTrue
<1>3. CASE BeginUpdate(r)
  <2>1. PICK base \in 0..pitch.lockVersion, c \in Contents :
          /\ base = pitch.lockVersion
          /\ Keep(r, [step |-> "update", from |-> "DRAFT", to |-> "DRAFT",
                      content |-> c, version |-> 0, base |-> base])
    BY <1>3 DEF BeginUpdate, LockVersionMatches
  <2>2. StillTrue([step |-> "update", from |-> "DRAFT", to |-> "DRAFT",
                   content |-> c, version |-> 0, base |-> base])
    BY <1>3, <2>1 DEF StillTrue, BeginUpdate
  <2> QED
    BY <1>1, <1>3, <2>1, <2>2, SlotStillTrue DEF BeginUpdate
<1>4. CASE BeginDelete(r) \/ BeginResubmit(r) \/ BeginSuspend(r)
  <2>1. PICK st \in {"delete", "resubmit", "suspend"} :
          Keep(r, [Idle EXCEPT !.step = st]) /\ UNCHANGED Rows
    BY <1>4 DEF BeginDelete, BeginResubmit, BeginSuspend
  <2>2. StillTrue([Idle EXCEPT !.step = st])
    BY DEF StillTrue, Idle
  <2> QED
    BY <1>1, <2>1, <2>2, SlotStillTrue
<1>5. CASE BeginSubmit(r)
  <2>1. StillTrue([step |-> "submit", from |-> pitch.status, to |-> "SUBMITTED",
                   content |-> pitch.content, version |-> nextVersion, base |-> 0])
    BY DEF StillTrue
  <2> QED
    BY <1>1, <1>5, <2>1, SlotStillTrue DEF BeginSubmit
<1>6. CASE CheckContent(r)
  <2> DEFINE q == [reqs[r] EXCEPT !.step = "submitDeck"]
  <2>1. reqs[r].step = "submit" /\ UNCHANGED Rows
        /\ (Finish(r) \/ (NoBlockingIssues(pitch.content) /\ Keep(r, q)))
    BY <1>6 DEF CheckContent
  <2>2. NoBlockingIssues(pitch.content) => StillTrue(q)
    BY <1>1, <2>1 DEF StillTrue, Request, NoBlockingIssues
  <2> QED
    BY <1>1, <1>2, <2>1, <2>2, SlotStillTrue
<1>7. CASE CheckDeck(r)
  <2> DEFINE q == [reqs[r] EXCEPT !.step = "submitCommit"]
  <2>1. reqs[r].step = "submitDeck" /\ UNCHANGED Rows /\ (Finish(r) \/ Keep(r, q))
    BY <1>7 DEF CheckDeck
  <2>2. StillTrue(q)
    BY <1>1, <2>1 DEF StillTrue, Request
  <2> QED
    BY <1>1, <1>2, <2>1, <2>2, SlotStillTrue
<1>8. CASE BeginWithdraw(r)
  <2>1. StillTrue([Idle EXCEPT !.step = "withdraw", !.from = pitch.status])
    BY DEF StillTrue, Idle
  <2> QED
    BY <1>1, <1>8, <2>1, SlotStillTrue DEF BeginWithdraw
<1>9. CASE BeginTransition(r)
  <2>1. PICK to \in Decisions :
          Keep(r, [Idle EXCEPT !.step = "transition", !.from = pitch.status, !.to = to])
    BY <1>9 DEF BeginTransition
  <2>2. StillTrue([Idle EXCEPT !.step = "transition", !.from = pitch.status, !.to = to])
    BY DEF StillTrue, Idle
  <2> QED
    BY <1>1, <1>9, <2>1, <2>2, SlotStillTrue DEF BeginTransition
<1>10. CASE ReadLatest(r)
  <2> DEFINE q == [reqs[r] EXCEPT !.step = "decide", !.version = LatestVersion]
  <2>1. reqs[r].step = "transition" /\ UNCHANGED Rows /\ (Finish(r) \/ Keep(r, q))
    BY <1>10 DEF ReadLatest
  <2>2. LatestVersion = pitch.lastSubmittedVersion
    BY <1>1, <2>1, LatestIsLast DEF RequestKnows
  <2>3. StillTrue(q)
    BY <1>1, <2>1, <2>2 DEF StillTrue, Request
  <2> QED
    BY <1>1, <1>2, <2>1, <2>3, SlotStillTrue
<1>11. CASE Abandon(r) \/ AnswerDiscovery(r)
  BY <1>2, <1>11 DEF Abandon, AnswerDiscovery
<1>12. CASE BeginDiscovery(r)
  <2>1. StillTrue([Idle EXCEPT !.step = "discover", !.content = pitch.content])
    BY <1>12 DEF StillTrue, Idle, BeginDiscovery
  <2> QED
    BY <1>1, <1>12, <2>1, SlotStillTrue DEF BeginDiscovery
<1>13. CASE ReadApproved(r)
  <2> DEFINE q == [reqs[r] EXCEPT !.step = "show", !.version = NewestApproved]
  <2>1. reqs[r].step = "discover" /\ UNCHANGED Rows /\ Keep(r, q)
    BY <1>13 DEF ReadApproved
  <2>2. pitch.status = "APPROVED" /\ reqs[r].content = pitch.content
    BY <1>1, <2>1 DEF StillTrue
  <2>3. NewestApproved = pitch.lastSubmittedVersion
    BY <2>2, ApprovedIsLast
  <2>4. StillTrue(q)
    BY <1>1, <2>2, <2>3 DEF StillTrue, Request
  <2> QED
    BY <1>1, <2>1, <2>4, SlotStillTrue
<1> QED
  BY <1>3, <1>4, <1>5, <1>6, <1>7, <1>8, <1>9, <1>10, <1>11, <1>12, <1>13
     DEF BeginUpdate, BeginDelete, BeginResubmit, BeginSubmit, CheckContent, CheckDeck,
     BeginWithdraw, BeginTransition, ReadLatest, BeginSuspend, Abandon, SponsorStep,
     BeginDiscovery, ReadApproved, AnswerDiscovery

\* What one step does to the status, the fields and the submissions.
Rests ==
  /\ pitch'.status = pitch.status
  /\ pitch'.lastSubmittedVersion = pitch.lastSubmittedVersion
  /\ UNCHANGED submissions
  /\ \/ pitch'.content = pitch.content
     \/ pitch.status \in Editable
     \/ pitch.lastSubmittedVersion = 0

Submits ==
  /\ canTransitionPitch(pitch.status, "SUBMITTED")
  /\ pitch'.status = "SUBMITTED"
  /\ submissions'[pitch'.lastSubmittedVersion].reviewStatus = "SUBMITTED"
  /\ submissions'[pitch'.lastSubmittedVersion].content \in CompleteContents
  /\ submissions'[pitch'.lastSubmittedVersion].content = pitch'.content
  /\ \A v \in Versions : v # pitch'.lastSubmittedVersion => submissions'[v] = submissions[v]

Withdraws ==
  /\ canTransitionPitch(pitch.status, "WITHDRAWN")
  /\ pitch'.status = "WITHDRAWN"
  /\ pitch'.lastSubmittedVersion = pitch.lastSubmittedVersion
  /\ pitch'.content = pitch.content
  /\ UNCHANGED submissions

Decides(to) ==
  /\ canTransitionPitch(pitch.status, to)
  /\ pitch'.status = to
  /\ pitch'.lastSubmittedVersion = pitch.lastSubmittedVersion
  /\ pitch'.content = pitch.content
  /\ submissions'[pitch.lastSubmittedVersion].reviewStatus = to
  /\ \A v \in Versions : v # pitch.lastSubmittedVersion => submissions'[v] = submissions[v]

LEMMA SubmitKind ==
  ASSUME SerialInv, NEW r \in Requests, CommitSubmit(r)
  PROVE  Rests \/ (pitch'.lastSubmittedVersion >= 1 /\ Submits)
<1> DEFINE v0 == reqs[r].version
           row == [content |-> reqs[r].content, deck |-> deckReady,
                   reviewStatus |-> "SUBMITTED"]
           lock == pitch.lockVersion + 1
<1>1. /\ pitch \in Pitch /\ RequestKnows(reqs[r]) /\ StillTrue(reqs[r])
      /\ reqs[r].step = "submitCommit" /\ reqs[r] \in Request
      /\ submissions \in [Versions -> Submission \union {NoSubmission}]
  BY DEF SerialInv, IInv, TypeOK, CommitSubmit
<1>2. CASE Found /\ VersionFree(v0)
  <2> HIDE DEF lock, row, v0
  <2>1. /\ submissions' = [submissions EXCEPT ![v0] = row]
        /\ pitch' = [pitch EXCEPT !.status = "SUBMITTED", !.lastSubmittedVersion = v0,
                                  !.lockVersion = lock]
    BY <1>2 DEF CommitSubmit, lock, row, v0
  <2>2. v0 \in Versions /\ v0 >= 1
    BY <1>1, PitchConstants DEF RequestKnows, Request, Versions, v0
  <2>3. /\ pitch'.status = "SUBMITTED" /\ pitch'.lastSubmittedVersion = v0
        /\ pitch'.content = pitch.content
    BY <1>1, <2>1 DEF Pitch
  <2>4. submissions'[v0] = row /\ \A v \in Versions : v # v0 => submissions'[v] = submissions[v]
    BY <1>1, <2>1, <2>2
  <2>5. /\ row.content \in CompleteContents /\ row.reviewStatus = "SUBMITTED"
        /\ row.content = pitch.content
    BY <1>1 DEF StillTrue, row
  <2>6. canTransitionPitch(pitch.status, "SUBMITTED")
    BY <1>1 DEF RequestKnows, StillTrue
  <2> QED
    BY <2>2, <2>3, <2>4, <2>5, <2>6 DEF Submits
<1>3. CASE ~(Found /\ VersionFree(v0))
  BY <1>3 DEF CommitSubmit, Rests
<1> QED
  BY <1>2, <1>3

LEMMA WithdrawKind ==
  ASSUME SerialInv, NEW r \in Requests, CommitWithdraw(r)
  PROVE  Rests \/ Withdraws
<1>1. pitch \in Pitch /\ RequestKnows(reqs[r]) /\ StillTrue(reqs[r])
      /\ reqs[r].step = "withdraw"
  BY DEF SerialInv, IInv, TypeOK, CommitWithdraw
<1>2. canTransitionPitch(pitch.status, "WITHDRAWN")
  BY <1>1 DEF RequestKnows, StillTrue
<1> QED
  BY <1>1, <1>2 DEF CommitWithdraw, Rests, Withdraws, Pitch

LEMMA TransitionKind ==
  ASSUME SerialInv, NEW r \in Requests, CommitTransition(r)
  PROVE  Rests \/ \E to \in Decisions : Decides(to)
<1> DEFINE to == reqs[r].to
           v0 == reqs[r].version
<1>1. /\ pitch \in Pitch /\ RequestKnows(reqs[r]) /\ StillTrue(reqs[r])
      /\ reqs[r].step = "decide" /\ LedgerShape
      /\ pitch.lastSubmittedVersion \in 0..MaxVersion
      /\ submissions \in [Versions -> Submission \union {NoSubmission}]
  BY SubmittedPitch DEF SerialInv, IInv, TypeOK, CommitTransition
<1>2. CASE Found
  <2> HIDE DEF to, v0
  <2>1. /\ submissions' = [v \in Versions |->
              IF v = v0 THEN [submissions[v] EXCEPT !.reviewStatus = to] ELSE submissions[v]]
        /\ pitch' = [pitch EXCEPT !.status = to]
    BY <1>2 DEF CommitTransition, to, v0
  <2>2. /\ to \in Decisions /\ canTransitionPitch(pitch.status, to)
        /\ pitch.lastSubmittedVersion >= 1 /\ v0 = pitch.lastSubmittedVersion
    BY <1>1 DEF RequestKnows, StillTrue, to, v0
  <2>3. v0 \in Versions /\ submissions[v0] \in Submission
    BY <1>1, <2>2, PitchConstants DEF LedgerShape, Submitted, Versions
  <2>4. submissions'[v0] = [submissions[v0] EXCEPT !.reviewStatus = to]
        /\ \A v \in Versions : v # v0 => submissions'[v] = submissions[v]
    BY <2>1, <2>3
  <2>5. submissions'[v0].reviewStatus = to
    BY <2>3, <2>4 DEF Submission
  <2>6. /\ pitch'.status = to /\ pitch'.lastSubmittedVersion = pitch.lastSubmittedVersion
        /\ pitch'.content = pitch.content
    BY <1>1, <2>1 DEF Pitch
  <2>7. Decides(to)
    BY <2>2, <2>4, <2>5, <2>6 DEF Decides
  <2> QED
    BY <2>2, <2>7
<1>3. CASE ~Found
  BY <1>3 DEF CommitTransition, Rests
<1> QED
  BY <1>2, <1>3

\* Every step does one of these, and what the requests read stays true.
Kinds == \/ Rests
         \/ pitch'.lastSubmittedVersion >= 1 /\ Submits
         \/ Withdraws
         \/ \E to \in Decisions : Decides(to)

LEMMA StepKinds ==
  ASSUME SerialInv, [Next]_vars
  PROVE  Kinds /\ \A s \in Requests : StillTrue(reqs[s])'
<1>1. CASE CreatePitch
  <2>1. PICK c : pitch' = [pitch EXCEPT !.phase = "live", !.content = c]
    BY <1>1 DEF CreatePitch
  <2>2. /\ pitch \in Pitch /\ UNCHANGED <<submissions, reqs>>
        /\ \A s \in Requests : reqs[s] = Idle
        /\ ~Found /\ TypeOK /\ LedgerShape
    BY <1>1 DEF CreatePitch, SerialInv, IInv, TypeOK, FieldsPresent, Found
  <2>3. pitch.lastSubmittedVersion = 0
    BY <2>2, SubmittedPitch
  <2> QED
    BY <2>1, <2>2, <2>3 DEF Kinds, Rests, Pitch, StillTrue, Idle
<1>2. CASE DeckAvailable \/ DeckDeleted \/ UNCHANGED vars
  BY <1>2 DEF DeckAvailable, DeckDeleted, vars, Kinds, Rests, SerialInv, StillTrue
<1>3. ASSUME NEW r \in Requests,
             \/ CommitUpdate(r) \/ CommitDelete(r) \/ CommitSuspend(r)
             \/ CommitSubmit(r) \/ CommitWithdraw(r) \/ CommitTransition(r)
      PROVE  Kinds /\ \A s \in Requests : StillTrue(reqs[s])'
  <2>1. Serial /\ TypeOK /\ pitch \in Pitch
    BY DEF SerialInv, IInv, TypeOK
  <2>2. Finish(r)
    BY <1>3 DEF CommitUpdate, CommitDelete, CommitSuspend, CommitSubmit,
       CommitWithdraw, CommitTransition
  <2>3. CommitUpdate(r) => Rests
    BY <2>1 DEF CommitUpdate, Rests, Pitch, SerialInv, StillTrue
  <2>4. CommitDelete(r) \/ CommitSuspend(r) => Rests
    BY <2>1 DEF CommitDelete, CommitSuspend, Rests, Pitch
  <2>5. CommitSubmit(r) \/ CommitWithdraw(r) \/ CommitTransition(r) => Kinds
    BY SubmitKind, WithdrawKind, TransitionKind DEF Kinds
  <2> QED
    BY <1>3, <2>1, <2>2, <2>3, <2>4, <2>5, IdleStillTrue DEF Kinds
<1>4. ASSUME NEW r \in Requests,
             \/ BeginUpdate(r) \/ BeginDelete(r) \/ BeginResubmit(r) \/ BeginSubmit(r)
             \/ CheckContent(r) \/ CheckDeck(r) \/ BeginWithdraw(r)
             \/ BeginTransition(r) \/ ReadLatest(r) \/ BeginSuspend(r) \/ Abandon(r)
             \/ SponsorStep(r)
      PROVE  Kinds /\ \A s \in Requests : StillTrue(reqs[s])'
  BY <1>4, SerialReads DEF Rows, Kinds, Rests
<1> QED
  BY <1>1, <1>2, <1>3, <1>4 DEF Next, OwnerStep, AdminStep, SponsorStep

LEMMA SerialInductive == SerialInv /\ [Next]_vars => SerialInv'
<1> SUFFICES ASSUME SerialInv, [Next]_vars PROVE SerialInv'
  OBVIOUS
<1>1. IInv /\ IInv' /\ Serial'
  BY Inductive DEF SerialInv, Serial
<1>2. /\ Kinds /\ NewestFollows /\ ContentFollows /\ SnapshotsComplete
      /\ \A s \in Requests : StillTrue(reqs[s])'
  BY StepKinds DEF SerialInv
<1>3. /\ pitch.lastSubmittedVersion \in 0..MaxVersion
      /\ submissions \in [Versions -> Submission \union {NoSubmission}]
      /\ \A v \in Submitted' : v \in Versions /\ submissions'[v] # NoSubmission
  BY <1>1, SubmittedPitch DEF IInv, TypeOK, Submitted
<1>4. CASE Rests
  <2>1. NewestFollows' /\ SnapshotsComplete'
    BY <1>2, <1>4 DEF Rests, NewestFollows, SnapshotsComplete, Submitted
  <2>2. ContentFollows'
    BY <1>2, <1>3, <1>4 DEF Rests, ContentFollows
  <2> QED
    BY <1>1, <1>2, <2>1, <2>2 DEF SerialInv
<1>5. CASE Submits
  <2>1. NewestFollows' /\ ContentFollows'
    BY <1>5 DEF Submits, NewestFollows, ContentFollows
  <2>2. SnapshotsComplete'
    BY <1>2, <1>3, <1>5 DEF Submits, SnapshotsComplete, Submitted
  <2> QED
    BY <1>1, <1>2, <2>1, <2>2 DEF SerialInv
<1>6. CASE Withdraws
  <2>1. NewestFollows' /\ SnapshotsComplete'
    BY <1>2, <1>6 DEF Withdraws, NewestFollows, SnapshotsComplete, Submitted
  <2>2. pitch.status \in PitchStatus /\ pitch.status \notin Editable
    <3>1. pitch.status \in PitchStatus
      BY <1>1 DEF IInv, TypeOK, Pitch
    <3> QED
      BY <1>6, <3>1, TransitionSources DEF Withdraws, Editable
  <2>3. ContentFollows'
    BY <1>2, <1>6, <2>2 DEF Withdraws, ContentFollows
  <2> QED
    BY <1>1, <1>2, <2>1, <2>3 DEF SerialInv
<1>7. CASE \E to \in Decisions : Decides(to)
  <2>1. PICK to \in Decisions : Decides(to)
    BY <1>7
  <2>2. NewestFollows'
    BY <2>1 DEF Decides, NewestFollows
  <2>3. \A v \in Submitted : Preserved(v)
    BY <1>1, StepKeepsRows
  <2>4. Submitted' = Submitted
    BY <1>1, <2>1 DEF IInv, LedgerShape, Decides
  <2>5. SnapshotsComplete'
    BY <1>2, <2>3, <2>4 DEF SnapshotsComplete, Preserved
  <2>6. pitch.status \in PitchStatus /\ pitch.status \notin Editable
    <3>1. pitch.status \in PitchStatus
      BY <1>1 DEF IInv, TypeOK, Pitch
    <3> QED
      BY <2>1, <3>1, TransitionSources DEF Decides, Editable
  <2>7. ContentFollows'
    <3>1. pitch.lastSubmittedVersion >= 1 =>
            submissions'[pitch.lastSubmittedVersion].content =
              submissions[pitch.lastSubmittedVersion].content
      BY <1>1, <1>3, <2>3, PitchConstants DEF IInv, LedgerShape, Versions, Preserved
    <3> QED
      BY <1>2, <2>1, <2>6, <3>1 DEF Decides, ContentFollows
  <2> QED
    BY <1>1, <1>2, <2>2, <2>5, <2>7 DEF SerialInv
<1> QED
  BY <1>2, <1>4, <1>5, <1>6, <1>7 DEF Kinds

LEMMA SerialInvariance == Serial /\ Spec => []SerialInv
<1>1. Serial /\ Init => SerialInv
  <2> SUFFICES ASSUME Serial, Init PROVE SerialInv
    OBVIOUS
  <2>1. IInv
    BY InitIInv
  <2>2. Submitted = {} /\ pitch.lastSubmittedVersion = 0
    BY DEF Init, Submitted
  <2>3. \A r \in Requests : StillTrue(reqs[r])
    BY DEF Init, StillTrue, Idle
  <2> QED
    BY <2>1, <2>2, <2>3 DEF SerialInv, NewestFollows, ContentFollows, SnapshotsComplete
<1> QED
  BY <1>1, SerialInductive, PTL DEF Spec

\* With one request at a time, what is submitted is what the completeness check
\* passed, although submit() takes the snapshot and the check reads the row again.
THEOREM SnapshotsAreComplete == Serial /\ Spec => []SnapshotsComplete
<1>1. SerialInv => SnapshotsComplete
  BY DEF SerialInv
<1> QED
  BY <1>1, SerialInvariance, PTL

\* With one request at a time the client's lockVersion is still the row's when
\* update() writes, for any number of edits.
THEOREM EditsAreBased == Serial /\ Spec => NoLostUpdate
<1>1. SerialInv =>
        [\A r \in Requests :
           reqs[r].step = "update" /\ pitch' # pitch /\ reqs'[r] = Idle =>
             reqs[r].base = pitch.lockVersion]_vars
  BY DEF SerialInv, StillTrue
<1> QED
  BY <1>1, SerialInvariance, PTL DEF NoLostUpdate

\* With one request at a time, what discovery takes from the row beside the
\* approved snapshot is what was approved, over any number of rounds.
THEOREM ShownIsApproved == Serial /\ Spec => []ShownAsApproved
<1>1. SerialInv => ShownAsApproved
  BY ApprovedIsLast DEF SerialInv, StillTrue, ShownAsApproved
<1> QED
  BY <1>1, SerialInvariance, PTL

--------------------------------------------------------------------------------
(* The life cycle.                                                           *)

\* PitchLifecycle's view of the newest submission.
Newest == IF pitch.lastSubmittedVersion = 0
            THEN "NONE" ELSE submissions[pitch.lastSubmittedVersion].reviewStatus

NewestMapped ==
  Newest = IF LatestVersion = 0 THEN "NONE" ELSE submissions[LatestVersion].reviewStatus

LEMMA NewestIsMapped == IInv => NewestMapped
<1> SUFFICES ASSUME IInv PROVE NewestMapped
  OBVIOUS
<1>1. pitch.lastSubmittedVersion \in 0..MaxVersion /\ TypeOK /\ LedgerShape
  BY SubmittedPitch DEF IInv
<1>2. CASE pitch.lastSubmittedVersion = 0
  <2>1. Submitted = {}
    BY <1>1, <1>2 DEF LedgerShape, Versions
  <2> QED
    BY <1>2, <2>1 DEF NewestMapped, Newest, LatestVersion
<1>3. CASE pitch.lastSubmittedVersion # 0
  <2>1. pitch.lastSubmittedVersion >= 1
    BY <1>1, <1>3, PitchConstants
  <2> QED
    BY <1>1, <1>3, <2>1, LatestIsLast DEF NewestMapped, Newest
<1> QED
  BY <1>2, <1>3

LEMMA MappedNext == IInv' => NewestMapped'
BY NewestIsMapped, PTL

\* Both modules take their table from PitchDomain.
LEMMA SameTable ==
  /\ Lifecycle!Decisions = Decisions
  /\ \A from, to : Lifecycle!canTransitionPitch(from, to) <=> canTransitionPitch(from, to)
BY DEF Lifecycle!Decisions, Decisions, Lifecycle!canTransitionPitch, canTransitionPitch,
       Lifecycle!PITCH_TRANSITIONS, PITCH_TRANSITIONS, Lifecycle!PitchStatus, PitchStatus

LEMMA LifecycleStep ==
  SerialInv /\ IInv' /\ [Next]_vars => [Lifecycle!Next]_Lifecycle!vars
<1> SUFFICES ASSUME SerialInv, IInv', [Next]_vars PROVE [Lifecycle!Next]_Lifecycle!vars
  OBVIOUS
<1> USE DEF Lifecycle!Next, Lifecycle!vars
<1>1. Kinds /\ NewestMapped /\ NewestMapped'
  BY StepKinds, NewestIsMapped, MappedNext DEF SerialInv
<1>2. pitch.status \in PitchStatus /\ pitch.lastSubmittedVersion \in 0..MaxVersion
  BY SubmittedPitch DEF SerialInv, IInv, TypeOK, Pitch
<1>3. CASE Rests
  <2>1. Newest' = Newest
    BY <1>3 DEF Rests, Newest
  <2> QED
    BY <1>1, <1>3, <2>1 DEF Rests, NewestMapped
<1>4. CASE pitch'.lastSubmittedVersion >= 1 /\ Submits
  <2>1. Newest' = "SUBMITTED"
    BY <1>4 DEF Submits, Newest
  <2> QED
    BY <1>1, <1>4, <2>1, SameTable DEF Submits, NewestMapped, Lifecycle!Submit
<1>5. CASE Withdraws
  <2>1. Newest' = Newest
    BY <1>5 DEF Withdraws, Newest
  <2> QED
    BY <1>1, <1>5, <2>1, SameTable DEF Withdraws, NewestMapped, Lifecycle!Withdraw
<1>6. ASSUME NEW to \in Decisions, Decides(to)
      PROVE  Lifecycle!Next
  <2>1. pitch.status \in {"SUBMITTED", "UNDER_REVIEW"}
    BY <1>2, <1>6, TransitionSources DEF Decides
  <2>2. pitch.lastSubmittedVersion >= 1
    BY <2>1, SubmittedPitch DEF SerialInv, IInv
  <2>3. Newest = pitch.status
    BY <2>1, <2>2 DEF SerialInv, NewestFollows, Newest
  <2>4. Newest' = to
    BY <1>6, <2>2 DEF Decides, Newest
  <2>5. Lifecycle!Decide(to)
    BY <1>1, <1>6, <2>3, <2>4, SameTable DEF Decides, NewestMapped, Lifecycle!Decide
  <2> QED
    BY <2>5, SameTable
<1> QED
  BY <1>1, <1>3, <1>4, <1>5, <1>6 DEF Kinds

\* With one request at a time a pitch only moves along the contract's table, and
\* a decision falls on the submission that carries the pitch's own status.
THEOREM LifecycleRefined == Serial /\ Spec => LifecycleImplemented
<1>1. Init => Lifecycle!Init
  <2> SUFFICES ASSUME Init PROVE Lifecycle!Init
    OBVIOUS
  <2>1. Newest = "NONE" /\ pitch.status = "DRAFT"
    BY DEF Init, Newest
  <2>2. NewestMapped
    BY InitIInv, NewestIsMapped
  <2> QED
    BY <2>1, <2>2 DEF NewestMapped, Lifecycle!Init
<1>2. SerialInv => IInv
  BY DEF SerialInv
<1> QED
  BY <1>1, <1>2, LifecycleStep, SerialInvariance, PTL
     DEF Spec, LifecycleImplemented, Lifecycle!Spec
================================================================================
