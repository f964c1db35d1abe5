-------------------------- MODULE PitchWorkflowProofs --------------------------
(***************************************************************************)
(* Theorems about PitchWorkflow, for any number of overlapping requests    *)
(* and any bounds.                                                         *)
(***************************************************************************)
EXTENDS PitchWorkflow, TLAPS, WellFoundedInduction

\* A live pitch has fields; the fields a request carries are those of a row.
FieldsPresent ==
  /\ pitch.phase = "live" => pitch.content \in Contents
  /\ pitch.phase = "none" => \A r \in Requests : reqs[r] = Idle

\* What a request in flight still knows to be true, although the rows it read
\* have moved on: its checks were made on values that passed them, and its
\* version is at most one ahead of the ledger.
RequestKnows(q) ==
  /\ q.step = "update" => q.content \in Contents
  /\ q.step \in {"submit", "submitDeck", "submitCommit"} =>
       /\ q.content \in Contents
       /\ q.version \in 1..(pitch.lastSubmittedVersion + 1)
       /\ canTransitionPitch(q.from, "SUBMITTED")
  /\ q.step = "withdraw" =>
       /\ canTransitionPitch(q.from, "WITHDRAWN")
       /\ pitch.lastSubmittedVersion >= 1
  /\ q.step \in {"transition", "decide"} =>
       /\ q.to \in Decisions
       /\ canTransitionPitch(q.from, q.to)
       /\ pitch.lastSubmittedVersion >= 1
  /\ q.step = "decide" => q.version \in 1..pitch.lastSubmittedVersion

\* The inductive invariant.
IInv ==
  /\ TypeOK
  /\ FieldsPresent
  /\ LedgerShape
  /\ \A r \in Requests : RequestKnows(reqs[r])
  /\ DecisionBacked
  /\ TrailLegal

--------------------------------------------------------------------------------
LEMMA IdleIsRequest == Idle \in Request /\ RequestKnows(Idle)
BY PitchConstants DEF Idle, Request, Steps, PitchStatus, RequestKnows

\* An absent submission is not the value of any row.
LEMMA RowIsNotAbsent == \A s \in Submission : s # NoSubmission
BY PitchConstants DEF Submission, NoSubmission

\* ORDER BY version DESC finds the version lastSubmittedVersion names.
LEMMA LatestIsLast ==
  ASSUME TypeOK, LedgerShape, pitch.lastSubmittedVersion >= 1
  PROVE  LatestVersion = pitch.lastSubmittedVersion
<1> DEFINE n == pitch.lastSubmittedVersion
<1>1. n \in Nat /\ n <= MaxVersion /\ MaxVersion \in Nat
  BY PitchConstants DEF TypeOK, Pitch, LedgerShape
<1>2. n \in Submitted /\ \A w \in Submitted : w <= n
  BY <1>1 DEF LedgerShape, Versions
<1>3. \A v \in Submitted : (\A w \in Submitted : w <= v) => v = n
  BY <1>1, <1>2 DEF Submitted, Versions
<1> QED
  BY <1>2, <1>3 DEF LatestVersion

\* A set of naturals with a bound has a largest element.
LEMMA MaximumExists ==
  ASSUME NEW n \in Nat, NEW T, T \subseteq 0..n, T # {}
  PROVE  \E v \in T : \A w \in T : w <= v
<1> DEFINE less == {d \in 0..n : n - d \in T}
           R == {ss \in Nat \X Nat : ss[1] < ss[2]}
<1>1. less \subseteq Nat /\ less # {}
  <2>1. PICK v : v \in T
    OBVIOUS
  <2>2. v \in 0..n
    BY <2>1
  <2>3. n - v \in 0..n /\ n - (n - v) = v
    BY <2>2
  <2>4. n - v \in less
    BY <2>1, <2>3
  <2>5. less \subseteq Nat
    OBVIOUS
  <2> QED
    BY <2>4, <2>5
<1>2. IsWellFoundedOn(R, Nat)
  BY NatLessThanWellFounded DEF OpToRel
<1>3. \A d, e \in Nat : e < d => <<e, d>> \in R
  OBVIOUS
<1> HIDE DEF R
<1>4. PICK d \in less : \A e \in less : <<e, d>> \notin R
  <2> HIDE DEF less
  <2> QED
    BY <1>1, <1>2, WFMin
<1>5. \A e \in less : d <= e
  <2> SUFFICES ASSUME NEW e \in less, ~(d <= e) PROVE FALSE
    OBVIOUS
  <2>1. d \in Nat /\ e \in Nat /\ e < d
    OBVIOUS
  <2>2. <<e, d>> \in R
    BY <2>1, <1>3
  <2> QED
    BY <2>2, <1>4
<1>6. n - d \in T
  OBVIOUS
<1>7. ASSUME NEW w \in T PROVE w <= n - d
  <2>1. n - w \in less
    OBVIOUS
  <2> QED
    BY <2>1, <1>5
<1> QED
  BY <1>6, <1>7

\* The newest approved submission is one of them; 0 stands for none.
LEMMA NewestApprovedRange ==
  ASSUME TypeOK, LedgerShape
  PROVE  /\ NewestApproved \in 0..MaxVersion
         /\ (\E v \in Submitted : submissions[v].reviewStatus = "APPROVED") =>
              /\ NewestApproved \in Submitted
              /\ submissions[NewestApproved].reviewStatus = "APPROVED"
              /\ \A w \in Submitted :
                   submissions[w].reviewStatus = "APPROVED" => w <= NewestApproved
<1> DEFINE approved == {v \in Submitted : submissions[v].reviewStatus = "APPROVED"}
<1>1. MaxVersion \in Nat /\ approved \subseteq 0..MaxVersion
  BY PitchConstants DEF Submitted, Versions
<1>2. CASE approved = {}
  BY <1>1, <1>2 DEF NewestApproved
<1>3. CASE approved # {}
  <2>1. NewestApproved = CHOOSE v \in approved : \A w \in approved : w <= v
    BY <1>3 DEF NewestApproved
  <2> HIDE DEF approved
  <2>2. \E v \in approved : \A w \in approved : w <= v
    <3>1. PICK S : S = approved
      OBVIOUS
    <3> QED
      BY <1>1, <1>3, <3>1, MaximumExists
  <2>3. NewestApproved \in approved /\ \A w \in approved : w <= NewestApproved
    BY <2>1, <2>2
  <2> QED
    BY <1>1, <2>3 DEF approved
<1> QED
  BY <1>2, <1>3

\* A step that only changes the slot of one request preserves the invariant
\* when the slot's new content satisfies RequestKnows.
LEMMA SlotStep ==
  ASSUME IInv, NEW r \in Requests, NEW q \in Request,
         RequestKnows(q), pitch.phase = "none" => q = Idle,
         UNCHANGED Rows, Keep(r, q)
  PROVE  IInv'
<1> USE DEF Rows
<1>1. reqs' = [reqs EXCEPT ![r] = q] /\ reqs \in [Requests -> Request]
  BY DEF Keep, IInv, TypeOK
<1>2. TypeOK'
  BY <1>1 DEF IInv, TypeOK
<1>3. FieldsPresent'
  BY <1>1 DEF IInv, FieldsPresent
<1>4. LedgerShape'
  BY DEF IInv, LedgerShape, Submitted
<1>5. \A s \in Requests : RequestKnows(reqs[s])'
  BY <1>1 DEF IInv, RequestKnows
<1>6. DecisionBacked' /\ TrailLegal'
  BY DEF IInv, DecisionBacked, TrailLegal, Submitted
<1> QED
  BY <1>2, <1>3, <1>4, <1>5, <1>6 DEF IInv

\* A request that ends without a write.
LEMMA EndStep ==
  ASSUME IInv, NEW r \in Requests, UNCHANGED Rows, Finish(r)
  PROVE  IInv'
BY IdleIsRequest, SlotStep DEF Finish

\* What a request knows stays true while the ledger grows.
LEMMA KnowledgeIsStable ==
  ASSUME IInv, NEW r \in Requests, Finish(r),
         pitch'.lastSubmittedVersion \in Nat,
         pitch'.lastSubmittedVersion >= pitch.lastSubmittedVersion
  PROVE  /\ reqs' \in [Requests -> Request]
         /\ \A s \in Requests : RequestKnows(reqs[s])'
         /\ (\A s \in Requests : reqs[s] = Idle) => \A s \in Requests : reqs'[s] = Idle
<1>1. reqs' = [reqs EXCEPT ![r] = Idle] /\ reqs \in [Requests -> Request]
  BY DEF Finish, Keep, IInv, TypeOK
<1>2. pitch.lastSubmittedVersion \in Nat
  BY DEF IInv, TypeOK, Pitch
<1>3. ASSUME NEW s \in Requests PROVE RequestKnows(reqs[s])'
  <2>1. CASE reqs'[s] = Idle
    BY <2>1 DEF RequestKnows, Idle
  <2>2. CASE reqs'[s] # Idle
    <3>1. reqs'[s] = reqs[s] /\ reqs[s] \in Request /\ RequestKnows(reqs[s])
      BY <1>1, <2>2 DEF IInv
    <3> QED
      BY <1>2, <3>1 DEF RequestKnows, Request
  <2> QED
    BY <2>1, <2>2
<1> QED
  BY <1>1, <1>3, IdleIsRequest

\* The contract's table, read backwards: where each target can come from.
LEMMA TransitionSources ==
  ASSUME NEW from \in PitchStatus
  PROVE  /\ canTransitionPitch(from, "SUBMITTED") => from \in Editable
         /\ canTransitionPitch(from, "WITHDRAWN") => from = "SUBMITTED"
         /\ \A to \in Decisions :
              canTransitionPitch(from, to) => from \in {"SUBMITTED", "UNDER_REVIEW"}
BY DEF canTransitionPitch, PITCH_TRANSITIONS, PitchStatus, Editable, Decisions

\* A pitch past DRAFT has a submission, and exists.
LEMMA SubmittedPitch ==
  ASSUME TypeOK, LedgerShape
  PROVE  /\ pitch.lastSubmittedVersion \in 0..MaxVersion
         /\ pitch.status # "DRAFT" => pitch.lastSubmittedVersion >= 1
         /\ pitch.lastSubmittedVersion >= 1 => Found
<1>1. pitch.lastSubmittedVersion \in 0..MaxVersion
  BY PitchConstants DEF TypeOK, LedgerShape, Pitch
<1>2. pitch.lastSubmittedVersion >= 1 => pitch.lastSubmittedVersion \in Submitted
  BY <1>1, PitchConstants DEF LedgerShape, Versions
<1>3. pitch.phase # "live" => Submitted = {}
  BY DEF LedgerShape
<1> QED
  BY <1>1, <1>2, <1>3 DEF LedgerShape, Found

LEMMA InitIInv == Init => IInv
<1> SUFFICES ASSUME Init PROVE IInv
  OBVIOUS
<1>1. TypeOK
  BY PitchConstants, IdleIsRequest DEF Init, TypeOK, Pitch, PitchStatus
<1>2. FieldsPresent
  BY DEF Init, FieldsPresent
<1>3. Submitted = {}
  BY DEF Init, Submitted
<1>4. LedgerShape
  BY <1>3, PitchConstants DEF Init, LedgerShape, Versions
<1>5. \A r \in Requests : RequestKnows(reqs[r])
  BY IdleIsRequest DEF Init
<1>6. DecisionBacked /\ TrailLegal
  BY DEF Init, DecisionBacked, TrailLegal, Decisions
<1> QED
  BY <1>1, <1>2, <1>4, <1>5, <1>6 DEF IInv

--------------------------------------------------------------------------------
(* The steps that only read.                                                 *)

LEMMA ReadSteps ==
  ASSUME IInv, NEW r \in Requests,
         \/ BeginUpdate(r) \/ BeginDelete(r) \/ BeginResubmit(r) \/ BeginSubmit(r)
         \/ CheckContent(r) \/ CheckDeck(r) \/ BeginWithdraw(r)
         \/ BeginTransition(r) \/ ReadLatest(r) \/ BeginSuspend(r) \/ Abandon(r)
         \/ SponsorStep(r)
  PROVE  IInv'
<1> USE DEF Found
<1>1. /\ reqs[r] \in Request /\ RequestKnows(reqs[r])
      /\ pitch \in Pitch /\ pitch.status \in PitchStatus
      /\ pitch.lockVersion \in Nat
      /\ pitch.lastSubmittedVersion \in 0..MaxVersion
      /\ pitch.phase = "live" => pitch.content \in Contents
      /\ pitch.phase = "none" => reqs[r] = Idle
      /\ "DRAFT" \in PitchStatus /\ 0 \in 0..MaxVersion
  BY SubmittedPitch, PitchConstants DEF PitchStatus, IInv, TypeOK, Pitch, FieldsPresent
<1>2. CASE BeginUpdate(r)
  <2>1. PICK base \in 0..pitch.lockVersion, c \in Contents :
          Keep(r, [step |-> "update", from |-> "DRAFT", to |-> "DRAFT",
                   content |-> c, version |-> 0, base |-> base])
    BY <1>2 DEF BeginUpdate
  <2> DEFINE q == [step |-> "update", from |-> "DRAFT", to |-> "DRAFT",
                   content |-> c, version |-> 0, base |-> base]
  <2>2. q \in Request
    BY <1>1 DEF Request, Steps
  <2>3. RequestKnows(q)
    BY DEF RequestKnows
  <2>4. pitch.phase # "none" /\ UNCHANGED Rows
    BY <1>2 DEF BeginUpdate
  <2> QED
    BY <2>1, <2>2, <2>3, <2>4, SlotStep
<1>3. CASE BeginDelete(r)
  <2> DEFINE q == [Idle EXCEPT !.step = "delete"]
  <2>1. q \in Request /\ RequestKnows(q)
    BY IdleIsRequest DEF Idle, Request, Steps, RequestKnows
  <2> QED
    BY <1>3, <2>1, SlotStep DEF BeginDelete
<1>4. CASE BeginResubmit(r)
  <2> DEFINE q == [Idle EXCEPT !.step = "resubmit"]
  <2>1. q \in Request /\ RequestKnows(q)
    BY IdleIsRequest DEF Idle, Request, Steps, RequestKnows
  <2> QED
    BY <1>4, <2>1, SlotStep DEF BeginResubmit
<1>5. CASE BeginSubmit(r)
  <2> DEFINE q == [step |-> "submit", from |-> pitch.status, to |-> "SUBMITTED",
                   content |-> pitch.content, version |-> nextVersion, base |-> 0]
  <2>1. nextVersion \in 1..MaxVersion /\ nextVersion = pitch.lastSubmittedVersion + 1
    BY <1>1, <1>5, PitchConstants DEF BeginSubmit, nextVersion
  <2>2. pitch.content \in Contents
    BY <1>1, <1>5 DEF BeginSubmit
  <2>3. "SUBMITTED" \in PitchStatus /\ nextVersion \in 0..MaxVersion
    BY <2>1, PitchConstants DEF PitchStatus
  <2>4. q \in Request
    BY <1>1, <2>2, <2>3 DEF Request, Steps
  <2>5. RequestKnows(q)
    BY <1>1, <1>5, <2>1, <2>2 DEF BeginSubmit, RequestKnows
  <2> QED
    BY <1>5, <2>4, <2>5, SlotStep DEF BeginSubmit
<1>6. CASE CheckContent(r)
  <2> DEFINE q == [reqs[r] EXCEPT !.step = "submitDeck"]
  <2>1. reqs[r].step = "submit" /\ UNCHANGED Rows
    BY <1>6 DEF CheckContent
  <2>2. q \in Request /\ RequestKnows(q)
    BY <1>1, <2>1 DEF Request, Steps, RequestKnows
  <2>3. CASE Finish(r)
    BY <2>1, <2>3, EndStep
  <2>4. CASE Found /\ Keep(r, q)
    BY <2>1, <2>2, <2>4, SlotStep
  <2> QED
    BY <1>6, <2>3, <2>4 DEF CheckContent
<1>7. CASE CheckDeck(r)
  <2> DEFINE q == [reqs[r] EXCEPT !.step = "submitCommit"]
  <2>1. reqs[r].step = "submitDeck" /\ UNCHANGED Rows
    BY <1>7 DEF CheckDeck
  <2>2. q \in Request /\ RequestKnows(q)
    BY <1>1, <2>1 DEF Request, Steps, RequestKnows
  <2>3. CASE Finish(r)
    BY <2>1, <2>3, EndStep
  <2>4. CASE Keep(r, q)
    BY <1>1, <2>1, <2>2, <2>4, SlotStep DEF Idle
  <2> QED
    BY <1>7, <2>3, <2>4 DEF CheckDeck
<1>8. CASE BeginWithdraw(r)
  <2> DEFINE q == [Idle EXCEPT !.step = "withdraw", !.from = pitch.status]
  <2>1. canTransitionPitch(pitch.status, "WITHDRAWN") /\ UNCHANGED Rows /\ Found
    BY <1>8 DEF BeginWithdraw
  <2>2. pitch.lastSubmittedVersion >= 1
    BY <1>1, <2>1, TransitionSources, SubmittedPitch DEF IInv
  <2>3. q \in Request /\ RequestKnows(q)
    BY <1>1, <2>1, <2>2, IdleIsRequest DEF Idle, Request, Steps, RequestKnows
  <2> QED
    BY <1>8, <2>3, SlotStep DEF BeginWithdraw
<1>9. CASE BeginTransition(r)
  <2>1. PICK to \in Decisions :
          /\ canTransitionPitch(pitch.status, to)
          /\ Keep(r, [Idle EXCEPT !.step = "transition", !.from = pitch.status, !.to = to])
    BY <1>9 DEF BeginTransition
  <2> DEFINE q == [Idle EXCEPT !.step = "transition", !.from = pitch.status, !.to = to]
  <2>2. pitch.lastSubmittedVersion >= 1
    BY <1>1, <2>1, TransitionSources, SubmittedPitch DEF IInv
  <2>3. q \in Request
    <3>1. to \in PitchStatus
      BY DEF Decisions, PitchStatus
    <3> QED
      BY <1>1, <3>1 DEF Idle, Request, Steps
  <2>4. RequestKnows(q)
    BY <2>1, <2>2 DEF Idle, RequestKnows
  <2>5. pitch.phase # "none" /\ UNCHANGED Rows
    BY <1>9 DEF BeginTransition
  <2> QED
    BY <2>1, <2>3, <2>4, <2>5, SlotStep
<1>10. CASE ReadLatest(r)
  <2> DEFINE q == [reqs[r] EXCEPT !.step = "decide", !.version = LatestVersion]
  <2>1. reqs[r].step = "transition" /\ UNCHANGED Rows
    BY <1>10 DEF ReadLatest
  <2>2. pitch.lastSubmittedVersion >= 1
    BY <1>1, <2>1 DEF RequestKnows
  <2>3. LatestVersion = pitch.lastSubmittedVersion
    BY <2>2, LatestIsLast DEF IInv
  <2>4. q \in Request /\ RequestKnows(q)
    <3>1. LatestVersion \in 0..MaxVersion /\ LatestVersion \in 1..pitch.lastSubmittedVersion
      BY <1>1, <2>2, <2>3
    <3> QED
      BY <1>1, <2>1, <2>2, <3>1 DEF Request, Steps, RequestKnows
  <2>5. CASE Finish(r)
    BY <2>1, <2>5, EndStep
  <2>6. CASE Found /\ Keep(r, q)
    BY <2>1, <2>4, <2>6, SlotStep
  <2> QED
    BY <1>10, <2>5, <2>6 DEF ReadLatest
<1>11. CASE BeginSuspend(r)
  <2> DEFINE q == [Idle EXCEPT !.step = "suspend"]
  <2>1. q \in Request /\ RequestKnows(q)
    BY IdleIsRequest DEF Idle, Request, Steps, RequestKnows
  <2> QED
    BY <1>11, <2>1, SlotStep DEF BeginSuspend
<1>12. CASE Abandon(r)
  BY <1>12, EndStep DEF Abandon
<1>13. CASE BeginDiscovery(r)
  <2> DEFINE q == [Idle EXCEPT !.step = "discover", !.content = pitch.content]
  <2>1. pitch.content \in Contents /\ pitch.phase # "none" /\ UNCHANGED Rows /\ Keep(r, q)
    BY <1>1, <1>13 DEF BeginDiscovery
  <2>2. q \in Request /\ RequestKnows(q)
    BY <1>1, <2>1 DEF Idle, Request, Steps, RequestKnows
  <2> QED
    BY <2>1, <2>2, SlotStep
<1>14. CASE ReadApproved(r)
  <2> DEFINE q == [reqs[r] EXCEPT !.step = "show", !.version = NewestApproved]
  <2>1. reqs[r].step = "discover" /\ UNCHANGED Rows /\ Keep(r, q)
    BY <1>14 DEF ReadApproved
  <2>2. NewestApproved \in 0..MaxVersion
    BY NewestApprovedRange DEF IInv
  <2>3. q \in Request /\ RequestKnows(q)
    BY <1>1, <2>1, <2>2 DEF Request, Steps, RequestKnows
  <2>4. pitch.phase # "none"
    BY <1>1, <2>1 DEF Idle
  <2> QED
    BY <2>1, <2>3, <2>4, SlotStep
<1>15. CASE AnswerDiscovery(r)
  BY <1>15, EndStep DEF AnswerDiscovery
<1> QED
  BY <1>2, <1>3, <1>4, <1>5, <1>6, <1>7, <1>8, <1>9, <1>10, <1>11, <1>12,
     <1>13, <1>14, <1>15 DEF SponsorStep
--------------------------------------------------------------------------------
(* The steps that write.                                                     *)

\* A write that leaves the ledger, the status and the trail alone.
LEMMA EditStep ==
  ASSUME IInv, NEW r \in Requests, Finish(r), pitch' \in Pitch,
         pitch'.phase = pitch.phase, pitch'.status = pitch.status,
         pitch'.lastSubmittedVersion = pitch.lastSubmittedVersion,
         pitch.phase = "live" => pitch'.content \in Contents,
         UNCHANGED <<submissions, trail, deckReady>>
  PROVE  IInv'
<1>1. /\ reqs' \in [Requests -> Request]
      /\ \A s \in Requests : RequestKnows(reqs[s])'
      /\ (\A s \in Requests : reqs[s] = Idle) => \A s \in Requests : reqs'[s] = Idle
  <2>1. /\ pitch'.lastSubmittedVersion \in Nat
        /\ pitch'.lastSubmittedVersion >= pitch.lastSubmittedVersion
    BY DEF IInv, TypeOK, Pitch
  <2> QED
    BY <2>1, KnowledgeIsStable
<1>2. TypeOK' /\ FieldsPresent'
  BY <1>1 DEF IInv, TypeOK, FieldsPresent
<1>3. LedgerShape' /\ DecisionBacked' /\ TrailLegal'
  BY DEF IInv, LedgerShape, DecisionBacked, TrailLegal, Submitted
<1> QED
  BY <1>1, <1>2, <1>3 DEF IInv

LEMMA UpdateStep ==
  ASSUME IInv, NEW r \in Requests, CommitUpdate(r)
  PROVE  IInv'
<1>1. pitch \in Pitch /\ RequestKnows(reqs[r]) /\ reqs[r].step = "update"
  BY DEF IInv, TypeOK, CommitUpdate
<1>2. CASE Found
  <2>1. pitch' = [pitch EXCEPT !.content = reqs[r].content, !.lockVersion = @ + 1]
    BY <1>2 DEF CommitUpdate
  <2> DEFINE c == reqs[r].content
  <2>2. c \in Contents
    BY <1>1 DEF RequestKnows
  <2>3. /\ pitch' \in Pitch /\ pitch'.phase = pitch.phase /\ pitch'.status = pitch.status
        /\ pitch'.lastSubmittedVersion = pitch.lastSubmittedVersion
        /\ pitch'.content \in Contents
    <3> HIDE DEF c
    <3>1. pitch' = [pitch EXCEPT !.content = c, !.lockVersion = pitch.lockVersion + 1]
      BY <2>1 DEF c
    <3> DEFINE n == pitch.lockVersion + 1
    <3>2. n \in Nat
      BY <1>1 DEF Pitch
    <3> HIDE DEF n
    <3>3. pitch' = [pitch EXCEPT !.content = c, !.lockVersion = n]
      BY <3>1 DEF n
    <3>4. pitch' \in Pitch
      BY <1>1, <2>2, <3>2, <3>3 DEF Pitch
    <3> QED
      BY <1>1, <2>2, <3>3, <3>4 DEF Pitch
  <2> QED
    BY <2>3, EditStep DEF CommitUpdate
<1>3. CASE ~Found
  BY <1>3, EndStep DEF CommitUpdate, Rows
<1> QED
  BY <1>2, <1>3

LEMMA SuspendStep ==
  ASSUME IInv, NEW r \in Requests, CommitSuspend(r)
  PROVE  IInv'
<1>1. pitch \in Pitch /\ (pitch.phase = "live" => pitch.content \in Contents)
  BY DEF IInv, TypeOK, FieldsPresent
<1>2. CASE Found
  <2>1. pitch' = [pitch EXCEPT !.discoverySuspended = TRUE]
    BY <1>2 DEF CommitSuspend
  <2>2. /\ pitch' \in Pitch /\ pitch'.phase = pitch.phase /\ pitch'.status = pitch.status
        /\ pitch'.lastSubmittedVersion = pitch.lastSubmittedVersion
        /\ pitch.phase = "live" => pitch'.content \in Contents
    BY <1>1, <2>1 DEF Pitch
  <2> QED
    BY <2>2, EditStep DEF CommitSuspend
<1>3. CASE ~Found
  BY <1>3, EndStep DEF CommitSuspend, Rows
<1> QED
  BY <1>2, <1>3

LEMMA DeleteStep ==
  ASSUME IInv, NEW r \in Requests, CommitDelete(r)
  PROVE  IInv'
<1>1. pitch \in Pitch /\ reqs[r].step = "delete"
  BY DEF IInv, TypeOK, CommitDelete
<1>2. CASE Found /\ NoSubmissionRows
  <2>1. /\ pitch' = [pitch EXCEPT !.phase = "deleted"]
        /\ UNCHANGED <<submissions, trail, deckReady>> /\ Finish(r)
    BY <1>2 DEF CommitDelete
  <2>2. /\ pitch' \in Pitch /\ pitch'.phase = "deleted" /\ pitch'.status = pitch.status
        /\ pitch'.lastSubmittedVersion = pitch.lastSubmittedVersion
        /\ pitch.lastSubmittedVersion \in Nat
    BY <1>1, <2>1 DEF Pitch
  <2>3. /\ reqs' \in [Requests -> Request]
        /\ \A s \in Requests : RequestKnows(reqs[s])'
    BY <2>1, <2>2, KnowledgeIsStable
  <2>4. TypeOK' /\ FieldsPresent'
    BY <2>1, <2>2, <2>3 DEF IInv, TypeOK, FieldsPresent
  <2>5. LedgerShape'
    BY <1>2, <2>1, <2>2 DEF IInv, LedgerShape, Submitted, NoSubmissionRows
  <2>6. DecisionBacked' /\ TrailLegal'
    BY <2>1, <2>2 DEF IInv, DecisionBacked, TrailLegal, Submitted
  <2> QED
    BY <2>3, <2>4, <2>5, <2>6 DEF IInv
<1>3. CASE ~(Found /\ NoSubmissionRows)
  BY <1>3, EndStep DEF CommitDelete, Rows
<1> QED
  BY <1>2, <1>3

LEMMA WithdrawStep ==
  ASSUME IInv, NEW r \in Requests, CommitWithdraw(r)
  PROVE  IInv'
<1>1. /\ pitch \in Pitch /\ RequestKnows(reqs[r]) /\ reqs[r].step = "withdraw"
      /\ reqs[r] \in Request
  BY DEF IInv, TypeOK, CommitWithdraw
<1>2. CASE Found
  <2>1. /\ pitch' = [pitch EXCEPT !.status = "WITHDRAWN"]
        /\ trail' = [from |-> reqs[r].from, to |-> "WITHDRAWN"]
        /\ UNCHANGED <<submissions, deckReady>> /\ Finish(r)
    BY <1>2 DEF CommitWithdraw
  <2>2. canTransitionPitch(reqs[r].from, "WITHDRAWN") /\ pitch.lastSubmittedVersion >= 1
    BY <1>1 DEF RequestKnows
  <2>3. /\ pitch' \in Pitch /\ pitch'.phase = pitch.phase /\ pitch'.status = "WITHDRAWN"
        /\ pitch'.lastSubmittedVersion = pitch.lastSubmittedVersion
        /\ pitch.lastSubmittedVersion \in Nat /\ pitch'.content = pitch.content
    BY <1>1, <2>1 DEF Pitch, PitchStatus
  <2>4. trail' \in [from : PitchStatus, to : PitchStatus]
    BY <1>1, <2>1 DEF Request, PitchStatus
  <2>5. /\ reqs' \in [Requests -> Request]
        /\ \A s \in Requests : RequestKnows(reqs[s])'
        /\ (\A s \in Requests : reqs[s] = Idle) => \A s \in Requests : reqs'[s] = Idle
    BY <2>1, <2>3, KnowledgeIsStable
  <2>6. TypeOK' /\ FieldsPresent'
    BY <2>1, <2>3, <2>4, <2>5 DEF IInv, TypeOK, FieldsPresent
  <2>7. LedgerShape'
    BY <2>1, <2>2, <2>3 DEF IInv, LedgerShape, Submitted
  <2>8. DecisionBacked'
    BY <2>3 DEF DecisionBacked, Decisions
  <2>9. TrailLegal'
    BY <2>1, <2>2, <2>3 DEF TrailLegal
  <2> QED
    BY <2>5, <2>6, <2>7, <2>8, <2>9 DEF IInv
<1>3. CASE ~Found
  BY <1>3, EndStep DEF CommitWithdraw, Rows
<1> QED
  BY <1>2, <1>3
\* The decision is written on a submission that exists, with the same value as
\* the pitch's status: this is where DecisionBacked comes from.
LEMMA TransitionStep ==
  ASSUME IInv, NEW r \in Requests, CommitTransition(r)
  PROVE  IInv'
<1> DEFINE to == reqs[r].to
           v0 == reqs[r].version
           n == pitch.lastSubmittedVersion
<1>1. /\ pitch \in Pitch /\ RequestKnows(reqs[r]) /\ reqs[r].step = "decide"
      /\ reqs[r] \in Request /\ n \in 0..MaxVersion /\ n \in Nat
      /\ submissions \in [Versions -> Submission \union {NoSubmission}]
  BY SubmittedPitch DEF IInv, TypeOK, CommitTransition, Pitch
<1>2. CASE Found
  <2>1. /\ submissions' = [v \in Versions |->
              IF v = v0 THEN [submissions[v] EXCEPT !.reviewStatus = to] ELSE submissions[v]]
        /\ pitch' = [pitch EXCEPT !.status = to]
        /\ trail' = [from |-> reqs[r].from, to |-> to]
        /\ UNCHANGED deckReady /\ Finish(r)
    BY <1>2 DEF CommitTransition
  <2>2. /\ to \in Decisions /\ to \in PitchStatus /\ to # "DRAFT"
        /\ canTransitionPitch(reqs[r].from, to) /\ n >= 1 /\ v0 \in 1..n
    BY <1>1 DEF RequestKnows, Decisions, PitchStatus
  <2> HIDE DEF to, v0
  <2>3. /\ pitch' \in Pitch /\ pitch'.phase = pitch.phase /\ pitch'.status = to
        /\ pitch'.lastSubmittedVersion = n /\ pitch'.content = pitch.content
    BY <1>1, <2>1, <2>2 DEF Pitch
  <2>4. v0 \in Versions /\ v0 \in Submitted /\ submissions[v0] \in Submission
    BY <1>1, <2>2, PitchConstants DEF IInv, LedgerShape, Submitted, Versions
  <2>5. /\ submissions'[v0] \in Submission /\ submissions'[v0].reviewStatus = to
        /\ submissions'[v0] # NoSubmission
    BY <2>1, <2>2, <2>4, RowIsNotAbsent DEF Submission
  <2>6. /\ submissions' \in [Versions -> Submission \union {NoSubmission}]
        /\ \A v \in Versions : v # v0 => submissions'[v] = submissions[v]
    BY <1>1, <2>1, <2>5
  <2>7. Submitted' = Submitted
    BY <2>4, <2>5, <2>6 DEF Submitted
  <2>8. trail' \in [from : PitchStatus, to : PitchStatus]
    BY <1>1, <2>1, <2>2 DEF Request
  <2>9. /\ reqs' \in [Requests -> Request]
        /\ \A s \in Requests : RequestKnows(reqs[s])'
        /\ (\A s \in Requests : reqs[s] = Idle) => \A s \in Requests : reqs'[s] = Idle
    BY <1>1, <2>1, <2>3, KnowledgeIsStable
  <2>10. TypeOK' /\ FieldsPresent'
    BY <2>1, <2>3, <2>6, <2>8, <2>9 DEF IInv, TypeOK, FieldsPresent
  <2>11. LedgerShape'
    BY <2>2, <2>3, <2>7 DEF IInv, LedgerShape
  <2>12. DecisionBacked'
    BY <2>3, <2>4, <2>5, <2>7 DEF DecisionBacked
  <2>13. TrailLegal'
    BY <2>1, <2>2, <2>3 DEF TrailLegal
  <2> QED
    BY <2>9, <2>10, <2>11, <2>12, <2>13 DEF IInv
<1>3. CASE ~Found
  BY <1>3, EndStep DEF CommitTransition, Rows
<1> QED
  BY <1>2, <1>3

\* The unique index lets a submit through only when no other submit committed
\* since its read, so the version it computed then is the next one now.
LEMMA SubmitStep ==
  ASSUME IInv, NEW r \in Requests, CommitSubmit(r)
  PROVE  IInv'
<1> DEFINE n == pitch.lastSubmittedVersion
           v0 == reqs[r].version
           row == [content |-> reqs[r].content, deck |-> deckReady,
                   reviewStatus |-> "SUBMITTED"]
           lock == pitch.lockVersion + 1
<1>1. /\ pitch \in Pitch /\ RequestKnows(reqs[r]) /\ reqs[r].step = "submitCommit"
      /\ reqs[r] \in Request /\ n \in 0..MaxVersion /\ n \in Nat /\ lock \in Nat
      /\ submissions \in [Versions -> Submission \union {NoSubmission}]
      /\ deckReady \in BOOLEAN
  BY SubmittedPitch DEF IInv, TypeOK, CommitSubmit, Pitch
<1>2. CASE Found /\ VersionFree(v0)
  <2> HIDE DEF lock, row
  <2>1. /\ submissions' = [submissions EXCEPT ![v0] = row]
        /\ pitch' = [pitch EXCEPT !.status = "SUBMITTED", !.lastSubmittedVersion = v0,
                                  !.lockVersion = lock]
        /\ trail' = [from |-> reqs[r].from, to |-> "SUBMITTED"]
        /\ UNCHANGED deckReady /\ Finish(r)
    BY <1>2 DEF CommitSubmit, lock, row
  <2>2. /\ reqs[r].content \in Contents /\ v0 \in 1..(n + 1) /\ v0 \in 0..MaxVersion
        /\ canTransitionPitch(reqs[r].from, "SUBMITTED")
    BY <1>1 DEF RequestKnows, Request
  <2>3. v0 \in Versions /\ v0 \notin Submitted
    BY <1>2, <2>2, PitchConstants DEF VersionFree, Submitted, Versions
  <2>4. v0 = n + 1
    BY <1>1, <2>2, <2>3 DEF IInv, LedgerShape
  <2>5. v0 \in Nat /\ "SUBMITTED" \in PitchStatus
    BY <1>1, <2>4 DEF PitchStatus
  <2>6. row \in Submission /\ row # NoSubmission
    BY <1>1, <2>2, <2>5, RowIsNotAbsent DEF row, Submission
  <2> HIDE DEF v0
  <2>7. pitch' \in Pitch
    BY <1>1, <2>1, <2>5 DEF Pitch
  <2>8. /\ pitch'.phase = pitch.phase /\ pitch'.status = "SUBMITTED"
        /\ pitch'.lastSubmittedVersion = v0 /\ pitch'.content = pitch.content
    BY <1>1, <2>1 DEF Pitch
  <2>9. Submitted' = Submitted \union {v0}
    BY <1>1, <2>1, <2>3, <2>6 DEF Submitted
  <2>10. trail' \in [from : PitchStatus, to : PitchStatus]
    BY <1>1, <2>1, <2>5 DEF Request
  <2>11. /\ reqs' \in [Requests -> Request]
         /\ \A s \in Requests : RequestKnows(reqs[s])'
         /\ (\A s \in Requests : reqs[s] = Idle) => \A s \in Requests : reqs'[s] = Idle
    BY <1>1, <2>1, <2>4, <2>8, KnowledgeIsStable
  <2>12. submissions' \in [Versions -> Submission \union {NoSubmission}]
    BY <1>1, <2>1, <2>6
  <2>13. TypeOK' /\ FieldsPresent'
    BY <1>1, <2>1, <2>7, <2>8, <2>10, <2>11, <2>12 DEF IInv, TypeOK, FieldsPresent
  <2>14. LedgerShape'
    <3>1. Submitted' = {v \in Versions : v <= v0}
      BY <1>1, <2>3, <2>4, <2>9, PitchConstants DEF IInv, LedgerShape, Versions
    <3> QED
      BY <1>1, <1>2, <2>3, <2>4, <2>8, <3>1, PitchConstants DEF LedgerShape, Found, Versions
  <2>15. DecisionBacked'
    BY <2>8 DEF DecisionBacked, Decisions
  <2>16. TrailLegal'
    BY <2>1, <2>2, <2>8 DEF TrailLegal
  <2> QED
    BY <2>11, <2>13, <2>14, <2>15, <2>16 DEF IInv
<1>3. CASE ~(Found /\ VersionFree(v0))
  BY <1>3, EndStep DEF CommitSubmit, Rows
<1> QED
  BY <1>2, <1>3

LEMMA CreateStep ==
  ASSUME IInv, CreatePitch
  PROVE  IInv'
<1>1. PICK c \in Contents \ CompleteContents :
        pitch' = [pitch EXCEPT !.phase = "live", !.content = c]
  BY DEF CreatePitch
<1>2. UNCHANGED <<submissions, trail, deckReady, reqs>> /\ pitch \in Pitch
  BY DEF CreatePitch, IInv, TypeOK
<1>3. /\ pitch' \in Pitch /\ pitch'.phase = "live" /\ pitch'.content \in Contents
      /\ pitch'.status = pitch.status
      /\ pitch'.lastSubmittedVersion = pitch.lastSubmittedVersion
  BY <1>1, <1>2 DEF Pitch
<1>4. TypeOK' /\ FieldsPresent'
  BY <1>2, <1>3 DEF IInv, TypeOK, FieldsPresent
<1>5. LedgerShape' /\ DecisionBacked' /\ TrailLegal'
  BY <1>2, <1>3 DEF IInv, LedgerShape, DecisionBacked, TrailLegal, Submitted
<1>6. \A r \in Requests : RequestKnows(reqs[r])'
  BY <1>2, <1>3 DEF IInv, RequestKnows
<1> QED
  BY <1>4, <1>5, <1>6 DEF IInv

LEMMA DeckStep ==
  ASSUME IInv, DeckAvailable \/ DeckDeleted
  PROVE  IInv'
<1>1. UNCHANGED <<pitch, submissions, trail, reqs>> /\ deckReady' \in BOOLEAN
  BY DEF DeckAvailable, DeckDeleted
<1> QED
  BY <1>1 DEF IInv, TypeOK, FieldsPresent, LedgerShape, DecisionBacked, TrailLegal,
              Submitted, RequestKnows

--------------------------------------------------------------------------------
LEMMA Inductive == IInv /\ [Next]_vars => IInv'
<1> SUFFICES ASSUME IInv, [Next]_vars PROVE IInv'
  OBVIOUS
<1>1. CASE CreatePitch
  BY <1>1, CreateStep
<1>2. CASE DeckAvailable \/ DeckDeleted
  BY <1>2, DeckStep
<1>3. ASSUME NEW r \in Requests, OwnerStep(r)
      PROVE  IInv'
  BY <1>3, ReadSteps, UpdateStep, DeleteStep, SubmitStep, WithdrawStep DEF OwnerStep
<1>4. ASSUME NEW r \in Requests, AdminStep(r)
      PROVE  IInv'
  BY <1>4, ReadSteps, TransitionStep, SuspendStep DEF AdminStep
<1>5. ASSUME NEW r \in Requests, SponsorStep(r) \/ Abandon(r)
      PROVE  IInv'
  BY <1>5, ReadSteps
<1>6. CASE UNCHANGED vars
  BY <1>6 DEF vars, IInv, TypeOK, FieldsPresent, LedgerShape, DecisionBacked,
              TrailLegal, Submitted, RequestKnows
<1> QED
  BY <1>1, <1>2, <1>3, <1>4, <1>5, <1>6 DEF Next

LEMMA Invariance == Spec => []IInv
BY InitIInv, Inductive, PTL DEF Spec

\* Every row and every slot keeps its type, for any number of requests.
THEOREM TypeCorrect == Spec => []TypeOK
<1>1. IInv => TypeOK
  BY DEF IInv
<1> QED
  BY <1>1, Invariance, PTL

\* Submissions are numbered without a gap or a collision, however submits race,
\* and none loses its pitch to a racing delete.
THEOREM LedgerIsContiguous == Spec => []LedgerShape
<1>1. IInv => LedgerShape
  BY DEF IInv
<1> QED
  BY <1>1, Invariance, PTL

\* A status an administrator gave is always backed by a submission with the
\* same decision, whichever requests overlapped.
THEOREM DecisionsAreBacked == Spec => []DecisionBacked
<1>1. IInv => DecisionBacked
  BY DEF IInv
<1> QED
  BY <1>1, Invariance, PTL

\* The audit trail only ever holds transitions the contract allows.
THEOREM TrailIsLegal == Spec => []TrailLegal
<1>1. IInv => TrailLegal
  BY DEF IInv
<1> QED
  BY <1>1, Invariance, PTL

--------------------------------------------------------------------------------
\* What one step may do to a submission: nothing, or give it a review status.
Preserved(v) == /\ submissions'[v] # NoSubmission
                /\ submissions'[v].content = submissions[v].content
                /\ submissions'[v].deck = submissions[v].deck

LEMMA SubmitKeepsRows ==
  ASSUME IInv, NEW r \in Requests, CommitSubmit(r), NEW v \in Submitted
  PROVE  Preserved(v)
<1>1. submissions \in [Versions -> Submission \union {NoSubmission}]
      /\ v \in Versions /\ submissions[v] # NoSubmission
  BY DEF IInv, TypeOK, Submitted
<1>2. \/ submissions' = submissions
      \/ \E rec : submissions' = [submissions EXCEPT ![reqs[r].version] = rec]
                   /\ submissions[reqs[r].version] = NoSubmission
  BY DEF CommitSubmit, VersionFree
<1> QED
  BY <1>1, <1>2 DEF Preserved

LEMMA TransitionKeepsRows ==
  ASSUME IInv, NEW r \in Requests, CommitTransition(r), NEW v \in Submitted
  PROVE  Preserved(v)
<1>1. v \in Versions /\ submissions[v] \in Submission
  BY DEF IInv, TypeOK, Submitted
<1>2. \/ submissions' = submissions
      \/ submissions' = [w \in Versions |->
                           IF w = reqs[r].version
                             THEN [submissions[w] EXCEPT !.reviewStatus = reqs[r].to]
                             ELSE submissions[w]]
  BY DEF CommitTransition
<1>3. submissions'[v] = submissions[v]
      \/ submissions'[v] = [submissions[v] EXCEPT !.reviewStatus = reqs[r].to]
  BY <1>1, <1>2
<1>4. submissions'[v] \in [content : Contents, deck : BOOLEAN, reviewStatus : {reqs[r].to}]
      \/ submissions'[v] = submissions[v]
  BY <1>1, <1>3 DEF Submission
<1>5. submissions'[v] # NoSubmission
  BY <1>1, <1>4, PitchConstants DEF NoSubmission, Submission
<1>6. submissions'[v].content = submissions[v].content
      /\ submissions'[v].deck = submissions[v].deck
  BY <1>1, <1>3 DEF Submission
<1> QED
  BY <1>5, <1>6 DEF Preserved

LEMMA StepKeepsRows ==
  ASSUME IInv, [Next]_vars, NEW v \in Submitted
  PROVE  Preserved(v)
<1>1. CASE UNCHANGED submissions
  BY <1>1 DEF Preserved, Submitted
<1>2. ASSUME NEW r \in Requests, CommitSubmit(r)
      PROVE  Preserved(v)
  BY <1>2, SubmitKeepsRows
<1>3. ASSUME NEW r \in Requests, CommitTransition(r)
      PROVE  Preserved(v)
  BY <1>3, TransitionKeepsRows
<1>4. ASSUME NEW r \in Requests, OwnerStep(r) \/ AdminStep(r) \/ SponsorStep(r) \/ Abandon(r)
      PROVE  CommitSubmit(r) \/ CommitTransition(r) \/ UNCHANGED submissions
  BY <1>4 DEF OwnerStep, AdminStep, SponsorStep, Abandon, BeginUpdate, CommitUpdate,
     BeginDelete, CommitDelete, BeginResubmit, BeginSubmit, CheckContent, CheckDeck,
     BeginWithdraw, CommitWithdraw, BeginTransition, ReadLatest, BeginSuspend,
     CommitSuspend, BeginDiscovery, ReadApproved, AnswerDiscovery, Rows
<1>5. CASE CreatePitch \/ DeckAvailable \/ DeckDeleted \/ UNCHANGED vars
  BY <1>1, <1>5 DEF CreatePitch, DeckAvailable, DeckDeleted, vars
<1> QED
  BY <1>1, <1>2, <1>3, <1>4, <1>5 DEF Next

\* No step of any handler rewrites or removes a submitted snapshot, for any
\* number of overlapping requests and submissions.
THEOREM SnapshotsNeverChange == Spec => SnapshotsImmutable
<1>1. IInv /\ [Next]_vars =>
        [\A v \in Submitted : /\ submissions'[v] # NoSubmission
                              /\ submissions'[v].content = submissions[v].content
                              /\ submissions'[v].deck = submissions[v].deck]_vars
  BY StepKeepsRows DEF Preserved
<1> QED
  BY <1>1, Invariance, PTL DEF Spec, SnapshotsImmutable
================================================================================
