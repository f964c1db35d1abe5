----------------------------- MODULE PitchWorkflow -----------------------------
(***************************************************************************)
(* One pitch, the HTTP handlers that change it, the owner's                *)
(* (pitches.service.ts) and the administrators' (admin-pitches.service.ts), *)
(* and the one that shows it to sponsors (discovery.service.ts).           *)
(*                                                                         *)
(* A handler reads the database, checks what it read, and writes later;    *)
(* every await between is a point where other requests run.  Nothing locks *)
(* the row and PostgreSQL runs at READ COMMITTED, so each handler is a     *)
(* Begin action (the reads and the checks, the values it keeps stored in   *)
(* reqs[r]) followed by the actions of its later statements.  A            *)
(* transaction is one action, except where a statement inside it reads     *)
(* rows without locking them (transitionPitch).                            *)
(*                                                                         *)
(* Timestamps, audit rows, e-mails and rate limits are left out: no guard  *)
(* of these handlers reads them, and they follow the last write.           *)
(***************************************************************************)
EXTENDS Naturals, PitchDomain

CONSTANTS
  Requests,         \* slots for the requests in flight at the same time
  Contents,         \* values of the fields an innovator edits
  CompleteContents, \* those calculatePitchCompleteness has no blocking issue for
  NoContent,        \* "no content kept" in an idle slot
  MaxVersion,       \* bound: submissions per pitch
  MaxLock           \* bound: no edit begins at a lockVersion of MaxLock or more

ASSUME PitchConstants ==
  /\ CompleteContents \subseteq Contents
  /\ NoContent \notin Contents
  /\ MaxVersion \in Nat
  /\ MaxLock \in Nat

VARIABLES
  pitch,        \* the row of table pitches
  submissions,  \* the rows of pitch_submissions, by version
  trail,        \* the last row committed to pitch_workflow_events
  deckReady,    \* a PITCH_DECK file of the pitch is AVAILABLE, CLEAN, not deleted
  reqs          \* what each request in flight keeps between two awaits

vars == <<pitch, submissions, trail, deckReady, reqs>>

--------------------------------------------------------------------------------
Versions == 1..MaxVersion

Submission == [content : Contents, deck : BOOLEAN, reviewStatus : PitchStatus]

\* The value of submissions[v] while no row has version v.
NoSubmission == [content |-> NoContent, deck |-> FALSE, reviewStatus |-> "DRAFT"]

Pitch == [phase : {"none", "live", "deleted"},
          status : PitchStatus,
          lastSubmittedVersion : Nat,      \* null is 0
          lockVersion : Nat,
          content : Contents \union {NoContent},
          discoverySuspended : BOOLEAN]

Steps == {"idle", "update", "delete", "resubmit", "submit", "submitDeck",
          "submitCommit", "withdraw", "transition", "decide", "suspend",
          "discover", "show"}

Request == [step : Steps,
            from : PitchStatus,            \* the status it read
            to : PitchStatus,              \* the status it will write
            content : Contents \union {NoContent},
            version : 0..MaxVersion,       \* the submission it will write or shows
            base : Nat]                    \* the lockVersion the client sent

Idle == [step |-> "idle", from |-> "DRAFT", to |-> "DRAFT",
         content |-> NoContent, version |-> 0, base |-> 0]

Submitted == {v \in Versions : submissions[v] # NoSubmission}

LatestVersion ==
  IF Submitted = {} THEN 0 ELSE CHOOSE v \in Submitted : \A w \in Submitted : w <= v

\* orderBy: { version: "desc" }, take: 1, of the submissions that are APPROVED.
NewestApproved ==
  LET approved == {v \in Submitted : submissions[v].reviewStatus = "APPROVED"} IN
  IF approved = {} THEN 0 ELSE CHOOSE v \in approved : \A w \in approved : w <= v

\* findUnique ... if (!pitch) throw: a deleted row ends the request with 404.
Found == pitch.phase = "live"

\* The editable statuses of update().
Bug_EditableUnderReview == {"DRAFT", "CHANGES_REQUESTED", "SUBMITTED"}
Editable == {"DRAFT", "CHANGES_REQUESTED"}

Keep(r, rec) == reqs' = [reqs EXCEPT ![r] = rec]
Finish(r) == Keep(r, Idle)
Rows == <<pitch, submissions, trail, deckReady>>

--------------------------------------------------------------------------------
(* Guards and constraints, each by itself because each is what some property *)
(* rests on.  The definitions named Bug_... are the same code with a         *)
(* plausible slip; no action uses them, they show that the properties notice. *)

\* @@unique([pitchId, version]): the insert of an existing version fails.
Bug_NoUniqueIndex(v) == TRUE
VersionFree(v) == submissions[v] = NoSubmission

\* onDelete: Restrict: a pitch with a submission row cannot be deleted.
Bug_CascadingDelete == TRUE
NoSubmissionRows == Submitted = {}

\* The optimistic lock of update(): the client's lockVersion is the row's.
Bug_LockIgnored(base) == TRUE
LockVersionMatches(base) == base = pitch.lockVersion

\* assertion of submit(): calculatePitchCompleteness leaves no blocking issue.
Bug_CompletenessSkipped(c) == TRUE
NoBlockingIssues(c) == c \in CompleteContents

\* (pitch.lastSubmittedVersion ?? 0) + 1
Bug_VersionSkipped == pitch.lastSubmittedVersion + 2
nextVersion == pitch.lastSubmittedVersion + 1

--------------------------------------------------------------------------------
(* The owner's handlers: create, update, delete, submit, resubmit, withdraw. *)

\* create(): only a title, every other field empty, and the column defaults.
CreatePitch ==
  /\ pitch.phase = "none"
  /\ \E c \in Contents \ CompleteContents :
        pitch' = [pitch EXCEPT !.phase = "live", !.content = c]
  /\ UNCHANGED <<submissions, trail, deckReady, reqs>>

BeginUpdate(r) ==
  /\ reqs[r] = Idle
  /\ Found
  /\ pitch.status \in Editable
  /\ pitch.lockVersion < MaxLock
  /\ \E base \in 0..pitch.lockVersion, c \in Contents :
        /\ LockVersionMatches(base)
        /\ Keep(r, [step |-> "update", from |-> "DRAFT", to |-> "DRAFT",
                     content |-> c, version |-> 0, base |-> base])
  /\ UNCHANGED Rows

\* The write names the row by id alone.
CommitUpdate(r) ==
  /\ reqs[r].step = "update"
  /\ pitch' = IF Found
                THEN [pitch EXCEPT !.content = reqs[r].content,
                                   !.lockVersion = @ + 1]
                ELSE pitch
  /\ Finish(r)
  /\ UNCHANGED <<submissions, trail, deckReady>>

BeginDelete(r) ==
  /\ reqs[r] = Idle
  /\ Found
  /\ pitch.status = "DRAFT" /\ pitch.lastSubmittedVersion = 0
  /\ Keep(r, [Idle EXCEPT !.step = "delete"])
  /\ UNCHANGED Rows

CommitDelete(r) ==
  /\ reqs[r].step = "delete"
  /\ pitch' = IF Found /\ NoSubmissionRows
                THEN [pitch EXCEPT !.phase = "deleted"]
                ELSE pitch
  /\ Finish(r)
  /\ UNCHANGED <<submissions, trail, deckReady>>

\* resubmit() checks the status of a read of its own, then calls submit().
BeginResubmit(r) ==
  /\ reqs[r] = Idle
  /\ Found
  /\ pitch.status = "CHANGES_REQUESTED"
  /\ Keep(r, [Idle EXCEPT !.step = "resubmit"])
  /\ UNCHANGED Rows

\* The first read of submit(): the snapshot and the version come from it.
BeginSubmit(r) ==
  /\ reqs[r].step \in {"idle", "resubmit"}
  /\ Found
  /\ canTransitionPitch(pitch.status, "SUBMITTED")
  /\ pitch.lastSubmittedVersion < MaxVersion
  /\ Keep(r, [step |-> "submit", from |-> pitch.status, to |-> "SUBMITTED",
               content |-> pitch.content, version |-> nextVersion, base |-> 0])
  /\ UNCHANGED Rows

\* computeCompleteness() reads the pitch a second time ...
CheckContent(r) ==
  /\ reqs[r].step = "submit"
  /\ IF Found /\ NoBlockingIssues(pitch.content)
       THEN Keep(r, [reqs[r] EXCEPT !.step = "submitDeck"])
       ELSE Finish(r)
  /\ UNCHANGED Rows

\* ... and counts the pitch deck files.
CheckDeck(r) ==
  /\ reqs[r].step = "submitDeck"
  /\ IF deckReady THEN Keep(r, [reqs[r] EXCEPT !.step = "submitCommit"])
                  ELSE Finish(r)
  /\ UNCHANGED Rows

\* The transaction of submit().  Its findMany of the files commutes with
\* every other write, so it stands with the inserts.
CommitSubmit(r) ==
  LET q == reqs[r] IN
  /\ q.step = "submitCommit"
  /\ IF Found /\ VersionFree(q.version)
       THEN /\ submissions' = [submissions EXCEPT ![q.version] =
                 [content |-> q.content, deck |-> deckReady, reviewStatus |-> "SUBMITTED"]]
            /\ pitch' = [pitch EXCEPT !.status = "SUBMITTED",
                                      !.lastSubmittedVersion = q.version,
                                      !.lockVersion = @ + 1]
            /\ trail' = [from |-> q.from, to |-> "SUBMITTED"]
       ELSE UNCHANGED <<submissions, pitch, trail>>
  /\ Finish(r)
  /\ UNCHANGED deckReady

Bug_WithdrawAnyStatus(r) ==
  /\ reqs[r] = Idle
  /\ Found
  /\ Keep(r, [Idle EXCEPT !.step = "withdraw", !.from = pitch.status])
  /\ UNCHANGED Rows

BeginWithdraw(r) ==
  /\ reqs[r] = Idle
  /\ Found
  /\ canTransitionPitch(pitch.status, "WITHDRAWN")
  /\ Keep(r, [Idle EXCEPT !.step = "withdraw", !.from = pitch.status])
  /\ UNCHANGED Rows

\* The submission keeps its reviewStatus and the row its lockVersion.
CommitWithdraw(r) ==
  /\ reqs[r].step = "withdraw"
  /\ IF Found
       THEN /\ pitch' = [pitch EXCEPT !.status = "WITHDRAWN"]
            /\ trail' = [from |-> reqs[r].from, to |-> "WITHDRAWN"]
       ELSE UNCHANGED <<pitch, trail>>
  /\ Finish(r)
  /\ UNCHANGED <<submissions, deckReady>>

--------------------------------------------------------------------------------
(* The administrators' handlers.  startReview, requestChanges, approve,      *)
(* reject and reopen are all transitionPitch with a target status.          *)

Bug_TransitionUnchecked(r) ==
  /\ reqs[r] = Idle
  /\ Found
  /\ \E to \in Decisions :
        Keep(r, [Idle EXCEPT !.step = "transition", !.from = pitch.status, !.to = to])
  /\ UNCHANGED Rows

BeginTransition(r) ==
  /\ reqs[r] = Idle
  /\ Found
  /\ \E to \in Decisions :
        /\ canTransitionPitch(pitch.status, to)
        /\ Keep(r, [Idle EXCEPT !.step = "transition", !.from = pitch.status, !.to = to])
  /\ UNCHANGED Rows

\* tx.pitchSubmission.findFirst: a snapshot read inside the transaction, which
\* a submit that commits before the updates below does not wait for.
ReadLatest(r) ==
  /\ reqs[r].step = "transition"
  /\ IF Found THEN Keep(r, [reqs[r] EXCEPT !.step = "decide", !.version = LatestVersion])
              ELSE Finish(r)
  /\ UNCHANGED Rows

Bug_SubmissionNotUpdated(r) ==
  LET q == reqs[r] IN
  /\ q.step = "decide"
  /\ pitch' = [pitch EXCEPT !.status = q.to]
  /\ trail' = [from |-> q.from, to |-> q.to]
  /\ Finish(r)
  /\ UNCHANGED <<submissions, deckReady>>

Bug_DecisionRewritesSnapshot(r) ==
  LET q == reqs[r] IN
  /\ q.step = "decide"
  /\ submissions' = [v \in Versions |->
                       IF v = q.version
                         THEN [submissions[v] EXCEPT !.reviewStatus = q.to,
                                                     !.content = pitch.content]
                         ELSE submissions[v]]
  /\ pitch' = [pitch EXCEPT !.status = q.to]
  /\ trail' = [from |-> q.from, to |-> q.to]
  /\ Finish(r)
  /\ UNCHANGED deckReady

CommitTransition(r) ==
  LET q == reqs[r] IN
  /\ q.step = "decide"
  /\ IF Found
       THEN /\ submissions' = [v \in Versions |->
                                 IF v = q.version
                                   THEN [submissions[v] EXCEPT !.reviewStatus = q.to]
                                   ELSE submissions[v]]
            /\ pitch' = [pitch EXCEPT !.status = q.to]
            /\ trail' = [from |-> q.from, to |-> q.to]
       ELSE UNCHANGED <<submissions, pitch, trail>>
  /\ Finish(r)
  /\ UNCHANGED deckReady

\* suspendDiscovery(): getPitch, then an update of the one column.
BeginSuspend(r) ==
  /\ reqs[r] = Idle
  /\ Found
  /\ Keep(r, [Idle EXCEPT !.step = "suspend"])
  /\ UNCHANGED Rows

CommitSuspend(r) ==
  /\ reqs[r].step = "suspend"
  /\ pitch' = IF Found THEN [pitch EXCEPT !.discoverySuspended = TRUE] ELSE pitch
  /\ Finish(r)
  /\ UNCHANGED <<submissions, trail, deckReady>>

--------------------------------------------------------------------------------
(* What sponsors see.  listPitches() is one findMany whose include Prisma    *)
(* runs as further SELECTs: the rows first, then their APPROVED submissions. *)
(* getPitch() repeats the first read as a guard and then lists.              *)

\* The answer takes the sector, the state and the currency from the row read
\* here, and every field the snapshot turns out not to have.
BeginDiscovery(r) ==
  /\ reqs[r] = Idle
  /\ Found
  /\ pitch.status = "APPROVED" /\ ~pitch.discoverySuspended
  /\ Keep(r, [Idle EXCEPT !.step = "discover", !.content = pitch.content])
  /\ UNCHANGED Rows

\* The snapshot of the answer; without one (0) the row alone makes it.
ReadApproved(r) ==
  /\ reqs[r].step = "discover"
  /\ Keep(r, [reqs[r] EXCEPT !.step = "show", !.version = NewestApproved])
  /\ UNCHANGED Rows

AnswerDiscovery(r) ==
  /\ reqs[r].step = "show"
  /\ Finish(r)
  /\ UNCHANGED Rows

--------------------------------------------------------------------------------
\* completeUpload() ends with a deck AVAILABLE and CLEAN.  The last one is lost
\* to deleteFile(), or to another completeUpload() of it, which goes back to
\* PENDING_SCAN and may be rejected.
DeckAvailable ==
  /\ pitch.phase = "live"
  /\ deckReady' = TRUE
  /\ UNCHANGED <<pitch, submissions, trail, reqs>>

DeckDeleted ==
  /\ pitch.phase = "live"
  /\ deckReady' = FALSE
  /\ UNCHANGED <<pitch, submissions, trail, reqs>>

\* The request ends early: the second check of resubmit() fails, the owner's
\* profile is not complete enough to submit, the process restarts, or the
\* connection to the database is lost and the transaction rolls back.
Abandon(r) ==
  /\ reqs[r] # Idle
  /\ Finish(r)
  /\ UNCHANGED Rows

Init ==
  /\ pitch = [phase |-> "none", status |-> "DRAFT", lastSubmittedVersion |-> 0,
              lockVersion |-> 0, content |-> NoContent, discoverySuspended |-> FALSE]
  /\ submissions = [v \in Versions |-> NoSubmission]
  /\ trail = [from |-> "DRAFT", to |-> "DRAFT"]
  /\ deckReady = FALSE
  /\ reqs = [r \in Requests |-> Idle]

OwnerStep(r) ==
  \/ BeginUpdate(r) \/ CommitUpdate(r)
  \/ BeginDelete(r) \/ CommitDelete(r)
  \/ BeginResubmit(r)
  \/ BeginSubmit(r) \/ CheckContent(r) \/ CheckDeck(r) \/ CommitSubmit(r)
  \/ BeginWithdraw(r) \/ CommitWithdraw(r)

AdminStep(r) ==
  \/ BeginTransition(r) \/ ReadLatest(r) \/ CommitTransition(r)
  \/ BeginSuspend(r) \/ CommitSuspend(r)

SponsorStep(r) == BeginDiscovery(r) \/ ReadApproved(r) \/ AnswerDiscovery(r)

Next ==
  \/ CreatePitch \/ DeckAvailable \/ DeckDeleted
  \/ \E r \in Requests : OwnerStep(r) \/ AdminStep(r) \/ SponsorStep(r) \/ Abandon(r)

Spec == Init /\ [][Next]_vars

--------------------------------------------------------------------------------
(* Properties.                                                               *)

\* Every variable keeps its type: the rows hold values their columns allow
\* and a slot holds a request of one of the handlers.
TypeOK ==
  /\ pitch \in Pitch
  /\ submissions \in [Versions -> Submission \union {NoSubmission}]
  /\ trail \in [from : PitchStatus, to : PitchStatus]
  /\ deckReady \in BOOLEAN
  /\ reqs \in [Requests -> Request]

\* However submits, deletes and stale writes race, the submissions are numbered
\* 1, 2, ... without a gap up to lastSubmittedVersion, the pitch is a DRAFT
\* exactly while it has none, and only a live pitch has any: the version that
\* submit() computes from a stale read never collides unnoticed, and delete()
\* never takes a submission's pitch away.
LedgerShape ==
  /\ Submitted = {v \in Versions : v <= pitch.lastSubmittedVersion}
  /\ pitch.lastSubmittedVersion <= MaxVersion
  /\ pitch.status = "DRAFT" <=> pitch.lastSubmittedVersion = 0
  /\ pitch.phase # "live" => Submitted = {}

\* A status that only an administrator gives is backed by a submission that
\* carries the same decision, whichever transitions overlapped: an APPROVED
\* pitch has an APPROVED submission for discovery to look for.
DecisionBacked ==
  pitch.status \in Decisions =>
    \E v \in Submitted : submissions[v].reviewStatus = pitch.status

\* The entry of the audit trail that is committed last names the pitch's status
\* (its createdAt need not be the newest: transitionPitch() inserts it before
\* its update waits for the row), and each entry is a transition the contract
\* allows, although concurrent requests take the pitch through others.
TrailLegal ==
  trail # [from |-> "DRAFT", to |-> "DRAFT"] =>
    /\ canTransitionPitch(trail.from, trail.to)
    /\ trail.to = pitch.status

\* A submitted snapshot never changes and is never removed, whatever is later
\* edited, decided, resubmitted or withdrawn.
SnapshotsImmutable ==
  [][\A v \in Submitted : /\ submissions'[v] # NoSubmission
                          /\ submissions'[v].content = submissions[v].content
                          /\ submissions'[v].deck = submissions[v].deck]_vars

\* An accepted edit was based on the row it replaces: "Pitch was modified by
\* another session" is what a client with an older lockVersion gets.
NoLostUpdate ==
  [][\A r \in Requests :
       reqs[r].step = "update" /\ pitch' # pitch /\ reqs'[r] = Idle =>
         reqs[r].base = pitch.lockVersion]_vars

\* What is submitted is what the completeness check passed.
SnapshotsComplete == \A v \in Submitted : submissions[v].content \in CompleteContents

\* With one request at a time the two halves of what sponsors see agree: there
\* is an approved snapshot, and the fields discovery takes from the row beside
\* it, which update() can edit in other statuses, are those that were approved.
ShownAsApproved ==
  \A r \in Requests :
    reqs[r].step = "show" =>
      /\ reqs[r].version \in Submitted
      /\ submissions[reqs[r].version].reviewStatus = "APPROVED"
      /\ submissions[reqs[r].version].content = reqs[r].content

\* "draft -> submitted -> under review -> approved/rejected": a submission that
\* is waiting is taken under review before any decision on it.
ReviewedBeforeDecision ==
  [][\A v \in Submitted :
       submissions[v].reviewStatus = "SUBMITTED" /\ submissions'[v].reviewStatus # "SUBMITTED" =>
         submissions'[v].reviewStatus = "UNDER_REVIEW"]_vars

--------------------------------------------------------------------------------
(* Refinements.                                                              *)

Ledger == INSTANCE SubmissionLedger WITH
  Snapshots  <- [content : Contents, deck : BOOLEAN],
  Verdicts   <- Decisions,
  MaxEntries <- MaxVersion,
  ledger     <- [v \in 1..pitch.lastSubmittedVersion |->
                   [content |-> submissions[v].content, deck |-> submissions[v].deck]],
  verdict    <- [v \in 1..pitch.lastSubmittedVersion |-> submissions[v].reviewStatus],
  standing   <- pitch.status

\* However requests overlap, submitting appends a waiting entry to a ledger that
\* nothing rewrites, and the pitch only takes a status an administrator gives in
\* the same step as an entry of the ledger takes it.
LedgerImplemented == Ledger!Spec

Lifecycle == INSTANCE PitchLifecycle WITH
  status <- pitch.status,
  latest <- IF LatestVersion = 0 THEN "NONE" ELSE submissions[LatestVersion].reviewStatus

\* With one request at a time the pitch follows the contract's transitions and
\* its newest submission the pitch; overlapping requests do not (see
\* ReviewedBeforeDecision).
LifecycleImplemented == Lifecycle!Spec
================================================================================
