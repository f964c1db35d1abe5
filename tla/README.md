# PITCHDECK-NG: models, checks and proofs

PITCHDECK-NG connects innovators, who write and submit pitches, with reviewers,
administrators and verified sponsors.  Its logic is the NestJS API in
`apps/api` with the domain rules of `packages/contracts` and the Prisma schema of
`packages/database`; the two Next.js front ends are pages over that API.  Every
request is a sequence of awaited database statements.  PostgreSQL runs at its
default isolation, READ COMMITTED, and no handler locks a row it has read, so
between any two awaits every other request may run.  That is what these modules
are about: what still holds when handlers overlap or stop half-way, and what
holds only when they do not.

Paths below are relative to the repository; services are under `apps/api/src`.

## 1. The system's parts

| Part | State | Operations | What is hard | What makes it correct | Here |
|---|---|---|---|---|---|
| Pitch workflow (`pitches`, `admin/admin-pitches`, `packages/contracts/src/stage3-domain.ts`) | rows of `pitches`, `pitch_submissions`, `pitch_workflow_events` | owner: create, update, delete, submit, resubmit, withdraw; administrator: start review, request changes, approve, reject, reopen, suspend discovery | check-then-write on unlocked rows, two reads in one submit, a decision that picks "the newest submission" | submissions are an append-only, gapless ledger; a decision is backed by a submission; the trail is legal; no edit is lost | modelled |
| Discovery (`discovery`) | none, reads the above | list, get | pitches and submissions are read by two SELECTs, and an answer mixes the snapshot with fields of the editable row | without overlap, what sponsors see is what was approved | the two reads of one pitch |
| Authentication (`auth`) | `users`, `auth_sessions`, two token tables | register, confirm, login, refresh, logout, forgot, reset | races of refreshes, logins and resets; two statements without a transaction | reuse is always detectable; revoked stays revoked; tokens are single-use; blocked users cannot log in | modelled |
| User administration and roles (`admin/admin-users`, `rbac`, the bootstrap script) | `users`, `role_assignments` | bootstrap, create, set status, assign and revoke roles | count-then-write on the last super administrator; find-then-create of an assignment; two nulls are different to a unique index | one super administrator remains; no role is held twice | modelled |
| Reviews (`reviewer`, `admin/admin-pitches`) | `pitch_review_assignments`, `pitch_reviews` | assign, accept, decline, declare a conflict, review, revoke | the conflict is checked on a stale read; accept ignores the status; four awaits in one assignment | a review has a declared assignment and is never replaced; no review under a conflict | modelled |
| Sponsor organisations (`sponsor`, `admin/admin-sponsor-orgs`, `stage3/stage3-scope`) | organisations, memberships, verification events | create, update, add and remove members, submit; the administrator's five transitions | count-then-write on the final owner; an optional lock; verification of a profile that can change | the events tell the status; an organisation keeps an owner; what was decided is what was submitted | modelled |
| Files (`files`, `storage`) | `file_assets`, the object store | intent, complete (scan), delete; download | a scan overlaps a deletion or hangs; two stores without a transaction; a verdict that must come | scanning fails closed and leaves a verdict; an available file exists | all that changes state |
| Innovator profile (`innovator`) | `innovator_profiles` | upsert, completeness | partial updates: the stored percentage is computed from the request alone | the percentage is never overstated | modelled |
| Rate limits (`rate-limit`, `stage3`) | Redis counters | check | INCR and EXPIRE are two commands | a request over the limit is refused, and a window ends | modelled, no property |
| Front ends (`apps/web`, `apps/admin-web`) | the page shown, its flag, cookies, calls in flight | open a page, press a button; load, write, reload, redirect | answers out of order, late answers to pages that were left, a CSRF cookie that may be missing | a page settles, and on its own last write; no write fails for its header | the pages that call the API, in one tab |
| HTTP plumbing (guards, cookies, configuration, health) | - | - | - | - | the two guards and the cookies, with the front ends |
| Audit log and e-mail | append-only rows | log, send | nothing reads them back | - | not modelled |
| UI kit, test tooling, infrastructure, migrations | - | - | - | - | not modelled |

How they interact: the JWT guard reads `auth_sessions` and `role_assignments` for
every other part; submitting a pitch reads the files and the innovator profile;
reviewers are assigned to a submission by administrators and need the role; a
sponsor organisation is submitted with a clean certificate; discovery reads pitches
and submissions for members of a verified organisation; every part writes the
audit log after its last write.  All of it goes through the database (and Redis,
the bucket and clamd): there are no queues and no calls between handlers other
than `resubmit` calling `submit`.  The front ends know the API only by its answers.

`PROJECT.json` lists the hazards line by line.

## 2. Modules

| Module | Contents |
|---|---|
| `PitchDomain` | the statuses and the transition table of the contracts package |
| `PitchWorkflow` | one pitch, its submissions, every handler that changes it and the one that shows it |
| `SubmissionLedger` | abstract: an append-only ledger of snapshots with their verdicts, and where the pitch stands |
| `PitchLifecycle` | abstract: the life cycle of README.md, pitch and newest submission together |
| `AuthSessions` | one account, its tokens, its sessions and every handler that changes them |
| `RequestSlots` | requests in flight: begin, keep, finish, break off |
| `RbacRules` | the pure rules about roles, scopes and states |
| `AdminRoles` | accounts and role assignments, over `RequestSlots` and `RbacRules` |
| `ReviewAssignments` | the reviewers of one pitch, over `AdminRoles` |
| `ReviewPanel` | the two composed |
| `ReviewEngagement` | abstract: asked at most once, reviewed at most once, after being asked |
| `SponsorMembers` | organisations' members, over `RequestSlots` and `RbacRules` |
| `SponsorVerification` | organisations and their verification, over `SponsorMembers` |
| `DomainRules` | the pure rules about document purposes and profile completeness |
| `RateLimiter` | the Redis counter, over `RequestSlots` |
| `MalwareScanner` | what clamd may say and what the two parsers make of it |
| `FileUploads` | files, objects and the handlers, over `DomainRules`, `RateLimiter` and `MalwareScanner` |
| `InnovatorProfile` | the profile row, over `DomainRules` |
| `ClientPages` | every page of both front ends as data: its load, its buttons |
| `WebClient` | a browser tab with cookies and calls in flight, over the two above |
| `...Proofs` | the inductive invariants of a component and its theorems |
| `PitchRefinementProofs`, `AuthSerialProofs` | the same for the two refinements of the workflow and for sessions without overlap |
| `MC...` | instances for TLC: symmetry sets and record-valued constants; the `.cfg` files give the rest |

### How code becomes actions

* A slot of `Requests` is a request in flight, and `reqs[r]` is what its handler
  keeps in local variables between two awaits, with the step it stands at.
* A handler is a `Begin...` action, with its reads and the checks on them, and
  one action per later write or read that others can come between.
  A Prisma `$transaction` is one action: its writes become visible together.  There
  are two exceptions.  `transitionPitch` reads the newest submission inside its
  transaction without locking it, so that `ReadLatest` and `CommitTransition` are two.
  The sponsor organisations' `transition` inserts its event before its update waits for
  the row, and readers order events by `createdAt`, so that `InsertEvent` and
  `WriteTransition` are two.
* A handler whose only write is one statement that no later step depends on is one
  action (`AtOnce`).  The reads of guards and of checks that precede the first
  read of the row to be written are part of `Begin...`.
* A write `where: { id }` is performed whatever the row has become; it fails only
  when the row is gone, and the transaction with it.
* `Abandon`, `Interrupt`, `Crash` and `CutShort` end a request between two
  statements: a restart, a lost connection, or a check on data outside the module.
* `overlapped` is a history variable: two requests have been in flight together.
  Properties with `~overlapped` say what the code provides only to requests that
  come one after the other; the others hold however they overlap.
* Conditions that properties rest on (`LockVersionMatches`, `NotFinalOwner`,
  `parseScanResponse`, `MayReview`, ...) are definitions of their own.  Next
  to them, definitions called `Bug_...` hold the same code with a plausible slip.
  No action uses them: replacing the definition by the slip is how each property
  is shown to notice something.

### PitchWorkflow

`pitch` is the row (`phase` says whether it exists); `content` stands for all
editable fields, of which the code only ever asks whether they are complete
(`CompleteContents`).  `submissions[v]` is the row with version v: its snapshot,
whether a deck was attached and its review status.  `trail` is the row of
`pitch_workflow_events` that was committed last (its `createdAt` need not be the
newest); `deckReady` is the count that `computeCompleteness` takes of usable decks.
`submit` is four actions (`BeginSubmit`: the first read, from which snapshot and version come; `CheckContent`: the second read; `CheckDeck`;
`CommitSubmit`).  `Abandon` ends a request between two statements: a restart, a
lost connection, or a check on data outside the module (the owner's profile).

Discovery is three actions.  Its `findMany` with an `include` is several SELECTs:
`BeginDiscovery` reads the row of an APPROVED pitch, `ReadApproved` the newest APPROVED
submission, and `AnswerDiscovery` ends the request.  The answer takes the sector, the
state and the currency from the row always, and any other field from it that the
snapshot lacks; the slot therefore keeps the row's `content` beside the `version`, which
is 0 when there is no approved submission and the whole answer is the editable row.

### AuthSessions

`account` is the row of `users`, with `password` counting the passwords it had (0
is a null hash).  A session has its `family`, named by the session the login
created, and `parent`, the session whose token was exchanged for it; it also
carries the password its login checked, which no column holds and only
`ResetRevokesAll` looks at.  `rotateSession` is three actions (`BeginRefresh`,
`RevokeOld`, `CreateRotated`) because its statements are in no transaction;
`resetPassword` is `BeginReset`, `CommitReset` (the transaction) and
`RevokeAllSessions`.  The operations of a signed-in user need a valid session of
that user, as the JWT guard does; the guard does not look at the account's status.
`Interrupt` ends a request between two statements, when `Interrupted` is TRUE.

### ReviewPanel: AdminRoles and ReviewAssignments

`rows` holds the role assignments, and every question about roles is asked of it
through `getUserRoles`, as in the code.  `assignRoleInternal` is `FindAssignment` and
`CreateAssignment`; the unique index of the schema refuses a second row of the
same state (`Refused`), but not of no state.  `updateStatus` and `revokeRole` count
super administrators in their `Begin...` and write in `Commit...`.  An actor is
any account with a sufficient role whatever its status, because the guard asks
for a session and not for the account.  `assigned` and `reviews` are named by the
pair of submission and reviewer, which is unique in the schema; `assignReviewer`
is four actions (newest submission, roles, account, insert) and `submitReview`
three (guard, declaration, transaction).  Only `submitReview` needs the reviewer's
role; `accept`, `decline` and the declaration need the assignment.

### SponsorMembers and SponsorVerification

A membership is named by organisation and user; `addMember` is an upsert
(`UpsertMember`) and `removeMember` finds a membership by its id, whatever
organisation it is of, counts the owners and updates: three actions after its
guard.  An organisation's `lock` stands for its profile, which every update
changes together with it.  `lastEvent` is the newest verification event by `createdAt`, and
`submittedLock` is history: which profile was submitted.  `InsertEvent` creates the event of a
decision, `WriteTransition` waits for the row, writes the status and the two stamps that
`BeginTransition` computed, and commits.  `precedes` is the order in which decisions
in flight inserted their events, and `overtaken` are those that have a committed event after
theirs: when they commit, the newest event is not theirs.  `submitVerification` updates
the row first, so its event is the newest when it commits.

### FileUploads, RateLimiter and MalwareScanner

A file is a row and an object; `completeUpload` is the limiter's INCR and EXPIRE,
the lookup, HEAD, the write of PENDING_SCAN, the two conversations with clamd
around the fetch of the bytes, and the verdict.  A conversation is a socket and
a timer: `ClamdAnswers` adds what was heard, and the first of the events in
`SettlingEvents` settles it (`SocketEnds`, `TimerFires`).  The bytes that are
scanned are those that were fetched, and clients may put others at the key at
any time (`PutObject`).  The fetch may fail for an object that exists, which rejects the
file.  `deleteFile` removes the object, then updates the row.  `undone` is history: a
verdict or a row that a request which was cut short has left undone, and of which file.

### WebClient, ClientPages and InnovatorProfile

`ClientPages` reduces every page to data: whether it loads, what it does when that
fails, and for each button whether it fetches a CSRF token, waits for the page's flag,
sets it, and what follows its write.  `WebClient` runs them: `Click` sends, `Serve` and
`Refuse` are the API with its two guards, the `Receive...` actions are the
continuation of the page's code.  A page that is left keeps no state, but its
code runs on: it may still set cookies, write and redirect (`Dead`, `Matters`).
The data of a page are a version number, raised by the page's own writes and by
others; `mine` remembers what the last write of this visit made of it.  The profile
page writes an `InnovatorProfile`, whose `StoredPercent` is computed from the request
alone while `Merged` keeps columns that are not given.

## 3. Runs

| Run | Instance | Shows |
|---|---|---|
| `pitch_concurrent` | 2 requests, 2 contents, 3 submissions, lock below 3 | `LedgerShape`, `DecisionBacked`, `TrailLegal`, `SnapshotsImmutable`; `PitchWorkflow` implements `SubmissionLedger` |
| `pitch_serial` | 1 request, 3 contents, 3 submissions | `SnapshotsComplete`, `ShownAsApproved`, `NoLostUpdate`; the workflow implements `PitchLifecycle` |
| `pitch_lost_update` | 2 requests | violated: two edits with one lock version both succeed |
| `pitch_unreviewed` | 2 requests | violated: changes are requested of a resubmission that nobody took under review |
| `auth_concurrent` | 2 requests, 3 sessions, interruptions | `ExchangedIsRevoked`, `SessionsVerified`, `RevokedStays` |
| `auth_serial` | 1 request, 3 sessions, 2 tokens of each kind, 3 passwords | `ReuseRevokesFamily`, `RotatedOnce`, `ResetRevokesAll`, `TokensSingleUse` |
| `auth_reset_race` | 2 requests | violated: a login survives a reset |
| `auth_reactivated` | 1 request | violated: confirming the e-mail ends a suspension |
| `review_panel` | 2 requests with crashes, 2 users, 2 role assignments, 2 submissions, 1 assignment | `ReviewsBacked`, the panel implements `ReviewEngagement`, a state's role is held once; without overlap `SuperAdminRemains`, `ConflictRespected` and no role held twice |
| `sponsor` | 2 requests with crashes, 1 organisation, 2 people, 2 versions | `EventsTellStatus`, `StampsTellDecision`; without overlap `EventsChain`, `FrozenOnceSubmitted`, `RemovalKeepsOwner` |
| `files` | 2 requests with crashes, 1 file, 3 contents, 1 attempt per window | `FailClosed`, `AvailableIsStored`; live: `EveryRequestEnds`, `ScanSettles` |
| `client` | all 31 pages, 2 calls in flight, 2 versions | `OwnWriteSeen`, `WritesCarryToken`, `PercentNeverOverstated`; live: `PagesSettle` |

The pitch and the sessions separate what holds however requests overlap from what
holds only when they do not by pairs of runs, "concurrent" and "serial"; the newer
modules by `overlapped`.  Properties of the second kind fail once two requests
overlap.  For the optimistic lock, the order of a review and the reset, which documents of
the repository promise, the failure is shown by a run that is expected to find a violation;
`auth_reactivated` needs no overlap.  The documents promise more that holds only
without overlap or without a crash; the findings below name it.

**Bounds.**  Two overlapping requests suffice for every race of two
check-then-write handlers; a third only repeats one of them, as every write is
unconditional on what the others hold.  Three submissions allow a newest one, the
one before it that a stale decision can hit, and one more that must stay untouched.
`MaxLock` bounds edits only: no edit begins at a version of `MaxLock`, so the
runs see every interleaving of that many.  Three sessions allow a login, its
rotation and a second rotation (or a concurrent one, or an independent family); two tokens of
each kind allow an old link to be used after a newer one.  Three passwords allow
the one set at registration and two resets.
Two role assignments are what the last super administrator and one other role,
or the same role twice, need; two users an administrator and a reviewer, who may
be the same.  A second submission makes an assignment stale.  The single
assignment of that run bounds how many rows there are at a time and not which pair they are
of.  Two people are an owner and another member or owner.  The three contents are
a certificate of exactly the allowed size, one a byte larger, and an infected one;
one attempt per window makes the second request exceed the limit.  Two
calls in flight are a load and a write that overtake one another, or two writes
of one page; two versions let a write of the page and one of others meet.

**Deadlock** is checked in every run but those of the pitch: a deleted pitch
has no further operation.

**Fairness and liveness.**  In `files`, every step of a handler that only waits for a statement, a
Redis command or the bucket is weakly fair (`HandlerStep`), and so is the scanner's
timer: `malware-scanner.service.ts` sets a timeout on every socket.  Nothing is
assumed of clients, of clamd (it may never answer) or of crashes (a request may be cut
short or not).  `ScanSettles` excepts a file of which a request was cut short between the start of the
scan and its verdict, which stays PENDING_SCAN.  Other crashes are not excepted.
In `client`, every call is answered or fails, and the browser runs what waits for an
answer; users need do nothing.  `PagesSettle` excepts the pages that do not catch the
failure of their load, which go on showing that they load, and a user who keeps
opening others.
In the other components nothing is promised to happen eventually: a
request may stop at any point, nothing retries it, no background job exists, and
users owe the system no further action.

**Findings.**  The four violated runs are described, with the lines of the
documents they contradict, in `PROJECT.json`.  Some observations need no run:

* `docs/API.md:154` calls `POST /admin/pitches/:pitchId/reopen` "Reopen for review",
  while `reopen()` asks for CHANGES_REQUESTED, which the table allows only from
  UNDER_REVIEW, so that no decided pitch can be reopened.
* `addMember` demotes the final owner when they are invited again with another
  role, and `removeMember` counts the owners of the organisation in the path, not
  of the membership's.  `RemovalKeepsOwner` is therefore about removals from the
  named organisation, which is the rule the code has.
* `docs/SECURITY.md:25` promises that reuse of a refresh token revokes its family.
  `ReuseRevokesFamily` holds without overlap: a refresh that has revoked the old session and
  not yet created the new one (`session.service.ts:105`) leaves the new one valid
  when reuse is detected in between.
* `docs/SECURITY.md:45` promises that the last super administrator cannot be removed.
  `SuperAdminRemains` holds without overlap: two revocations, one for each of the last two,
  both count two (`admin-users.service.ts:312`) and both delete.
* `docs/SECURITY.md:50` promises no permanent lockout from failed logins.  After a crash
  between INCR and EXPIRE (`rate-limit.service.ts:22`) the counter has no time to live and
  nothing resets it; `login` uses such counters.
* The edit page looks for the word "conflict" in a message that reads "Pitch was
  modified by another session", so its conflict banner never shows.

## 4. Theorems

All theorems hold for any set of requests, users, files and so on and any
bounds that satisfy the named assumptions of the modules.  Every safety and action
property of a passing run and all three refinements are theorems.  They come in
two kinds, as the properties do:

* for requests that overlap in any way;
* for requests that come one after the other.  The older modules state this as a
  hypothesis on the constants, `Serial` (at most one slot for requests, the instance of
  the serial runs); the newer ones have `~overlapped` in the property itself, so that their
  theorems are about `Spec` as it is.

None of the properties is inductive: a write trusts what its request read some awaits
earlier.  Every invariant therefore says what a request in flight still knows.
However requests overlap, a request knows what nobody takes back: that rows which are
never deleted exist, that a transition was legal for the status it read, that a
declaration was made (`RequestKnows`).  Without overlap it knows more: what it read is
what the rows still hold (`StillTrue`), because it is the only one (`Serial`, `Alone`).
What distinguishes the two kinds is what the code leaves to luck, and the invariants of the
second kind list it.

### Pitch workflow

`PitchWorkflowProofs`: `TypeCorrect`, `LedgerIsContiguous`, `DecisionsAreBacked`,
`TrailIsLegal` (invariants) and `SnapshotsNeverChange` (an action property), with
the invariant `IInv`.  A submit in flight
holds a version of at most one more than the newest; since rows are never removed
and the insert fails on an existing version, an insert that succeeds appends.  A
decision in flight passed the table's check, which no pitch without a submission
does, and past `ReadLatest` it holds a version that exists, so the status it
writes is backed by the submission it writes with it.  An update knows only that
its content is one; a delete knows nothing, and succeeds only without submissions.
There is a lemma per handler, and under it a step per action.

`PitchRefinementProofs`: `LedgerRefined`, the refinement of `SubmissionLedger`, needs
only `IInv`: every handler appends one waiting entry, writes one decision on an entry and
on the pitch together, withdraws, or leaves the ledger alone.  A decision may be on an older entry
than the newest, and that is all `SubmissionLedger` leaves open.
`LifecycleRefined`, `SnapshotsAreComplete`, `EditsAreBased` and `ShownIsApproved` assume
`Serial`.  `SerialInv` adds `StillTrue` (base version, status, content and newest version
are those of the row), `NewestFollows` (until the owner withdraws the pitch its newest
submission has the status of the pitch) and `ContentFollows` (where the owner cannot edit, the
row holds what was submitted last).  None of them holds with two requests.
`pitch_lost_update` and `pitch_unreviewed` show it of `StillTrue`.  `NewestFollows` fails when a
decision that has picked its submission commits after a resubmission, and `ContentFollows`
when an update that read CHANGES_REQUESTED writes after an approval.  A sponsor may then be shown
the edited row beside the snapshot, or alone; no document of the repository promises otherwise.
`NewestApproved` is the largest of a bounded set of versions; that there is one follows from
well-founded induction, whose theorem about natural numbers is a library fact.

### Authentication and sessions

`AuthSessionsProofs`: `AuthTypesCorrect`, `ExchangedTokensAreRevoked`,
`SessionsAreVerified`, `RevocationIsFinal`.  The invariant `AInv` adds
`RequestKnows`: a login in flight saw
a confirmed e-mail, which is never taken back; a refresh in flight names a row that
exists and, after its first write, is revoked, so the row it is about to insert
points to a revoked one.  Every other step either leaves the rows' identity alone
(`RowKept`) or revokes, and `SlotStep`, `QuietStep`, `RevokingStep` and `NewRowStep`
are the four shapes a step can have.  `RevocationIsFinal` adds that a row that does not exist is
blank, so that an insert takes no revocation back.

`AuthSerialProofs`, under `Serial`: `ReuseEndsFamily`, `ExchangedOnce`,
`CredentialsCostTokens`, `BlockedStayOut`, from the invariant `SInv`.  `BlockedStayOut` (no login
creates a session of an account that is unconfirmed or blocked) is not checked by a run.  It adds that a
refresh in flight presents a token of a family without reuse that nothing descends
from, that a token about to be used is not used, that a login about to insert found
the account active, and that the login of every family has its row.
These hold although requests may stop between two statements.  `ResetEndsSessions`
does not: `resetPassword` revokes the sessions after its transaction, and a restart between
them leaves the old sessions good.  It assumes `~Interrupted` as well, and its
invariant `PInv` adds that what a login or a refresh is about to insert carries the
account's password.

### Roles and reviews

`ReviewPanelProofs`: `TypeCorrect`, `ReviewsAreBacked`, `PanelImplementsEngagement`,
from the invariant `PInv`: a request in flight which has looked at an
assignment still finds it, and a review about to commit finds it declared: rows of
assignments are never removed and no declaration is withdrawn (`AssignmentsGrow`).
Each lemma about the reviews also shows that its step is one of `ReviewEngagement` or
leaves it alone (`Engages`).

`NoRoleTwice`, `SuperAdminStays` and `ConflictsRespected` rest on `AInv`: without
overlap a request that found no assignment of a role still finds none (`LookedUp`), one about
to revoke a super administrator's role leaves another (`NotTheLast`), and a review
in flight has no confirmed conflict.  `updateStatus` and `revokeRole` count rows
and not people; `NotTheLast` follows from a count of at least two by the library's facts
about cardinality.  For roles of a state, `NoRoleTwice` needs no `~overlapped`: the
unique index refuses the row.

### Sponsor organisations

`SponsorVerificationProofs`: `TypeCorrect`, `HistoryTellsStatus`, `StampsTell`, from the
invariant `SInv`: a transition in flight was legal for the status it read, so its event
is legal whatever the row has become, and its stamps are those its target needs.  A
submission's event is the newest when it commits; a decision's need not be, which is why
`HistoryTellsStatus` speaks of DRAFT and SUBMITTED only, once requests have overlapped.
Until then nothing is overtaken (`InOrder`).  An update in flight knows that its organisation exists.

`SubmittedProfileFrozen`, `EventsAreAChain` and `FinalOwnerStays` rest on `AInv`:
without overlap the status a transition read is the row's, an update in flight may still
edit, a decision is never a submission (it stamps no profile), and a removal
from the named organisation leaves another owner.

### Files

`FileUploadsProofs`: `TypeCorrect`, `ScanningFailsClosed` (an action property), from
the invariant `FInv`: a request past its lookup still has its row, "OK"
heard of a stream means bytes without malware, and with clamd a request about
to finalize has heard it.  `AvailableFilesStored` rests on `DInv`: without overlap, and whatever
is cut short, between HEAD and the verdict the object is still there, and an available file
without its object is one whose deletion has the row still to write (`Backed`) or was
cut short before it did (`undone`).

### Front ends and profile

`WebClientProofs`: `ProfileNeverOverstated`, for the profile alone, and
`PercentHonestInClient`, in the composition.  The percentage is monotone in the
fields (`PercentMonotone`), and a row holds at least what the request filled.
`HeadersNeverMissing`: the invariant `TInv` adds to `WritesCarryToken` that an access
cookie never comes without the CSRF cookie, that a write in flight has the header if
its cookie or a public route may get it past the session guard, and that calls and
redirects lead to pages; `EveryPageOK` shows of all 31 pages that each button of a
public page fetches a token.
`TypeCorrect` gives the types (`ClientOK`, and `ProfileOK` of the profile).
`WritesAreSeen` is about the pages whose buttons wait for one another and whose
writes are followed by a reload or return the new data (`ShowsWrites`).  The
invariant `OInv` says that on such a page calls take turns (`Turns`): at most one is
live, a read that was answered is not older than the last write, and when none is under
way the page shows it.

### Model-checked only

The three liveness properties, `EveryRequestEnds`, `ScanSettles` and `PagesSettle`: the prover has no rules for fairness.  The properties of the four violated runs are
false of the instances that show them.

## 5. Limits of the models

* The awaits of a guard and of the checks before the first relevant read are one
  step with it: a role that is revoked between two of them is not seen.
* In `WebClient` the API serves a call in one step and sets its cookies in the order
  the answers arrive.  A late answer to a second "Sign out" that clears the CSRF cookie
  of a newer login is outside the model, and so are two tabs.
* Discovery is followed for one pitch and one answer; a list is such an answer for each of
  its pitches.
* The redirect of a page that was left is modelled; overlapping reloads of the
  administrators' user page, whose buttons do not wait, are followed only as far as
  no property looks at their data.
* The lock version of an organisation and the content of a pitch stand for all
  editable fields; scores and texts of a review are left out.
* One account in `AuthSessions`, one pitch in `PitchWorkflow` and `ReviewAssignments`:
  no handler modelled there writes two of them.

## 6. Not modelled

Access tokens and password hashing (no state the handlers share); audit rows and
e-mails (written last and never read); who may read a file, the download link, and
the filters, the paging and the membership check of discovery, and the public profile it
adds (reads only); the state scope of administrators
over pitches (a guard that ends a request; it is modelled for users and
organisations); the other keys of the limiter (the same code with other limits); the server route `apps/web/src/app/api/verify-email/route.ts`
(it fetches its own CSRF token first, as `WritesCarryToken` asks of the pages); static pages, layout, browser-side validation
and the UI kit; health checks,
configuration, tooling, migrations and seed data.

Six hazards of `PROJECT.json` have no property; each says why.  The theorems of the
pitch and of the sessions that assume `Serial` could be stated for any set of
requests under `~overlapped`, as in the newer modules.
