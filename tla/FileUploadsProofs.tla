--------------------------- MODULE FileUploadsProofs ---------------------------
(***************************************************************************)
(* Proofs about FileUploads for any number of files and overlapping          *)
(* requests and every scan mode: the types, that scanning fails closed and,  *)
(* while requests do not overlap, that available files have their objects.   *)
(***************************************************************************)
EXTENDS FileUploads, TLAPS

InFlight == {Idle} \union FileRequest

\* The steps that have found the row of their file.
Later == {"head", "mark", "ping", "fetch", "stream", "reject", "finalize", "deleteObject",
          "deleteRow"}

\* What a request in flight still knows although others have written since: its
\* row is there, and what it streamed and heard of clamd belongs together.
RequestKnows(q) ==
  /\ q.step \in Later => FileFound(q.file)
  /\ q.step = "stream" => q.bytes \in Contents /\ ("OK" \in q.heard => ~q.bytes.infected)
  /\ q.step = "finalize" /\ ScanMode = "clamav"
       => q.bytes \in Contents /\ ~q.bytes.infected /\ "OK" \in q.heard

\* The inductive invariant.
FInv == TypeOK /\ \A r \in Requests : RequestKnows(reqs[r])

RowsStay == \A f \in Files : FileFound(f) => FileFound(f)'

--------------------------------------------------------------------------------
LEMMA IdleKnows == Idle \in InFlight /\ RequestKnows(Idle) /\ RequestKnows(Idle)'
BY DEF InFlight, Idle, RequestKnows, Later

\* A step preserves the invariant when what it writes has its type, no row is
\* lost and the slot's new content is sound.
LEMMA Assemble ==
  ASSUME FInv, NEW r \in Requests, NEW q \in InFlight, RequestKnows(q)',
         reqs' = reqs \/ reqs' = [reqs EXCEPT ![r] = q],
         overlapped' \in BOOLEAN, undone' \subseteq Undone \X Files, TypeOKLimiter',
         files' \in [Files -> FileAsset \union {NoFile}],
         objects' \in [Files -> Contents \union {Absent}], expired' \subseteq Files, RowsStay
  PROVE  FInv'
<1>1. TypeOK'
  BY DEF FInv, TypeOK, InFlight
<1>2. ASSUME NEW s \in Requests
      PROVE  RequestKnows(reqs[s])'
  <2>1. CASE reqs'[s] = q
    BY <2>1 DEF RequestKnows
  <2>2. CASE reqs'[s] = reqs[s]
    <3>1. RequestKnows(reqs[s])
      BY DEF FInv
    <3>2. reqs[s].step \in Later => reqs[s].file \in Files
      BY DEF FInv, TypeOK, Idle, FileRequest, Later
    <3> QED
      BY <2>2, <3>1, <3>2 DEF RequestKnows, RowsStay
  <2> QED
    BY <2>1, <2>2 DEF FInv, TypeOK
<1> QED
  BY <1>1, <1>2 DEF FInv

\* A step that writes no row of file_assets.
LEMMA RowsUntouched ==
  ASSUME FInv, NEW r \in Requests, NEW q \in InFlight, RequestKnows(q),
         reqs' = reqs \/ reqs' = [reqs EXCEPT ![r] = q],
         overlapped' \in BOOLEAN, undone' \subseteq Undone \X Files, TypeOKLimiter', UNCHANGED files,
         objects' \in [Files -> Contents \union {Absent}], expired' \subseteq Files
  PROVE  FInv'
<1>1. RequestKnows(q)' /\ RowsStay
  BY DEF RequestKnows, RowsStay, FileFound
<1> QED
  BY <1>1, Assemble DEF FInv, TypeOK

\* A step of a handler that writes nothing but its slot.
LEMMA QuietStep ==
  ASSUME FInv, NEW r \in Requests, NEW q \in InFlight, RequestKnows(q),
         reqs' = [reqs EXCEPT ![r] = q], overlapped' \in BOOLEAN, UNCHANGED <<limiterVars, Data>>
  PROVE  FInv'
<1>1. TypeOKLimiter' /\ UNCHANGED <<files, objects, expired, undone>>
  BY DEF FInv, TypeOK, TypeOKLimiter, limiterVars, Data
<1> QED
  BY <1>1, RowsUntouched DEF FInv, TypeOK

\* A step that writes the row of one file.
LEMMA RowStep ==
  ASSUME FInv, NEW r \in Requests, NEW q \in InFlight, RequestKnows(q),
         reqs' = reqs \/ reqs' = [reqs EXCEPT ![r] = q], overlapped' \in BOOLEAN,
         NEW f \in Files, NEW a \in FileAsset, files' = [files EXCEPT ![f] = a],
         UNCHANGED <<limiterVars, objects, expired, undone>>
  PROVE  FInv'
<1>1. TypeOKLimiter'
  BY DEF FInv, TypeOK, TypeOKLimiter, limiterVars
<1>2. a # NoFile
  BY DEF FileAsset, NoFile, FileUploadStatus
<1>3. RowsStay
  BY <1>2 DEF FInv, TypeOK, RowsStay, FileFound
<1>4. RequestKnows(q)'
  <2>1. q.step \in Later => q.file \in Files
    BY DEF InFlight, Idle, FileRequest, Later
  <2> QED
    BY <1>3, <2>1 DEF RequestKnows, RowsStay
<1> QED
  BY <1>1, <1>3, <1>4, Assemble DEF FInv, TypeOK

\* Every update of a row is a row.
LEMMA UpdatesTyped ==
  ASSUME NEW a \in FileAsset
  PROVE  /\ Scanning(a) \in FileAsset /\ Rejected(a) \in FileAsset
         /\ Finalized(a) \in FileAsset /\ Deleted(a) \in FileAsset
         /\ Scanning(a).upload # "AVAILABLE" /\ Rejected(a).upload # "AVAILABLE"
         /\ Deleted(a).upload # "AVAILABLE"
BY DEF FileAsset, FileUploadStatus, FileScanStatus, Scanning, Rejected, Finalized, Deleted

LEMMA InitSound == Init => FInv
<1> SUFFICES ASSUME Init PROVE FInv
  OBVIOUS
<1>1. TypeOKLimiter
  BY DEF Init, InitLimiter, TypeOKLimiter
<1>2. \A r \in Requests : reqs[r] = Idle
  BY DEF Init, InitSlots
<1> QED
  BY <1>1, <1>2, IdleKnows DEF Init, InitSlots, FInv, TypeOK

--------------------------------------------------------------------------------
LEMMA LimiterSound ==
  ASSUME FInv, NEW r \in Requests, CheckLimit(r) \/ ExpireLimit(r)
  PROVE  FInv'
<1>a. /\ TypeOKLimiter /\ "upload-complete" \in Keys /\ maxAttempts \in [Keys -> Nat]
      /\ reqs \in [Requests -> {Idle} \union FileRequest]
  BY FileUploadsConstants, RateLimiterConstants DEF FInv, TypeOK
<1>1. PICK f \in Files : f = reqs[r].file
  BY <1>a DEF CheckLimit, ExpireLimit, At, Idle, FileRequest
<1>2. PICK go : go = Slot("find", f)
  OBVIOUS
<1>3. go \in FileRequest /\ go.step = "find"
  BY <1>2 DEF Slot, FileRequest, CompleteSteps
<1>4. PICK q : /\ reqs' = [reqs EXCEPT ![r] = q] /\ UNCHANGED overlapped
               /\ q \in {Idle, go, [go EXCEPT !.step = "expire"]}
  BY <1>1, <1>2 DEF CheckLimit, ExpireLimit, Incr, SetExpiry, Keep, Finish
<1>5. q \in InFlight /\ RequestKnows(q)
  BY <1>3, <1>4, IdleKnows DEF InFlight, FileRequest, CompleteSteps, RequestKnows, Later
<1>6. TypeOKLimiter'
  <2>1. CASE CheckLimit(r)
    <3>1. Saturated(count["upload-complete"] + 1, "upload-complete") \in Nat
      BY <1>a DEF TypeOKLimiter, Saturated
    <3> QED
      BY <1>a, <2>1, <3>1 DEF CheckLimit, Incr, TypeOKLimiter
  <2>2. CASE ExpireLimit(r)
    <3>1. (count["upload-complete"] > 0) \in BOOLEAN
      OBVIOUS
    <3> QED
      BY <1>a, <2>2, <3>1, Zenon DEF ExpireLimit, SetExpiry, TypeOKLimiter
  <2> QED
    BY <2>1, <2>2
<1>7. UNCHANGED <<files, objects, expired, undone>>
  BY DEF CheckLimit, ExpireLimit, Data
<1> QED
  BY <1>4, <1>5, <1>6, <1>7, RowsUntouched DEF FInv, TypeOK

LEMMA FindSound ==
  ASSUME FInv, NEW r \in Requests, FindFile(r) \/ HeadObject(r)
  PROVE  FInv'
<1>1. PICK b \in FileRequest : b = reqs[r] /\ b.step \in {"find", "head"}
  BY DEF FindFile, HeadObject, At, FInv, TypeOK, Idle, FileRequest
<1>2. b.step = "head" => FileFound(b.file)
  BY <1>1 DEF FInv, RequestKnows, Later
<1>3. PICK q : /\ reqs' = [reqs EXCEPT ![r] = q] /\ UNCHANGED overlapped
               /\ \/ q = Idle
                  \/ /\ FileFound(b.file)
                     /\ \E s \in {"head", "mark", "reject"} : q = [b EXCEPT !.step = s]
  BY <1>1, <1>2 DEF FindFile, HeadObject, At, Proceed, Keep, Finish
<1>4. q \in InFlight /\ RequestKnows(q)
  BY <1>3, IdleKnows DEF InFlight, FileRequest, CompleteSteps, RequestKnows, Later
<1> QED
  BY <1>3, <1>4, QuietStep DEF FindFile, HeadObject, FInv, TypeOK

LEMMA ScannerSound ==
  ASSUME FInv, NEW r \in Requests,
         ClamdAnswers(r) \/ SocketEnds(r) \/ TimerFires(r) \/ FetchBuffer(r)
  PROVE  FInv'
<1>1. PICK b \in FileRequest : b = reqs[r] /\ b.step \in {"ping", "fetch", "stream"}
  BY DEF ClamdAnswers, SocketEnds, TimerFires, FetchBuffer, At, FInv, TypeOK, Idle, FileRequest
<1>2. RequestKnows(b) /\ FileFound(b.file)
  BY <1>1 DEF FInv, RequestKnows, Later
<1>3. CASE ClamdAnswers(r)
  <2>1. PICK w \in Answers(b.step, b.step = "stream" /\ b.bytes.infected) :
          Keep(r, [b EXCEPT !.heard = {w}])
    BY <1>1, <1>3 DEF ClamdAnswers, At
  <2>2. PICK q : q = [b EXCEPT !.heard = {w}]
    OBVIOUS
  <2>3. w \in Words /\ (b.step = "stream" /\ w = "OK" => ~b.bytes.infected)
    BY DEF Answers, Words
  <2>4. q \in FileRequest
    BY <2>2, <2>3 DEF FileRequest
  <2>5. RequestKnows(q)
    <3>1. q.step = b.step /\ q.file = b.file /\ q.bytes = b.bytes /\ q.heard = {w}
      BY <2>2 DEF FileRequest
    <3> QED
      BY <1>1, <1>2, <2>3, <3>1 DEF RequestKnows
  <2> QED
    BY <1>3, <2>1, <2>2, <2>4, <2>5, QuietStep DEF ClamdAnswers, Keep, InFlight, FInv, TypeOK
<1>4. CASE SocketEnds(r)
  <2>1. PICK event, q :
          /\ reqs' = [reqs EXCEPT ![r] = q] /\ UNCHANGED overlapped
          /\ \/ \E s \in {"reject", "fetch"} : q = [b EXCEPT !.step = s]
             \/ /\ b.step = "stream" /\ Clean(event, b.step, b.heard)
                /\ q = [b EXCEPT !.step = "finalize"]
    BY <1>1, <1>4 DEF SocketEnds, At, Proceed, Keep
  <2>2. b.step = "stream" /\ Clean(event, b.step, b.heard) => "OK" \in b.heard
    BY DEF Clean, parseScanResponse
  <2>3. q \in InFlight
    BY <2>1 DEF InFlight, FileRequest, CompleteSteps
  <2>4. RequestKnows(q)
    <3>1. q.file = b.file /\ q.bytes = b.bytes /\ q.heard = b.heard
      BY <2>1 DEF FileRequest
    <3>2. \/ q.step \in {"reject", "fetch"}
          \/ q.step = "finalize" /\ b.step = "stream" /\ "OK" \in b.heard
      BY <2>1, <2>2 DEF FileRequest
    <3> QED
      BY <1>2, <3>1, <3>2 DEF RequestKnows
  <2> QED
    BY <1>4, <2>1, <2>3, <2>4, QuietStep DEF SocketEnds, FInv, TypeOK
<1>5. CASE TimerFires(r)
  <2>1. PICK q : q = [b EXCEPT !.step = "reject"]
    OBVIOUS
  <2>2. q \in InFlight /\ RequestKnows(q)
    BY <1>2, <2>1 DEF InFlight, FileRequest, CompleteSteps, RequestKnows
  <2> QED
    BY <1>1, <1>5, <2>1, <2>2, QuietStep DEF TimerFires, Proceed, Keep, FInv, TypeOK
<1>6. CASE FetchBuffer(r)
  <2>1. PICK c \in Contents \union {Absent} : c = objects[b.file]
    BY DEF FInv, TypeOK, FileRequest
  <2>2. PICK q : /\ reqs' = [reqs EXCEPT ![r] = q] /\ UNCHANGED overlapped
                 /\ \/ q = [b EXCEPT !.step = "reject"]
                    \/ /\ ~Empty(c)
                       /\ q = [step |-> "stream", file |-> b.file, heard |-> {}, bytes |-> c]
    BY <1>1, <1>6, <2>1 DEF FetchBuffer, Proceed, Keep
  <2>3. ~Empty(c) => c \in Contents
    BY <2>1 DEF Empty
  <2>4. q \in InFlight /\ RequestKnows(q)
    BY <1>2, <2>2, <2>3 DEF InFlight, FileRequest, CompleteSteps, RequestKnows
  <2> QED
    BY <1>6, <2>2, <2>4, QuietStep DEF FetchBuffer, FInv, TypeOK
<1> QED
  BY <1>3, <1>4, <1>5, <1>6

\* The handlers' writes of a row: the row and the step the request goes to.
LEMMA WritesSound ==
  ASSUME FInv, NEW r \in Requests,
         MarkScanning(r) \/ RejectFile(r) \/ FinalizeFile(r) \/ DeleteRow(r)
  PROVE  FInv'
<1>1. PICK b \in FileRequest : b = reqs[r] /\ b.step \in {"mark", "reject", "finalize", "deleteRow"}
  BY DEF MarkScanning, RejectFile, FinalizeFile, DeleteRow, At, FInv, TypeOK, Idle, FileRequest
<1>2. FileFound(b.file)
  BY <1>1 DEF FInv, RequestKnows, Later
<1>3. PICK f \in Files : f = b.file
  BY DEF FileRequest
<1>4. PICK old \in FileAsset : old = files[f]
  BY <1>2, <1>3 DEF FInv, TypeOK, FileFound
<1>5. PICK a \in FileAsset : files' = [files EXCEPT ![f] = a]
  <2>1. files' \in {[files EXCEPT ![f] = Scanning(old)], [files EXCEPT ![f] = Rejected(old)],
                    [files EXCEPT ![f] = Finalized(old)], [files EXCEPT ![f] = Deleted(old)]}
    BY <1>1, <1>3, <1>4, Zenon DEF MarkScanning, RejectFile, FinalizeFile, DeleteRow
  <2> QED
    BY <2>1, UpdatesTyped, Zenon
<1>6. PICK q : /\ reqs' = [reqs EXCEPT ![r] = q] /\ UNCHANGED overlapped
               /\ q = Idle \/ (b.step = "mark" /\ q = [b EXCEPT !.step = FirstStep])
  BY <1>1 DEF MarkScanning, RejectFile, FinalizeFile, DeleteRow, At, Proceed, Finish, Keep
<1>7. /\ FirstStep \in {"finalize", "reject", "ping"}
      /\ FirstStep = "finalize" => ScanMode # "clamav"
  BY ScanModeKnown DEF FirstStep
<1>8. q \in InFlight /\ RequestKnows(q)
  BY <1>2, <1>6, <1>7, IdleKnows DEF InFlight, FileRequest, CompleteSteps, RequestKnows
<1> QED
  BY <1>5, <1>6, <1>8, RowStep DEF MarkScanning, RejectFile, FinalizeFile, DeleteRow, FInv, TypeOK

LEMMA DeleteSound ==
  ASSUME FInv, NEW r \in Requests, BeginDelete(r) \/ DeleteObject(r)
  PROVE  FInv'
<1>1. CASE BeginDelete(r)
  <2>1. PICK f \in Files : FileFound(f) /\ Begin(r, Slot("deleteObject", f))
    BY <1>1 DEF BeginDelete
  <2>2. PICK q : q = Slot("deleteObject", f)
    OBVIOUS
  <2>3. q \in InFlight /\ RequestKnows(q)
    BY <2>1, <2>2 DEF Slot, InFlight, FileRequest, RequestKnows
  <2>4. reqs' = [reqs EXCEPT ![r] = q] /\ overlapped' \in BOOLEAN
    BY <2>1, <2>2 DEF Begin, Others, FInv, TypeOK
  <2> QED
    BY <1>1, <2>3, <2>4, QuietStep DEF BeginDelete
<1>2. CASE DeleteObject(r)
  <2>1. PICK b \in FileRequest : b = reqs[r] /\ b.step = "deleteObject"
    BY <1>2 DEF DeleteObject, At, FInv, TypeOK, Idle, FileRequest
  <2>2. PICK q : q = [b EXCEPT !.step = "deleteRow"]
    OBVIOUS
  <2>3. q \in InFlight /\ RequestKnows(q)
    BY <2>1, <2>2 DEF InFlight, FileRequest, FInv, RequestKnows, Later
  <2>4. objects' \in [Files -> Contents \union {Absent}] /\ reqs' = [reqs EXCEPT ![r] = q]
    BY <1>2, <2>1, <2>2 DEF DeleteObject, Proceed, Keep, FInv, TypeOK
  <2>5. TypeOKLimiter' /\ UNCHANGED <<overlapped, undone, files, expired>>
    BY <1>2 DEF DeleteObject, Proceed, Keep, limiterVars, TypeOKLimiter, FInv, TypeOK
  <2> QED
    BY <2>3, <2>4, <2>5, RowsUntouched DEF FInv, TypeOK
<1> QED
  BY <1>1, <1>2

LEMMA ClientsSound ==
  ASSUME FInv, NEW r \in Requests, CreateUploadIntent(r) \/ BeginComplete(r)
  PROVE  FInv'
<1>1. CASE CreateUploadIntent(r)
  <2>1. PICK f \in Files, p \in Purposes :
          files' = [files EXCEPT ![f] = [purpose |-> p, upload |-> "PENDING_UPLOAD",
                                         scan |-> "PENDING", deleted |-> FALSE]]
    BY <1>1 DEF CreateUploadIntent
  <2>2. [purpose |-> p, upload |-> "PENDING_UPLOAD", scan |-> "PENDING", deleted |-> FALSE]
          \in FileAsset
    BY DEF FileAsset, FileUploadStatus, FileScanStatus
  <2>3. reqs' = reqs /\ overlapped' \in BOOLEAN
        /\ UNCHANGED <<limiterVars, objects, expired, undone>>
    BY <1>1 DEF CreateUploadIntent, AtOnce, Others, FInv, TypeOK
  <2> QED
    BY <2>1, <2>2, <2>3, IdleKnows, RowStep
<1>2. CASE BeginComplete(r)
  <2>1. PICK f \in Files : Begin(r, Slot("incr", f))
    BY <1>2 DEF BeginComplete
  <2>2. PICK q : q = Slot("incr", f)
    OBVIOUS
  <2>3. q \in InFlight /\ RequestKnows(q)
    BY <2>2 DEF Slot, InFlight, FileRequest, CompleteSteps, RequestKnows, Later
  <2>4. reqs' = [reqs EXCEPT ![r] = q] /\ overlapped' \in BOOLEAN
    BY <2>1, <2>2 DEF Begin, Others, FInv, TypeOK
  <2> QED
    BY <1>2, <2>3, <2>4, QuietStep DEF BeginComplete
<1> QED
  BY <1>1, <1>2

\* The steps outside the handlers: clients at the bucket, time and crashes.
LEMMA WorldSound ==
  ASSUME FInv,
         \/ \E f \in Files : PutObject(f) \/ IntentExpires(f)
         \/ \E k \in Keys : WindowEnds(k) /\ UNCHANGED Data
  PROVE  FInv'
<1>1. UNCHANGED <<slots, files, undone>>
  BY DEF PutObject, IntentExpires, WindowEnds, Data
<1> DEFINE Typed == TypeOKLimiter /\ objects \in [Files -> Contents \union {Absent}]
                      /\ expired \subseteq Files
<1>2. Typed'
  <2>1. ASSUME NEW f \in Files, PutObject(f) PROVE Typed'
    BY <2>1 DEF PutObject, FInv, TypeOK, TypeOKLimiter, limiterVars
  <2>2. ASSUME NEW f \in Files, IntentExpires(f) PROVE Typed'
    BY <2>2 DEF IntentExpires, FInv, TypeOK, TypeOKLimiter, limiterVars
  <2>3. ASSUME NEW k \in Keys, WindowEnds(k), UNCHANGED Data PROVE Typed'
    BY <2>3 DEF WindowEnds, Data, FInv, TypeOK, TypeOKLimiter
  <2> QED
    BY <2>1, <2>2, <2>3
<1>3. TypeOK'
  BY <1>1, <1>2 DEF FInv, TypeOK, slots
<1> QED
  BY <1>1, <1>3 DEF FInv, RequestKnows, FileFound, slots

LEMMA StepSound == FInv /\ [Next]_vars => FInv'
<1> SUFFICES ASSUME FInv, [Next]_vars PROVE FInv'
  OBVIOUS
<1>1. CASE UNCHANGED vars
  <2>1. UNCHANGED <<reqs, overlapped, count, ttl, files, objects, expired, undone>>
    BY <1>1 DEF vars, slots, limiterVars
  <2> QED
    BY <2>1 DEF FInv, TypeOK, TypeOKLimiter, RequestKnows, FileFound
<1>2. ASSUME NEW r \in Requests, CutShort(r) PROVE FInv'
  <2>1. /\ reqs' = [reqs EXCEPT ![r] = Idle] /\ overlapped' \in BOOLEAN
        /\ UNCHANGED <<files, objects, expired>> /\ TypeOKLimiter'
    BY <1>2 DEF CutShort, Crash, Finish, Keep, FInv, TypeOK, TypeOKLimiter, limiterVars
  <2>2. undone' \subseteq Undone \X Files
    <3>1. reqs[r].file \in Files
      BY <1>2 DEF CutShort, Crash, FInv, TypeOK, Idle, FileRequest
    <3> QED
      BY <1>2, <3>1 DEF CutShort, LeavesUndone, FInv, TypeOK
  <2> QED
    BY <2>1, <2>2, IdleKnows, RowsUntouched DEF FInv, TypeOK
<1>3. CASE Next
  <2>1. CASE \/ \E f \in Files : PutObject(f) \/ IntentExpires(f)
             \/ \E k \in Keys : WindowEnds(k) /\ UNCHANGED Data
    BY <2>1, WorldSound
  <2>2. ASSUME NEW r \in Requests, HandlerStep(r) PROVE FInv'
    BY <2>2, LimiterSound, FindSound, ScannerSound, WritesSound, DeleteSound DEF HandlerStep
  <2>3. ASSUME NEW r \in Requests,
               \/ CreateUploadIntent(r) \/ BeginComplete(r) \/ BeginDelete(r)
               \/ ClamdAnswers(r) \/ SocketEnds(r) \/ TimerFires(r)
        PROVE  FInv'
    BY <2>3, ClientsSound, DeleteSound, ScannerSound
  <2> QED
    BY <1>2, <1>3, <2>1, <2>2, <2>3 DEF Next
<1> QED
  BY <1>1, <1>3

LEMMA Sound == Spec => []FInv
BY InitSound, StepSound, PTL DEF Spec

--------------------------------------------------------------------------------
\* One step of FailClosed.
FailsClosed ==
  ScanMode = "clamav" => \A f \in Files :
    files'[f].upload = "AVAILABLE" /\ files[f].upload # "AVAILABLE"
      => \E r \in Requests : /\ reqs[r] # Idle /\ reqs[r].file = f
                             /\ reqs[r].bytes \in Contents /\ ~reqs[r].bytes.infected
                             /\ "OK" \in reqs[r].heard

\* Only FinalizeFile makes a file available, its own file, and with clamd it is
\* reached only after a clean stream.
LEMMA FinalizeOnly == FInv /\ [Next]_vars => [FailsClosed]_vars
<1> SUFFICES ASSUME FInv, Next, ScanMode = "clamav", NEW f \in Files,
                    files'[f].upload = "AVAILABLE", files[f].upload # "AVAILABLE"
             PROVE  \E r \in Requests : /\ reqs[r] # Idle /\ reqs[r].file = f
                                        /\ reqs[r].bytes \in Contents /\ ~reqs[r].bytes.infected
                                        /\ "OK" \in reqs[r].heard
  BY DEF FailsClosed
<1>1. files' # files
  OBVIOUS
<1>2. PICK r \in Requests : \/ CreateUploadIntent(r) \/ MarkScanning(r) \/ RejectFile(r)
                            \/ FinalizeFile(r) \/ DeleteRow(r)
  BY <1>1 DEF Next, HandlerStep, BeginComplete, BeginDelete, CheckLimit, ExpireLimit, FindFile,
     HeadObject, FetchBuffer, DeleteObject, ClamdAnswers, SocketEnds, TimerFires, CutShort,
     PutObject, IntentExpires, WindowEnds, Data
<1>3. ~CreateUploadIntent(r)
  BY DEF CreateUploadIntent, FInv, TypeOK
<1>4. PICK b \in FileRequest : b = reqs[r] /\ b.step \in Later /\ b.step # "head"
  BY <1>2, <1>3 DEF MarkScanning, RejectFile, FinalizeFile, DeleteRow, At, FInv, TypeOK, Idle,
     FileRequest, Later
<1>5. PICK g \in Files : g = b.file
  BY DEF FileRequest
<1>6. PICK old \in FileAsset : old = files[g]
  BY <1>4, <1>5 DEF FInv, RequestKnows, TypeOK, FileFound
<1>7. PICK a : files' = [files EXCEPT ![g] = a]
               /\ (a.upload # "AVAILABLE" \/ FinalizeFile(r))
  <2>1. CASE MarkScanning(r)
    <3>1. files' = [files EXCEPT ![g] = Scanning(old)]
      BY <1>4, <1>5, <1>6, <2>1, Zenon DEF MarkScanning
    <3> QED
      BY <3>1, UpdatesTyped
  <2>2. CASE RejectFile(r)
    <3>1. files' = [files EXCEPT ![g] = Rejected(old)]
      BY <1>4, <1>5, <1>6, <2>2, Zenon DEF RejectFile
    <3> QED
      BY <3>1, UpdatesTyped
  <2>3. CASE DeleteRow(r)
    <3>1. files' = [files EXCEPT ![g] = Deleted(old)]
      BY <1>4, <1>5, <1>6, <2>3, Zenon DEF DeleteRow
    <3> QED
      BY <3>1, UpdatesTyped
  <2>4. CASE FinalizeFile(r)
    <3>1. files' = [files EXCEPT ![g] = Finalized(old)]
      BY <1>4, <1>5, <1>6, <2>4, Zenon DEF FinalizeFile
    <3> QED
      BY <2>4, <3>1
  <2> QED
    BY <1>2, <1>3, <2>1, <2>2, <2>3, <2>4
<1>8. g = f /\ FinalizeFile(r)
  BY <1>7 DEF FInv, TypeOK
<1>9. b.bytes \in Contents /\ ~b.bytes.infected /\ "OK" \in b.heard
  BY <1>4, <1>8 DEF FinalizeFile, At, FInv, RequestKnows
<1>10. reqs[r] # Idle
  BY <1>4 DEF Idle, Later
<1> QED
  BY <1>4, <1>5, <1>8, <1>9, <1>10

--------------------------------------------------------------------------------
\* However many requests overlap, every row, object and counter and what every
\* request keeps between two awaits has its type.
THEOREM TypeCorrect == Spec => []TypeOK
<1>1. FInv => TypeOK
  BY DEF FInv
<1> QED
  BY <1>1, Sound, PTL

\* Scanning fails closed for any number of files and overlapping requests: with
\* clamd configured no file becomes available but by a request that streamed
\* bytes without malware and heard OK (files.service.ts, malware-scanner.service.ts).
THEOREM ScanningFailsClosed == Spec => FailClosed
<1>1. FInv /\ [Next]_vars => [FailsClosed]_vars
  BY FinalizeOnly
<1> QED
  BY <1>1, Sound, PTL DEF Spec, FailClosed, FailsClosed


--------------------------------------------------------------------------------
(* What holds while no two requests overlap: a request that has seen the     *)
(* object of its file still has it.                                         *)

Alone == \A r, q \in Requests : reqs[r] # Idle /\ reqs[q] # Idle => r = q

\* Between HEAD and the row's update.
Held == {"mark", "ping", "fetch", "stream", "finalize"}

StillThere(q) == q.step \in Held => objects[q.file] # Absent

\* An available file has its object, or the request that took it away is about to
\* update the row or was cut short before it did.
Backed(f) ==
  files[f].upload = "AVAILABLE"
    => \/ objects[f] # Absent
       \/ \E r \in Requests : At(r, "deleteRow") /\ reqs[r].file = f
       \/ <<"row", f>> \in undone

\* The inductive invariant.
DInv ==
  /\ FInv
  /\ ~overlapped => /\ Alone
                    /\ \A r \in Requests : StillThere(reqs[r])
                    /\ \A f \in Files : Backed(f)

\* The step of one request that is not cut short.
Step(r) ==
  \/ CreateUploadIntent(r) \/ BeginComplete(r) \/ BeginDelete(r)
  \/ HandlerStep(r) \/ ClamdAnswers(r) \/ SocketEnds(r) \/ TimerFires(r)

\* A request arrives, runs in one piece, or goes on.
LEMMA SlotMoves ==
  ASSUME NEW r \in Requests, Step(r)
  PROVE  \/ \E q : Begin(r, q)
         \/ AtOnce(r)
         \/ reqs[r] # Idle /\ \E q : Keep(r, q)
<1> USE DEF Finish, Proceed
<1>1. \A st : At(r, st) /\ st # "idle" => reqs[r] # Idle
  BY DEF At, Idle
<1>2. CASE CreateUploadIntent(r) \/ BeginComplete(r) \/ BeginDelete(r)
  BY <1>2 DEF CreateUploadIntent, BeginComplete, BeginDelete
<1>3. CASE CheckLimit(r) \/ ExpireLimit(r)
  BY <1>1, <1>3 DEF CheckLimit, ExpireLimit, Incr, SetExpiry
<1>4. CASE FindFile(r) \/ HeadObject(r) \/ MarkScanning(r) \/ FetchBuffer(r) \/ RejectFile(r)
           \/ FinalizeFile(r) \/ DeleteObject(r) \/ DeleteRow(r)
  BY <1>1, <1>4 DEF FindFile, HeadObject, MarkScanning, FetchBuffer, RejectFile, FinalizeFile,
                    DeleteObject, DeleteRow
<1>5. CASE ClamdAnswers(r) \/ SocketEnds(r) \/ TimerFires(r)
  <2>1. reqs[r].step \in {"ping", "stream"} /\ \E q : Keep(r, q)
    BY <1>5, Zenon DEF ClamdAnswers, SocketEnds, TimerFires
  <2> QED
    BY <1>1, <2>1 DEF At
<1> QED
  BY <1>2, <1>3, <1>4, <1>5 DEF Step, HandlerStep

\* Without overlap only the request that steps has a slot.
LEMMA OneAtATime ==
  ASSUME DInv, NEW r \in Requests, Step(r), ~overlapped'
  PROVE  ~overlapped /\ \A s \in Requests : s # r => reqs[s] = Idle /\ reqs'[s] = Idle
<1>1. DOMAIN reqs = Requests /\ (~overlapped => Alone)
  BY DEF DInv, FInv, TypeOK
<1>2. CASE \E q : Begin(r, q)
  BY <1>1, <1>2 DEF Begin, Others
<1>3. CASE AtOnce(r)
  BY <1>1, <1>3 DEF AtOnce, Others
<1>4. CASE reqs[r] # Idle /\ \E q : Keep(r, q)
  BY <1>1, <1>4 DEF Keep, Alone
<1> QED
  BY <1>2, <1>3, <1>4, SlotMoves

\* What the step of the only request leaves: its slot, and the row and the object
\* of every file.
LEMMA StepStored ==
  ASSUME DInv, NEW r \in Requests, Step(r), ~overlapped', UNCHANGED undone
  PROVE  StillThere(reqs[r])' /\ \A f \in Files : Backed(f)'
<1> USE DEF Finish, Proceed, Data
<1>1. /\ DOMAIN reqs = Requests /\ reqs[r] \in InFlight
      /\ StillThere(reqs[r]) /\ RequestKnows(reqs[r])
      /\ files \in [Files -> FileAsset \union {NoFile}]
      /\ objects \in [Files -> Contents \union {Absent}]
      /\ \A s \in Requests : s # r => reqs[s] = Idle
      /\ \A f \in Files : Backed(f)
  BY OneAtATime DEF DInv, FInv, TypeOK, InFlight
<1>2. reqs'[r].step \notin Held => StillThere(reqs[r])'
  BY DEF StillThere
<1>3. ASSUME NEW f \in Files, UNCHANGED objects, ~At(r, "deleteRow"),
             files'[f].upload = "AVAILABLE" => files[f].upload = "AVAILABLE" \/ objects[f] # Absent
      PROVE  Backed(f)'
  BY <1>1, <1>3 DEF Backed, At, Idle
<1>4. ASSUME UNCHANGED <<objects, files>>, ~At(r, "deleteRow"), StillThere(reqs[r])'
      PROVE  StillThere(reqs[r])' /\ \A f \in Files : Backed(f)'
  BY <1>3, <1>4
<1>5. CASE BeginComplete(r) \/ BeginDelete(r) \/ CheckLimit(r) \/ ExpireLimit(r) \/ FindFile(r)
  <2>1. UNCHANGED <<objects, files>> /\ ~At(r, "deleteRow")
    BY <1>5 DEF BeginComplete, BeginDelete, CheckLimit, ExpireLimit, FindFile, Begin, At, Idle
  <2>2. reqs'[r].step \in {"idle", "incr", "deleteObject", "find", "expire", "head"}
    BY <1>1, <1>5 DEF BeginComplete, BeginDelete, CheckLimit, ExpireLimit, FindFile, Incr,
       SetExpiry, Begin, Keep, Slot, Idle, InFlight, FileRequest, At
  <2>3. StillThere(reqs[r])'
    BY <1>2, <2>2 DEF Held
  <2> QED
    BY <1>4, <2>1, <2>3
<1>6. CASE HeadObject(r) \/ FetchBuffer(r) \/ ClamdAnswers(r) \/ SocketEnds(r) \/ TimerFires(r)
  <2>1. PICK b \in FileRequest : b = reqs[r] /\ b.step \in {"head", "fetch", "ping", "stream"}
    BY <1>1, <1>6 DEF HeadObject, FetchBuffer, ClamdAnswers, SocketEnds, TimerFires, At,
       InFlight, Idle, FileRequest
  <2>2. UNCHANGED <<objects, files>> /\ ~At(r, "deleteRow")
    BY <1>6, <2>1 DEF HeadObject, FetchBuffer, ClamdAnswers, SocketEnds, TimerFires, At
  <2>3. \/ reqs'[r].step \notin Held
        \/ reqs'[r].file = b.file /\ (b.step = "head" => objects[b.file] # Absent)
    <3>1. CASE HeadObject(r)
      BY <1>1, <2>1, <3>1 DEF HeadObject, Keep, Empty, Idle, FileRequest, Held
    <3>2. CASE FetchBuffer(r)
      BY <1>1, <2>1, <3>2 DEF FetchBuffer, Keep, FileRequest, At
    <3>3. CASE ClamdAnswers(r)
      <4>1. PICK w : reqs'[r] = [b EXCEPT !.heard = {w}]
        BY <1>1, <2>1, <3>3 DEF ClamdAnswers, Keep
      <4> QED
        BY <2>1, <3>3, <4>1 DEF ClamdAnswers, FileRequest
    <3>4. CASE SocketEnds(r) \/ TimerFires(r)
      <4>1. PICK st : reqs'[r] = [b EXCEPT !.step = st]
        BY <1>1, <2>1, <3>4 DEF SocketEnds, TimerFires, Keep
      <4> QED
        BY <2>1, <3>4, <4>1 DEF SocketEnds, TimerFires, FileRequest
    <3> QED
      BY <1>6, <3>1, <3>2, <3>3, <3>4
  <2>4. StillThere(reqs[r])'
    BY <1>1, <2>1, <2>2, <2>3 DEF StillThere, Held
  <2> QED
    BY <1>4, <2>1, <2>2, <2>4 DEF At
<1>7. CASE CreateUploadIntent(r)
  <2>1. StillThere(reqs[r])' /\ ~At(r, "deleteRow") /\ UNCHANGED objects
    BY <1>7, <1>1, <1>2 DEF CreateUploadIntent, AtOnce, At, Idle, Held
  <2>2. \A f \in Files : files'[f].upload = "AVAILABLE" => files[f].upload = "AVAILABLE"
    BY <1>1, <1>7 DEF CreateUploadIntent
  <2> QED
    BY <1>3, <2>1, <2>2
<1>8. CASE MarkScanning(r) \/ RejectFile(r) \/ FinalizeFile(r)
  <2>1. PICK b \in FileRequest : b = reqs[r] /\ b.step \in {"mark", "reject", "finalize"}
    BY <1>1, <1>8 DEF MarkScanning, RejectFile, FinalizeFile, At, InFlight, Idle, FileRequest
  <2>2. FileFound(b.file) /\ b.file \in Files
    BY <1>1, <2>1 DEF RequestKnows, Later, FileRequest
  <2>3. PICK old \in FileAsset : old = files[b.file]
    BY <1>1, <2>2 DEF FileFound
  <2>4. UNCHANGED objects /\ ~At(r, "deleteRow")
    BY <1>8, <2>1 DEF MarkScanning, RejectFile, FinalizeFile, At
  <2>5. StillThere(reqs[r])'
    <3>1. CASE MarkScanning(r)
      <4>1. PICK st : reqs'[r] = [b EXCEPT !.step = st]
        BY <1>1, <2>1, <3>1 DEF MarkScanning, Keep
      <4>2. b.step = "mark" /\ reqs'[r].file = b.file
        BY <2>1, <3>1, <4>1 DEF MarkScanning, At, FileRequest
      <4> QED
        BY <1>1, <2>1, <2>4, <4>2 DEF StillThere, Held
    <3>2. CASE RejectFile(r) \/ FinalizeFile(r)
      BY <1>1, <1>2, <3>2 DEF RejectFile, FinalizeFile, Keep, Idle, Held
    <3> QED
      BY <1>8, <3>1, <3>2
  <2>6. PICK a : files' = [files EXCEPT ![b.file] = a]
                 /\ (a.upload # "AVAILABLE" \/ b.step = "finalize")
    <3>1. CASE MarkScanning(r)
      BY <2>1, <2>3, <3>1, UpdatesTyped, Zenon DEF MarkScanning
    <3>2. CASE RejectFile(r)
      BY <2>1, <2>3, <3>2, UpdatesTyped, Zenon DEF RejectFile
    <3>3. CASE FinalizeFile(r)
      BY <2>1, <2>3, <3>3, Zenon DEF FinalizeFile, At
    <3> QED
      BY <1>8, <3>1, <3>2, <3>3
  <2>7. b.step = "finalize" => objects[b.file] # Absent
    BY <1>1, <2>1 DEF StillThere, Held
  <2>8. \A f \in Files : files'[f].upload = "AVAILABLE"
                           => files[f].upload = "AVAILABLE" \/ objects[f] # Absent
    BY <1>1, <2>6, <2>7
  <2> QED
    BY <1>3, <2>4, <2>5, <2>8
<1>9. CASE DeleteObject(r)
  <2>1. PICK b \in FileRequest : b = reqs[r] /\ b.step = "deleteObject"
    BY <1>1, <1>9 DEF DeleteObject, At, InFlight, Idle, FileRequest
  <2>2. reqs'[r] = [b EXCEPT !.step = "deleteRow"]
    BY <1>1, <1>9, <2>1 DEF DeleteObject, Keep
  <2>3. reqs'[r].step = "deleteRow" /\ reqs'[r].file = b.file
    BY <2>2 DEF FileRequest
  <2>4. \A f \in Files : f # b.file => objects'[f] = objects[f]
    BY <1>1, <1>9, <2>1 DEF DeleteObject
  <2>5. UNCHANGED files /\ ~At(r, "deleteRow")
    BY <1>9, <2>1 DEF DeleteObject, At
  <2>6. \A f \in Files : Backed(f)'
    BY <1>1, <2>3, <2>4, <2>5 DEF Backed, At, Idle
  <2> QED
    BY <1>2, <2>3, <2>5, <2>6 DEF Held
<1>10. CASE DeleteRow(r)
  <2>1. PICK b \in FileRequest : b = reqs[r] /\ b.step = "deleteRow"
    BY <1>1, <1>10 DEF DeleteRow, At, InFlight, Idle, FileRequest
  <2>2. FileFound(b.file) /\ b.file \in Files
    BY <1>1, <2>1 DEF RequestKnows, Later, FileRequest
  <2>3. PICK old \in FileAsset : old = files[b.file]
    BY <1>1, <2>2 DEF FileFound
  <2>4. PICK a : files' = [files EXCEPT ![b.file] = a] /\ a.upload # "AVAILABLE"
    <3>1. files' = [files EXCEPT ![b.file] = Deleted(old)]
      BY <1>10, <2>1, <2>3, Zenon DEF DeleteRow
    <3> QED
      BY <3>1, UpdatesTyped
  <2>5. UNCHANGED objects /\ reqs'[r] = Idle
    BY <1>1, <1>10 DEF DeleteRow, Keep
  <2>6. \A f \in Files : files'[f].upload = "AVAILABLE" => f # b.file /\ files'[f] = files[f]
    BY <1>1, <2>2, <2>4
  <2>7. \A f \in Files : Backed(f)'
    BY <1>1, <2>1, <2>5, <2>6 DEF Backed, At, Idle
  <2> QED
    BY <1>2, <2>1, <2>5, <2>6, <2>7 DEF Held, Idle
<1> QED
  BY <1>5, <1>6, <1>7, <1>8, <1>9, <1>10 DEF Step, HandlerStep

--------------------------------------------------------------------------------
LEMMA StoredStep ==
  ASSUME DInv, FInv', NEW r \in Requests, Step(r)
  PROVE  DInv'
<1> SUFFICES ASSUME ~overlapped'
             PROVE  (Alone /\ (\A s \in Requests : StillThere(reqs[s])) /\ \A f \in Files : Backed(f))'
  BY DEF DInv
<1>1. UNCHANGED undone
  BY DEF Step, HandlerStep, CreateUploadIntent, BeginComplete, BeginDelete, CheckLimit,
     ExpireLimit, FindFile, HeadObject, MarkScanning, FetchBuffer, RejectFile, FinalizeFile,
     DeleteObject, DeleteRow, ClamdAnswers, SocketEnds, TimerFires, Data
<1>2. \A s \in Requests : s # r => reqs'[s] = Idle
  BY OneAtATime
<1>3. StillThere(reqs[r])' /\ \A f \in Files : Backed(f)'
  BY <1>1, StepStored
<1>4. Alone' /\ \A s \in Requests : StillThere(reqs[s])'
  BY <1>2, <1>3 DEF Alone, StillThere, Idle, Held
<1> QED
  BY <1>3, <1>4

\* Clients put objects and take none away; time writes no row and no object.
LEMMA WorldStored ==
  ASSUME DInv, FInv',
         \/ \E f \in Files : PutObject(f) \/ IntentExpires(f)
         \/ \E k \in Keys : WindowEnds(k) /\ UNCHANGED Data
  PROVE  DInv'
<1>1. UNCHANGED <<slots, files, undone>>
  BY DEF PutObject, IntentExpires, WindowEnds, Data
<1>2. \A f \in Files : objects[f] # Absent => objects'[f] # Absent
  BY FileUploadsConstants DEF PutObject, IntentExpires, WindowEnds, Data, DInv, FInv, TypeOK
<1>3. \A r \in Requests : reqs[r].step \in Held => reqs[r].file \in Files
  BY DEF DInv, FInv, TypeOK, Idle, FileRequest, Held
<1> QED
  BY <1>1, <1>2, <1>3 DEF DInv, slots, Alone, StillThere, Backed, At

\* A request that is cut short before it updates the row of an object it deleted
\* leaves just that undone.
LEMMA CutShortStored ==
  ASSUME DInv, FInv', NEW r \in Requests, CutShort(r)
  PROVE  DInv'
<1> SUFFICES ASSUME ~overlapped'
             PROVE  (Alone /\ (\A s \in Requests : StillThere(reqs[s])) /\ \A f \in Files : Backed(f))'
  BY DEF DInv
<1>1. /\ reqs' = [reqs EXCEPT ![r] = Idle] /\ UNCHANGED <<overlapped, files, objects>>
      /\ undone \subseteq undone'
  BY DEF CutShort, Crash, Finish, Keep
<1>2. /\ DOMAIN reqs = Requests /\ Alone
      /\ \A s \in Requests : StillThere(reqs[s])
      /\ \A f \in Files : Backed(f)
  BY <1>1 DEF DInv, FInv, TypeOK
<1>3. At(r, "deleteRow") => <<"row", reqs[r].file>> \in undone'
  <2> SUFFICES ASSUME At(r, "deleteRow") PROVE <<"row", reqs[r].file>> \in undone'
    OBVIOUS
  <2>1. "row" \in LeavesUndone(reqs[r])
    BY DEF LeavesUndone, Undone, At
  <2> QED
    BY <2>1 DEF CutShort
<1>4. Alone' /\ \A s \in Requests : StillThere(reqs[s])'
  BY <1>1, <1>2 DEF Alone, StillThere, Idle, Held
<1>5. ASSUME NEW f \in Files PROVE Backed(f)'
  <2>1. Backed(f)
    BY <1>2
  <2> QED
    BY <1>1, <1>2, <1>3, <2>1 DEF Backed, At
<1> QED
  BY <1>4, <1>5

LEMMA StoredHolds == Spec => []DInv
<1>1. Init => DInv
  <2> SUFFICES ASSUME Init PROVE DInv
    OBVIOUS
  <2>1. \A r \in Requests : reqs[r] = Idle
    BY DEF Init, InitSlots
  <2>2. Alone /\ (\A r \in Requests : StillThere(reqs[r])) /\ \A f \in Files : Backed(f)
    BY <2>1 DEF Init, Alone, StillThere, Idle, Held, Backed, NoFile
  <2> QED
    BY <2>2, InitSound DEF DInv
<1>2. DInv /\ FInv' /\ [Next]_vars => DInv'
  <2> SUFFICES ASSUME DInv, FInv', [Next]_vars PROVE DInv'
    OBVIOUS
  <2>1. CASE UNCHANGED vars
    BY <2>1 DEF vars, slots, DInv, Alone, StillThere, Backed, At
  <2>2. ASSUME NEW r \in Requests, CutShort(r) PROVE DInv'
    BY <2>2, CutShortStored
  <2>3. CASE \/ \E f \in Files : PutObject(f) \/ IntentExpires(f)
             \/ \E k \in Keys : WindowEnds(k) /\ UNCHANGED Data
    BY <2>3, WorldStored
  <2>4. CASE \E r \in Requests : Step(r)
    BY <2>4, StoredStep
  <2> QED
    BY <2>1, <2>2, <2>3, <2>4 DEF Next, Step
<1> QED
  BY <1>1, <1>2, Sound, PTL DEF Spec

\* While no two requests overlap, every available file has its object whenever no
\* request is in flight, however requests are cut short, unless a deleteFile() of
\* this very file was, between the object and the row: completeUpload() has seen
\* the object it makes available, and deleteFile() deletes the row after the object.
THEOREM AvailableFilesStored == Spec => []AvailableIsStored
<1>1. DInv => AvailableIsStored
  BY DEF DInv, AvailableIsStored, Backed, At, Idle
<1> QED
  BY <1>1, StoredHolds, PTL
================================================================================
