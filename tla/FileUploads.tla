------------------------------ MODULE FileUploads ------------------------------
(***************************************************************************)
(* Uploaded files: the handlers of files.service.ts, the bucket behind      *)
(* object-storage.service.ts, the limiter and the scanner they call.  A     *)
(* file is a row of file_assets and an object of its own key.  Who may call  *)
(* (owner, pitch owner, member of the organisation) is left out, and so are  *)
(* the limiter's other keys.                                                *)
(***************************************************************************)
EXTENDS RateLimiter, MalwareScanner, DomainRules

CONSTANTS
  Files,    \* the rows that can be created
  Purposes, \* bound: the purposes files are uploaded for
  Contents, \* bound: what clients put in the bucket
  Absent    \* no object

VARIABLES
  files,   \* the rows of file_assets
  objects, \* the bucket
  expired, \* the files whose upload intent has expired
  undone   \* history: what requests that were cut short have left undone, of which file

vars == <<slots, limiterVars, files, objects, expired, undone>>

FileUploadStatus == {"PENDING_UPLOAD", "PENDING_SCAN", "AVAILABLE", "REJECTED", "DELETED"}
FileScanStatus == {"PENDING", "SCANNING", "CLEAN", "INFECTED"}

Content == [size : Nat, mime : {"pdf", "xlsx", "png", "jpeg", "html"}, infected : BOOLEAN]

ASSUME FileUploadsConstants ==
  /\ Purposes \subseteq DocumentPurpose /\ Contents \subseteq Content
  /\ Keys = {"upload-complete"} /\ Absent \notin Content

NoFile == [purpose |-> "NONE", upload |-> "NONE", scan |-> "NONE", deleted |-> FALSE]

FileAsset ==
  [purpose : Purposes, upload : FileUploadStatus, scan : FileScanStatus, deleted : BOOLEAN]

\* One record for every step of completeUpload and deleteFile: the bytes to be
\* scanned and what clamd has said so far.
CompleteSteps == {"incr", "expire", "find", "head", "mark", "ping", "fetch", "stream",
                  "reject", "finalize"}

FileRequest ==
  [step : CompleteSteps \union {"deleteObject", "deleteRow"}, file : Files,
   bytes : Contents \union {Absent}, heard : SUBSET Words]

Slot(step, f) == [step |-> step, file |-> f, bytes |-> Absent, heard |-> {}]

Proceed(r, step) == Keep(r, [reqs[r] EXCEPT !.step = step])

Data == <<files, objects, expired, undone>>

\* Slips (Bug_...) that no action uses stand before what they would replace.
Bug_AnyFile(f) == TRUE
FileFound(f) == files[f] # NoFile

Empty(c) == c = Absent \/ c.size = 0

--------------------------------------------------------------------------------
(* The updates of a row.                                                     *)

Bug_VerdictWithoutStatus(f) == [f EXCEPT !.scan = "INFECTED"]
Rejected(f) == [f EXCEPT !.upload = "REJECTED", !.scan = "INFECTED"]

Scanning(f) == [f EXCEPT !.upload = "PENDING_SCAN", !.scan = "SCANNING"]

Finalized(f) == [f EXCEPT !.upload = "AVAILABLE", !.scan = "CLEAN"]

Bug_RowStays(f) == [f EXCEPT !.deleted = TRUE]
Deleted(f) == [f EXCEPT !.upload = "DELETED", !.deleted = TRUE]

--------------------------------------------------------------------------------
(* Clients and time.                                                         *)

\* createUploadIntent(): the row and a signed URL for its object.
CreateUploadIntent(r) ==
  /\ AtOnce(r)
  /\ \E f \in Files, p \in Purposes :
        /\ files[f] = NoFile
        /\ files' = [files EXCEPT ![f] = [purpose |-> p, upload |-> "PENDING_UPLOAD",
                                          scan |-> "PENDING", deleted |-> FALSE]]
  /\ UNCHANGED <<limiterVars, objects, expired, undone>>

\* A client puts bytes in the bucket by the signed URL, which binds neither their
\* size nor their type.
PutObject(f) ==
  /\ files[f] # NoFile
  /\ \E c \in Contents : objects' = [objects EXCEPT ![f] = c]
  /\ UNCHANGED <<slots, limiterVars, files, expired, undone>>

IntentExpires(f) ==
  /\ files[f] # NoFile /\ f \notin expired
  /\ expired' = expired \union {f}
  /\ UNCHANGED <<slots, limiterVars, files, objects, undone>>

--------------------------------------------------------------------------------
(* completeUpload().  No step looks at the upload status.                    *)

BeginComplete(r) ==
  /\ \E f \in Files : Begin(r, Slot("incr", f))
  /\ UNCHANGED <<limiterVars, Data>>

CheckLimit(r) ==
  /\ At(r, "incr")
  /\ Incr(r, "upload-complete", Slot("find", reqs[r].file))
  /\ UNCHANGED Data

ExpireLimit(r) ==
  /\ At(r, "expire")
  /\ SetExpiry(r, "upload-complete", Slot("find", reqs[r].file))
  /\ UNCHANGED Data

FindFile(r) ==
  /\ At(r, "find")
  /\ IF FileFound(reqs[r].file) /\ reqs[r].file \notin expired THEN Proceed(r, "head")
                                                                  ELSE Finish(r)
  /\ UNCHANGED <<limiterVars, Data>>

\* HEAD: nothing there ends the request, a wrong size or type rejects the file.
HeadObject(r) ==
  LET c == objects[reqs[r].file]
      p == files[reqs[r].file].purpose
  IN  /\ At(r, "head")
      /\ IF Empty(c) THEN Finish(r)
         ELSE IF c.size > getMaxBytesForPurpose(p) \/ ~isMimeAllowed(p, c.mime)
         THEN Proceed(r, "reject")
         ELSE Proceed(r, "mark")
      /\ UNCHANGED <<limiterVars, Data>>

MarkScanning(r) ==
  /\ At(r, "mark")
  /\ files' = [files EXCEPT ![reqs[r].file] = Scanning(@)]
  /\ Proceed(r, FirstStep)
  /\ UNCHANGED <<limiterVars, objects, expired, undone>>

\* clamd says something; the handler only collects it.  Bound: it says one thing.
ClamdAnswers(r) ==
  /\ reqs[r].step \in {"ping", "stream"} /\ reqs[r].heard = {}
  /\ \E w \in Answers(reqs[r].step, At(r, "stream") /\ reqs[r].bytes.infected) :
        Keep(r, [reqs[r] EXCEPT !.heard = {w}])
  /\ UNCHANGED <<limiterVars, Data>>

\* clamd hangs up after whatever it has said, or the connection fails.
SocketEnds(r) ==
  /\ reqs[r].step \in {"ping", "stream"}
  /\ \E event \in SettlingEvents \ {"timeout"} :
        LET clean == Clean(event, reqs[r].step, reqs[r].heard)
        IN  Proceed(r, IF ~clean THEN "reject" ELSE IF At(r, "ping") THEN "fetch" ELSE "finalize")
  /\ UNCHANGED <<limiterVars, Data>>

TimerFires(r) ==
  /\ reqs[r].step \in {"ping", "stream"}
  /\ "timeout" \in SettlingEvents
  /\ Proceed(r, "reject")
  /\ UNCHANGED <<limiterVars, Data>>

\* The bytes that are there, or nothing when there are none or the bucket fails.
FetchBuffer(r) ==
  /\ At(r, "fetch")
  /\ \/ Proceed(r, "reject")
     \/ /\ ~Empty(objects[reqs[r].file])
        /\ Keep(r, [step |-> "stream", file |-> reqs[r].file, heard |-> {},
                    bytes |-> objects[reqs[r].file]])
  /\ UNCHANGED <<limiterVars, Data>>

RejectFile(r) ==
  /\ At(r, "reject")
  /\ files' = [files EXCEPT ![reqs[r].file] = Rejected(@)]
  /\ Finish(r)
  /\ UNCHANGED <<limiterVars, objects, expired, undone>>

FinalizeFile(r) ==
  /\ At(r, "finalize")
  /\ files' = [files EXCEPT ![reqs[r].file] = Finalized(@)]
  /\ Finish(r)
  /\ UNCHANGED <<limiterVars, objects, expired, undone>>

--------------------------------------------------------------------------------
(* deleteFile(): the object, then the row.                                   *)

BeginDelete(r) ==
  /\ \E f \in Files : FileFound(f) /\ Begin(r, Slot("deleteObject", f))
  /\ UNCHANGED <<limiterVars, Data>>

DeleteObject(r) ==
  /\ At(r, "deleteObject")
  /\ objects' = [objects EXCEPT ![reqs[r].file] = Absent]
  /\ Proceed(r, "deleteRow")
  /\ UNCHANGED <<limiterVars, files, expired, undone>>

DeleteRow(r) ==
  /\ At(r, "deleteRow")
  /\ files' = [files EXCEPT ![reqs[r].file] = Deleted(@)]
  /\ Finish(r)
  /\ UNCHANGED <<limiterVars, objects, expired, undone>>

--------------------------------------------------------------------------------
(* A request that is cut short leaves undone what it had begun.               *)

Undone == {"verdict", "row"}

\* The verdict of a scan, the row of a deleted object.
LeavesUndone(q) ==
  {what \in Undone :
     \/ what = "verdict" /\ q.step \in {"ping", "fetch", "stream", "reject", "finalize"}
     \/ what = "row" /\ q.step = "deleteRow"}

CutShort(r) ==
  /\ Crash(r)
  /\ undone' = undone \union {<<what, reqs[r].file>> : what \in LeavesUndone(reqs[r])}
  /\ UNCHANGED <<limiterVars, files, objects, expired>>

Init ==
  /\ InitSlots /\ InitLimiter
  /\ files = [f \in Files |-> NoFile]
  /\ objects = [f \in Files |-> Absent]
  /\ expired = {} /\ undone = {}

\* The steps the API takes by itself once a request is in flight.
HandlerStep(r) ==
  \/ CheckLimit(r) \/ ExpireLimit(r) \/ FindFile(r) \/ HeadObject(r) \/ MarkScanning(r)
  \/ FetchBuffer(r) \/ RejectFile(r) \/ FinalizeFile(r) \/ DeleteObject(r) \/ DeleteRow(r)

Next ==
  \/ \E r \in Requests :
        \/ CreateUploadIntent(r) \/ BeginComplete(r) \/ BeginDelete(r)
        \/ HandlerStep(r) \/ ClamdAnswers(r) \/ SocketEnds(r) \/ TimerFires(r)
        \/ CutShort(r)
  \/ \E f \in Files : PutObject(f) \/ IntentExpires(f)
  \/ \E k \in Keys : WindowEnds(k) /\ UNCHANGED Data

\* Statements return and timers fire.  Nothing is assumed of the clients, of clamd
\* or of crashes.
Fairness == \A r \in Requests : WF_vars(HandlerStep(r)) /\ WF_vars(TimerFires(r))

Spec == Init /\ [][Next]_vars /\ Fairness

TypeOK ==
  /\ reqs \in [Requests -> {Idle} \union FileRequest]
  /\ overlapped \in BOOLEAN
  /\ TypeOKLimiter
  /\ files \in [Files -> FileAsset \union {NoFile}]
  /\ objects \in [Files -> Contents \union {Absent}]
  /\ expired \subseteq Files
  /\ undone \subseteq Undone \X Files

--------------------------------------------------------------------------------
(* Properties.                                                               *)

\* Fail-closed (docs/SECURITY.md:71): however the calls overlap and whatever
\* clamd does, with clamd configured a file becomes available only by a request
\* that has streamed bytes without malware and has heard OK.
FailClosed ==
  [][ScanMode = "clamav" => \A f \in Files :
       files'[f].upload = "AVAILABLE" /\ files[f].upload # "AVAILABLE"
         => \E r \in Requests : /\ reqs[r] # Idle /\ reqs[r].file = f
                                /\ reqs[r].bytes \in Contents /\ ~reqs[r].bytes.infected
                                /\ "OK" \in reqs[r].heard]_vars

\* Without overlap an available file has its object, unless a deleteFile() was
\* cut short between the object and the row: the row follows the object there, the
\* object the row nowhere.
AvailableIsStored ==
  ~overlapped /\ (\A r \in Requests : reqs[r] = Idle)
    => \A f \in Files : files[f].upload = "AVAILABLE" /\ <<"row", f>> \notin undone
                          => objects[f] # Absent

\* Every request is answered, whether clamd answers or not (the two timers).
EveryRequestEnds == \A r \in Requests : reqs[r] # Idle ~> reqs[r] = Idle

\* Every scan leaves its verdict: a file is not left PENDING_SCAN for ever, however
\* often it is completed again or deleted meanwhile, unless a request is cut short
\* between the start of the scan of this file and its verdict.
ScanSettles ==
  \A f \in Files : files[f].upload = "PENDING_SCAN"
                    ~> (files[f].upload # "PENDING_SCAN" \/ <<"verdict", f>> \in undone)
================================================================================
