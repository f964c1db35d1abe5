----------------------------- MODULE MalwareScanner ----------------------------
(***************************************************************************)
(* A conversation with clamd as malware-scanner.service.ts holds it: one    *)
(* socket and one timer, whose events settle the promise once.  What was    *)
(* heard is the set of the words in the response.  clamd itself is outside:  *)
(* it may answer about the bytes it got, fail, stop answering or hang up.    *)
(***************************************************************************)

CONSTANT ScanMode \* FILE_SCAN_MODE

ASSUME ScanModeKnown == ScanMode \in {"mock", "clamav", "disabled"}

Words == {"PONG", "OK", "FOUND", "ERROR"}

\* What clamd says about a PING and about a stream of bytes.
Answers(step, infected) ==
  IF step = "ping" THEN {"PONG", "ERROR"}
  ELSE IF infected THEN {"FOUND", "ERROR"}
  ELSE {"OK", "ERROR"}

\* Slips of the two parsers (Bug_...) that no action uses.
Bug_NoNewsIsGoodNews(heard) == "FOUND" \notin heard
parseScanResponse(heard) == "FOUND" \notin heard /\ "OK" \in heard

parsePing(heard) == "PONG" \in heard

\* The events that settle the promise of a conversation, and with what: the end
\* of the stream (close comes after it and changes nothing), an error, the timer.
\* An event that does not settle it (Bug_...) leaves the request waiting.
Bug_NoTimer == {"end", "error"}
SettlingEvents == {"end", "error", "timeout"}

Clean(event, step, heard) ==
  event = "end" /\ IF step = "ping" THEN parsePing(heard) ELSE parseScanResponse(heard)

\* scan() before any conversation.
FirstStep ==
  CASE ScanMode = "mock"     -> "finalize"
    [] ScanMode = "disabled" -> "reject"
    [] ScanMode = "clamav"   -> "ping"
================================================================================
