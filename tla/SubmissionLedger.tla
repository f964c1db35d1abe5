---------------------------- MODULE SubmissionLedger ----------------------------
(***************************************************************************)
(* What submitting and deciding a pitch promises, without the handlers,    *)
(* reads and races that provide it: an append-only ledger of snapshots,    *)
(* each with its verdict, and a pitch that stands where its last           *)
(* submission, decision or withdrawal left it.                             *)
(***************************************************************************)
EXTENDS Naturals, Sequences

CONSTANTS Snapshots, Verdicts, MaxEntries

VARIABLES
  ledger,    \* the submitted snapshots, oldest first
  verdict,   \* what stands beside each of them
  standing   \* where the pitch stands

vars == <<ledger, verdict, standing>>

Init == ledger = <<>> /\ verdict = <<>> /\ standing = "DRAFT"

Submit ==
  /\ Len(ledger) < MaxEntries
  /\ \E s \in Snapshots : ledger' = Append(ledger, s)
  /\ verdict' = Append(verdict, "SUBMITTED")
  /\ standing' = "SUBMITTED"

\* The pitch never takes a verdict that no entry of the ledger takes with it.
Decide(d) ==
  /\ \E n \in 1..Len(ledger) : verdict' = [verdict EXCEPT ![n] = d]
  /\ standing' = d
  /\ UNCHANGED ledger

\* Withdrawing leaves the verdicts alone.
Withdraw ==
  /\ ledger # <<>>
  /\ standing' = "WITHDRAWN"
  /\ UNCHANGED <<ledger, verdict>>

Next == Submit \/ Withdraw \/ \E d \in Verdicts : Decide(d)

Spec == Init /\ [][Next]_vars
================================================================================
