----------------------------- MODULE RequestSlots ------------------------------
(***************************************************************************)
(* The requests the API serves at the same time.  NestJS runs one handler  *)
(* up to its next await, so a handler is a sequence of steps and what it   *)
(* read before an await is kept in its slot.  The modules that model the    *)
(* handlers extend this one; the steps and what they keep are theirs.       *)
(***************************************************************************)
CONSTANT Requests \* slots: at most so many requests are in flight together

VARIABLES
  reqs,      \* what each request in flight keeps between two awaits
  overlapped \* history: two requests have been in flight at the same time

slots == <<reqs, overlapped>>

Idle == [step |-> "idle"]

InitSlots == reqs = [r \in Requests |-> Idle] /\ overlapped = FALSE

\* Whether another request than r is in flight.
Others(r) == \E q \in Requests \ {r} : reqs[q] # Idle

\* A request arrives and runs up to its first await after which it writes.
Begin(r, rec) ==
  /\ reqs[r] = Idle
  /\ reqs' = [reqs EXCEPT ![r] = rec]
  /\ overlapped' = (overlapped \/ Others(r))

\* A request that needs no slot: its only write is one statement.
AtOnce(r) ==
  /\ reqs[r] = Idle
  /\ overlapped' = (overlapped \/ Others(r))
  /\ UNCHANGED reqs

At(r, step) == reqs[r].step = step

Keep(r, rec) == reqs' = [reqs EXCEPT ![r] = rec] /\ UNCHANGED overlapped

Finish(r) == Keep(r, Idle)

\* The process stops or the connection to the database breaks: the statements
\* that have run stay, the others never run.
Crash(r) == reqs[r] # Idle /\ Finish(r)
================================================================================
