------------------------------ MODULE RateLimiter ------------------------------
(***************************************************************************)
(* The fixed-window limiter of rate-limit.service.ts: a Redis counter that  *)
(* the first request of a window sets to expire.  Two commands, two awaits.  *)
(***************************************************************************)
EXTENDS RequestSlots, Naturals

CONSTANTS
  Keys,       \* the counters: an operation and a user
  maxAttempts \* allowed in a window, of each key

ASSUME RateLimiterConstants == maxAttempts \in [Keys -> Nat]

VARIABLES
  count, \* the counter in Redis, 0 when the key is not there
  ttl    \* whether the key has a time to live

limiterVars == <<count, ttl>>

\* Bound: the counter is not followed above one more than the limit, where it
\* makes no difference any more.
Saturated(n, k) == IF n > maxAttempts[k] + 1 THEN maxAttempts[k] + 1 ELSE n

StartsWindow(n, k) == n = 1

OverLimit(n, k) == n > maxAttempts[k]

\* INCR: go is the slot of a request that may go on.
Incr(r, k, go) ==
  LET n == count[k] + 1
  IN  /\ count' = [count EXCEPT ![k] = Saturated(n, k)]
      /\ IF StartsWindow(n, k) THEN Keep(r, [go EXCEPT !.step = "expire"])
         ELSE IF OverLimit(n, k) THEN Finish(r)
         ELSE Keep(r, go)
      /\ UNCHANGED ttl

\* EXPIRE, which does nothing for a key that is not there; then the comparison.
SetExpiry(r, k, go) ==
  /\ ttl' = [ttl EXCEPT ![k] = count[k] > 0]
  /\ IF OverLimit(1, k) THEN Finish(r) ELSE Keep(r, go)
  /\ UNCHANGED count

\* The window ends: Redis drops the key.
WindowEnds(k) ==
  /\ ttl[k]
  /\ count' = [count EXCEPT ![k] = 0]
  /\ ttl' = [ttl EXCEPT ![k] = FALSE]
  /\ UNCHANGED slots

InitLimiter == count = [k \in Keys |-> 0] /\ ttl = [k \in Keys |-> FALSE]

TypeOKLimiter ==
  /\ count \in [Keys -> Nat]
  /\ ttl \in [Keys -> BOOLEAN]
================================================================================
