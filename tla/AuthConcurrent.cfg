\* Two overlapping requests, three sessions, interruptions.
SPECIFICATION Spec
CONSTANTS
  Requests = {r1, r2}
  Sessions = {s1, s2, s3}
  VerificationTokens = {v1}
  ResetTokens = {p1}
  None = None
  MaxPasswords = 2
  Interrupted = TRUE
SYMMETRY Symmetry
INVARIANTS TypeOK ExchangedIsRevoked SessionsVerified
PROPERTY RevokedStays
