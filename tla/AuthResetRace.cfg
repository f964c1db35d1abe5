\* A login that overlaps a password reset.
SPECIFICATION Spec
CONSTANTS
  Requests = {r1, r2}
  Sessions = {s1, s2, s3}
  VerificationTokens = {v1}
  ResetTokens = {p1}
  None = None
  MaxPasswords = 2
  Interrupted = FALSE
SYMMETRY Symmetry
INVARIANT ResetRevokesAll
