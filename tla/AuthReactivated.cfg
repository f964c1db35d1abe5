\* A second verification link after a suspension.
SPECIFICATION Spec
CONSTANTS
  Requests = {r1}
  Sessions = {s1, s2, s3}
  VerificationTokens = {v1, v2}
  ResetTokens = {p1, p2}
  None = None
  MaxPasswords = 3
  Interrupted = FALSE
SYMMETRY Symmetry
PROPERTY SuspensionSticks
