\* Overlapping decisions and resubmissions: the status lifecycle of a submission.
SPECIFICATION Spec
CONSTANTS
  Requests = {r1, r2}
  Contents = {partial, full}
  CompleteContents = {full}
  NoContent = NoContent
  MaxVersion = 2
  MaxLock = 3
SYMMETRY Symmetry
PROPERTY ReviewedBeforeDecision
\* A deleted pitch has no further operation.
CHECK_DEADLOCK FALSE
