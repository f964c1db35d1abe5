\* Two overlapping requests, three submissions.
SPECIFICATION Spec
CONSTANTS
  Requests = {r1, r2}
  Contents = {partial, full}
  CompleteContents = {full}
  NoContent = NoContent
  MaxVersion = 3
  MaxLock = 3
SYMMETRY Symmetry
INVARIANTS TypeOK LedgerShape DecisionBacked TrailLegal
PROPERTIES SnapshotsImmutable LedgerImplemented
\* A deleted pitch has no further operation.
CHECK_DEADLOCK FALSE
