\* One request at a time.
SPECIFICATION Spec
CONSTANTS
  Requests = {r1}
  Contents = {partial, full, full2}
  CompleteContents = {full, full2}
  NoContent = NoContent
  MaxVersion = 3
  MaxLock = 6
INVARIANTS SnapshotsComplete ShownAsApproved
PROPERTIES NoLostUpdate LifecycleImplemented
\* A deleted pitch has no further operation.
CHECK_DEADLOCK FALSE
