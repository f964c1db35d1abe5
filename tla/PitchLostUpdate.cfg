\* Two overlapping edits: the optimistic lock of update().
SPECIFICATION Spec
CONSTANTS
  Requests = {r1, r2}
  Contents = {partial, full}
  CompleteContents = {full}
  NoContent = NoContent
  MaxVersion = 2
  MaxLock = 3
SYMMETRY Symmetry
PROPERTY NoLostUpdate
\* A deleted pitch has no further operation.
CHECK_DEADLOCK FALSE
