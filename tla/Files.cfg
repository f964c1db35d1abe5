\* Two overlapping requests on one file, one attempt to complete in a window.
SPECIFICATION Spec
CONSTANTS
  Requests = {r1, r2}
  Keys = {"upload-complete"}
  maxAttempts <- MCMaxAttempts
  ScanMode = "clamav"
  Files = {f1}
  Purposes = {"SPONSOR_REGISTRATION_CERT"}
  Contents <- MCContents
  Absent = Absent
INVARIANTS TypeOK AvailableIsStored
PROPERTIES FailClosed EveryRequestEnds ScanSettles
