SPECIFICATION Spec
CONSTANTS
  Codecs = {av1, hevc}
  Requests = {r1}
  Faults = {"abandon", "crash", "infra"}
  MaxUploads = 1
  MaxRetry = 0
INVARIANTS
  TypeOK
  PristineIsPure
  DoneIsUploaded
  RunningIsRunning
PROPERTIES
  KeepsCatalog
CHECK_DEADLOCK FALSE
