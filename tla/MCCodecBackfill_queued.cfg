SPECIFICATION Spec
CONSTANTS
  Codecs = {av1, hevc}
  Requests = {r1}
  Faults = {}
  MaxUploads = 1
  MaxRetry = 0
INVARIANTS
  QueuedHasTask
CHECK_DEADLOCK FALSE
