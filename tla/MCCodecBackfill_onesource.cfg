SPECIFICATION Spec
CONSTANTS
  Codecs = {av1, hevc}
  Requests = {r1}
  Faults = {}
  MaxUploads = 2
  MaxRetry = 0
INVARIANTS
  PublishedFromOneSource
CHECK_DEADLOCK FALSE
