SPECIFICATION Spec
CONSTANTS
  Videos = {v1}
  Requests = {r1, r2}
  Kinds = {"complete"}
  Faults = {}
  Sources = {s1}
  MaxRetry = 0
SYMMETRY Symmetry
INVARIANTS
  UploadedIsEnqueued
CHECK_DEADLOCK FALSE
