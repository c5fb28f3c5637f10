SPECIFICATION Spec
CONSTANTS
  Videos = {v1}
  Requests = {r1}
  Kinds = {"complete"}
  Faults = {}
  Sources = {s1}
  MaxRetry = 0
SYMMETRY Symmetry
INVARIANTS
  ReadyIsPublished
CHECK_DEADLOCK FALSE
