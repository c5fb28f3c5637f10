SPECIFICATION Spec
CONSTANTS
  Videos = {v1}
  Requests = {r1, r2, r3}
  Kinds = {"complete", "delete", "restore"}
  Faults = {}
  Sources = {s1}
  MaxRetry = 0
SYMMETRY Symmetry
INVARIANTS
  RestoredKeepsItsFiles
CHECK_DEADLOCK FALSE
