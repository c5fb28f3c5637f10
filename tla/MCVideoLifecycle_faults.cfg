SPECIFICATION Spec
CONSTANTS
  Videos = {v1}
  Requests = {r1, r2}
  Kinds = {"complete", "upload", "fetch", "delete", "restore", "purge"}
  Faults = {"abandon", "crash", "timeout", "infra"}
  Sources = {s1, s2}
  MaxRetry = 1
SYMMETRY Symmetry
INVARIANTS
  TypeOK
  FinishedIsPublished
  UploadInOrder
  WorkAccountedFor
  OnlyDisturbedVideosStall
PROPERTIES
  EncodedEventIsTrue
CHECK_DEADLOCK FALSE
