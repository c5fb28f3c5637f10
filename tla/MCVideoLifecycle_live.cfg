SPECIFICATION FairSpec
CONSTANTS
  Videos = {v1}
  Requests = {r1, r2}
  Kinds = {"complete", "upload", "fetch", "delete", "restore", "purge"}
  Faults = {"abandon", "timeout", "infra"}
  Sources = {s1}
  MaxRetry = 1
PROPERTIES
  UploadsSettle
  PurgedWorkDrains
CHECK_DEADLOCK FALSE
