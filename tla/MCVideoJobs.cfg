SPECIFICATION FairSpec
CONSTANTS
  r1 = r1  r2 = r2
  Jobs <- MCJobs
  KindOf <- MCKindOf
  RetriesOf <- MCRetries
  Askers <- MCAskers
  Wishes <- MCWishes
  IndexJob = "index"
  ContentJob = "content"
  Silent = {2}
  MaxAsks = 2
  MaxFaults = 1
  MaxTranscodes = 1
INVARIANTS
  TypeOK RowsAwaitSomeone KeyOpensLadder PosterExists IndexFollowsCaption ChaptersAgree
PROPERTY RowsSettle
CHECK_DEADLOCK FALSE
