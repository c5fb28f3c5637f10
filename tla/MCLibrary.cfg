SPECIFICATION Spec
CONSTANTS
  f1 = f1  f2 = f2  f3 = f3  r1 = r1  r2 = r2  e1 = e1  e2 = e2
  v = v  w = w  movie = movie  tab1 = tab1  tab2 = tab2
  A = A  B = B
  Folders = {f1, f2, f3}
  Videos = {v, w}
  Libraries = {A, B}
  LibraryOf <- MCLibraryOf
  FolderRequests = {r1, r2}
  Root = Root  Unborn = Unborn  Gone = Gone
  Viewers = {u}
  Tenants = {A, B}
  Streams = {movie}
  TenantOf <- MCTenantOf
  Lengths = {16}
  Playheads = {10, 19}
  AskedTTLs = {0, 9}
  MinTTL = 0  DefaultTTL = 0  MaxTTL = 1
  Retention = 1
  MaxTokens = 2  MaxDay = 2
  Burst = 4  Refill = 2  IdleTicks = 2
  MaxTick = 6  MaxAdmitted = 9
  Watched = {v, w}
  Sessions = {tab1, tab2}
  VisitorOf <- MCVisitorOf
  DurationOf <- MCDurationOf
  Countries = {X}
  NoCountry = NoCountry  NoPosition = NoPosition
  Beacons <- MCBeacons
  SizePerSecond <- MCSizePerSecond
  ByteParts = 4  TopLimit = 1  CountryLimit = 1  Buckets = 2  MinSamples = 2
  RetentionDays = 0  TrendDays = 0
  MaxEvents = 3  LastDay = 1
  Asked <- MCAsked
  Published <- MCPublished
  CodecOrder <- MCCodecOrder
  Tracks <- MCTracks
  ChunkSeconds = {0, 3}
  Proposals <- MCProposals
  Durations = {0, 6}
  Rungs = {high}  UsualRungs = high
  Images = {i1}  NoImage = NoImage
  LibraryVideos = {v}  Codecs = {"av1"}  Editors = {e1, e2}
  Uncreated = Uncreated  Unbuilt = Unbuilt  Requested = Requested  Failed = Failed
SYMMETRY Symmetry
INVARIANTS
  TypesOK StaysInLibrary NamedImageExists
  MergedInAnyOrder ResumesWithinWatched ProgressIsAttributed
  WithinLimit
  LadderFitsSource EditIsHonoured EverySecondHasOneTile MergeKeepsVariants
  TranscriptIsCovered AnalyticsAddUp
PROPERTY OnlyOvertakenMovesTangle
CHECK_DEADLOCK FALSE
