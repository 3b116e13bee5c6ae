SPECIFICATION Spec
CONSTANTS
  OBU = {0, 1}
  CheckEvery = 2
  SyncCheck = 3
  RepeatEvery = 2
  Slow = 1
  Fast = 2
  Bends = FALSE
  Lossy <- NoPairs
  Distances <- TwoSegments
  FailedBlocks <- NoPairs
  Unblockable <- NoPairs
  Unreachable = {1}
  ParkAt <- NobodyParks
  MaxQueue = 2
  MaxBusy = 4
INVARIANTS
  TypeOK
  CheckNeverSkipped
  LeaderCrashNeedsRival
  MalformedOnlyAfterZero
  RouteFollowed
  AnnouncementsAreTrue
PROPERTIES
  PositionsAdvance
