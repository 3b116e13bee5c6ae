SPECIFICATION Spec
CONSTANTS
  OBU = {0, 2, 3}
  CheckEvery = 2
  SyncCheck = 4
  RepeatEvery = 1
  Slow = 1
  Fast = 1
  Bends = FALSE
  Lossy <- Link2To0
  Distances <- OneSegment
  FailedBlocks <- From2To0
  Unblockable <- From0To2
  Unreachable <- NoPairs
  ParkAt <- OnlyStation0Drives
  MaxQueue = 1
  MaxBusy = 1
INVARIANTS
  MergeIsTraceable
  FollowersFollowLeaders
