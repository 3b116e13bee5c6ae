SPECIFICATION Spec
CONSTANTS
  OBU = {0, 1}
  CheckEvery = 2
  SyncCheck = 3
  RepeatEvery = 2
  Slow = 1
  Fast = 2
  Bends = FALSE
  Lossy <- NoPairs
  Distances <- TwoSegments
  FailedBlocks <- NoPairs
  Unblockable <- NoPairs
  Unreachable <- NoPairs
  ParkAt <- NobodyParks
  MaxQueue = 1
  MaxBusy = 4
INVARIANTS
  SequenceNumbersFit
