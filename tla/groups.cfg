SPECIFICATION GroupsSpec
CONSTANTS
  OBU = {2, 3}
  CheckEvery = 2
  SyncCheck = 4
  RepeatEvery = 2
  Slow = 1
  Fast = 2
  Bends = FALSE
  Lossy <- NoPairs
  Distances <- LongerRoute
  FailedBlocks <- NoPairs
  Unblockable <- NoPairs
  Unreachable <- NoPairs
  ParkAt <- NobodyParks
  MaxQueue = 1
  MaxBusy = 4
PROPERTIES
  PairsImplementMembership
