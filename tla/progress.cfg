SPECIFICATION ProgressSpec
CONSTANTS
  OBU = {0, 1}
  CheckEvery = 2
  SyncCheck = 3
  RepeatEvery = 1
  Slow = 1
  Fast = 1
  Bends = FALSE
  Lossy <- NoPairs
  Distances <- TwoSegments
  FailedBlocks <- NoPairs
  Unblockable <- NoPairs
  Unreachable <- NoPairs
  ParkAt <- Station1Parks
  MaxQueue = 1
  MaxBusy = 2
PROPERTIES
  MembershipSpec
  DrivingTerminates
  ListenerGetsAGroup
