SPECIFICATION Spec
CONSTANTS
  Threads = {io, mqtt}
  Io = io
  PositionPeriod = 2
  BeaconPeriod = 3
  Jitters = {0}
  CamInterval = 1
  Repetitions = {}
  MinInterval = 1
  Beaconing = TRUE
  RequireFix = FALSE
  Accuracies = {TRUE}
  Resets = FALSE
  MaxRequests = 1
  MaxClock = 6
INVARIANT SameThread
