SPECIFICATION EventuallySpec
CONSTANTS
  r1 = r1
  r2 = r2
  r3 = r3
  p1 = p1
  p2 = p2
  p3 = p3
  pk1 = pk1
  pk2 = pk2
  pk3 = pk3
  car1 = car1
  Ids = {p1, p2, p3}
  Length <- LengthOfPackets
  Capacity = 4
  Timeouts = {1, 2, 4}
  Lifetimes = {4}
  TickMs = 20
  MaxStep = 2
  Fading = FALSE
  FadeTicks = 0
  MaxCounter = 2
  MaxCount = 2
INVARIANTS
  BufferIsSound
  FlushInTime
PROPERTIES
  FloodEnds
  Delivered
  ContentionEnds
  QueuesDrain
  IntervalSettles
  PageConverges
  ContentionSpec
