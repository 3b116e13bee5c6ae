SPECIFICATION StationSpec
CONSTANTS
  io = io
  pk1 = pk1
  pk2 = pk2
  pk3 = pk3
  pk4 = pk4
  pk5 = pk5
  car1 = car1
  car2 = car2
  aa1 = aa1
  aa2 = aa2
  Stays <- StaysAround
INVARIANTS
  TimersAreKept
  NothingIsStuck
  CachedIsAccepted
  CheckIsRight
PROPERTIES
  LifetimeNeverGrows
  AgesWithinRounding
  InOrderAndInTime
  LoadDecides
  PageIsConsistent
