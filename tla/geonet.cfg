SPECIFICATION GeonetSpec
CONSTANTS
  p1 = p1
  p2 = p2
  p3 = p3
  p4 = p4
  r1 = r1
  r2 = r2
  r3 = r3
  Stations = {s1}
  Modulus = 14
  Life = 3
  NbrExpiry = 2
  DPLLength = 2
  SNs = {1, 2, 3}
  MaxDelay = 2
  MaxAccepted = 4
INVARIANTS
  NewestPositionKept
  NeighbourIsNear
  TableIsSound
  BuffersAreSound
  FloodIsBounded
PROPERTIES
  LeastDropped
