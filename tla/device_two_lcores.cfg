SPECIFICATION Spec
CONSTANTS
  QueuePairs = {1, 2}
  Operations = {o1}
  NumMbufs = 4
  Memzones = {z1, z2, z3}
  NumPreallocated = 1
  BurstSize = 1
  MaxSglSegs = 2
  MaxInflightOps = 1
  NumIgnored = 1
  MaxSegs = 3
  Faults = {"status"}
SYMMETRY Symmetry
INVARIANTS TypeOK ZonesExclusive OccupiedIsAccounted CompressLeavesIdle MbufsBounded RoundTrip CompressedInOrder
PROPERTY ImplementsService
CHECK_DEADLOCK FALSE
