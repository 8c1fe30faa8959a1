SPECIFICATION Spec
CONSTANTS
  QueuePairs = {1, 2}
  Operations = {o1, o2}
  NumMbufs = 4
  Memzones = {z1, z2, z3, z4}
  NumPreallocated = 2
  BurstSize = 1
  MaxSglSegs = 1
  MaxInflightOps = 1
  NumIgnored = 1
  MaxSegs = 2
  Faults = {"status"}
SYMMETRY Symmetry
INVARIANT TakenIsFree
