SPECIFICATION Spec
CONSTANTS
  QueuePairs = {1}
  Operations = {o1, o2, o3}
  NumMbufs = 6
  Memzones = {z1, z2, z3}
  NumPreallocated = 2
  BurstSize = 1
  MaxSglSegs = 1
  MaxInflightOps = 2
  NumIgnored = 2
  MaxSegs = 3
  Faults = {"device"}
INVARIANT AssembledArePending
