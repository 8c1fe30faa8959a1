SPECIFICATION OrderedSpec
CONSTANTS
  QueuePairs = {1}
  Operations = {1, 2, 3, 4, 5}
  NumMbufs = 10
  Memzones = {1, 2, 3, 4, 5, 6}
  NumPreallocated = 6
  BurstSize = 2
  MaxSglSegs = 1
  MaxInflightOps = 3
  NumIgnored = 2
  MaxSegs = 6
  Faults = {"device"}
INVARIANTS PoolsSuffice PoolsRefilled RecyclesFront PendingMatches OpsExclusive CompressedInOrder OccupiedIsReferenced
PROPERTIES ImplementsService CallsReturn
CHECK_DEADLOCK FALSE
