SPECIFICATION Spec
CONSTANTS
  Memzones = {z1, z2, z3, z4}
  MinPreallocate = 2
  MaxPreallocate = 3
INVARIANTS TypeOK Exclusive NothingLost
PROPERTY StockKept
CHECK_DEADLOCK FALSE
