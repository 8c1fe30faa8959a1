SPECIFICATION Spec
CONSTANTS
  NumQps = 2
  BurstSizes = {0, 64}
  SglSegs = {0, 8, 9}
  SegSizes = {8, 32767, 59460, 59600}
  Defects = {"none", "type", "value"}
  MaxInflightOps = 512
  MaxInflightMbufs = 8192
  MaxCache = 512
  MaxAttempts = 3
INVARIANTS TypeOK HardwareFollowsState OneAttemptAllocated PoolsCoverQueue SegmentsFit
CHECK_DEADLOCK FALSE
