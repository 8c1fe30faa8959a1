SPECIFICATION Spec
CONSTANTS
  NumLcores = 2
  NumDevices = 2
  NumTests = 3
INVARIANT RecycleCheckHolds
CHECK_DEADLOCK FALSE
