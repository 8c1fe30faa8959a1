SPECIFICATION EvaluationFairSpec
CONSTANTS
  NumLcores = 3
  NumDevices = 2
  NumTests = 3
  InputSizes = {480, 627, 641, 1048800, 2097760}
  SegSize = 16
  MinPreallocate = 20
  MaxMemzones = 2560
  Width = 65536
INVARIANTS TypeOK ParamsOutliveWork LcoresToThemselves SuccessIsComplete DecompressesLive AllRecycled SyncRecycles StockSuffices
PROPERTY EvaluateEnds
CHECK_DEADLOCK FALSE
