SPECIFICATION Spec
CONSTANTS
  DCTSIZE2 = 3
  NaturalOrder <- MCNaturalOrder
  CodeLengths = 2
  Sources <- MCSources
  BufSize = 16
  Arrivals = {1, 7}
  DCTSIZE = 1
  NumTables = 2
  MaxBlocksInMCU = 10
  MaxCompsInScan = 4
  MaxSampFactor = 4
  Prefetch = 2
  App0DataLen = 3
  App14DataLen = 2
  AppnDataLen = 3
  SaveLimits = {0, 2}
  Undefined <- MCUndefined
  MaxLost = 7
INVARIANTS TypeOK ImagesRecovered Resynchronized
PROPERTIES ReadingEnds
CHECK_DEADLOCK FALSE
