SPECIFICATION Spec
CONSTANTS
  Configs <- MCConfigs
  DCTSIZE = 2
  LinesAsked = {1, 3}
  MaxPasses = 3
INVARIANTS TypeOK RowsInOrder RowsCurrent
PROPERTIES DecompressionEnds
CHECK_DEADLOCK FALSE
