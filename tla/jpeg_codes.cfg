SPECIFICATION Spec
CONSTANTS
  DCTSIZE2 = 7
  MAX_COMPS_IN_SCAN = 4
  MAX_AH_AL = 2
  MAX_CODE = 4
  MAX_CLEN = 8
  MAX_FREQ = 1000
  HUFF_LOOKAHEAD = 2
  MAX_DC_SYMBOL = 15
  RunMax = 2
  MAX_COEF_BITS = 2
  MAX_CORR_BITS = 9
  ByteBits = 3
  MIN_GET_BITS = 4
  RestartNums = 2
  BufferSize = 40
  natural_order <- Order
  StdTables <- Std
  Jobs <- JobList
INVARIANTS TypeOK ScansRecovered InStep FailsForAReason ScriptsSound
