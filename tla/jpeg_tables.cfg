SPECIFICATION Spec
CONSTANTS
  MAX_CODE = 4
  MAX_CLEN = 6
  MAX_FREQ = 1000
  HUFF_LOOKAHEAD = 2
  MAX_DC_SYMBOL = 15
  DCT = FALSE
  FewSymbols = {0, 1, 2, 17, 240}
  Symbols = {0, 1, 2, 17, 18, 33, 240}
  Frequencies = {0, 1, 2, 4, 9}
  Rarer = {17}
  GatheredCounts <- Gathered
INVARIANTS TablesLegal DecodersAgree ShortestCode
CHECK_DEADLOCK FALSE
