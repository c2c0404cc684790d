SPECIFICATION Spec
CONSTANTS
  DCTSIZE2 = 8
  MAX_COMPS_IN_SCAN = 4
  MAX_AH_AL = 3
  DCTSIZE = 2
  LinesGiven = {1, 2, 3, 7}
  Rooms = {1, 2, 5}
  Jobs <- JobLists
INVARIANTS TypeOK CodedInOrder DecoderHasTables
PROPERTIES ScansComplete CompressionEnds
CHECK_DEADLOCK FALSE
