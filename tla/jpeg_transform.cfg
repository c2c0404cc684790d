SPECIFICATION Spec
CONSTANTS
  DCTSIZE = 2
  Cosine <- TwoPoint
  Image <- File
  Jobs <- JobSet
INVARIANTS TypeOK Geometry MarkersOnce
CHECK_DEADLOCK FALSE
