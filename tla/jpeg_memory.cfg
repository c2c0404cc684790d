SPECIFICATION Spec
CONSTANTS
  Align = 2
  Header = 2
  MgrSize = 4
  PointerSize = 1
  MaxAllocChunk = 8
  FirstSlop <- MCFirstSlop
  ExtraSlop <- MCExtraSlop
  MinSlop = 1
  SArrays <- MCSArrays
  BArrays <- MCBArrays
  RowsInArray <- MCRowsInArray
  MaxAccess <- MCMaxAccess
  RowSize <- MCRowSize
  PreZero <- MCPreZero
  ControlSize = 3
  Values <- MCValues
  NewValues = {1}
  Junk <- MCJunk
  Undefined <- MCUndefined
  MemorySettings <- MCSettings
  NoBackingStore <- MCNone
  ObjectSizes = {3}
  MaxRefusals = 1
  MaxSpace = 4
  MaxRows = 3
INVARIANTS TypeOK CleanWindowSaved SpaceAccounted
PROPERTIES ImplementsStoredArray RowsKept
CHECK_DEADLOCK FALSE
