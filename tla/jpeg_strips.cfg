SPECIFICATION Spec
CONSTANTS
  Configs <- ThreeLines
  DCTSIZE = 2
  LinesAsked = {1, 3}
  MaxPasses = 3
INVARIANTS StopsAtBottom
CHECK_DEADLOCK FALSE
