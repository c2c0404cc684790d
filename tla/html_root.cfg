CONSTANTS
  Procs = {r1, r2}
  Pages = {en, fr}
  None = None
  NSections = 2
  LoadSection = 1
  Root = TRUE
  Cleaning = TRUE
  MayFail = FALSE
  MaxClock = 2
  MaxEdits = 0
SPECIFICATION Spec
SYMMETRY Symmetry
INVARIANT PublishedComplete
PROPERTY StoreImplemented
