CONSTANTS
  Procs = {r1, r2}
  Pages = {en}
  None = None
  NSections = 2
  LoadSection = 2
  Root = FALSE
  Cleaning = TRUE
  MayFail = FALSE
  MaxClock = 2
  MaxEdits = 1
SPECIFICATION Spec
SYMMETRY Symmetry
INVARIANTS
  PublishedIsSuffix
  StaleEditedSinceStart
  TmpBelongsToBuilder
  ServedInSecondOfRename
