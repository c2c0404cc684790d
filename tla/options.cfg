SPECIFICATION Spec
CONSTANTS
  Requests = {r1, r2}
  Images = {x}
  top = top
  sub = sub
  link = link
  None = None
  Root = top
  Albums <- AlbumsHere
  Subs <- SubsHere
  Below <- SubsHere
  Files <- FilesHere
  Name <- NameHere
  Real <- RealHere
  Ops = {"rand", "hide", "show", "icon", "fix", "fixall", "make"}
  MayFail = TRUE
  MaxVisits = 2
SYMMETRY Symmetry
INVARIANTS ChangesAddUp PageOptionsRestored
CHECK_DEADLOCK FALSE
