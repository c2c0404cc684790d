SPECIFICATION FairSpec
CONSTANTS
  Requests = {r1, r2}
  Thumbs = {video}
  Videos = {video}
  Blocks = 3
  MaxEdits = 1
  MayFail = TRUE
  None = None
INVARIANTS TypeOK WholeThumbs
PROPERTY RequestsEnd
