SPECIFICATION SceneSpec
CONSTANTS
  x = x
  y = y
  a = a
  b = b
  c = c
  None = None
  Covers = {x, y}
  TrackIds = {a, b, c}
  Titles = {a, b, c}
  Tracks <- AllTracks
  MaxGeneration = 2
  Promotions <- AllPromotions
  Screens = {FALSE, TRUE}
  Overlays = {FALSE}
SYMMETRY TrackSymmetry
INVARIANTS
  TypeOK
  OwnedFilesStay
  NoResultIsLost
  StagedBelongsToPending
  OnlyCommittedIsPainted
