SPECIFICATION Spec
CONSTANTS
  x = x
  y = y
  a = a
  b = b
  c = c
  None = None
  Covers = {x}
  TrackIds = {a, b}
  Titles = {a, b}
  Tracks <- TracksAndIdle
  MaxGeneration = 1
  Promotions <- OneCover
  Screens = {TRUE}
  Overlays = {}
INVARIANTS
  IdleShowsClock
