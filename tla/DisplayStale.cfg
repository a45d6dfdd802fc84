SPECIFICATION Spec
CONSTANTS
  x = x
  y = y
  a = a
  b = b
  c = c
  None = None
  Covers = {x}
  TrackIds = {a, b}
  Titles = {a, b}
  Tracks <- TwoTracks
  MaxGeneration = 2
  Promotions <- ThenFallback
  Screens = {TRUE}
  Overlays = {}
PROPERTIES
  OldRequestNeverWins
