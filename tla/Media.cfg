SPECIFICATION SceneSpec
CONSTANTS
  p1 = p1
  t1 = t1
  u1 = u1
  u2 = u2
  a = a
  b = b
  Absent = Absent
  Fallback = Fallback
  Players = {p1}
  Tracks = {t1}
  Urls = {u1, u2}
  Texts = {a, b}
  Snapshots <- AllSnapshots
  Subscribers = {c1}
  MaxGeneration = 3
  MaxAttempts = 2
  LyricsEnabled = TRUE
INVARIANTS
  TypeOK
  PromotedVisualIsCurrent
  PendingIntentIsWorkedOn
  TrackKeyFitsMetadata
  LyricsBelongToTrack
  MailboxHoldsNewest
PROPERTIES
  ImplementsVisualIntents
  FallbackIsAuthoritative
  VisualSettles
