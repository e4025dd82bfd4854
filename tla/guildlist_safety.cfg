SPECIFICATION Spec
CONSTANTS
  a = a
  b = b
  nobody = nobody
  dms = dms
  junk = junk
  Guilds <- Two
  WithIcon <- One
  Nobody <- nobody
  DMs <- dms
  Junk <- junk
  ViewHeight = 150
  ClickYs <- Edges
  TrackYs <- Drags
  MaxReads = 2
INVARIANTS
  SelectionAgrees
  ClickHitsPicture
  MentionsAgree
CHECK_DEADLOCK FALSE
