SPECIFICATION Spec
CONSTANTS
  gw = gw
  ui = ui
  inner = inner
  none = none
  guild = guild
  user = user
  group = group
  Gateway <- gw
  Window <- ui
  Nested <- inner
  Nobody <- none
  GuildIcon <- guild
  Avatar <- user
  GroupIcon <- group
  MaxRuns = 3
  MaxFaults = 2
INVARIANTS
  BadReadHasCause
PROPERTIES
  KeptForGood
  DoomedForGood
CHECK_DEADLOCK FALSE
