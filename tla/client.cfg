SPECIFICATION FairSpec
CONSTANTS
  ui = ui
  gw = gw
  none = none
  Window <- ui
  Gateway <- gw
  NoThread <- none
  MaxRuns = 2
  MaxHandlers = 3
  MaxFaults = 2
INVARIANTS
  TypeOK
  WaitsHaveCause
  MisuseHasCause
PROPERTIES
  ConnsAreServices
  WindowResponds
  CloseEnds
  BadTokenForGood
CHECK_DEADLOCK FALSE
