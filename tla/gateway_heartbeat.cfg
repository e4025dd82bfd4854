SPECIFICATION FairSpec
CONSTANTS
  MaxFrames = 2
  MaxTicks = 1
PROPERTIES
  HeartbeatSent
CHECK_DEADLOCK FALSE
