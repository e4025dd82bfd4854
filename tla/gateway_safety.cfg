SPECIFICATION FairSpec
CONSTANTS
  MaxFrames = 3
  MaxTicks = 2
INVARIANTS
  FramesWhole
  PublishedByReady
PROPERTIES
  RunsSession
  FramesHandled
CHECK_DEADLOCK FALSE
