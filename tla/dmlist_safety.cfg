SPECIFICATION Spec
CONSTANTS
  MaxChannels = 3
  MaxOpens = 3
  MaxNest = 2
INVARIANTS
  OwnPicture
CHECK_DEADLOCK FALSE
