SPECIFICATION FairSpec
CONSTANTS
  Hardships <- All
  MaxFrames = 3
  MaxLen = 2
INVARIANTS
  NothingSkipped
  WholeButLast
PROPERTIES
  ImplementsPipe
  AllTaken
CHECK_DEADLOCK FALSE
