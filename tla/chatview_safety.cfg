SPECIFICATION Spec
CONSTANTS
  general = general
  random = random
  null = null
  Channels <- Two
  NoChannel <- null
  HistoryLimit = 2
  ViewHeights = {1, 2}
  MaxPosts = 3
  MaxSelects = 2
  MaxNest = 2
SYMMETRY Swap
INVARIANTS
  StraysAreStale
  InOrder
  MissingOnlyFromGap
  SentToPicked
  
CHECK_DEADLOCK FALSE
