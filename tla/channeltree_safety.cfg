SPECIFICATION Spec
CONSTANTS
  g1 = g1
  g2 = g2
  none = none
  Guilds <- Two
  NoGuild <- none
  MaxChannels = 2
  MaxBuilds = 2
SYMMETRY Swap
INVARIANTS
  NestedIfCategoryCameFirst
CHECK_DEADLOCK FALSE
