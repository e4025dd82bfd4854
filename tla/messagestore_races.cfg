SPECIFICATION Spec
CONSTANTS
  ui = ui
  gw = gw
  ann = ann
  ben = ben
  Window <- ui
  Gateway <- gw
  Users <- Two
  MaxMessages = 3
  MaxSelects = 3
  MaxNest = 2
SYMMETRY Swap
INVARIANTS
  WildHasCause
  ShownAreAlive
  PictureFound
  PicturesApart
PROPERTIES
  ImplementsList
CHECK_DEADLOCK FALSE
