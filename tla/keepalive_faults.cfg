SPECIFICATION FairSpec
CONSTANTS
  ui = ui
  gw = gw
  none = none
  Threads <- Both
  Reentrant <- UIOnly
  NoThread <- none
  Pieces <- AllKinds
  Faults <- AllFaults
  MaxRequests = 3
  MaxBody = 1
INVARIANTS
  TypeOK
  OneThreadOnWire
  LeakOnlyAfterFault
  FreeMeansQuiet
  PairedReply
PROPERTIES
  ImplementsService
  CallsReturnWhileUp
CHECK_DEADLOCK FALSE
