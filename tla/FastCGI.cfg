SPECIFICATION Spec
CONSTANTS
  Fds = {1, 2, 3}
  NReqs = 2
  NSlots = 2
  NLocs = 2
  SlotLoc <- MCSlotLoc
  KeepAlive <- MCKeepAlive
  MaxSerial = 2
  MaxLeaves = 2
INVARIANTS TypeOK  ConnectionTables
PROPERTIES OnlyOrphansExit 
CHECK_DEADLOCK FALSE
