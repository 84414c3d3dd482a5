\* One connection, at most two commands in flight at any time.
CONSTANTS
  BufferNum = 2
  PacketCount = 3
  MaxSessions = 1
  MaxCommands = 2
  MallocMayFail = FALSE
SPECIFICATION Spec
PROPERTIES
  UnlinkEliminatesLagging
CHECK_DEADLOCK FALSE
