\* DAP_PACKET_COUNT beyond twice DAP_BUFFER_NUM, as in the code (255 and 10).
CONSTANTS
  BufferNum = 1
  PacketCount = 6
  MaxSessions = 1
  MaxCommands = 6
  MallocMayFail = FALSE
SPECIFICATION Spec
INVARIANTS
  PacketCountIsBuffered
CHECK_DEADLOCK FALSE
