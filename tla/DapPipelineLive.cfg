\* One packet per ring; four commands fill both rings and both tasks' hands and
\* leave DAP_Thread blocked when the responses are not read.
CONSTANTS
  BufferNum = 1
  PacketCount = 3
  MaxSessions = 2
  MaxCommands = 4
  MallocMayFail = FALSE
SPECIFICATION FairSpec
INVARIANTS
  WedgeNeedsOverload
PROPERTIES
  ReplyDelivered
  ComesToRest
CHECK_DEADLOCK FALSE
