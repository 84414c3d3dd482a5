\* Two packets per ring, so that a notification can be lost while a packet is
\* left, and enough commands to block either task on a full ring; the second
\* connection may race the restart of the first.
CONSTANTS
  BufferNum = 2
  PacketCount = 3
  MaxSessions = 2
  MaxCommands = 4
  MallocMayFail = TRUE
SPECIFICATION Spec
INVARIANTS
  TypeOK
  NoLostWakeup
  RespondCoversRing
  NothingLost
  CleanConnectionIsSafe
  CleanConnectionRestarts
PROPERTIES
  ImplementsService
CHECK_DEADLOCK FALSE
