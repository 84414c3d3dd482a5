\* The buffers of the pool are all in use when one more request arrives.
CONSTANTS
  Buffer = {b1, b2, b3}
  NoBuf = none
  LongRunMax = 1
  SendOutMax = 1
  MaxRequests = 4
  MaxSsdp = 0
SPECIFICATION Spec
INVARIANTS
  MemoryPoolGetSucceeds
CHECK_DEADLOCK FALSE
