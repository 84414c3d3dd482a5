\* Three buffers and queues of one: every queue fills, and so does the pool.
CONSTANTS
  Buffer = {b1, b2, b3}
  NoBuf = none
  LongRunMax = 1
  SendOutMax = 1
  MaxRequests = 3
  MaxSsdp = 1
SPECIFICATION FairSpec
INVARIANTS
  TypeOK
  PoolConserved
  JsonReleased
  AnsweredOnce
PROPERTIES
  PutHasRoom
  RunnerReturns
CHECK_DEADLOCK FALSE
