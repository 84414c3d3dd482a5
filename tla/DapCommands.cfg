\* Three requests: a posted read, what fetches it and what comes after; chains
\* of one and of three devices; sequences around the byte and word limits.
CONSTANTS
  Chip = "ESP32C3"
  Turnarounds <- MCTurnarounds
  Chains <- MCChains
  SeqBits <- MCSeqBits
  IdleCycles <- MCIdleCycles
  Retries <- MCRetries
  Kinds <- MCKinds
  MaxRequests = 3
SPECIFICATION Spec
INVARIANTS
  ReadsInOrder
  AccessedOnce
  WritesConfirmed
  ConsumesRequest
  SwdPinsMatchSpeed
  BusHandover
  ScanReachesDevice
  SequencesExact
PROPERTIES
  Answered
