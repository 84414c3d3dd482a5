\* Two clients that may come at the same time, with and without a baud rate
\* at the beginning, and a queue that can be full.
CONSTANTS
    Conns = {"c1", "c2"}
    Items <- MCItems
    MaxItems = 2
    QueueSize = 3
SPECIFICATION Spec
INVARIANTS
    RecvNeverBlocks
    ServesItsClient
    UartInOrder
PROPERTIES
    ReceivedIsRead
CHECK_DEADLOCK FALSE
