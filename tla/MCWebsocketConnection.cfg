SPECIFICATION Spec
CONSTANTS
    MaxSent = 2
    MaxReceived = 3
    MaxFragments = 2
INVARIANTS
    TypeOK
    WireInOrder
    NothingAfterCloseFrame
    HandshakeFlushesQueue
    DeliveredWithoutGap
PROPERTIES
    ImplementsOrderedChannel
CHECK_DEADLOCK FALSE
