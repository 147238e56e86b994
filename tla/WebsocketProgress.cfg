SPECIFICATION Spec
CONSTANTS
    MaxSent = 1
    MaxReceived = 3
    MaxFragments = 2
PROPERTIES
    PeerCloseEndsSocket
    QueueDrains
CHECK_DEADLOCK FALSE
