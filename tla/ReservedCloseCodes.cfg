SPECIFICATION Spec
CONSTANTS
    MaxSent = 0
    MaxReceived = 1
    MaxFragments = 1
INVARIANT ReservedCodesNotSent
CHECK_DEADLOCK FALSE
