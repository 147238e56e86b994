SPECIFICATION Spec
CONSTANTS
    PingTimeout = 3
    MaxFrames = 3
INVARIANTS
    TypeOK
    LostOnlyAfterSilence
    AlwaysWatched
PROPERTIES
    DeadPeerNoticed
    TimersRunOut
CHECK_DEADLOCK FALSE
