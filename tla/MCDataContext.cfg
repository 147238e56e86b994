SPECIFICATION Spec
CONSTANTS
    Conns = {c1, c2, c3}
    Channels = {a}
    Global = all
    MaxManagers = 3
    MaxWaiting = 4
INVARIANTS
    TypeOK
    MapsAgree
    ManagerKnowsPool
    NobodyForgotten
    BroadcastReachesSubscribers
PROPERTIES
    WaitersAreServed
CHECK_DEADLOCK FALSE
