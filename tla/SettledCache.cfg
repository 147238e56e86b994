SPECIFICATION Spec
CONSTANTS
    Workers = {w1, w2}
    Slots = {s1, s2}
    MaxWrites = 2
INVARIANT SettledCacheIsCoherent
CHECK_DEADLOCK FALSE
