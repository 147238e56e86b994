SPECIFICATION ConnectionApiSpec
CONSTANTS
    Workers = {1, 2, 3}
    Sockets = {s1, s2}
    Keys = {k1, k2}
    ExternalIds = {x}
    NoOne = NoOne
    maxConnectionCount = 1
    Requests = {r1}
    MaxExits = 1
INVARIANTS
    PoolFindsConnections
    OverLimitOnlyTogether
    TruthfulAnswer
    EchoOnlyAfterTimeout
SYMMETRY Symmetric
CHECK_DEADLOCK FALSE
