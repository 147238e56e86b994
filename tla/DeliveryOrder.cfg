SPECIFICATION Spec
CONSTANTS
    Workers = {w1, w2}
    MaxMessages = 2
    MaxRecipients = 1
    MaxExits = 1
INVARIANTS
    EachOnceInOrder
CHECK_DEADLOCK FALSE
