SPECIFICATION Spec
CONSTANTS
    Workers = {w1, w2, w3}
    Slots = {s1}
    MaxWrites = 2
INVARIANTS
    TypeOK
    StaleOnlyByLateAnswer
PROPERTIES
    StaleEntryIsDropped
CHECK_DEADLOCK FALSE
