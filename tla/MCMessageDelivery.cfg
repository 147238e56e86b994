SPECIFICATION FairSpec
CONSTANTS
    Workers = {w1, w2, w3}
    MaxMessages = 1
    MaxRecipients = 1
    MaxExits = 1
INVARIANTS
    TypeOK
    AnswerCountsEveryone
PROPERTIES
    MessageReachesWorkers
    AnsweredUnlessExcused
CHECK_DEADLOCK FALSE
