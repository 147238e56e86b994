SPECIFICATION TimedSpec
CONSTANTS
    Workers = {w1}
    MaxMessages = 1
    MaxRecipients = 1
    MaxExits = 1
PROPERTIES
    PublisherIsAnswered
CHECK_DEADLOCK FALSE
