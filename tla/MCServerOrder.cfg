CONSTANTS
    Messages <- RequestMessages
    MaxParts = 2
    OneThread = TRUE
    None = None
SPECIFICATION FairSpec
PROPERTY Answered
CHECK_DEADLOCK FALSE
