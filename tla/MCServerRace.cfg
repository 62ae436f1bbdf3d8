CONSTANTS
    Messages <- ClientMessages
    MaxParts = 2
    OneThread = FALSE
    None = None
SPECIFICATION FairSpec
PROPERTY Answered
CHECK_DEADLOCK FALSE
