CONSTANTS
    Messages <- AnyMessages
    MaxParts = 3
    OneThread = TRUE
    None = None
SPECIFICATION FairSpec
INVARIANTS
    TypeOK
    SentOnce
    SentComplete
PROPERTY MethodLastAnswered
CHECK_DEADLOCK FALSE
