CONSTANTS
    Threads = {t1, t2}
    Cells = {a, b}
    Null = Null
    Executors = {"pool", "stoppable"}
    MaxPromises = 1
    MaxDepth = 2
SPECIFICATION FairSpec
PROPERTIES
    AbandonedIsSettled
    ImplementsCell
CHECK_DEADLOCK FALSE
