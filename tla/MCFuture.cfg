CONSTANTS
    Threads = {t1, t2}
    Cells = {a, b, c}
    Null = Null
    Executors = {"null"}
    MaxPromises = 2
    MaxDepth = 3
SPECIFICATION Spec
SYMMETRY Symmetry
INVARIANTS
    TypeOK
    NoLostWakeup
    AtMostOnce
    FutureOwnsCell
    ChainAccounted
    DroppedOnlyUnresolved
    BrokenOnlyWhenAbandoned
CHECK_DEADLOCK FALSE
