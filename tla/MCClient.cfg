CONSTANTS
    Reqs = {p, q}
    None = None
    IdSpace = 2
    Timeouts = {1, NoTimeout}
    NoTimeout = NoTimeout
    TicksPerMs = 2
    Period = 0
    MaxTicks = 2
    MaxAge = 2
    MaxDepth = 4
SPECIFICATION Spec
SYMMETRY Symmetry
INVARIANTS
    TypeOK
    Accounted
    AnsweredByOwn
    ErasesWhatItFound
    NoOverdue
CHECK_DEADLOCK FALSE
