CONSTANTS
    Reqs = {p}
    None = None
    IdSpace = 1
    Timeouts = {2}
    NoTimeout = NoTimeout
    TicksPerMs = 1
    Period = 0
    MaxTicks = 2
    MaxAge = 4
    MaxDepth = 4
SPECIFICATION Spec
INVARIANT NoEarlyTimeout
CHECK_DEADLOCK FALSE
