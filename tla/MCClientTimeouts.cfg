CONSTANTS
    Reqs = {p, q}
    None = None
    IdSpace = 2
    Timeouts = {2}
    NoTimeout = NoTimeout
    TicksPerMs = 2
    Period = 2
    MaxTicks = 3
    MaxAge = 0
    MaxDepth = 4
SPECIFICATION FairSpec
PROPERTY TimesOut
CHECK_DEADLOCK FALSE
