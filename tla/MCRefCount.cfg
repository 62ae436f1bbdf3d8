SPECIFICATION Spec
CONSTANTS
    t1 = t1
    t2 = t2
    o1 = o1
    o2 = o2
    None = None
    Threads = {t1, t2}
    Objects = {o1, o2}
SYMMETRY Symmetry
CHECK_DEADLOCK FALSE
INVARIANTS
    CountsHandles
    NoUseAfterFree
    LockNeverRaces
    WeakSeesLife
