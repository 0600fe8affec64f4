CONSTANTS
    Clients = {c1, c2}
    Free = Free
    Ttl = 2
    Timeout = 1
    MaxRuns = 2
    MaxClock = 5
SPECIFICATION Spec
CHECK_DEADLOCK FALSE
INVARIANTS
    HolderKeepsLock
PROPERTIES
    AcquireEnds
