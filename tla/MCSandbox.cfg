CONSTANTS
    Calls = {c1, c2}
    Kids = {k1}
    Timeouts = {0, 1, 3}
    MaxTimeout = 2
    MaxClock = 3
SPECIFICATION Spec
CHECK_DEADLOCK FALSE
INVARIANTS
    ChildDead
    OutputComplete
    
PROPERTIES
    ExecuteEnds
