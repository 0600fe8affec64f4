CONSTANTS
    Urls = {u1, u2, u3}
    Forbidden = {u3}
    MaxRedirects = 3
    TotalTimeout = 2
    HopTime = 1
    MaxClock = 5
SPECIFICATION Spec
CHECK_DEADLOCK FALSE
INVARIANTS
    
    RequestsBounded
    ReturnedInTime
