CONSTANTS
    Workers = {w1, w2}
    Sweepers = {p1}
    T1 = T1
    Tenants = {T1}
    TenantOf <- MCTenantOf
    Workflows = {1}
    Steps = {1}
    NULL = NULL
    LeaseSeconds = 1
    MaxAttempts = 2
    MaxClock = 2
SPECIFICATION Spec
CHECK_DEADLOCK FALSE
INVARIANTS
    NoSharedLease
