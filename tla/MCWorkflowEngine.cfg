CONSTANTS
    Handlers = {h1, h2}
    Workers = {w1, w2}
    Sweepers = {p1}
    T1 = T1
    T2 = T2
    Tenants = {T1, T2}
    TenantOf <- MCTenantOf
    Workflows = {1}
    Steps = {1, 2}
    Plans = {1, 2}
    StepsOf <- MCStepsOf
    NULL = NULL
    LeaseSeconds = 0
    MaxAttempts = 1
    MaxClock = 1
    MaxEvents = 4
SPECIFICATION EngineSpec
CONSTRAINT EarlyLeases
SYMMETRY ProcessSymmetry
CHECK_DEADLOCK FALSE
INVARIANTS
    TablesAgree
    EventsAccount
    StepsObservedOnce
    LeaseColumnsAgree
    RunningExpires
PROPERTIES
    ForeignRowsUntouched
