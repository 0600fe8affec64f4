CONSTANTS
    Threads = {r1}
    Tenants = {legacy}
    m1 = m1
    m2 = m2
    m3 = m3
    Models = {m1, m2, m3}
    ModelsOf <- MCModelsOf
    Allowlist = {m1, m2}
    NoModel = NoModel
    Providers = {1, 2}
    Sizes = {1, 3}
    MaxTokens = 2
    Costs = {1, 5}
    Budget = 4
    MaxRetries = 1
    Threshold = 2
    Cooldown = 1
    MaxFailures = 3
    MaxUsage = 2
    MaxClock = 0
SPECIFICATION Spec
CHECK_DEADLOCK FALSE
PROPERTIES
    BudgetFailsClosed
