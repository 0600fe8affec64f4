CONSTANTS
    exact = exact
    early = early
    ip = ip
    route = route
    Replicas = {exact, early}
    Scopes = {ip, route}
    RuleSets <- MCRuleSets
    Limit <- MCLimit
    FailClosed = {route}
    Window = 2
    Grace = 1
    Ahead <- MCAhead
    MaxCount = 3
    MaxTime = 3
SPECIFICATION RateSpec
CHECK_DEADLOCK FALSE
INVARIANTS
    LimitPerWindow
