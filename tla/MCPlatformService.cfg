CONSTANTS
    Requests = {r1, r2, r3}
    Workloads <- MCWorkloads
    KeyRecords <- MCKeyRecords
    Entities = {"x", "y"}
    MaxDecision = 2
    Contents = {"long", "short"}
    Similar <- MCSimilar
    LongContents = {"long"}
    Sources = {"github"}
    Repositories = {"repo"}
    MaxRollbacks = 1
    MaxClock = 1
SPECIFICATION Spec
SYMMETRY RequestSymmetry
CHECK_DEADLOCK FALSE
INVARIANTS
    HandlersAuthorized
    GovernanceAudited
    RiskyApprovalReviewed
    IdsResolve
    EdgesWithinTenant
    AuditedVersionsExist
    CandidateFindsItself
    TelemetryAccounts
