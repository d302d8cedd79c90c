SPECIFICATION RoutersSpec
CONSTANTS
    Workers = {w1}
    Requests = {r1, r2}
    Prefills = {p1}
    Decodes = {d1, d2}
    PdRequests = {r1}
    FailureThreshold = 2
    SuccessThreshold = 1
    HealthFailures = 2
    HealthSuccesses = 2
    PdHealthRun = 1
    MaxRetries = 2
    DpAware = TRUE
    None = None
CHECK_DEADLOCK FALSE
INVARIANTS LoadsExact RegularBreakersHear PdBlameExact
PROPERTIES RegularRequestsEnd PdUpstreamReleased
