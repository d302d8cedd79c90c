SPECIFICATION Spec
CONSTANTS
    Workers = {p1, d1}
    Prefills = {p1}
    Decodes = {d1}
    Requests = {r1}
    FailureThreshold = 2
    SuccessThreshold = 1
    HealthFailures = 1
    HealthSuccesses = 1
    MaxRetries = 2
    None = None
CHECK_DEADLOCK FALSE
INVARIANT PrefillInnocent
