SPECIFICATION DSpec
CONSTANTS
    s = s
    a = a
    b = b
    x = x
    d1 = d1
    d2 = d2
    r1 = r1
    pod1 = pod1
    startup = startup
    u1 = u1
    u2 = u2
    Jobs = {s, a, b, x, d1, d2, r1}
    Keys = {startup, u1, u2}
    Key <- KeyOf
    Children <- ChildrenOf
    Pods = {pod1}
    Url <- UrlOf
    Additions = {a, b, d1, d2}
    Removals = {x, r1}
    AddJobs = {d1, d2}
    RemoveJobs = {r1}
    QueueCapacity = 1
    MaxConcurrent = 2
    MaxChanges = 4
    MaxBreaks = 1
    Beside = {x}
    None = None
CHECK_DEADLOCK FALSE
INVARIANTS StatusNotStale RegistryFollowsTracking
PROPERTIES EveryJobEnds HealthyIsTracked
