CONSTANTS
    Urls = {"u1", "u2"}
    Models = {"m1", "m2"}
    Types = {"regular", "decode"}
    Modes = {"http"}
    Offers <- TwoUrls
    MaxJobs = 3
    Permits = 2
    None = None
SPECIFICATION Spec
CHECK_DEADLOCK FALSE
INVARIANTS RingFollowsIndex SettledIsConsistent
