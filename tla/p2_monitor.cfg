SPECIFICATION RoutingSpec
CONSTANTS
    a = a
    b = b
    w1 = w1
    w2 = w2
    w3 = w3
    Urls = {u1, u2}
    Chars = {a, b}
    Texts <- TwoTexts
    Threads = {t1, t2}
    Evictor = ev
    MaxSize = 1
    HitNum = 1
    HitDen = 2
    Empty = Empty
    MaxNodes = 5
    MaxOps = 3
    Nil = Nil
    None = None
    ServerList <- ThreeServers
    Clients = {c1, c2}
    Keys <- FourKeys
    RingSize = 4
    Places <- TwoPlaces
    FactorNum = 5
    FactorDen = 4
    Steady = {w3}
    Policy = {"power_of_two"}
    Keepers = {e1, e2}
    Sessions = {0}
    MaxIdle = 1
    Assignment = "min_load"
    IoErrors = TRUE
    PrefillClients = {p1}
    Lengths = {2, 5}
    LMax = 4
    UsizeMax = 100
    AbsThreshold = 3
    RelNum = 3
    RelDen = 2
    Fleets <- ThreeFleets
    MaxWindow = 2
CHECK_DEADLOCK FALSE
INVARIANT MonitorFailureDegrades
