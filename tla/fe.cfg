SPECIFICATION Spec
CONSTANTS
    a = a
    b = b
    c = c
    Keys = {a, b, c}
    Writers = {w1, w2}
    Readers = {r1}
    SizeOf <- Sizes
    Cap = 2
    Target = 1
    MinFree = 1
    FsSize = 3
    Window = 2
    SmallWrite = 1
    Base = 1
    HardMax = 3
    Slack = 1
    HitWorth = 1
    MaxTime = 1
    MaxHits = 1
    None = None
CHECK_DEADLOCK FALSE
INVARIANTS IndexSound
PROPERTIES EvictionPolicy LockIsReleased
