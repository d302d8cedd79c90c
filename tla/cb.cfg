SPECIFICATION OverlapSpec
CONSTANTS
    Threads = {t1, t2}
    FailureThreshold = 1
    SuccessThreshold = 2
    Timeout = 1
    Ops <- AllOps
PROPERTIES HalfOpenOnlyFromOpen OpenIsProbed ImplementsAtomic
