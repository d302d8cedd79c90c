SPECIFICATION FairSpec
CONSTANTS
    Requests = {r1, r2, r3}
    Capacity = 1
    Unit = 2
    Rates = {0, 1}
    QueueSize = 1
    QueueTimeout = 2
INVARIANTS TokensAccounted MaxConcurrent
PROPERTIES QueuedIsAnswered
