CONSTANTS
    Clients = {c1, c2}
    Buckets = {b1}
    MytbfMax = 1
    Cps = 1
    Burst = 2
    Sizes = {2}
    MaxLoads = 2
    None = None
SPECIFICATION LFairSpec
CHECK_DEADLOCK FALSE
INVARIANTS RateBound
PROPERTY ImplementsTokenBucket Serves
