CONSTANTS
    Clients = {c1, c2}
    Buckets = {b1}
    MytbfMax = 1
    Cps = 1
    Burst = 1
    Sizes = {1}
    MaxLoads = 2
    None = None
SPECIFICATION FairSpec
CHECK_DEADLOCK FALSE
PROPERTY WaiterNotified
