CONSTANTS
    Clients = {c1, c2}
    Buckets = {b1, b2}
    MytbfMax = 1
    Cps = 1
    Burst = 1
    Sizes = {1}
    MaxLoads = 3
    None = None
SPECIFICATION Spec
SYMMETRY Symmetry
CHECK_DEADLOCK FALSE
INVARIANTS  TableMatches Exclusion OwnersProceed
