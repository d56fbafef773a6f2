CONSTANTS
    Variant = "server"
    Pids = {p1, p2, p3}
    MaxSlots = 3
    MinIdle = 1
    MaxIdle = 1
    MayExit = FALSE
    None = None
    Zeroed = Zeroed
CHECK_DEADLOCK FALSE
SPECIFICATION FairSpec
PROPERTY Replenished
