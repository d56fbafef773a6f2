CONSTANTS
    Variant = "others"
    Pids = {p1, p2, p3}
    MaxSlots = 3
    MinIdle = 2
    MaxIdle = 2
    MayExit = FALSE
    None = None
    Zeroed = Zeroed
CHECK_DEADLOCK FALSE
SPECIFICATION FairSpec
INVARIANTS QuietTotals QuietStaffed
PROPERTY Replenished
