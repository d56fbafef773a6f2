CONSTANTS
    Variant = "others"
    Pids = {p1, p2, p3, p4}
    MaxSlots = 3
    MinIdle = 1
    MaxIdle = 1
    MayExit = TRUE
    None = None
    Zeroed = Zeroed
CHECK_DEADLOCK FALSE
SPECIFICATION Spec
SYMMETRY Symmetry
INVARIANTS TotalsMatchTable StaysInTable EveryWorkerRecorded OneWorkerPerSlot
