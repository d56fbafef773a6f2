CONSTANTS
    BufSize = 2
    StackEnd = 5
    thrd_num = 4
    Left = 5
    Right = 8
    Adders = {a1, a2, a3}
    Slots <- MCSlots
    Timers <- MCTimers
    Secs = {0, 1, 2}
    MaxTokens = 2
    MaxAge = 6
    FileLen = 3
    Buffer = 2
    Rate = 1
    Limit = 3
    MaxTicks = 5
    TbBuckets = {b1, b2, b3}
    TbSlots <- MCTbSlots
    Cps = 1
    Burst = 2
    MaxAsk = 3
    Clients = {c1, c2, c3}
    Names = {f, g}
    Missing = {g}
    QueueSize = 2
    MaxSent = 4
    RadioLists <- MCRadioLists
    PackMax = 24
    ExitChannels <- MCExitChannels
    Callers = {d1, d2, d3}
    PthSize = 2
SPECIFICATION Spec
CHECK_DEADLOCK FALSE
INVARIANTS
    ReadsDoNotBlock Counted RingsOnTime CopiesWhole Paced BucketRate
    NoneStranded ListUnpacked AnsweredOnce
PROPERTIES
    InTurn CopiesSearch BucketServes SelectServes 
