CONSTANTS
    Left = 1012
    Right = 1019
    THRDNUM = 3
    Main = Main
    None = None
SPECIFICATION FairSpec
CHECK_DEADLOCK FALSE
INVARIANTS BoundedThreads NoneSleepsInVain
PROPERTIES ImplementsSearch Finishes
