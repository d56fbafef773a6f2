CONSTANTS
    Libraries <- MCLibraries
    CHNNUM = 2
    MytbfMax = 3
    SongLen = 2
    MaxData = 2
    Cps = 1
    Burst = 2
    Watched = 1
SPECIFICATION LFairSpec
CHECK_DEADLOCK FALSE
INVARIANTS EntriesKept Paid SentRate
PROPERTIES ImplementsPlaylist EverySongAired
