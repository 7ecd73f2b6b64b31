CONSTANTS
    v1 = v1
    Viewers = {v1}
    KeepLen = 1
    ChanCap = 1
    Chunk = {1, 2}
    Delay = 2
    MaxOut = 4
SPECIFICATION FairSpec
CHECK_DEADLOCK FALSE
INVARIANT ExactOutput
INVARIANT ClosedOnce
PROPERTY IdleForWholeDelay
PROPERTY AbandonedCloses
PROPERTY CatchesUp
