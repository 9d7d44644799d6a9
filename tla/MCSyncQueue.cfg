CONSTANTS
    Peers = {p1}
    Items = {x, y}
    MaxAttempts = 3
    BackoffCap = 1
    MaxFaults = 1
    MaxFlushes = 1
    MaxRestarts = 1
SPECIFICATION FairSpec
INVARIANT NothingLost GiveUpIsEarned
PROPERTY FlushIsABarrier 
CHECK_DEADLOCK FALSE
