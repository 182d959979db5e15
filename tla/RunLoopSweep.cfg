\* One native driver and its caller, on two swaps.
SPECIFICATION FairSpec
CONSTANTS
    Drivers <- OneDriver
    Callers <- OneCaller
    Home <- OneHome
    Swaps <- TwoSwaps
    WebLocks = FALSE
    Racing = FALSE
    MaxSaves = 2
    MaxSignals = 1
    MaxRestarts = 0
    MaxFails = 0
    d1 = d1
    d2 = d2
    c1 = c1
    c2 = c2
    s1 = s1
    s2 = s2
    None = None
INVARIANT NoLostUpdate
INVARIANT OneMorePass
PROPERTY DueIsPassed
PROPERTY StopEnds
PROPERTY CallsReturn
