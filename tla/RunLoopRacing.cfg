\* A swap is restored by one caller while another creates it.
SPECIFICATION Spec
CONSTANTS
    Drivers <- OneDriver
    Callers <- TwoCallers
    Home <- SameHome
    Swaps <- OneSwap
    WebLocks = FALSE
    Racing = TRUE
    MaxSaves = 2
    MaxSignals = 0
    MaxRestarts = 0
    MaxFails = 0
    d1 = d1
    d2 = d2
    c1 = c1
    c2 = c2
    s1 = s1
    s2 = s2
    None = None
INVARIANT NoLostUpdate
CHECK_DEADLOCK FALSE
