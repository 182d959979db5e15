\* Two tabs, each with a caller, on one swap; one dies and comes back.
SPECIFICATION Spec
CONSTANTS
    Drivers <- TwoDrivers
    Callers <- TwoCallers
    Home <- OwnHome
    Swaps <- OneSwap
    WebLocks = TRUE
    Racing = FALSE
    MaxSaves = 2
    MaxSignals = 0
    MaxRestarts = 1
    MaxFails = 1
    d1 = d1
    d2 = d2
    c1 = c1
    c2 = c2
    s1 = s1
    s2 = s2
    None = None
INVARIANT TypeOK
INVARIANT NoLostUpdate
