\* The fairness of a running driver; no reorgs.
SPECIFICATION FairSpec
CONSTANTS
    Csv = 5
    MinConfs = 2
    ClaimMargin = 3
    ByHand = FALSE
    MaxPace = 1
    MaxReorgs = 0
    MaxEvictions = 0
    MaxLosses = 0
PROPERTY KeepsThePromise
PROPERTY SettledIsClaimed
PROPERTY OpeningResolves
CHECK_DEADLOCK FALSE
