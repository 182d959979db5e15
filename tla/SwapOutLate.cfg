\* Blocks overtake the driver, and the app steps finished swaps by hand.
SPECIFICATION Spec
CONSTANTS
    Csv = 4
    MinConfs = 2
    ClaimMargin = 2
    ByHand = TRUE
    MaxPace = 3
    MaxReorgs = 1
    MaxEvictions = 1
    MaxLosses = 0
INVARIANT TypeOK
INVARIANT PreimageRecorded
INVARIANT FinalMatchesChain
