\* A pass ends well at least once a block; a reorg, an eviction and a lost store.
SPECIFICATION Spec
CONSTANTS
    Csv = 7
    MinConfs = 2
    ClaimMargin = 5
    ByHand = FALSE
    MaxPace = 1
    MaxReorgs = 1
    MaxEvictions = 1
    MaxLosses = 1
INVARIANT NeverLosesPayment
INVARIANT NothingLeftWhenQuiet
PROPERTY ReleaseGate
CHECK_DEADLOCK FALSE
