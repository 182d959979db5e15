\* Two deposits of the amount.
SPECIFICATION Spec
CONSTANTS
    Outputs <- Two
    Value <- SameTwice
    Amount = 5
    Thresholds <- Steady
    Csv = 2
    FundsPerPass = 1
    Address = "swap"
    ByHand = FALSE
    MaxPace = 1
    Faults <- NoFaults
    MaxFaults = 0
INVARIANT NothingLeftWhenQuiet
CHECK_DEADLOCK FALSE
