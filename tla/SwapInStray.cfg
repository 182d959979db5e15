\* A deposit and a stray, one fund a pass, one spend left out of a history.
SPECIFICATION Spec
CONSTANTS
    Outputs <- Two
    Value <- DepositAndStray
    Amount = 5
    Thresholds <- Steady
    Csv = 2
    FundsPerPass = 1
    Address = "swap"
    ByHand = FALSE
    MaxPace = 1
    Faults <- AMiss
    MaxFaults = 1
INVARIANT KeyOnlyForPaid
INVARIANT NothingLeftWhenQuiet
PROPERTY EndedStaysEnded
CHECK_DEADLOCK FALSE
