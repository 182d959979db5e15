\* One fault of any kind, calls by hand, a fee that rises and falls.
SPECIFICATION Spec
CONSTANTS
    Outputs <- One
    Value <- Deposit
    Amount = 5
    Thresholds <- Swinging
    Csv = 2
    FundsPerPass = 1
    Address = "hook"
    ByHand = TRUE
    MaxPace = 1
    Faults <- EveryFault
    MaxFaults = 1
INVARIANT TypeOK
INVARIANT KeyOnlyForPaid
INVARIANT NothingLeftWhenQuiet
PROPERTY EndedStaysEnded
