\* The fairness of a running driver; no faults.
SPECIFICATION FairSpec
CONSTANTS
    Outputs <- One
    Value <- Deposit
    Amount = 5
    Thresholds <- Steady
    Csv = 2
    FundsPerPass = 1
    Address = "swap"
    ByHand = FALSE
    MaxPace = 1
    Faults <- NoFaults
    MaxFaults = 0
PROPERTY DepositsComeBack
CHECK_DEADLOCK FALSE
