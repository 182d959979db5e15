\* The parts around the passes, one at a time.
SPECIFICATION Spec
CONSTANTS
    Values <- LockedValues
    Rates <- EstimatedRates
    MaxFeeRate <- RateCaps
    AgreedCsvs <- ShortAndLongCsv
    MaxOuts = 3
    FundsPerPass = 2
    MaxInputs = 2
    Dests <- LeastAndMostDust
    MaxU64 = 30
    Million = 10
    Ppms <- SomePpms
    Bases <- SomeBases
    Ranges <- SomeRanges
    Multipliers <- SomeMultipliers
    MinConfs = 1
    BlockTime = 2
    FundingTimeout = 2
    ClaimMargin = 1
    MaxRefundCsv = 5
    MaxHtlcHold = 5
    QuoteTtl = 1
    Waits <- SixOrNoWait
    Expiries <- ShortAndLongInvoice
    PickedCsvs <- CsvsAroundLimits
    Cltvs <- CltvsAroundLimits
    Wrongs <- WrongInvoice
    MaxTime = 7
    OurSwaps <- ThreeSwaps
    MadeUp <- OneMadeUp
    Limit = 2
    Passes <- TwoPasses
    Ttl = 2
    Estimates <- OneEstimate
    Relay = 1
    Networks <- WithAndWithoutFallback
    MaxClock = 4
    SignalIds <- TwoIds
    MinDelay = 1
    MaxDelay = 3
    MaxPushes = 3
    MaxSockets = 3
    Txs <- ThreeTxs
    Spending = 3
    Page = 1
    PoolCap = 1
    MaxRetries = 1
    MaxHeight = 2
    MaxMoves = 2
    Clients <- EveryClient
    Newer = "Settling"
    None = None
    a = a
    b = b
    c = c
    x = x
INVARIANTS
    ClaimsAlwaysBuild
    SpendKeepsUp
    SpendIsReadBack
    RangeIsExact
    BestPrice
    DepositConfirmsInTime
    RestoreRebuilds
    RestoreFindsAll
    PagingEnds
    RateFresh
    OneChannel
    SignalsInOrder
    HistoryWhole
    ByHandIsSafe
PROPERTY RefundsGoOut
CHECK_DEADLOCK FALSE
