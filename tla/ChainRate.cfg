CONSTANTS
    MaxFeeRate = 40
    MinSafeFeeRate = 1
    BaseFeeMultiplier <- One
    BumpFeePercentage <- HalfMore
    MaxTxWeight = 12
    Weights = {4, 9}
    ChildVsize = 3
    AnchorVsize = 1
    Estimates = {0, 8, 16}
    MaxUnconfirmed = 3
    MaxPending = 3
    Slack = 1
SPECIFICATION Spec
INVARIANTS ChainReachesRate
