CONSTANTS
    MaxFeeRate = 7
    MinSafeFeeRate = 1
    BaseFeeMultiplier <- FiveQuarters
    BumpFeePercentage <- One
    MaxTxWeight = 12
    Weights = {4, 9}
    ChildVsize = 3
    AnchorVsize = 1
    Estimates = {0, 3, 12}
    MaxUnconfirmed = 2
    MaxPending = 3
    Slack = 1
SPECIFICATION Spec
INVARIANTS PricingTypeOK WithinCap ReachesRate BoostOutpays BatchesAreGreedy
