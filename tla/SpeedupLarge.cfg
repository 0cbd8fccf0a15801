CONSTANTS
    f1 = f1
    f2 = f2
    Parents = {p1}
    Fundings = {f1}
    MaxSpeedups = 3
    MaxTracking = 1
    RetryAttempts = 1
    Doomed = {}
    MaxConfs = 2
    MaxReorg = 0
    MaxHeight = 5
    MaxEvictions = 1
    Amount <- Rich
    MinFunding = 2
    Dust = 1
    MaxRate = 3
    StaleBlocks = 1
    MaxUnconfirmed = 1
    MaxBatch = 2
    Cancelled = {}
    MaxFaults = 0
SPECIFICATION Spec
INVARIANTS SpeedupTypeOK Covered ReplacedStaysOut SlotsRespected ReplacedSettled FundingKept NoRefusal
CHECK_DEADLOCK FALSE
