CONSTANTS
    f1 = f1
    f2 = f2
    Parents = {p1}
    Fundings = {f1, f2}
    MaxSpeedups = 3
    MaxTracking = 1
    RetryAttempts = 1
    Doomed = {}
    MaxConfs = 2
    MaxReorg = 1
    MaxHeight = 3
    MaxEvictions = 0
    Amount <- Poor
    MinFunding = 2
    Dust = 1
    MaxRate = 3
    StaleBlocks = 1
    MaxUnconfirmed = 2
    MaxBatch = 2
    Cancelled = {}
    MaxFaults = 1
SPECIFICATION Spec
INVARIANTS ReservedOnce ReplacedStaysOut
CHECK_DEADLOCK FALSE
