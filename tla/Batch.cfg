CONSTANTS
    f1 = f1
    f2 = f2
    Parents = {p1, p2}
    Fundings = {f1}
    MaxSpeedups = 2
    MaxTracking = 0
    RetryAttempts = 2
    Doomed = {p1}
    MaxConfs = 1
    MaxReorg = 0
    MaxHeight = 2
    MaxEvictions = 0
    Amount <- Rich
    MinFunding = 2
    Dust = 1
    MaxRate = 1
    StaleBlocks = 9
    MaxUnconfirmed = 1
    MaxBatch = 2
    Cancelled = {p1, p2}
    MaxFaults = 0
SPECIFICATION FairSpec
INVARIANTS Covered
PROPERTIES QueueDrains
CHECK_DEADLOCK FALSE
