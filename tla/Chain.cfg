CONSTANTS
    f1 = f1
    f2 = f2
    Parents = {p1}
    Fundings = {f1, f2}
    MaxSpeedups = 3
    MaxTracking = 1
    RetryAttempts = 1
    Doomed = {}
    MaxConfs = 1
    MaxReorg = 0
    MaxHeight = 3
    MaxEvictions = 1
    Amount <- Poor
    MinFunding = 2
    Dust = 1
    MaxRate = 3
    StaleBlocks = 1
    MaxUnconfirmed = 3
    MaxBatch = 2
    Cancelled = {}
    MaxFaults = 0
SPECIFICATION Spec
INVARIANTS InputsMarked MarksHeld OnePrebuilt BoostPullsTip CascadeOnce
CHECK_DEADLOCK FALSE
