CONSTANTS
  parent = parent
  child = child
  rival = rival
  Txs = {parent, child}
  Rivals = {}
  Inputs <- FamilyInputs
  Shared = {}
  MaxHeight = 3
  MaxReorg = 1
  MaxConfs = 2
  MaxEvictions = 0
  Invalid = {}
  Cancelled = {}
  Delays = {0}
  StuckBlocks = 3
  RetryAttempts = 1
  MaxTracking = 1
  MaxErrors = 1
  MaxCrashes = 1
SPECIFICATION FairSpec
INVARIANTS NoPhantom SnapshotFresh
PROPERTIES ImplementsLifecycle QueueMoves
