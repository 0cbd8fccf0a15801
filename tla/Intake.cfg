CONSTANTS
  parent = parent
  child = child
  rival = rival
  Txs = {parent, child}
  Rivals = {}
  Inputs <- FamilyInputs
  Shared = {}
  MaxHeight = 3
  MaxReorg = 0
  MaxConfs = 2
  MaxEvictions = 1
  Invalid = {child}
  Cancelled = {child}
  Delays = {0, 1}
  StuckBlocks = 1
  RetryAttempts = 2
  MaxTracking = 1
  MaxErrors = 0
  MaxCrashes = 0
SPECIFICATION FairSpec
PROPERTIES ImplementsLifecycle QueueMoves
