CONSTANTS
  parent = parent
  child = child
  rival = rival
  Txs = {parent}
  Rivals = {}
  Inputs <- FamilyInputs
  Shared = {}
  MaxHeight = 5
  MaxReorg = 2
  MaxConfs = 2
  MaxEvictions = 0
  Invalid = {}
  Cancelled = {}
  Delays = {0}
  StuckBlocks = 9
  RetryAttempts = 2
  MaxTracking = 9
  MaxErrors = 0
  MaxCrashes = 0
SPECIFICATION Spec
INVARIANTS FinalizedOnChain
