CONSTANTS
  parent = parent
  child = child
  rival = rival
  Txs = {parent}
  Rivals = {}
  Inputs <- FamilyInputs
  Shared = {}
  MaxHeight = 2
  MaxReorg = 0
  MaxConfs = 2
  MaxEvictions = 1
  Invalid = {}
  Cancelled = {}
  Delays = {0}
  StuckBlocks = 9
  RetryAttempts = 2
  MaxTracking = 9
  MaxErrors = 0
  MaxCrashes = 1
SPECIFICATION Spec
INVARIANTS NoSilentFailure
