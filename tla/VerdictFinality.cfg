CONSTANTS
  mine = mine
  rival = rival
  Txs = {mine}
  Rivals = {rival}
  Inputs <- ContestedInputs
  Shared = {}
  MaxHeight = 5
  MaxReorg = 1
  MaxConfs = 2
  MaxEvictions = 1
  Invalid = {}
  Cancelled = {}
  Delays = {0}
  StuckBlocks = 9
  RetryAttempts = 4
  MaxTracking = 3
  MaxErrors = 0
  MaxCrashes = 0
SPECIFICATION HSpec
INVARIANTS VerdictIsFinal
