CONSTANTS
  mine = mine
  rival = rival
  Txs = {mine}
  Rivals = {rival}
  Inputs <- ContestedInputs
  Shared = {}
  MaxHeight = 4
  MaxReorg = 1
  MaxConfs = 2
  MaxEvictions = 1
  Invalid = {}
  Cancelled = {}
  Delays = {0}
  StuckBlocks = 9
  RetryAttempts = 2
  MaxTracking = 9
  MaxErrors = 0
  MaxCrashes = 0
SPECIFICATION FairHSpec
INVARIANTS TypeOK FinalizedOnChain GuardOnlyWhileQueued NoSilentFailure ReviewedAgreesWithIndex NoRefusedTransition
PROPERTIES GuardWindowRespected QueueMoves
