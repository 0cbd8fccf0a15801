CONSTANTS
    Txs = {}
    Rivals = {}
    Inputs = {}
    Shared = {}
    MaxHeight = 5
    MaxReorg = 2
    MaxConfs = 2
    MaxEvictions = 0
    Conditions = {stuck, unfunded}
    Refusals = {refused}
SPECIFICATION Spec
INVARIANT NewsTypeOK
PROPERTY ImplementsMailbox
PROPERTY RepeatsEachBlock
PROPERTY QuietAfterAck
CHECK_DEADLOCK FALSE
