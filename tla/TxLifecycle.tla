----------------------------- MODULE TxLifecycle -----------------------------
(***************************************************************************)
(* What the coordinator promises a client about each of its transactions,  *)
(* with the network, the tick and its passes left out: a record moves only *)
(* along the transitions of can_transition_to, a terminal record stays as  *)
(* it is for MaxTracking blocks and can only be dropped after them, and    *)
(* only a record that is still queued can be withdrawn.                    *)
(***************************************************************************)
EXTENDS Integers, CoordinatorTypes

CONSTANTS Txs, MaxTracking

VARIABLES
    state,    \* state[t]: lifecycle state of the record of t
    settled,  \* settled[t]: height at which t settled, 0 before that
    now       \* the block height the coordinator has reached

Init ==
    /\ state = [t \in Txs |-> "Unregistered"]
    /\ settled = [t \in Txs |-> 0]
    /\ now \in Nat

Keeps(t) == state'[t] = state[t] /\ settled'[t] = settled[t]

Registers(t) ==
    /\ state[t] = "Unregistered"
    /\ state'[t] = "ToDispatch"
    /\ settled'[t] = 0

Advances(t) ==
    /\ state[t] \in Active
    /\ state'[t] \in TransactionState
    /\ CanTransitionTo(state[t], state'[t])
    /\ settled'[t] = IF state'[t] \in Terminal THEN now' ELSE 0

Withdrawn(t) ==
    /\ state[t] = "ToDispatch"
    /\ state'[t] = "Unregistered"
    /\ settled'[t] = 0

Expires(t) ==
    /\ state[t] \in Terminal
    /\ now' - settled[t] >= MaxTracking
    /\ state'[t] = "Unregistered"
    /\ settled'[t] = 0

Next ==
    /\ now' \in Nat
    /\ \A t \in Txs : Keeps(t) \/ Registers(t) \/ Advances(t) \/ Withdrawn(t) \/ Expires(t)

Spec == Init /\ [][Next]_<<state, settled, now>>
=============================================================================
