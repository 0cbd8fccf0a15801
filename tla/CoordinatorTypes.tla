--------------------------- MODULE CoordinatorTypes ---------------------------
(***************************************************************************)
(* The lifecycle states of a coordinated transaction and the transitions   *)
(* that TransactionState::can_transition_to allows (helper.rs).            *)
(* "Unregistered" stands for a txid without a record in the store.         *)
(***************************************************************************)

Terminal == {"Finalized", "Failed"}

Active == {"ToDispatch", "InMempool", "Confirmed"}

TransactionState == Active \cup Terminal

RecordState == TransactionState \cup {"Unregistered"}

Transitions ==
    { <<"ToDispatch", "InMempool">>, <<"InMempool", "Confirmed">>,
      <<"Confirmed", "Finalized">>,
      <<"ToDispatch", "Confirmed">>, <<"ToDispatch", "Finalized">>,
      <<"InMempool", "Finalized">>,
      <<"InMempool", "ToDispatch">>,
      <<"Confirmed", "InMempool">>, <<"Confirmed", "ToDispatch">>,
      <<"ToDispatch", "Failed">>, <<"InMempool", "Failed">> }

CanTransitionTo(from, to) == from = to \/ <<from, to>> \in Transitions
=============================================================================
