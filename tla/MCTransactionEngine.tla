-------------------------- MODULE MCTransactionEngine --------------------------
(* Values for the constants of TransactionEngine: a client transaction       *)
(* whose outpoint a rival spends too, and a child of the client transaction. *)
EXTENDS TransactionEngine, TLC

CONSTANTS parent, child, rival

FamilyInputs == (parent :> {<<"deposit", 0>>}) @@ (child :> {<<parent, 0>>})
                  @@ (rival :> {<<"deposit", 0>>})
=============================================================================
