---------------------------- MODULE MCEngineHistory ----------------------------
(* Values for the constants of EngineHistory: one client transaction and a   *)
(* rival that spends the same outpoint.                                      *)
EXTENDS EngineHistory, TLC

CONSTANTS mine, rival

ContestedInputs == (mine :> {<<"deposit", 0>>}) @@ (rival :> {<<"deposit", 0>>})
=============================================================================
