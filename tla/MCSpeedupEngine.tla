---------------------------- MODULE MCSpeedupEngine ----------------------------
(* Amounts for SpeedupEngine. *)
EXTENDS SpeedupEngine

CONSTANTS f1, f2

Rich == [f \in Fundings |-> 9]
Poor == [f \in Fundings |-> IF f = f1 THEN 3 ELSE 9]
=============================================================================
