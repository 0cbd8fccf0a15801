--------------------------- MODULE MCSpeedupPricing ---------------------------
(* Multipliers for SpeedupPricing. *)
EXTENDS SpeedupPricing

Quarter == <<1, 4>>
One == <<1, 1>>
FiveQuarters == <<5, 4>>
HalfMore == <<3, 2>>
=============================================================================
