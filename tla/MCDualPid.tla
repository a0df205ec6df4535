------------------------------ MODULE MCDualPid ------------------------------
(* A small instance of DualPid for TLC: enough to charge, surplus, deadband, *)
(* small need and need, and no value.                                        *)
EXTENDS DualPid

ErrorClasses == {-4, -3, 0, 1, 3, NaN}

\* No step and no property reads the level that the charger holds.
View ==
  <<control, [chg EXCEPT !.dev = 0], dis, r48, switches, producing, voltage, byHand, sunny>>
=============================================================================
