---------------------------- MODULE MCDualPidPcm ----------------------------
(* A small instance of DualPidPcm for TLC: enough to charge, a surplus below *)
(* that, the deadband, a need below the start of a discharge, and above.     *)
EXTENDS DualPidPcm

ErrorClasses == {-4, -3, 0, 3, 4}
=============================================================================
