--------------------------- MODULE MCHealthSweep ---------------------------
(***************************************************************************)
(* Finite instances of HealthSweep.  Times are countdowns, so that neither *)
(* the clock nor the number of sweeps needs a bound.                       *)
(***************************************************************************)
EXTENDS HealthSweep

CONSTANTS p1, none, s1
=============================================================================
