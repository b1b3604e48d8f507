---------------------------- MODULE MCController ----------------------------
(* Bounded instances of Controller.  One unit is 0.05 degC, the deadband is  *)
(* the default 0.5 degC.  Targets 0 and 1 differ by the tolerance, 12 by     *)
(* more; each reading is too cold, inside the band or too warm for some.     *)
EXTENDS Controller

MCTargets == {0, 1, 12}
MCTemps   == {-6, 0, 6, 14, 18}
=============================================================================
