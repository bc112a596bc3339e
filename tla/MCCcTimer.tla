------------------------------ MODULE MCCcTimer --------------------------------
(* CcTimer for TLC: clients are as good as one another, the clock has fewer    *)
(* cycles than 1024 and a second fewer milliseconds than 1000, in a ratio that *)
(* is no whole number either.                                                  *)
EXTENDS CcTimer, TLC

Symmetry == Permutations(Timers)
================================================================================
