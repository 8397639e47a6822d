------------------------------ MODULE MCAdaptive ------------------------------
(***************************************************************************)
(* Small instances of AdaptiveCapacity.  Capacities are a few tokens and   *)
(* alpha = beta = 1/2, so that floor, ceiling and rounding are reached in  *)
(* one or two steps; a window lasts two ticks of the clock, so that it has *)
(* an inside.                                                              *)
(***************************************************************************)
EXTENDS AdaptiveCapacity

CONSTANTS a1, a2, k1, k2

OneTask == [a \in Callers |-> k1]
TwoTasks == [a \in Callers |-> IF a = a1 THEN k1 ELSE k2]
=============================================================================
