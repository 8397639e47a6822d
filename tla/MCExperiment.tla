------------------------------ MODULE MCExperiment ------------------------------
(***************************************************************************)
(* A campaign of a cell, the same cell again and a cell of another load    *)
(* and budget, and one of two policies under one budget and a third cell   *)
(* under another, on a service of one container; and the summaries of all  *)
(* logs of up to three events.                                             *)
(***************************************************************************)
EXTENDS Experiment

CONSTANTS slo, fixed, l50, l100, c2M, c100k, P1, P2

Half == [policy |-> slo, load |-> l50, budget |-> c2M, rep |-> 1]
Full == [policy |-> slo, load |-> l100, budget |-> c100k, rep |-> 1]
TwiceHalf == <<Half, Half, Full>>
HalfFixed == [Half EXCEPT !.policy = fixed]
TwoPolicies == <<Half, HalfFixed, Full>>
AsStrings == <<<<l100, c100k>>, <<l50, c2M>>>>

\* All logs of up to three events, of two tiers with different objectives.
SmallLogs == UNION {[1 .. n -> Refused \cup Streamed] : n \in 0 .. 3}
NoLogs == {}
Objectives == [t \in Tiers |-> IF t = P1 THEN 1 ELSE 2]
=============================================================================
