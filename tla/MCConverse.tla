------------------------------ MODULE MCConverse ------------------------------
(***************************************************************************)
(* Small instances of ConverseQuota: one app whose limits are reached by   *)
(* two charges (q2 alone uses up the tokens), one with limits of zero.     *)
(***************************************************************************)
EXTENDS ConverseQuota

CONSTANTS q1, q2, q3, q4, web, batch

AppOfRequest == [r \in Requests |-> IF r = q3 THEN batch ELSE web]
EstOfRequest == [r \in Requests |-> IF r = q2 THEN 3 ELSE 1]
RpmLimits == [a \in Apps |-> IF a = web THEN 2 ELSE 0]
TokenLimits == [a \in Apps |-> IF a = web THEN 3 ELSE 0]
=============================================================================
