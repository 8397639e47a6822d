------------------------------ MODULE MCBuckets ------------------------------
(***************************************************************************)
(* Small instances of TokenBuckets: a minute of two ticks, and buckets     *)
(* that hold two requests at most.                                         *)
(***************************************************************************)
EXTENDS BucketOvershoot, TLC

CONSTANTS u1, u2, x1, x2

Symmetry == Permutations(Tasks)
Limits == [x \in Tenants |-> 2]
=============================================================================
