---------------------------- MODULE RequestService ----------------------------
(***************************************************************************)
(* What the gateway promises its callers, without tasks, counters, queues  *)
(* or policies: a request waits until it is refused or one of Capacity     *)
(* servers takes it; a server serves one request at a time and to the end; *)
(* a request may be dropped before its end, never after; an outcome is     *)
(* final.                                                                  *)
(***************************************************************************)
EXTENDS Naturals, FiniteSets

CONSTANTS Requests, Capacity

VARIABLE phase   \* of each request

Serving == {r \in Requests : phase[r] = "serving"}

Init == phase = [r \in Requests |-> "waiting"]

Become(r, p) == phase' = [phase EXCEPT ![r] = p]

Admit(r) ==
    /\ phase[r] = "waiting"
    /\ Cardinality(Serving) < Capacity
    /\ Become(r, "serving")

Serve(r) == phase[r] = "serving" /\ Become(r, "served")

Refuse(r) == phase[r] = "waiting" /\ Become(r, "refused")

\* A failed call drops one request, the crash of a task all it has.
Drop(S) ==
    /\ \A r \in S : phase[r] \in {"waiting", "serving"}
    /\ phase' = [r \in Requests |-> IF r \in S THEN "dropped" ELSE phase[r]]

Next ==
    \/ \E r \in Requests : Admit(r) \/ Serve(r) \/ Refuse(r)
    \/ \E S \in SUBSET Requests : Drop(S)

Spec == Init /\ [][Next]_phase
=============================================================================
