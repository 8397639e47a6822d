---------------------------- MODULE BucketOvershoot ----------------------------
(***************************************************************************)
(* TokenBuckets with an account of what may void a look: a turn decides on *)
(* the balances it found, and streams whatever its charge answers.  The    *)
(* account is a history of the calls and changes none of them.             *)
(***************************************************************************)
EXTENDS TokenBuckets

VARIABLE spoilt   \* the tasks whose look no longer stands

Decided(t) == pc[t] \in {"admit", "charge"}

\* A call of another task takes tokens from a bucket that t looked at.
Robbed(t) == \E b \in Both(t) : paid'[b] > paid[b]

\* A call with a later time comes in before the charge of t.
Overtaken(t) ==
    /\ pc[t] = "charge"
    /\ \E u \in Tasks : Calling(u) /\ pc'[u] # pc[u] /\ at[u] > at[t]

TracedInit == Init /\ spoilt = {}

TracedNext ==
    /\ Next
    /\ spoilt' = {t \in Tasks : /\ Decided(t) /\ pc'[t] # "idle"
                                /\ t \in spoilt \/ Robbed(t) \/ Overtaken(t)}

TracedSpec == TracedInit /\ [][TracedNext]_<<vars, spoilt>>

\* The answer to a charge is dropped, and a request is streamed even when the
\* tokens are gone.  That takes another task: one that took them after the
\* look, or one whose call carries a later time and so cuts off, at the brim
\* of the bucket, what had flowed in for the earlier one.  A task alone pays
\* for all it admits.
PaidUnlessSpoilt ==
    [][\A t \in Tasks :
          Charge(t) /\ Taken(Both(t), at[t], est[t]) # Both(t) => t \in spoilt
      ]_<<vars, spoilt>>
=============================================================================
