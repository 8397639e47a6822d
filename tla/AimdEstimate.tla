----------------------------- MODULE AimdEstimate -----------------------------
(***************************************************************************)
(* What the AIMD controller promises the admission policy, without tasks,  *)
(* locks, windows or Redis: an estimate that stays in its range and moves  *)
(* at most once per window, by one multiplicative step up or down.  A step *)
(* may be claimed and never made; the estimate may fall back to C0.  Once  *)
(* it has been reset, the range is all it promises.                        *)
(***************************************************************************)
EXTENDS Integers

CONSTANTS C0, CMin, CMax, AlphaNum, AlphaDen, BetaNum, BetaDen, W

VARIABLES
    estimate,
    last,       \* the time of the last claim
    claimed,    \* a claimed step has not been made yet
    wasReset    \* somebody has asked for a reset

vars == <<estimate, last, claimed, wasReset>>

Init == estimate = C0 /\ last \in Nat /\ claimed = FALSE /\ wasReset = FALSE

Claim ==
    /\ ~claimed /\ claimed'
    /\ last' >= last + W
    /\ UNCHANGED estimate

\* Rounding may cost up to two tokens on the way down.
Move ==
    /\ claimed /\ ~claimed'
    /\ estimate' \in CMin .. CMax
    /\ estimate' * AlphaDen <= estimate * (AlphaDen + AlphaNum)
    /\ (estimate' + 2) * BetaDen > estimate * BetaNum
    /\ UNCHANGED last

\* The task that claimed died; its replacement seeds an estimate gone missing.
Abandon ==
    /\ claimed /\ ~claimed'
    /\ estimate' \in {estimate, C0}
    /\ UNCHANGED last

Forget ==
    /\ ~claimed
    /\ estimate' \in {estimate, C0}
    /\ last' >= last
    /\ UNCHANGED claimed

Undisturbed ==
    /\ ~wasReset /\ ~wasReset'
    /\ Claim \/ Move \/ Abandon \/ Forget

Disturbed == wasReset' /\ estimate' \in CMin .. CMax

Next == Undisturbed \/ Disturbed

Spec == Init /\ [][Next]_vars
=============================================================================
