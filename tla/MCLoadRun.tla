------------------------------- MODULE MCLoadRun -------------------------------
(***************************************************************************)
(* Two tenants, one of them a victim that doubles its rate in the second   *)
(* of three unequal phases, and two workers beside them; the skew of every *)
(* number of tenants a scenario may have; what every kind of scenario      *)
(* offers with one tenant of each tier; and the dates read from traces     *)
(* of nine bins, with the pressure in the third and the fourth.            *)
(***************************************************************************)
EXTENDS LoadRun

CONSTANTS victim, other

TwoTenants == <<other, victim>>
\* The victim is slower than the least rate, but for its burst.
Waits == [t \in {victim, other} |-> IF t = victim THEN 4 ELSE 2]
ThreeEnds == <<2, 5, 6>>
DoubledOnce == <<1, 2, 1>>

Tens == 10 .. 100

ClassTokens == [short |-> 1, medium |-> 5, long |-> 20]
Rates == [P1 |-> {5, 15}, P2 |-> {5, 20}, P3 |-> {1, 10}]
Prompts == [P1 |-> {"short", "medium"}, P2 |-> {"short", "medium", "long"},
            P3 |-> {"medium", "long"}]
OneOfEachTier == BaseProfiles("P1") \X BaseProfiles("P2") \X BaseProfiles("P3")

\* The third tenant is the victim, or none is; at half of the budget it may be
\* below the least rate, and in its burst above.
Growing == <<[class |-> "short", tokens |-> 2, end |-> 2],
             [class |-> "long", tokens |-> 15, end |-> 4]>>
Bursting == <<[burst |-> 1, end |-> 2], [burst |-> 3, end |-> 4]>>
Files == [rpm : {0, 50}, smokeRpm : {0, 2}, forced : {"", "medium"}, budget : {5},
          phases : {<<>>, Growing}, victim : {0, 3}, bursts : {<<>>, Bursting}]

\* One second without an arrival, and the answers slow in every third one.
Arriving(first, gap, late, harm) ==
    {[id |-> t, at |-> t, stamp |-> t + (IF t % 3 = late THEN 2 ELSE 0), hurt |-> t >= harm] :
        t \in (first .. 17) \ {gap}}
Arrivals == {Arriving(first, gap, late, harm) :
                first \in 0 .. 1, gap \in {6, 9, 14, 18}, late \in 0 .. 2, harm \in {5, 7, 18}}

\* The estimate loses 30 percent at a time (aimd_beta), and grows back.
Steps(fall, low, back) ==
    [t \in 0 .. 19 |-> IF t < fall \/ t >= back + 2 THEN 10
                      ELSE IF t < fall + 2 \/ t >= back THEN 7 ELSE low]
Falls == [requests : Arrivals, est : {Steps(fall, low, back) :
                                        fall \in 5 .. 7, low \in 4 .. 5, back \in {9, 11, 15}}]
=============================================================================
