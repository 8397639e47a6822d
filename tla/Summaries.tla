------------------------------- MODULE Summaries -------------------------------
(***************************************************************************)
(* What summarize makes of the events of a run.  Rates are kept as the     *)
(* numbers of events they stand for, all of them parts of one number n.    *)
(*                                                                         *)
(* A log gives for each line of the files its event, as infer() leaves it: *)
(* [tier, decision, ttft, met, e429, e5xx].  The order of lines does not   *)
(* matter.  ttft is the time of the first token, 0 where there is none; a  *)
(* stream may also break after it.                                         *)
(***************************************************************************)
EXTENDS Integers, FiniteSets, FiniteSetsExt

CONSTANTS
    Tiers,
    Slo,       \* ttft_slo_ms of each tier
    MaxTtft,   \* bound on the time of a first token
    Logs       \* the logs that are summed up

Refused == [tier : Tiers, decision : {"REJECT"}, ttft : {0}, met : {FALSE},
            e429 : {FALSE}, e5xx : {FALSE}]

\* The time in the queue counts too: a first token in time does not suffice.
Streamed == {e \in [tier : Tiers, decision : {"ADMIT"}, ttft : 0 .. MaxTtft, met : BOOLEAN,
                    e429 : BOOLEAN, e5xx : BOOLEAN] :
                /\ e.met => e.ttft \in 1 .. Slo[e.tier]
                /\ ~(e.e429 /\ e.e5xx)}

ASSUME SummaryAssumption ==
    /\ IsFiniteSet(Tiers) /\ Slo \in [Tiers -> Nat] /\ MaxTtft \in Nat
    /\ \A log \in Logs : IsFiniteSet(DOMAIN log) /\ Range(log) \subseteq Refused \cup Streamed

Admitted(log) == {i \in DOMAIN log : log[i].decision = "ADMIT"}
Rejected(log) == {i \in DOMAIN log : log[i].decision = "REJECT"}
Good(log) == {i \in Admitted(log) : log[i].met}
Limited(log) == {i \in DOMAIN log : log[i].e429}

\* Mutant: any error of Bedrock is a throttling.
ThrottledOrFailed(log) == Rejected(log) \cup {i \in DOMAIN log : log[i].e429 \/ log[i].e5xx}

\* throttle_rate
Throttled(log) == Rejected(log) \cup Limited(log)

Counts(log) ==
    [n         |-> Cardinality(DOMAIN log),
     admitted  |-> Cardinality(Admitted(log)),
     rejected  |-> Cardinality(Rejected(log)),
     good      |-> Cardinality(Good(log)),
     throttled |-> Cardinality(Throttled(log)),
     e429      |-> Cardinality(Limited(log))]

\* by_tier
OfTier(log, tier) == Restrict(log, {i \in DOMAIN log : log[i].tier = tier})

\* The first tokens of the admitted.
Ttfts(log) == [i \in {i \in Admitted(log) : log[i].ttft # 0} |-> log[i].ttft]

Faster(values, v) == {i \in DOMAIN values : values[i] < v}
Slower(values, v) == {i \in DOMAIN values : v < values[i]}

\* The value at a place when all are sorted.
AtPlace(values, k) ==
    CHOOSE v \in Range(values) :
        /\ Cardinality(Faster(values, v)) < k
        /\ k <= Cardinality(DOMAIN values \ Slower(values, v))

\* _pct: int(q * (n - 1)) counts from 0; q in percent.
Percentile(values, q) ==
    AtPlace(values, (q * (Cardinality(DOMAIN values) - 1)) \div 100 + 1)

-----------------------------------------------------------------------------
\* A summary adds up: each request was admitted or turned away, each is a part
\* of its tier, and none counts as throttled twice; no request counts as good and
\* as throttled but one whose answer Bedrock cut off with a 429 after it had begun
\* in time, never one that was turned away or that another error ended.  A
\* percentile's part of the first tokens at most were faster than it says, and
\* the rest of them at most, and one, slower.
SummaryAddsUp(log) ==
    LET all == Counts(log)
        tiers == [t \in Tiers |-> Counts(OfTier(log, t))]
        first == Ttfts(log)
        begun == Cardinality(DOMAIN first)
    IN  /\ all.n = all.admitted + all.rejected
        /\ all.throttled = all.rejected + all.e429
        /\ \A i \in Good(log) \cap Throttled(log) :
              log[i].e429 /\ log[i].ttft \in 1 .. Slo[log[i].tier]
        /\ \A f \in DOMAIN all : all[f] = SumFunction([t \in Tiers |-> tiers[t][f]])
        /\ \A q \in 0 .. 100 : begun > 0 =>
              /\ 100 * Cardinality(Faster(first, Percentile(first, q))) <= q * (begun - 1)
              /\ 100 * (Cardinality(Slower(first, Percentile(first, q))) - 1)
                    <= (100 - q) * begun
=============================================================================
