------------------------------ MODULE LoadProofs ------------------------------
(***************************************************************************)
(* Proofs about LoadRun, for any scenario, number of tenants and workers   *)
(* and length of a smoke run: the phases and the window of the background  *)
(* fit the run, a tenant has a user of its own and offers no more than the *)
(* plan, and what the background logs accounts for its calls; the skew and *)
(* the load are those that are planned, and the dates read from the events *)
(* are what the estimate did, to a bin and the latency of an answer.       *)
(***************************************************************************)
EXTENDS LoadRun, SumProofs, SequenceTheorems

-----------------------------------------------------------------------------
(***************************************************************************)
(* The inductive invariant.                                                *)
(***************************************************************************)

\* A user has its tenant from the end of on_start, and there is none before the
\* test has started.
Registered == {u \in Users : profile[u] # None}

Placed ==
    /\ testStart = None => /\ time <= MaxStartup
                           /\ \A u \in Users : upc[u] \in {"unborn", "gone"}
    /\ testStart # None => testStart <= time
    /\ Registered # {} => testStart # None
    /\ \A u \in Users :
          /\ upc[u] \in {"unborn", "assumed"} => u \notin Registered /\ sent[u] = 0
          /\ upc[u] \in {"ready", "calling", "waiting"} => u \in Registered

\* The tenants are given away in their order.
Assigned ==
    /\ index = Cardinality(Registered)
    /\ \A u \in Registered : \E i \in 1 .. index : profile[u] = Profiles[i]
    /\ OneUserPerTenant

Busy == {w \in Workers : wpc[w] \in {"calling", "replied"}}

\* What was issued and is not logged is in the hands of a worker.
Accounted ==
    /\ IF process = "exited"
       THEN /\ \A w \in Workers : wpc[w] = "gone"
            /\ issued <= logged + Cardinality(Workers)
       ELSE /\ \A w \in Workers : wpc[w] # "gone"
            /\ issued = logged + Cardinality(Busy)
    /\ stage = "fetch" => process = "exited"

\* What the plan allows a tenant altogether, up to a moment of the test.
Allowed(t, elapsed) == Total(Planned(t, elapsed), Indices)

\* A user that waits has been allowed one more request by the time it wakes up.
Paced ==
    \A u \in Registered :
        /\ sent[u] <= 1 + Allowed(profile[u], Elapsed)
        /\ upc[u] = "ready" => sent[u] <= Allowed(profile[u], Elapsed)
        /\ upc[u] = "waiting" =>
              /\ wake[u] >= testStart
              /\ sent[u] <= Allowed(profile[u], wake[u] - testStart)

LInv == TypeOK /\ Placed /\ Assigned /\ Accounted /\ Paced

-----------------------------------------------------------------------------
(***************************************************************************)
(* Quotients.                                                              *)
(***************************************************************************)

LEMMA Larger ==
    ASSUME NEW a \in Nat, NEW b \in Nat, NEW c \in Nat, a <= b
    PROVE  a * c <= b * c /\ a * c \in Nat /\ b * c \in Nat
<1>1. PICK d \in Nat : b = a + d
  <2>1. b - a \in Nat /\ b = a + (b - a)
    OBVIOUS
  <2> QED
    BY <2>1
<1>2. b * c = a * c + d * c /\ d * c \in Nat /\ a * c \in Nat
  BY <1>1
<1> QED
  BY <1>2

LEMMA Quotient ==
    ASSUME NEW a \in Nat, NEW n \in Nat \ {0}
    PROVE  /\ a \div n \in Nat
           /\ (a \div n) * n <= a /\ a < (a \div n) * n + n
OBVIOUS

LEMMA QuotientIs ==
    ASSUME NEW a \in Nat, NEW n \in Nat \ {0}, NEW q \in Nat, q * n <= a, a < q * n + n
    PROVE  a \div n = q
<1> DEFINE p == a \div n
<1>1. p \in Nat /\ p * n <= a /\ a < p * n + n
  BY Quotient
<1> HIDE DEF p
<1>2. \A i, j \in Nat : i < j => i * n + n <= j * n
  <2> SUFFICES ASSUME NEW i \in Nat, NEW j \in Nat, i < j PROVE i * n + n <= j * n
    OBVIOUS
  <2>1. (i + 1) * n <= j * n
    BY Larger
  <2>2. (i + 1) * n = i * n + n
    OBVIOUS
  <2> QED
    BY <2>1, <2>2
<1>3. p * n \in Nat /\ q * n \in Nat
  BY <1>1
<1>4. ~(p < q) /\ ~(q < p)
  BY <1>1, <1>2, <1>3
<1> QED
  BY <1>1, <1>4 DEF p

LEMMA QuotientGrows ==
    ASSUME NEW a \in Nat, NEW b \in Nat, a <= b, NEW n \in Nat \ {0}
    PROVE  a \div n <= b \div n
<1> DEFINE p == a \div n
           q == b \div n
<1>1. p \in Nat /\ q \in Nat /\ p * n <= a /\ b < q * n + n
  BY Quotient
<1> HIDE DEF p, q
<1>2. ASSUME q < p PROVE FALSE
  <2>1. (q + 1) * n <= p * n
    BY <1>1, <1>2, Larger
  <2>2. (q + 1) * n = q * n + n /\ q * n \in Nat /\ p * n \in Nat
    BY <1>1
  <2> QED
    BY <1>1, <2>1, <2>2
<1>3. p <= q
  BY <1>1, <1>2
<1> QED
  BY <1>3 DEF p, q

LEMMA Exact ==
    ASSUME NEW q \in Nat, NEW n \in Nat \ {0}
    PROVE  (q * n) \div n = q /\ (q * n) \in Nat
<1>1. q * n \in Nat
  OBVIOUS
<1>2. q * n <= q * n /\ q * n < q * n + n
  BY <1>1
<1> QED
  BY <1>1, <1>2, QuotientIs

LEMMA Divided ==
    ASSUME NEW b \in Nat \ {0}, NEW n \in Nat \ {0}, b % n = 0
    PROVE  b \div n \in Nat \ {0} /\ b \div n <= b
<1>1. b \div n \in Nat /\ b = (b \div n) * n
  OBVIOUS
<1>2. b \div n # 0
  BY <1>1
<1>3. b \div n <= (b \div n) * n
  <2> DEFINE q == b \div n
  <2>1. q \in Nat
    BY <1>1
  <2> HIDE DEF q
  <2>2. 1 * q <= n * q
    BY <2>1, Larger
  <2>3. 1 * q = q /\ n * q = q * n
    BY <2>1
  <2>4. q <= q * n
    BY <2>2, <2>3
  <2> QED
    BY <2>4 DEF q
<1> QED
  BY <1>1, <1>2, <1>3

\* A part of a unit is a whole one.
LEMMA Ceiling ==
    ASSUME NEW n \in Nat \ {0}
    PROVE  /\ CeilDiv(0, n) = 0
           /\ \A a \in Nat : CeilDiv(a, n) \in Nat /\ CeilDiv(a + n, n) = CeilDiv(a, n) + 1
           /\ \A a, b \in Nat : a <= b => CeilDiv(a, n) <= CeilDiv(b, n)
           /\ \A a \in Nat \ {0} : CeilDiv(a, n) >= 1
<1>1. CeilDiv(0, n) = 0
  <2>1. 0 * n <= n - 1 /\ n - 1 < 0 * n + n /\ n - 1 \in Nat
    OBVIOUS
  <2>2. (n - 1) \div n = 0
    BY <2>1, QuotientIs
  <2> QED
    BY <2>2 DEF CeilDiv
<1>2. ASSUME NEW a \in Nat PROVE CeilDiv(a, n) \in Nat /\ CeilDiv(a + n, n) = CeilDiv(a, n) + 1
  <2> DEFINE x == a + n - 1
             q == x \div n
  <2>1. x \in Nat /\ a + n + n - 1 = x + n
    OBVIOUS
  <2> HIDE DEF x
  <2>2. q \in Nat /\ q * n <= x /\ x < q * n + n
    BY <2>1, Quotient
  <2> HIDE DEF q
  <2>3. (q + 1) * n = q * n + n /\ q * n \in Nat
    BY <2>2
  <2>4. (q + 1) * n <= x + n /\ x + n < (q + 1) * n + n /\ x + n \in Nat /\ q + 1 \in Nat
    BY <2>1, <2>2, <2>3
  <2>5. (x + n) \div n = q + 1
    BY <2>4, QuotientIs
  <2> QED
    BY <2>1, <2>2, <2>5 DEF CeilDiv, x, q
<1>3. ASSUME NEW a \in Nat, NEW b \in Nat, a <= b PROVE CeilDiv(a, n) <= CeilDiv(b, n)
  <2>1. a + n - 1 \in Nat /\ b + n - 1 \in Nat /\ a + n - 1 <= b + n - 1
    BY <1>3
  <2> QED
    BY <2>1, QuotientGrows DEF CeilDiv
<1>4. ASSUME NEW a \in Nat \ {0} PROVE CeilDiv(a, n) >= 1
  <2>1. CeilDiv(0 + n, n) = 1 /\ 0 + n = n
    BY <1>1, <1>2
  <2>2. n <= a + n - 1 /\ n \in Nat /\ a + n - 1 \in Nat
    OBVIOUS
  <2>3. n \div n = 1
    BY 1 * n = n, QuotientIs
  <2>4. n \div n <= (a + n - 1) \div n
    BY <2>2, QuotientGrows
  <2> QED
    BY <2>2, <2>3, <2>4, Quotient DEF CeilDiv
<1> QED
  BY <1>1, <1>2, <1>3, <1>4

-----------------------------------------------------------------------------
(***************************************************************************)
(* The phases of a run, in the file or shortened.                          *)
(***************************************************************************)

Chose == smoke \in SmokeDurations \cup {None}

LEMMA Scenario ==
    /\ Len(Ends) \in Nat \ {0} /\ Last(Ends) \in Nat \ {0}
    /\ \A i \in Indices : Ends[i] \in Nat
    /\ \A i, j \in Indices : i <= j => Ends[i] <= Ends[j]
<1>1. Len(Ends) \in Nat \ {0} /\ \A i \in Indices : Ends[i] \in Nat
  BY ScenarioAssumption, LenProperties DEF Indices
<1>2. \A i, j \in Indices : i <= j => Ends[i] <= Ends[j]
  <2> SUFFICES ASSUME NEW i \in Indices, NEW j \in Indices, i <= j PROVE Ends[i] <= Ends[j]
    OBVIOUS
  <2>1. i < j \/ i = j
    BY DEF Indices
  <2>2. i < j => Ends[i] < Ends[j]
    BY ScenarioAssumption
  <2> QED
    BY <1>1, <2>1, <2>2
<1>3. 1 \in Indices /\ Len(Ends) \in Indices /\ 1 <= Len(Ends)
  BY <1>1 DEF Indices
<1>4. Ends[1] <= Ends[Len(Ends)] /\ Ends[1] > 0
  BY <1>2, <1>3, ScenarioAssumption
<1> QED
  BY <1>1, <1>2, <1>3, <1>4 DEF Last

LEMMA Lasts ==
    ASSUME Chose
    PROVE  /\ Duration \in Nat \ {0} /\ Duration <= Last(Ends)
           /\ smoke # None => smoke = Duration
<1>1. CASE smoke = None
  BY <1>1, Scenario DEF Duration
<1>2. CASE smoke # None
  BY <1>2, Scenario, ScenarioAssumption DEF Chose, Duration
<1> QED
  BY <1>1, <1>2

\* Each phase ends where the next one begins, and the last one with the run.
LEMMA Bounds ==
    ASSUME Chose
    PROVE  /\ EndOf(0) = 0 /\ EndOf(Len(Ends)) = Duration
           /\ \A i \in 0 .. Len(Ends) : EndOf(i) \in Nat
           /\ \A i, j \in 0 .. Len(Ends) : i <= j => EndOf(i) <= EndOf(j)
<1> DEFINE n == Len(Ends)
<1>1. n \in Nat \ {0} /\ Duration \in Nat \ {0}
  BY Scenario, Lasts
<1>2. EndOf(0) = 0
  BY DEF EndOf
<1>3. CASE smoke = None
  <2>1. \A i \in 1 .. n : EndOf(i) = Ends[i]
    BY <1>1, <1>3 DEF EndOf
  <2>2. \A i \in 0 .. n : i = 0 \/ i \in Indices
    BY DEF Indices
  <2>3. /\ \A i \in Indices : EndOf(i) = Ends[i] /\ EndOf(i) \in Nat
        /\ \A i, j \in Indices : i <= j => EndOf(i) <= EndOf(j)
    <3>1. \A i \in Indices : EndOf(i) = Ends[i]
      BY <2>1 DEF Indices
    <3> QED
      BY <3>1, Scenario
  <2>4. \A i, j \in 0 .. n : i <= j => EndOf(i) <= EndOf(j)
    <3> SUFFICES ASSUME NEW i \in 0 .. n, NEW j \in 0 .. n, i <= j PROVE EndOf(i) <= EndOf(j)
      OBVIOUS
    <3>1. CASE i = 0
      <4>1. EndOf(j) \in Nat
        BY <1>2, <2>2, <2>3
      <4> QED
        BY <1>2, <3>1, <4>1
    <3>2. CASE i # 0
      <4>1. i \in Indices /\ j \in Indices
        BY <3>2 DEF Indices
      <4> QED
        BY <2>3, <4>1
    <3> QED
      BY <3>1, <3>2
  <2>5. EndOf(n) = Duration
    BY <1>1, <1>3, <2>1 DEF Duration, Last
  <2> QED
    BY <1>2, <2>2, <2>3, <2>4, <2>5
<1>4. CASE smoke # None
  <2> DEFINE s == smoke
  <2>1. s = Duration /\ s \in Nat \ {0}
    BY <1>1, <1>4, Lasts
  <2>2. \A i \in 1 .. n : EndOf(i) = (i * s) \div n
    BY <1>1, <1>4 DEF EndOf, Smoked
  <2> HIDE DEF s
  <2>3. \A i \in 0 .. n : EndOf(i) = (i * s) \div n
    <3>1. (0 * n) \div n = 0 /\ 0 * s = 0 /\ 0 * n = 0
      BY <1>1, <2>1, Exact
    <3>2. \A i \in 0 .. n : i = 0 \/ i \in 1 .. n
      BY <1>1
    <3> QED
      BY <1>2, <2>2, <3>1, <3>2
  <2>4. ASSUME NEW i \in 0 .. n, NEW j \in 0 .. n, i <= j
        PROVE  EndOf(i) \in Nat /\ EndOf(i) <= EndOf(j)
    <3>1. i * s <= j * s /\ i * s \in Nat /\ j * s \in Nat
      BY <1>1, <2>1, <2>4, Larger
    <3>2. (i * s) \div n \in Nat /\ (i * s) \div n <= (j * s) \div n
      BY <1>1, <3>1, Quotient, QuotientGrows
    <3> QED
      BY <2>3, <3>2
  <2>5. EndOf(n) = s
    <3>1. (s * n) \div n = s /\ s * n = n * s
      BY <1>1, <2>1, Exact
    <3> QED
      BY <1>1, <2>3, <3>1
  <2>6. \A i \in 0 .. n : EndOf(i) \in Nat
    BY <1>1, <2>4
  <2> QED
    BY <1>2, <2>1, <2>4, <2>5, <2>6
<1> QED
  BY <1>3, <1>4

\* A moment is in one phase, unless the run is over: then it counts for the last.
LEMMA PhaseOf ==
    ASSUME Chose, NEW e \in Nat
    PROVE  /\ e < Duration => \E i \in Indices : In(i, e)
           /\ \A i, j \in Indices : In(i, e) /\ In(j, e) => i = j
<1> DEFINE n == Len(Ends)
           Later == {i \in 1 .. n : e < EndOf(i)}
<1>1. /\ n \in Nat \ {0} /\ EndOf(0) = 0 /\ EndOf(n) = Duration
      /\ \A i \in 0 .. n : EndOf(i) \in Nat
      /\ \A i, j \in 0 .. n : i <= j => EndOf(i) <= EndOf(j)
  BY Bounds, Scenario
<1>2. ASSUME e < Duration PROVE \E i \in Indices : In(i, e)
  <2>1. Later # {}
    BY <1>1, <1>2
  <2>2. PICK m \in Later : \A k \in Later : m <= k
    <3> DEFINE B == Later
    <3>1. B \in SUBSET (1 .. n)
      OBVIOUS
    <3> HIDE DEF B
    <3>2. \E m \in B : \A k \in B : m <= k
      BY <1>1, <2>1, <3>1, Least DEF B
    <3> QED
      BY <3>2 DEF B
  <2>3. m \in 1 .. n /\ e < EndOf(m) /\ m - 1 \in 0 .. n /\ m - 1 \notin Later
    BY <1>1, <2>2
  <2>4. EndOf(m - 1) <= e
    BY <1>1, <2>3
  <2> QED
    BY <2>3, <2>4 DEF In, Indices
<1>3. ASSUME NEW i \in Indices, NEW j \in Indices, In(i, e), In(j, e), i < j PROVE FALSE
  <2>1. i \in 0 .. n /\ j - 1 \in 0 .. n /\ i <= j - 1
    BY <1>1, <1>3 DEF Indices
  <2>2. EndOf(i) <= EndOf(j - 1) /\ EndOf(i) \in Nat /\ EndOf(j - 1) \in Nat
    BY <1>1, <2>1
  <2> QED
    BY <1>3, <2>2 DEF In
<1>4. \A i, j \in Indices : i < j \/ j < i \/ i = j
  BY DEF Indices
<1> QED
  BY <1>2, <1>3, <1>4

LEMMA PlanHolds ==
    ASSUME Chose
    PROVE  PlanFits
<1>1. ASSUME NEW e \in 0 .. Duration - 1
      PROVE  Cardinality({i \in Indices : In(i, e)}) = 1
  <2>1. e \in Nat /\ e < Duration
    BY Lasts
  <2>2. PICK i \in Indices : In(i, e)
    BY <2>1, PhaseOf
  <2>3. {j \in Indices : In(j, e)} = {i}
    BY <2>1, <2>2, PhaseOf
  <2> QED
    BY <2>3, FS_Singleton
<1>2. Scaled(BgStart) <= Scaled(BgEnd) /\ Scaled(BgEnd) <= Duration
  <2> DEFINE l == Last(Ends)
  <2>1. l \in Nat \ {0} /\ BgEnd \in 0 .. l /\ BgStart \in 0 .. BgEnd
    BY Scenario, ScenarioAssumption
  <2>2. CASE smoke = None
    BY <2>1, <2>2 DEF Scaled, Duration
  <2>3. CASE smoke # None
    <3> DEFINE s == smoke
    <3>1. s = Duration /\ s \in Nat
      BY <2>3, Lasts
    <3>2. Scaled(BgStart) = (BgStart * s) \div l /\ Scaled(BgEnd) = (BgEnd * s) \div l
      BY <2>3 DEF Scaled
    <3> HIDE DEF s, l
    <3>3. /\ BgStart * s <= BgEnd * s /\ BgEnd * s <= l * s
          /\ {BgStart * s, BgEnd * s, l * s} \subseteq Nat
      BY <2>1, <3>1, Larger
    <3>4. (s * l) \div l = s /\ l * s = s * l
      BY <2>1, <3>1, Exact
    <3>5. (BgStart * s) \div l <= (BgEnd * s) \div l /\ (BgEnd * s) \div l <= (l * s) \div l
      BY <2>1, <3>3, QuotientGrows
    <3> QED
      BY <3>1, <3>2, <3>4, <3>5
  <2> QED
    BY <2>2, <2>3
<1> QED
  BY <1>1, <1>2 DEF PlanFits

-----------------------------------------------------------------------------
(***************************************************************************)
(* What the plan allows.                                                   *)
(***************************************************************************)

LEMMA MinOf == \A a, b \in Nat : Min({a, b}) = IF a <= b THEN a ELSE b
<1> SUFFICES ASSUME NEW a \in Nat, NEW b \in Nat
             PROVE  Min({a, b}) = IF a <= b THEN a ELSE b
  OBVIOUS
<1>1. \E x \in {a, b} : \A y \in {a, b} : x =< y
  BY a <= b \/ b <= a
<1>2. Min({a, b}) \in {a, b} /\ \A y \in {a, b} : Min({a, b}) =< y
  BY <1>1 DEF Min
<1> QED
  BY <1>2

LEMMA MaxOf == \A a, b \in Nat : Max({a, b}) = IF a < b THEN b ELSE a
<1> SUFFICES ASSUME NEW a \in Nat, NEW b \in Nat
             PROVE  Max({a, b}) = IF a < b THEN b ELSE a
  OBVIOUS
<1>1. \E x \in {a, b} : \A y \in {a, b} : x >= y
  BY a <= b \/ b <= a
<1>2. Max({a, b}) \in {a, b} /\ \A y \in {a, b} : Max({a, b}) >= y
  BY <1>1 DEF Max
<1> QED
  BY <1>2

LEMMA PhaseHolds ==
    ASSUME Chose, NEW e \in Nat
    PROVE  /\ PhaseAt(e) \in Indices /\ EndOf(PhaseAt(e) - 1) <= e
           /\ PhaseAt(e) = Len(Ends) \/ e < EndOf(PhaseAt(e))
<1> DEFINE n == Len(Ends)
<1>1. /\ n \in Nat \ {0} /\ EndOf(n) = Duration
      /\ \A i \in 0 .. n : EndOf(i) \in Nat
      /\ \A i, j \in 0 .. n : i <= j => EndOf(i) <= EndOf(j)
  BY Bounds, Scenario
<1>2. CASE {i \in Indices : In(i, e)} = {}
  <2>1. PhaseAt(e) = n /\ ~(e < Duration)
    BY <1>2, PhaseOf DEF PhaseAt
  <2>2. n - 1 \in 0 .. n /\ n \in 0 .. n /\ n - 1 <= n /\ n \in Indices
    BY <1>1 DEF Indices
  <2>3. EndOf(n - 1) <= EndOf(n) /\ EndOf(n - 1) \in Nat /\ EndOf(n) \in Nat
    BY <1>1, <2>2
  <2> QED
    BY <1>1, <2>1, <2>2, <2>3
<1>3. CASE {i \in Indices : In(i, e)} # {}
  <2>1. PICK i \in Indices : In(i, e)
    BY <1>3
  <2>2. {j \in Indices : In(j, e)} = {i} /\ i \in Nat
    BY <2>1, PhaseOf, Scenario DEF Indices
  <2>3. PhaseAt(e) = Min({i, i})
    BY <2>2 DEF PhaseAt
  <2>4. PhaseAt(e) = i
    BY <2>2, <2>3, MinOf
  <2> QED
    BY <2>1, <2>4 DEF In
<1> QED
  BY <1>2, <1>3

LEMMA Ticks ==
    ASSUME Chose, NEW i \in Indices, NEW e \in Nat
    PROVE  TicksIn(i, e) = IF e <= EndOf(i - 1) THEN 0
                           ELSE IF i = Len(Ends) \/ e <= EndOf(i) THEN e - EndOf(i - 1)
                           ELSE EndOf(i) - EndOf(i - 1)
<1>1. /\ i \in 0 .. Len(Ends) /\ i - 1 \in 0 .. Len(Ends) /\ i - 1 <= i
      /\ Len(Ends) \in Nat
  BY Scenario DEF Indices
<1>2. EndOf(i - 1) \in Nat /\ EndOf(i) \in Nat /\ EndOf(i - 1) <= EndOf(i)
  BY <1>1, Bounds
<1>3. /\ Min({EndOf(i - 1), e}) = IF EndOf(i - 1) <= e THEN EndOf(i - 1) ELSE e
      /\ Min({EndOf(i), e}) = IF EndOf(i) <= e THEN EndOf(i) ELSE e
  BY <1>2, MinOf
<1> QED
  BY <1>2, <1>3 DEF TicksIn

\* The floor keeps a wait positive, and never lengthens it.
LEMMA FlooredIs ==
    ASSUME NEW w \in Nat \ {0}
    PROVE  /\ Floored(w) = (IF w <= MaxWait THEN w ELSE MaxWait)
           /\ Min({MaxWait, w}) = Floored(w) /\ Floored(w) \in Nat \ {0}
<1>1. MaxWait \in Nat \ {0}
  BY ScenarioAssumption
<1>2. Min({w, MaxWait}) = IF w <= MaxWait THEN w ELSE MaxWait
  BY <1>1, MinOf
<1>3. {MaxWait, w} = {w, MaxWait}
  OBVIOUS
<1> QED
  BY <1>1, <1>2, <1>3 DEF Floored

\* A shorter wait is not longer with the floor.
LEMMA FloorKeeps ==
    ASSUME NEW v \in Nat \ {0}, NEW w \in Nat \ {0}, v <= w
    PROVE  Floored(v) <= Floored(w)
<1>1. MaxWait \in Nat
  BY ScenarioAssumption
<1>2. Floored(v) = IF v <= MaxWait THEN v ELSE MaxWait
  BY FlooredIs
<1>3. Floored(w) = IF w <= MaxWait THEN w ELSE MaxWait
  BY FlooredIs
<1> QED
  BY <1>1, <1>2, <1>3

LEMMA Waits ==
    ASSUME NEW t \in Tenants, NEW i \in Indices
    PROVE  /\ PlannedWait(t, i) \in Nat \ {0} /\ Wait(t, i) = PlannedWait(t, i)
           /\ PlannedWait(t, i) <= Floored(BaseWait[t]) /\ Floored(BaseWait[t]) \in Nat
<1> DEFINE b == BaseWait[t]
           k == Burst[i]
           own == b \div (IF t = Victim THEN k ELSE 1)
<1>1. b \in Nat \ {0} /\ k \in Nat \ {0}
  BY ScenarioAssumption
<1>2. own \in Nat \ {0} /\ own <= b
      /\ (IF t = Victim THEN b \div k ELSE b) = own
  <2>1. CASE t = Victim
    <3>1. b % k = 0
      BY <2>1, ScenarioAssumption
    <3> HIDE DEF b, k
    <3>2. b \div k \in Nat \ {0} /\ b \div k <= b
      BY <1>1, <3>1, Divided
    <3> QED
      BY <2>1, <3>2
  <2>2. CASE t # Victim
    <3>1. (b * 1) \div 1 = b /\ b * 1 = b
      BY <1>1, Exact
    <3> QED
      BY <1>1, <2>2, <3>1
  <2> QED
    BY <2>1, <2>2
<1>3. PlannedWait(t, i) = Min({MaxWait, own}) /\ Wait(t, i) = Floored(own)
  BY <1>2 DEF PlannedWait, Wait
<1> HIDE DEF b, own
<1>4. Min({MaxWait, own}) = Floored(own) /\ Floored(own) \in Nat \ {0} /\ Floored(b) \in Nat
  BY <1>1, <1>2, FlooredIs
<1>5. Floored(own) <= Floored(b)
  BY <1>1, <1>2, FloorKeeps
<1> QED
  BY <1>3, <1>4, <1>5 DEF b

LEMMA PlanGrows ==
    ASSUME Chose, NEW t \in Tenants, NEW a \in Nat, NEW b \in Nat, a <= b
    PROVE  /\ Planned(t, a) \in [Indices -> Nat] /\ Planned(t, b) \in [Indices -> Nat]
           /\ \A i \in Indices : Planned(t, a)[i] <= Planned(t, b)[i]
           /\ Allowed(t, a) \in Nat /\ Allowed(t, b) \in Nat /\ Allowed(t, a) <= Allowed(t, b)
           /\ (\E i \in Indices : Planned(t, a)[i] < Planned(t, b)[i])
                 => Allowed(t, a) < Allowed(t, b)
<1>1. ASSUME NEW i \in Indices
      PROVE  /\ Planned(t, a)[i] \in Nat /\ Planned(t, b)[i] \in Nat
             /\ Planned(t, a)[i] <= Planned(t, b)[i]
  <2>1. /\ i \in 0 .. Len(Ends) /\ i - 1 \in 0 .. Len(Ends) /\ i - 1 <= i
        /\ Len(Ends) \in Nat
    BY Scenario DEF Indices
  <2>2. EndOf(i - 1) \in Nat /\ EndOf(i) \in Nat /\ EndOf(i - 1) <= EndOf(i)
    BY <2>1, Bounds
  <2>3. TicksIn(i, a) \in Nat /\ TicksIn(i, b) \in Nat /\ TicksIn(i, a) <= TicksIn(i, b)
    BY <2>2, Ticks
  <2> DEFINE w == PlannedWait(t, i)
  <2>4. w \in Nat \ {0}
    BY Waits
  <2> HIDE DEF w
  <2>5. /\ CeilDiv(TicksIn(i, a), w) \in Nat /\ CeilDiv(TicksIn(i, b), w) \in Nat
        /\ CeilDiv(TicksIn(i, a), w) <= CeilDiv(TicksIn(i, b), w)
    BY <2>3, <2>4, Ceiling
  <2> QED
    BY <2>5 DEF Planned, w
<1>2. Planned(t, a) \in [Indices -> Nat] /\ Planned(t, b) \in [Indices -> Nat]
  BY <1>1 DEF Planned
<1>3. IsFiniteSet(Indices)
  BY Scenario, FS_Interval DEF Indices
<1> QED
  BY <1>1, <1>2, <1>3, TotalMonotone DEF Allowed

\* By the time a user wakes up, its tenant is allowed one more request: the phase
\* it fell asleep in allows one more, or a later phase its first.
LEMMA Due ==
    ASSUME Chose, NEW t \in Tenants, NEW e \in Nat
    PROVE  LET w == Wait(t, PhaseAt(e))
           IN  w \in Nat \ {0} /\ w <= Floored(BaseWait[t]) /\ Allowed(t, e) + 1 <= Allowed(t, e + w)
<1> DEFINE n == Len(Ends)
           i == PhaseAt(e)
           w == Wait(t, i)
<1>1. /\ n \in Nat \ {0} /\ EndOf(n) = Duration
      /\ \A j \in 0 .. n : EndOf(j) \in Nat
      /\ \A j, k \in 0 .. n : j <= k => EndOf(j) <= EndOf(k)
  BY Bounds, Scenario
<1>2. i \in Indices /\ EndOf(i - 1) <= e /\ (i = n \/ e < EndOf(i))
  BY PhaseHolds
<1> HIDE DEF i
<1>3. w \in Nat \ {0} /\ w = PlannedWait(t, i) /\ w <= Floored(BaseWait[t])
  BY <1>2, Waits
<1> HIDE DEF w
<1>4. i \in 1 .. n /\ i - 1 \in 0 .. n /\ i \in 0 .. n
  BY <1>1, <1>2 DEF Indices
<1>5. EndOf(i - 1) \in Nat /\ EndOf(i) \in Nat
  BY <1>1, <1>4
<1>6. ASSUME i = n \/ e + w <= EndOf(i)
      PROVE  \E k \in Indices : Planned(t, e)[k] < Planned(t, e + w)[k]
  <2>1. /\ TicksIn(i, e) \in Nat
        /\ TicksIn(i, e + w) = TicksIn(i, e) + w
    <3>1. TicksIn(i, e) = e - EndOf(i - 1)
      BY <1>2, <1>5, Ticks
    <3>2. TicksIn(i, e + w) = e + w - EndOf(i - 1)
      BY <1>2, <1>3, <1>5, <1>6, Ticks
    <3> QED
      BY <1>2, <1>3, <1>5, <3>1, <3>2
  <2>2. CeilDiv(TicksIn(i, e + w), w) = CeilDiv(TicksIn(i, e), w) + 1
        /\ CeilDiv(TicksIn(i, e), w) \in Nat
    BY <1>3, <2>1, Ceiling
  <2>3. Planned(t, e)[i] < Planned(t, e + w)[i]
    BY <1>2, <1>3, <2>2 DEF Planned
  <2> QED
    BY <1>2, <2>3
<1>7. ASSUME i # n, EndOf(i) < e + w
      PROVE  \E k \in Indices : Planned(t, e)[k] < Planned(t, e + w)[k]
  <2> DEFINE j == PhaseAt(EndOf(i))
  <2>1. j \in Indices /\ EndOf(j - 1) <= EndOf(i) /\ (j = n \/ EndOf(i) < EndOf(j))
    BY <1>5, PhaseHolds
  <2> HIDE DEF j
  <2>2. j \in 1 .. n /\ j - 1 \in 0 .. n /\ j \in 0 .. n
    BY <1>1, <2>1 DEF Indices
  <2>3. i <= j - 1
    <3>1. ASSUME j <= i PROVE FALSE
      <4>1. j # n
        BY <1>1, <1>4, <1>7, <3>1, <2>2
      <4>2. EndOf(j) <= EndOf(i) /\ EndOf(j) \in Nat
        BY <1>1, <1>4, <2>2, <3>1
      <4> QED
        BY <1>5, <2>1, <4>1, <4>2
    <3> QED
      BY <1>4, <2>2, <3>1
  <2>4. EndOf(j - 1) = EndOf(i) /\ EndOf(j) \in Nat
    BY <1>1, <1>4, <1>5, <2>1, <2>2, <2>3
  <2>5. TicksIn(j, e) = 0
    BY <1>2, <1>5, <1>7, <2>1, <2>4, Ticks
  <2>6. TicksIn(j, e + w) \in Nat \ {0}
    BY <1>3, <1>5, <1>7, <2>1, <2>4, Ticks
  <2> DEFINE v == PlannedWait(t, j)
  <2>7. v \in Nat \ {0}
    BY <2>1, Waits
  <2> HIDE DEF v
  <2>8. CeilDiv(TicksIn(j, e), v) = 0 /\ CeilDiv(TicksIn(j, e + w), v) >= 1
        /\ CeilDiv(TicksIn(j, e + w), v) \in Nat
    BY <2>5, <2>6, <2>7, Ceiling
  <2>9. Planned(t, e)[j] < Planned(t, e + w)[j]
    BY <2>1, <2>8 DEF Planned, v
  <2> QED
    BY <2>1, <2>9
<1>8. e + w \in Nat /\ e <= e + w /\ (e + w <= EndOf(i) \/ EndOf(i) < e + w)
  BY <1>3, <1>5
<1>9. Allowed(t, e) < Allowed(t, e + w) /\ Allowed(t, e) \in Nat /\ Allowed(t, e + w) \in Nat
  BY <1>6, <1>7, <1>8, PlanGrows
<1>10. w \in Nat \ {0} /\ w <= Floored(BaseWait[t]) /\ Allowed(t, e) + 1 <= Allowed(t, e + w)
  BY <1>3, <1>9
<1> QED
  BY <1>10 DEF i, w

-----------------------------------------------------------------------------
(***************************************************************************)
(* The steps: time, the users, the background and its runner.              *)
(***************************************************************************)

Aside == /\ UNCHANGED <<smoke, time, testStart, users>>
         /\ stage' \in {"stop", "terminated", "killed", "fetch"} \cup {stage}

BackgroundStep ==
    StopWorkers \/ (process # "exited" /\ Gone) \/ \E w \in Workers : WorkerStep(w)
RunnerStep == FoundExited \/ Terminate \/ Kill \/ Waited

LEMMA Steps ==
    ASSUME [Next]_vars
    PROVE  \/ Tick \/ TestStart \/ EndLoad \/ UNCHANGED vars
           \/ \E u \in Users : UserStep(u)
           \/ Aside /\ BackgroundStep /\ UNCHANGED stage
           \/ Aside /\ RunnerStep /\ UNCHANGED background
<1>1. ASSUME NEW w \in Workers, WorkerStep(w) PROVE Aside /\ UNCHANGED stage
  BY <1>1 DEF WorkerStep, Begin, Reply, Log, Step, Aside
<1>2. StopWorkers \/ Gone => Aside /\ UNCHANGED stage
  BY DEF StopWorkers, Gone, Aside
<1>3. RunnerStep => Aside /\ UNCHANGED background
  BY DEF RunnerStep, FoundExited, Terminate, Kill, Waited, Runner, Aside
<1>4. Exit \/ Terminated \/ Killed => process # "exited" /\ Gone
  BY DEF Exit, Terminated, Killed, Gone
<1> QED
  BY <1>1, <1>2, <1>3, <1>4 DEF Next, BackgroundStep, RunnerStep

\* The users but the one that moves stay as they are.
Still(u) ==
    /\ UNCHANGED <<smoke, time, stage, testStart, background>>
    /\ \A v \in Users \ {u} : UNCHANGED <<upc[v], profile[v], wake[v], sent[v]>>
    /\ upc' \in [Users -> {"unborn", "assumed", "ready", "calling", "waiting", "gone"}]
    /\ profile' \in [Users -> Tenants \cup {None}]
    /\ wake' \in [Users -> Nat] /\ sent' \in [Users -> Nat]

Assumes(u) ==
    /\ testStart # None /\ upc[u] = "unborn" /\ upc'[u] = "assumed"
    /\ UNCHANGED <<index, profile[u], wake[u], sent[u]>>
Registers(u) ==
    /\ upc[u] = "assumed" /\ upc'[u] = "ready"
    /\ profile'[u] = ProfileAt(index) /\ index' = index + 1
    /\ UNCHANGED <<wake[u], sent[u]>>
Sends(u) ==
    /\ upc[u] = "ready" /\ upc'[u] = "calling" /\ sent'[u] = sent[u] + 1
    /\ UNCHANGED <<index, profile[u], wake[u]>>
Waiting(u) ==
    /\ upc[u] = "calling" /\ upc'[u] = "waiting"
    /\ wake'[u] = time + Wait(profile[u], PhaseAt(Elapsed))
    /\ UNCHANGED <<index, profile[u], sent[u]>>
Wakes(u) ==
    /\ upc[u] = "waiting" /\ upc'[u] = "ready" /\ time >= wake[u]
    /\ UNCHANGED <<index, profile[u], wake[u], sent[u]>>

\* There are as many users as tenants, and none of the tenants is listed twice.
LEMMA Places ==
    /\ Cardinality(Users) \in Nat /\ Len(Profiles) = Cardinality(Users)
    /\ \A i, j \in 1 .. Len(Profiles) : Profiles[i] = Profiles[j] => i = j
<1> DEFINE n == Len(Profiles)
<1>1. n \in Nat /\ n = Cardinality(Users) /\ DOMAIN Profiles = 1 .. n
      /\ Profiles \in [1 .. n -> Tenants]
  BY ScenarioAssumption, LenProperties
<1>2. Profiles \in Surjection(1 .. n, Tenants)
  BY <1>1 DEF Surjection, Tenants
<1>3. IsFiniteSet(1 .. n) /\ Cardinality(1 .. n) = n
  BY <1>1, FS_Interval
<1>4. Profiles \in Injection(1 .. n, Tenants)
  BY <1>2, <1>3, FS_Surjection, ScenarioAssumption
<1>5. \A i, j \in 1 .. n : Profiles[i] = Profiles[j] => i = j
  BY <1>4 DEF Injection, IsInjective
<1> QED
  BY <1>1, <1>5

LEMMA Given ==
    \A i \in Nat : /\ ProfileAt(i) \in Tenants /\ ProfileAt(i) # None
                   /\ i < Len(Profiles) => ProfileAt(i) = Profiles[i + 1]
<1> DEFINE n == Len(Profiles)
<1> SUFFICES ASSUME NEW i \in Nat
             PROVE  ProfileAt(i) \in Tenants /\ (i < n => ProfileAt(i) = Profiles[i + 1])
  BY ScenarioAssumption
<1>1. n \in Nat \ {0} /\ \A j \in 1 .. n : Profiles[j] \in Tenants
  BY ScenarioAssumption, LenProperties
<1> HIDE DEF n
<1>2. (i % n) + 1 \in 1 .. n /\ (i < n => i % n = i)
  BY <1>1
<1> QED
  BY <1>1, <1>2 DEF ProfileAt, n

LEMMA Moves ==
    ASSUME TypeOK, Placed, NEW u \in Users, UserStep(u)
    PROVE  /\ Still(u)
           /\ Assumes(u) \/ Registers(u) \/ Sends(u) \/ Waiting(u) \/ Wakes(u)
<1> DEFINE Upcs == {"unborn", "assumed", "ready", "calling", "waiting", "gone"}
<1>1. /\ upc \in [Users -> Upcs] /\ profile \in [Users -> Tenants \cup {None}]
      /\ wake \in [Users -> Nat] /\ sent \in [Users -> Nat] /\ index \in Nat
  BY Places DEF TypeOK
<1>2. ASSUME NEW here \in Upcs, NEW there \in Upcs, Goto(u, here, there)
      PROVE  /\ UNCHANGED <<smoke, time, stage, testStart, background>>
             /\ upc[u] = here /\ upc'[u] = there /\ upc' \in [Users -> Upcs]
             /\ \A v \in Users \ {u} : upc'[v] = upc[v]
  BY <1>1, <1>2 DEF Goto
<1>3. CASE Assume(u)
  BY <1>1, <1>2, <1>3 DEF Assume, Still, Assumes
<1>4. CASE Register(u)
  <2>1. Goto(u, "assumed", "ready") /\ UNCHANGED <<wake, sent>>
        /\ profile' = [profile EXCEPT ![u] = ProfileAt(index)] /\ index' = index + 1
    BY <1>4 DEF Register
  <2>2. ProfileAt(index) \in Tenants
    BY <1>1, Given
  <2>3. /\ profile' \in [Users -> Tenants \cup {None}] /\ profile'[u] = ProfileAt(index)
        /\ \A v \in Users \ {u} : profile'[v] = profile[v]
    BY <1>1, <2>1, <2>2
  <2> QED
    BY <1>1, <1>2, <2>1, <2>3 DEF Still, Registers
<1>5. CASE Send(u)
  <2>1. Goto(u, "ready", "calling") /\ UNCHANGED <<index, profile, wake>>
        /\ sent' = [sent EXCEPT ![u] = sent[u] + 1]
    BY <1>5 DEF Send
  <2>2. sent' \in [Users -> Nat] /\ sent'[u] = sent[u] + 1
        /\ \A v \in Users \ {u} : sent'[v] = sent[v]
    BY <1>1, <2>1
  <2> QED
    BY <1>1, <1>2, <2>1, <2>2 DEF Still, Sends
<1>6. CASE Answered(u)
  <2> DEFINE w == Wait(profile[u], PhaseAt(Elapsed))
  <2>1. Goto(u, "calling", "waiting") /\ UNCHANGED <<index, profile, sent>>
        /\ wake' = [wake EXCEPT ![u] = time + w]
    BY <1>6 DEF Answered
  <2>2. Chose /\ profile[u] \in Tenants /\ Elapsed \in Nat /\ time \in Nat
    <3>1. upc[u] = "calling"
      BY <2>1 DEF Goto
    <3>2. profile[u] \in Tenants /\ testStart # None /\ testStart <= time
      BY <1>1, <3>1 DEF Placed, Registered
    <3>3. testStart \in Nat /\ time \in Nat
      BY <3>2, Scenario, ScenarioAssumption DEF TypeOK
    <3> QED
      BY <3>2, <3>3 DEF Elapsed, Chose, TypeOK
  <2>3. w \in Nat
    BY <2>2, Due
  <2> HIDE DEF w
  <2>4. wake' \in [Users -> Nat] /\ wake'[u] = time + w
        /\ \A v \in Users \ {u} : wake'[v] = wake[v]
    BY <1>1, <2>1, <2>2, <2>3
  <2> QED
    BY <1>1, <1>2, <2>1, <2>4 DEF Still, Waiting, w
<1>7. CASE Wake(u)
  BY <1>1, <1>2, <1>7 DEF Wake, Still, Wakes
<1> QED
  BY <1>3, <1>4, <1>5, <1>6, <1>7 DEF UserStep

-----------------------------------------------------------------------------
(***************************************************************************)
(* The background.                                                         *)
(***************************************************************************)

BackgroundTypes ==
    /\ process \in {"running", "joining", "exited"}
    /\ wpc \in [Workers -> {"idle", "calling", "replied", "gone"}]
    /\ issued \in 0 .. MaxCalls /\ logged \in 0 .. issued

LEMMA Workforce ==
    /\ IsFiniteSet(Busy) /\ Cardinality(Busy) \in 0 .. Cardinality(Workers)
    /\ Cardinality(Workers) \in Nat
<1>1. IsFiniteSet(Workers) /\ Busy \in SUBSET Workers
  BY ScenarioAssumption DEF Busy
<1> QED
  BY <1>1, FS_Subset, FS_CardinalityType

LEMMA BackgroundKeeps ==
    ASSUME BackgroundTypes, Accounted, BackgroundStep, UNCHANGED stage
    PROVE  (BackgroundTypes /\ Accounted)'
<1>1. issued \in Nat /\ logged \in Nat /\ issued <= MaxCalls /\ logged <= issued /\ MaxCalls \in Nat
  BY ScenarioAssumption DEF BackgroundTypes
<1>2. IsFiniteSet(Busy) /\ Cardinality(Busy) \in 0 .. Cardinality(Workers) /\ Cardinality(Workers) \in Nat
  BY Workforce
<1>3. process # "exited"
  BY DEF BackgroundStep, StopWorkers, WorkerStep, Begin, Reply, Log, Step
<1>4. /\ \A w \in Workers : wpc[w] # "gone"
      /\ issued = logged + Cardinality(Busy) /\ stage # "fetch"
  BY <1>3 DEF Accounted
<1>5. CASE StopWorkers
  <2>1. process' = "joining" /\ UNCHANGED <<wpc, issued, logged>>
    BY <1>5 DEF StopWorkers
  <2>2. Busy' = Busy
    BY <2>1 DEF Busy
  <2> QED
    BY <1>3, <1>4, <2>1, <2>2 DEF Accounted, BackgroundTypes
<1>6. CASE Gone
  <2>1. process' = "exited" /\ wpc' = [w \in Workers |-> "gone"] /\ UNCHANGED <<issued, logged>>
    BY <1>6 DEF Gone
  <2>2. issued <= logged + Cardinality(Workers)
    BY <1>1, <1>2, <1>4
  <2> QED
    BY <2>1, <2>2 DEF Accounted, BackgroundTypes
<1>7. ASSUME NEW w \in Workers, WorkerStep(w) PROVE (BackgroundTypes /\ Accounted)'
  <2>1. UNCHANGED process
    BY <1>7 DEF WorkerStep, Begin, Reply, Log, Step
  <2>2. wpc \in [Workers -> {"idle", "calling", "replied", "gone"}]
    BY DEF BackgroundTypes
  <2>3. CASE Begin(w)
    <3>1. /\ issued < MaxCalls /\ issued' = issued + 1 /\ logged' = logged
          /\ wpc[w] = "idle" /\ wpc' = [wpc EXCEPT ![w] = "calling"]
      BY <2>3 DEF Begin, Step
    <3>2. w \notin Busy /\ Busy' = Busy \cup {w}
      BY <2>2, <3>1 DEF Busy
    <3>3. Cardinality(Busy') = Cardinality(Busy) + 1
      BY <1>2, <3>2, FS_AddElement
    <3>4. issued' = logged' + Cardinality(Busy')
      BY <1>1, <1>2, <1>4, <3>1, <3>3
    <3>5. BackgroundTypes'
      BY <1>1, <2>1, <2>2, <3>1 DEF BackgroundTypes
    <3>6. \A v \in Workers : wpc'[v] # "gone"
      BY <1>4, <2>2, <3>1
    <3> QED
      BY <1>3, <1>4, <2>1, <3>4, <3>5, <3>6 DEF Accounted
  <2>4. CASE Reply(w)
    <3>1. /\ UNCHANGED <<issued, logged>>
          /\ wpc[w] = "calling" /\ wpc' = [wpc EXCEPT ![w] = "replied"]
      BY <2>4 DEF Reply, Step
    <3>2. Busy' = Busy
      BY <2>2, <3>1 DEF Busy
    <3>3. BackgroundTypes'
      BY <2>1, <2>2, <3>1 DEF BackgroundTypes
    <3>4. \A v \in Workers : wpc'[v] # "gone"
      BY <1>4, <2>2, <3>1
    <3> QED
      BY <1>3, <1>4, <2>1, <3>1, <3>2, <3>3, <3>4 DEF Accounted
  <2>5. CASE Log(w)
    <3>1. /\ issued' = issued /\ logged' = logged + 1
          /\ wpc[w] = "replied" /\ wpc' = [wpc EXCEPT ![w] = "idle"]
      BY <2>5 DEF Log, Step
    <3>2. w \in Busy /\ Busy' = Busy \ {w}
      BY <2>2, <3>1 DEF Busy
    <3>3. Cardinality(Busy') = Cardinality(Busy) - 1 /\ Cardinality(Busy') \in Nat
      BY <1>2, <3>2, FS_RemoveElement, FS_CardinalityType
    <3>4. issued' = logged' + Cardinality(Busy')
      BY <1>1, <1>2, <1>4, <3>1, <3>3
    <3>5. BackgroundTypes'
      BY <1>1, <2>1, <2>2, <3>1, <3>3, <3>4 DEF BackgroundTypes
    <3>6. \A v \in Workers : wpc'[v] # "gone"
      BY <1>4, <2>2, <3>1
    <3> QED
      BY <1>3, <1>4, <2>1, <3>4, <3>5, <3>6 DEF Accounted
  <2> QED
    BY <1>7, <2>3, <2>4, <2>5 DEF WorkerStep
<1> QED
  BY <1>5, <1>6, <1>7 DEF BackgroundStep

LEMMA RunnerWaits ==
    ASSUME Accounted, RunnerStep, UNCHANGED background
    PROVE  Accounted'
<1>1. stage' = "fetch" => process = "exited"
  BY DEF RunnerStep, FoundExited, Terminate, Kill, Waited, Runner
<1>2. UNCHANGED <<process, wpc, issued, logged>> /\ Busy' = Busy
  BY DEF background, Busy
<1> QED
  BY <1>1, <1>2 DEF Accounted

LEMMA NextAccounted ==
    ASSUME TypeOK, Placed, Accounted, [Next]_vars
    PROVE  (BackgroundTypes /\ Accounted)'
<1>1. BackgroundTypes
  BY DEF TypeOK, BackgroundTypes
<1>2. CASE UNCHANGED background /\ (stage' = "fetch" => stage = "fetch")
  <2>1. UNCHANGED <<process, wpc, issued, logged>> /\ Busy' = Busy
    BY <1>2 DEF background, Busy
  <2> QED
    BY <1>1, <1>2, <2>1 DEF Accounted, BackgroundTypes
<1>3. CASE Tick \/ TestStart \/ EndLoad \/ UNCHANGED vars
  BY <1>2, <1>3 DEF Tick, TestStart, EndLoad, vars
<1>4. ASSUME NEW u \in Users, UserStep(u) PROVE (BackgroundTypes /\ Accounted)'
  BY <1>2, <1>4, Moves DEF Still
<1>5. CASE RunnerStep /\ UNCHANGED background
  BY <1>1, <1>5, RunnerWaits DEF BackgroundTypes, background
<1> QED
  BY <1>1, <1>3, <1>4, <1>5, Steps, BackgroundKeeps

-----------------------------------------------------------------------------
(***************************************************************************)
(* The users and their tenants.                                            *)
(***************************************************************************)

LEMMA NextPlaced ==
    ASSUME TypeOK, Placed, [Next]_vars
    PROVE  Placed'
<1>1. MaxStartup \in Nat /\ time \in Nat /\ (testStart # None => testStart \in Nat)
  BY Scenario, ScenarioAssumption DEF TypeOK
<1>2. CASE UNCHANGED <<time, testStart, upc, profile, sent>>
  <2>1. Registered' = Registered
    BY <1>2 DEF Registered
  <2> QED
    BY <1>2, <2>1 DEF Placed
<1>3. CASE Tick
  <2>1. UNCHANGED <<testStart, upc, profile, sent>> /\ time' = time + 1
        /\ (testStart = None => time < MaxStartup)
    BY <1>3 DEF Tick, users
  <2>2. Registered' = Registered
    BY <2>1 DEF Registered
  <2> QED
    BY <1>1, <2>1, <2>2 DEF Placed
<1>4. CASE TestStart
  <2>1. UNCHANGED <<time, upc, profile, sent>> /\ testStart' = time
    BY <1>4 DEF TestStart, users
  <2>2. Registered' = Registered
    BY <2>1 DEF Registered
  <2>3. testStart' # None /\ testStart' <= time'
    BY <1>1, <2>1, ScenarioAssumption
  <2> QED
    BY <2>1, <2>2, <2>3 DEF Placed
<1>5. CASE EndLoad
  <2>1. UNCHANGED <<time, testStart, profile>> /\ upc' = [u \in Users |-> "gone"]
    BY <1>5 DEF EndLoad
  <2>2. Registered' = Registered
    BY <2>1 DEF Registered
  <2> QED
    BY <2>1, <2>2 DEF Placed
<1>6. ASSUME NEW u \in Users, UserStep(u) PROVE Placed'
  <2>1. Still(u) /\ (Assumes(u) \/ Registers(u) \/ Sends(u) \/ Waiting(u) \/ Wakes(u))
    BY <1>6, Moves
  <2>2. UNCHANGED <<time, testStart>> /\ \A v \in Users \ {u} : UNCHANGED <<upc[v], profile[v], sent[v]>>
    BY <2>1 DEF Still
  <2>3. testStart # None
    BY <2>1 DEF Assumes, Registers, Sends, Waiting, Wakes, Placed
  <2>4. Registers(u) => profile'[u] # None
    <3>1. index \in Nat
      BY Places DEF TypeOK
    <3> QED
      BY <3>1, Given DEF Registers
  <2>5. /\ upc'[u] \in {"unborn", "assumed"} => profile'[u] = None /\ sent'[u] = 0
        /\ upc'[u] \in {"ready", "calling", "waiting"} => profile'[u] # None
    BY <2>1, <2>4 DEF Assumes, Registers, Sends, Waiting, Wakes, Placed, Registered
  <2> QED
    BY <2>2, <2>3, <2>5 DEF Placed, Registered
<1> QED
  BY <1>2, <1>3, <1>4, <1>5, <1>6, Steps DEF Aside, users, vars

LEMMA NextAssigned ==
    ASSUME TypeOK, Placed, Assigned, [Next]_vars
    PROVE  Assigned'
<1>1. IsFiniteSet(Users) /\ Registered \in SUBSET Users /\ IsFiniteSet(Registered)
      /\ index = Cardinality(Registered) /\ index \in Nat
  <2>1. IsFiniteSet(Users) /\ Registered \in SUBSET Users
    BY ScenarioAssumption DEF Registered
  <2>2. IsFiniteSet(Registered)
    BY <2>1, FS_Subset
  <2> QED
    BY <2>1, <2>2, FS_CardinalityType DEF Assigned
<1>2. CASE UNCHANGED index /\ \A v \in Users : profile'[v] = profile[v]
  <2>1. Registered' = Registered
    BY <1>2 DEF Registered
  <2> QED
    BY <1>1, <1>2, <2>1 DEF Assigned, OneUserPerTenant
<1>3. CASE UNCHANGED users \/ EndLoad
  BY <1>2, <1>3 DEF users, EndLoad
<1>4. ASSUME NEW u \in Users, UserStep(u) PROVE Assigned'
  <2>1. Still(u) /\ (Assumes(u) \/ Registers(u) \/ Sends(u) \/ Waiting(u) \/ Wakes(u))
    BY <1>4, Moves
  <2>2. \A v \in Users \ {u} : profile'[v] = profile[v]
    BY <2>1 DEF Still
  <2>3. CASE Assumes(u) \/ Sends(u) \/ Waiting(u) \/ Wakes(u)
    BY <1>2, <2>2, <2>3 DEF Assumes, Sends, Waiting, Wakes
  <2>4. CASE Registers(u)
    <3>1. u \notin Registered /\ index' = index + 1 /\ profile'[u] = ProfileAt(index)
      BY <2>4 DEF Registers, Placed
    <3>2. /\ Cardinality(Registered \cup {u}) = index + 1
          /\ Registered \cup {u} \in SUBSET Users
      BY <1>1, <3>1, FS_AddElement
    <3>3. index + 1 <= Len(Profiles)
      BY <1>1, <3>2, FS_Subset, Places
    <3>4. index + 1 \in 1 .. Len(Profiles) /\ profile'[u] = Profiles[index + 1]
          /\ profile'[u] # None
      BY <1>1, <3>1, <3>3, Given, Places
    <3>5. Registered' = Registered \cup {u}
      BY <2>2, <3>4 DEF Registered
    <3>6. ASSUME NEW v \in Registered
          PROVE  profile'[v] # profile'[u] /\ profile'[v] = profile[v]
                 /\ \E i \in 1 .. index : profile[v] = Profiles[i]
      <4>1. v \in Users \ {u} /\ profile'[v] = profile[v]
        BY <1>1, <2>2, <3>1
      <4>2. PICK i \in 1 .. index : profile[v] = Profiles[i]
        BY DEF Assigned
      <4>3. i \in 1 .. Len(Profiles) /\ i # index + 1
        BY <1>1, <3>4, Places
      <4> QED
        BY <3>4, <4>1, <4>2, <4>3, Places
    <3>7. \A v \in Registered' : \E i \in 1 .. index' : profile'[v] = Profiles[i]
      BY <1>1, <3>1, <3>4, <3>5, <3>6
    <3>8. OneUserPerTenant'
      <4> SUFFICES ASSUME NEW v \in Users, NEW w \in Users, v # w, profile'[v] # None
                   PROVE  profile'[v] # profile'[w]
        BY DEF OneUserPerTenant
      <4>1. CASE v # u /\ w # u
        BY <2>2, <4>1 DEF Assigned, OneUserPerTenant
      <4>2. CASE v = u
        <5>1. w \in Registered \/ profile'[w] = None
          BY <2>2, <4>2 DEF Registered
        <5> QED
          BY <3>4, <3>6, <4>2, <5>1
      <4>3. CASE w = u
        <5>1. v \in Registered
          BY <2>2, <4>3 DEF Registered
        <5> QED
          BY <3>6, <4>3, <5>1
      <4> QED
        BY <4>1, <4>2, <4>3
    <3> QED
      BY <3>1, <3>2, <3>5, <3>7, <3>8 DEF Assigned
  <2> QED
    BY <2>1, <2>3, <2>4
<1> QED
  BY <1>3, <1>4, Steps DEF Tick, TestStart, Aside, vars

LEMMA NextTyped ==
    ASSUME TypeOK, Placed, Assigned', BackgroundTypes', [Next]_vars
    PROVE  TypeOK'
<1> DEFINE Longest(u) == wake[u] <= IF profile[u] = None THEN 0 ELSE time + Floored(BaseWait[profile[u]])
           Upcs == {"unborn", "assumed", "ready", "calling", "waiting", "gone"}
           Kept == /\ smoke' = smoke /\ time' \in 0 .. MaxStartup + Last(Ends)
                   /\ stage' \in {"load", "stop", "terminated", "killed", "fetch"}
                   /\ testStart' \in 0 .. MaxStartup \cup {None}
                   /\ upc' \in [Users -> Upcs] /\ profile' \in [Users -> Tenants \cup {None}]
                   /\ wake' \in [Users -> Nat] /\ sent' \in [Users -> Nat]
                   /\ \A u \in Users : Longest(u)'
<1>1. ASSUME Kept PROVE TypeOK'
  <2>1. index' \in 0 .. Cardinality(Users)
    <3>1. IsFiniteSet(Users) /\ Registered' \in SUBSET Users
      BY ScenarioAssumption DEF Registered
    <3>2. Cardinality(Registered') <= Cardinality(Users) /\ Cardinality(Registered') \in Nat
      BY <3>1, FS_Subset, FS_CardinalityType
    <3> QED
      BY <3>2, Places DEF Assigned
  <2> QED
    BY <1>1, <2>1 DEF TypeOK, BackgroundTypes
<1>2. /\ MaxStartup \in Nat /\ time \in Nat /\ time <= MaxStartup + Last(Ends)
      /\ Last(Ends) \in Nat
      /\ profile \in [Users -> Tenants \cup {None}] /\ wake \in [Users -> Nat]
      /\ upc \in [Users -> Upcs] /\ sent \in [Users -> Nat] /\ \A u \in Users : Longest(u)
      /\ stage \in {"load", "stop", "terminated", "killed", "fetch"}
      /\ testStart \in 0 .. MaxStartup \cup {None}
  BY Scenario, ScenarioAssumption DEF TypeOK
<1>8. \A t \in Tenants : Floored(BaseWait[t]) \in Nat
  BY FlooredIs, ScenarioAssumption
<1>3. CASE UNCHANGED <<smoke, time, testStart, users>>
           /\ stage' \in {"load", "stop", "terminated", "killed", "fetch"}
  <2>1. Kept
    BY <1>2, <1>3 DEF users
  <2> QED
    BY <1>1, <2>1
<1>4. CASE Tick
  <2>1. UNCHANGED <<smoke, stage, testStart, users>> /\ time' = time + 1
        /\ time < MaxStartup + Duration
    BY <1>4 DEF Tick
  <2>2. Duration \in Nat /\ Duration <= Last(Ends)
    BY Lasts DEF Chose, TypeOK
  <2>3. \A u \in Users : Longest(u)'
    <3> SUFFICES ASSUME NEW u \in Users PROVE Longest(u)'
      OBVIOUS
    <3>1. Longest(u) /\ wake[u] \in Nat /\ (profile[u] # None => Floored(BaseWait[profile[u]]) \in Nat)
      BY <1>2, <1>8
    <3> QED
      BY <1>2, <2>1, <3>1 DEF users
  <2>4. Kept
    BY <1>2, <2>1, <2>2, <2>3 DEF users
  <2> QED
    BY <1>1, <2>4
<1>5. CASE TestStart
  <2>1. UNCHANGED <<smoke, stage, time, users>> /\ testStart = None /\ testStart' = time
    BY <1>5 DEF TestStart
  <2>2. time <= MaxStartup
    BY <2>1 DEF Placed
  <2>3. Kept
    BY <1>2, <2>1, <2>2 DEF users
  <2> QED
    BY <1>1, <2>3
<1>6. CASE EndLoad
  <2>1. UNCHANGED <<smoke, time, testStart, profile, wake, sent>> /\ stage' = "stop"
        /\ upc' = [u \in Users |-> "gone"]
    BY <1>6 DEF EndLoad
  <2>2. Kept
    BY <1>2, <2>1
  <2> QED
    BY <1>1, <2>2
<1>7. ASSUME NEW u \in Users, UserStep(u) PROVE TypeOK'
  <2>1. Still(u) /\ (Assumes(u) \/ Registers(u) \/ Sends(u) \/ Waiting(u) \/ Wakes(u))
    BY <1>7, Moves
  <2>2. /\ UNCHANGED <<smoke, time, stage, testStart>>
        /\ \A v \in Users \ {u} : UNCHANGED <<profile[v], wake[v]>>
        /\ profile' \in [Users -> Tenants \cup {None}] /\ wake' \in [Users -> Nat]
    BY <2>1 DEF Still
  <2>3. Longest(u)'
    <3>1. CASE Assumes(u) \/ Sends(u) \/ Wakes(u)
      BY <1>2, <2>2, <3>1 DEF Assumes, Sends, Wakes
    <3>2. CASE Registers(u)
      <4>1. profile[u] = None /\ wake'[u] = wake[u]
        BY <3>2 DEF Registers, Placed, Registered
      <4>2. wake'[u] = 0
        BY <1>2, <4>1
      <4>3. profile'[u] # None => Floored(BaseWait[profile'[u]]) \in Nat
        BY <1>2, <1>8, <2>2
      <4> QED
        BY <1>2, <2>2, <4>2, <4>3
    <3>3. CASE Waiting(u)
      <4>1. profile[u] # None /\ profile'[u] = profile[u] /\ testStart # None
        BY <3>3 DEF Waiting, Placed, Registered
      <4>2. Chose /\ profile[u] \in Tenants /\ Elapsed \in Nat
        BY <1>2, <4>1 DEF Elapsed, Placed, Chose, TypeOK
      <4> DEFINE w == Wait(profile[u], PhaseAt(Elapsed))
      <4>3. w \in Nat /\ w <= Floored(BaseWait[profile[u]])
        BY <4>2, Due
      <4>4. wake'[u] = time + w
        BY <3>3 DEF Waiting
      <4> HIDE DEF w
      <4> QED
        BY <1>2, <1>8, <2>2, <4>1, <4>2, <4>3, <4>4
    <3> QED
      BY <2>1, <3>1, <3>2, <3>3
  <2>4. \A v \in Users : Longest(v)'
    BY <1>2, <2>2, <2>3
  <2>5. Kept
    BY <1>2, <2>1, <2>2, <2>4 DEF Still
  <2> QED
    BY <1>1, <2>5
<1> QED
  BY <1>2, <1>3, <1>4, <1>5, <1>6, <1>7, Steps DEF Aside, vars

-----------------------------------------------------------------------------
(***************************************************************************)
(* What the tenants offer.                                                 *)
(***************************************************************************)

LEMMA SamePlan ==
    ASSUME UNCHANGED smoke
    PROVE  \A t, e : Allowed(t, e)' = Allowed(t, e)
<1> SUFFICES ASSUME NEW t, NEW e PROVE Allowed(t, e)' = Allowed(t, e)
  OBVIOUS
<1>1. \A i : EndOf(i)' = EndOf(i)
  BY DEF EndOf, Smoked
<1>2. Planned(t, e)' = Planned(t, e)
  BY <1>1 DEF Planned, TicksIn
<1> QED
  BY <1>2 DEF Allowed

\* The pace of a user, at a moment of the test.
Pace(u, e) ==
    /\ sent[u] <= 1 + Allowed(profile[u], e)
    /\ upc[u] = "ready" => sent[u] <= Allowed(profile[u], e)
    /\ upc[u] = "waiting" => /\ wake[u] >= testStart
                             /\ sent[u] <= Allowed(profile[u], wake[u] - testStart)

LEMMA PaceIs ==
    ASSUME TypeOK, Placed, NEW u \in Registered
    PROVE  /\ Chose /\ u \in Users /\ profile[u] \in Tenants
           /\ testStart \in Nat /\ time \in Nat /\ testStart <= time
           /\ Elapsed = time - testStart /\ Elapsed \in Nat
           /\ sent[u] \in Nat /\ wake[u] \in Nat
<1>1. u \in Users /\ profile[u] # None
  BY DEF Registered
<1>2. /\ profile \in [Users -> Tenants \cup {None}] /\ sent \in [Users -> Nat]
      /\ wake \in [Users -> Nat] /\ Chose
      /\ time \in Nat /\ testStart \in Nat \cup {None}
  BY Scenario, ScenarioAssumption DEF TypeOK, Chose
<1>3. testStart # None /\ testStart <= time
  BY DEF Placed
<1> QED
  BY <1>1, <1>2, <1>3 DEF Elapsed

LEMMA NextPaced ==
    ASSUME LInv, TypeOK', Placed', [Next]_vars
    PROVE  Paced'
<1>1. TypeOK /\ Placed /\ \A u \in Registered : Pace(u, Elapsed)
  BY DEF LInv, Paced, Pace
<1>2. UNCHANGED smoke
  <2>1. \A u \in Users : UserStep(u) => UNCHANGED smoke
    BY <1>1, Moves DEF Still
  <2> QED
    BY <2>1, Steps DEF Tick, TestStart, EndLoad, vars, Aside
<1>3. \A t, e : Allowed(t, e)' = Allowed(t, e)
  BY <1>2, SamePlan
<1>4. SUFFICES ASSUME NEW u \in Registered'
               PROVE  /\ sent'[u] <= 1 + Allowed(profile'[u], Elapsed')
                      /\ upc'[u] = "ready" => sent'[u] <= Allowed(profile'[u], Elapsed')
                      /\ upc'[u] = "waiting" =>
                            /\ wake'[u] >= testStart'
                            /\ sent'[u] <= Allowed(profile'[u], wake'[u] - testStart')
  BY <1>3 DEF Paced
<1>5. u \in Users /\ profile'[u] # None
  BY DEF Registered
<1>6. ASSUME u \in Registered
      PROVE  /\ Chose /\ profile[u] \in Tenants /\ Pace(u, Elapsed)
             /\ testStart \in Nat /\ time \in Nat /\ testStart <= time
             /\ Elapsed = time - testStart /\ Elapsed \in Nat
             /\ sent[u] \in Nat /\ wake[u] \in Nat
             /\ \A e \in Nat : Allowed(profile[u], e) \in Nat
  <2>1. /\ Chose /\ profile[u] \in Tenants
        /\ testStart \in Nat /\ time \in Nat /\ testStart <= time
        /\ Elapsed = time - testStart /\ Elapsed \in Nat
        /\ sent[u] \in Nat /\ wake[u] \in Nat
    BY <1>1, <1>6, PaceIs
  <2>2. \A e \in Nat : Allowed(profile[u], e) \in Nat
    BY <2>1, PlanGrows
  <2> QED
    BY <1>1, <1>6, <2>1, <2>2
<1>7. CASE UNCHANGED <<time, testStart, profile[u], sent[u], wake[u]>> /\ upc'[u] \in {upc[u], "gone"}
  <2>1. u \in Registered /\ Elapsed' = Elapsed
    BY <1>5, <1>7 DEF Registered, Elapsed
  <2> QED
    BY <1>6, <1>7, <2>1 DEF Pace
<1>8. CASE Tick
  <2>1. UNCHANGED <<testStart, users>> /\ time' = time + 1
    BY <1>8 DEF Tick
  <2>2. UNCHANGED <<profile, sent, wake, upc>> /\ u \in Registered
    BY <1>5, <2>1 DEF users, Registered
  <2>3. Elapsed' = Elapsed + 1
    <3>1. testStart' # None /\ testStart' = testStart
      BY <1>1, <2>1, <2>2 DEF Placed
    <3>2. Elapsed' = time' - testStart'
      BY <3>1 DEF Elapsed
    <3> QED
      BY <1>6, <2>1, <2>2, <3>1, <3>2
  <2>4. Allowed(profile[u], Elapsed) <= Allowed(profile[u], Elapsed + 1)
    BY <1>6, <2>2, PlanGrows
  <2>5. Allowed(profile[u], Elapsed) \in Nat /\ Allowed(profile[u], Elapsed + 1) \in Nat
    BY <1>6, <2>2
  <2> QED
    BY <1>6, <2>1, <2>2, <2>3, <2>4, <2>5 DEF Pace
<1>9. CASE TestStart
  <2>1. testStart = None /\ UNCHANGED users
    BY <1>9 DEF TestStart
  <2>2. u \in Registered
    BY <1>5, <2>1 DEF users, Registered
  <2> QED
    BY <1>1, <2>1, <2>2 DEF Placed
<1>10. CASE EndLoad
  <2>1. UNCHANGED <<time, testStart, profile, sent, wake>> /\ upc'[u] = "gone"
    BY <1>5, <1>10 DEF EndLoad
  <2> QED
    BY <1>7, <2>1
<1>11. ASSUME NEW v \in Users, UserStep(v), v # u PROVE UNCHANGED <<time, testStart, profile[u], sent[u], wake[u], upc[u]>>
  BY <1>1, <1>5, <1>11, Moves DEF Still
<1>12. CASE UserStep(u)
  <2>1. Still(u) /\ (Assumes(u) \/ Registers(u) \/ Sends(u) \/ Waiting(u) \/ Wakes(u))
    BY <1>1, <1>5, <1>12, Moves
  <2>2. UNCHANGED <<time, testStart>> /\ Elapsed' = Elapsed
    BY <2>1 DEF Still, Elapsed
  <2>3. CASE Assumes(u)
    BY <1>1, <1>5, <2>3 DEF Assumes, Placed, Registered
  <2>4. CASE Registers(u)
    <3>1. upc[u] = "assumed" /\ upc'[u] = "ready" /\ sent'[u] = sent[u]
      BY <2>4 DEF Registers
    <3>2. sent[u] = 0
      BY <1>1, <1>5, <3>1 DEF Placed
    <3>3. profile'[u] \in Tenants
      <4>1. profile' \in [Users -> Tenants \cup {None}]
        BY <2>1 DEF Still
      <4> QED
        BY <1>5, <4>1
    <3>4. Allowed(profile'[u], Elapsed) \in Nat
      <4>1. testStart # None /\ testStart <= time
        BY <1>1, <1>5, <3>1 DEF Placed
      <4>2. Chose /\ Elapsed \in Nat
        BY <1>1, <4>1, Scenario, ScenarioAssumption DEF TypeOK, Chose, Elapsed
      <4> QED
        BY <3>3, <4>2, PlanGrows
    <3> QED
      BY <2>2, <3>1, <3>2, <3>4
  <2>5. CASE Sends(u)
    <3>1. upc[u] = "ready" /\ upc'[u] = "calling" /\ sent'[u] = sent[u] + 1
          /\ UNCHANGED <<profile[u], wake[u]>>
      BY <2>5 DEF Sends
    <3>2. u \in Registered
      BY <1>5, <3>1 DEF Registered
    <3>3. sent[u] <= Allowed(profile[u], Elapsed)
      BY <1>6, <3>1, <3>2 DEF Pace
    <3> QED
      BY <1>6, <2>2, <3>1, <3>2, <3>3
  <2>6. CASE Waiting(u)
    <3> DEFINE w == Wait(profile[u], PhaseAt(Elapsed))
    <3>1. upc[u] = "calling" /\ upc'[u] = "waiting" /\ wake'[u] = time + w
          /\ UNCHANGED <<profile[u], sent[u]>>
      BY <2>6 DEF Waiting
    <3>2. u \in Registered
      BY <1>5, <3>1 DEF Registered
    <3>3. w \in Nat \ {0}
          /\ Allowed(profile[u], Elapsed) + 1 <= Allowed(profile[u], Elapsed + w)
      BY <1>6, <3>2, Due
    <3> HIDE DEF w
    <3>4. wake'[u] - testStart = Elapsed + w /\ wake'[u] >= testStart
      BY <1>6, <3>1, <3>2, <3>3
    <3>5. sent[u] <= 1 + Allowed(profile[u], Elapsed) /\ Allowed(profile[u], Elapsed) \in Nat
          /\ Allowed(profile[u], Elapsed + w) \in Nat
      BY <1>6, <3>2, <3>3 DEF Pace
    <3> QED
      BY <1>6, <2>2, <3>1, <3>2, <3>3, <3>4, <3>5
  <2>7. CASE Wakes(u)
    <3>1. upc[u] = "waiting" /\ upc'[u] = "ready" /\ time >= wake[u]
          /\ UNCHANGED <<profile[u], wake[u], sent[u]>>
      BY <2>7 DEF Wakes
    <3>2. u \in Registered
      BY <1>5, <3>1 DEF Registered
    <3> DEFINE a == wake[u] - testStart
    <3>3. a \in Nat /\ a <= Elapsed /\ sent[u] <= Allowed(profile[u], a)
      BY <1>6, <3>1, <3>2 DEF Pace
    <3> HIDE DEF a
    <3>4. Allowed(profile[u], a) <= Allowed(profile[u], Elapsed)
          /\ Allowed(profile[u], a) \in Nat /\ Allowed(profile[u], Elapsed) \in Nat
      BY <1>6, <3>2, <3>3, PlanGrows
    <3>5. sent[u] <= Allowed(profile[u], Elapsed)
      BY <1>6, <3>2, <3>3, <3>4
    <3> QED
      BY <1>6, <2>2, <3>1, <3>2, <3>4, <3>5
  <2> QED
    BY <2>1, <2>3, <2>4, <2>5, <2>6, <2>7
<1> QED
  BY <1>5, <1>7, <1>8, <1>9, <1>10, <1>11, <1>12, Steps DEF Aside, users, vars

-----------------------------------------------------------------------------
(***************************************************************************)
(* The theorems.                                                           *)
(***************************************************************************)

LEMMA LInit == Init => LInv
<1> SUFFICES ASSUME Init PROVE LInv
  OBVIOUS
<1>1. /\ smoke \in SmokeDurations \cup {None} /\ time = 0 /\ stage = "load" /\ testStart = None
      /\ index = 0 /\ upc = [u \in Users |-> "unborn"] /\ profile = [u \in Users |-> None]
      /\ wake = [u \in Users |-> 0] /\ sent = [u \in Users |-> 0]
      /\ process = "running" /\ wpc = [w \in Workers |-> "idle"] /\ issued = 0 /\ logged = 0
  BY DEF Init, BackgroundStarted
<1>2. MaxStartup \in Nat /\ MaxCalls \in Nat /\ Last(Ends) \in Nat /\ Cardinality(Users) \in Nat
  BY Scenario, ScenarioAssumption, Places
<1>3. Registered = {} /\ Busy = {}
  BY <1>1 DEF Registered, Busy
<1>4. TypeOK
  BY <1>1, <1>2 DEF TypeOK
<1>5. Placed
  BY <1>1, <1>2, <1>3 DEF Placed
<1>6. Assigned
  BY <1>1, <1>3, FS_EmptySet DEF Assigned, OneUserPerTenant
<1>7. Accounted
  BY <1>1, <1>3, FS_EmptySet DEF Accounted
<1>8. Paced
  BY <1>3 DEF Paced
<1> QED
  BY <1>4, <1>5, <1>6, <1>7, <1>8 DEF LInv

LEMMA LNext == LInv /\ [Next]_vars => LInv'
<1> SUFFICES ASSUME LInv, [Next]_vars PROVE LInv'
  OBVIOUS
<1>1. (BackgroundTypes /\ Accounted)' /\ Placed' /\ Assigned'
  BY NextAccounted, NextPlaced, NextAssigned DEF LInv
<1>2. TypeOK'
  BY <1>1, NextTyped DEF LInv
<1>3. Paced'
  BY <1>1, <1>2, NextPaced
<1> QED
  BY <1>1, <1>2, <1>3 DEF LInv

LEMMA LAlways == Spec => []LInv
  BY LInit, LNext, PTL DEF Spec

\* What the variables hold, in every run: a user never waits longer than its
\* tenant does without a burst, nor than at the least rate.
THEOREM LoadTypes == Spec => []TypeOK
<1>1. LInv => TypeOK
  BY DEF LInv
<1> QED
  BY <1>1, LAlways, PTL

\* Each of any number of users sends for a tenant of its own, in whatever order
\* their calls to STS are answered.
THEOREM TenantsShared == Spec => []OneUserPerTenant
<1>1. LInv => OneUserPerTenant
  BY DEF LInv, Assigned
<1> QED
  BY <1>1, LAlways, PTL

\* Whatever the length of a smoke run and however many phases it has, these cover
\* each moment of it once and the pressure on Bedrock ends within it.
THEOREM PlanAlwaysFits == Spec => []PlanFits
<1>1. LInv => PlanFits
  BY PlanHolds DEF LInv, TypeOK, Chose
<1> QED
  BY <1>1, LAlways, PTL

\* No tenant offers more than the plan or, where that is less, than the least rate
\* of locustfile.py 92, whatever its rate, the multiples of the phases, the time
\* Bedrock takes and the moment a user falls asleep.
THEOREM PlanIsKept == Spec => []OfferedWithinPlan
<1>1. LInv => OfferedWithinPlan
  <2> SUFFICES ASSUME LInv, NEW u \in Users, profile[u] # None
               PROVE  sent[u] <= 1 + Allowed(profile[u], Elapsed)
    BY DEF OfferedWithinPlan, Allowed, Total
  <2>1. u \in Registered
    BY DEF Registered
  <2> QED
    BY <2>1 DEF LInv, Paced
<1> QED
  BY <1>1, LAlways, PTL

\* The background is gone when the runner goes on, and its log lacks no more than
\* a call of each of any number of workers.
THEOREM CallsAccounted == Spec => []BackgroundAccounted
<1>1. LInv => BackgroundAccounted
  <2> SUFFICES ASSUME LInv PROVE BackgroundAccounted
    OBVIOUS
  <2>1. Accounted /\ issued \in Nat /\ logged \in Nat /\ Cardinality(Workers) \in Nat
        /\ Cardinality(Busy) \in Nat
    BY Workforce, ScenarioAssumption DEF LInv, TypeOK
  <2> QED
    BY <2>1 DEF BackgroundAccounted, Accounted, Busy
<1> QED
  BY <1>1, LAlways, PTL

-----------------------------------------------------------------------------
(***************************************************************************)
(* The skew of any number of tenants.                                      *)
(***************************************************************************)

\* Sums of up to three terms.
LEMMA ThreeTerms ==
    ASSUME NEW v, v[1] \in Int, v[2] \in Int, v[3] \in Int
    PROVE  /\ Total(v, {}) = 0
           /\ Total(v, {1}) = v[1] /\ Total(v, {2}) = v[2] /\ Total(v, {3}) = v[3]
           /\ Total(v, {1, 2}) = v[1] + v[2]
           /\ Total(v, {1, 2, 3}) = v[1] + v[2] + v[3]
<1>1. Total(v, {}) = 0
  BY TotalEmpty
<1>2. /\ IsFiniteSet({1}) /\ IsFiniteSet({2}) /\ IsFiniteSet({3}) /\ IsFiniteSet({1, 2})
      /\ IsFiniteSet({1, 2, 3})
  <2>1. IsFiniteSet({1}) /\ IsFiniteSet({2}) /\ IsFiniteSet({3})
    BY FS_Singleton
  <2>2. IsFiniteSet({1} \cup {2}) /\ {1} \cup {2} = {1, 2}
    BY <2>1, FS_AddElement
  <2>3. IsFiniteSet({1, 2} \cup {3}) /\ {1, 2} \cup {3} = {1, 2, 3}
    BY <2>2, FS_AddElement
  <2> QED
    BY <2>1, <2>2, <2>3
<1>3. ASSUME NEW i \in {1, 2, 3}, NEW S \in SUBSET {1, 2, 3}, NEW rest, i \in S,
             rest = S \ {i}
      PROVE  Total(v, S) = v[i] + Total(v, rest)
  <2>1. IsFiniteSet(S)
    BY <1>2, FS_Subset
  <2>2. \A x \in S : v[x] \in Int
    OBVIOUS
  <2> QED
    BY <1>3, <2>1, <2>2, TotalPick
<1>4. \A i \in {1, 2, 3} : Total(v, {i}) = v[i] + Total(v, {})
  BY <1>3
<1>5. Total(v, {1, 2}) = v[2] + Total(v, {1})
  BY <1>3
<1>6. Total(v, {1, 2, 3}) = v[3] + Total(v, {1, 2})
  BY <1>3
<1> QED
  BY <1>1, <1>4, <1>5, <1>6

\* How many numbers there are from x to y.
LEMMA Lengths == \A x, y \in Int : Cardinality(x .. y) = IF x > y THEN 0 ELSE y - x + 1
BY FS_Interval

\* The sizes and the shares of the file.
LEMMA GroupsAre ==
    /\ Groups = {1, 2, 3} /\ Groups = 1 .. 3 /\ Cardinality(Groups) = 3
    /\ Frac[1] = 1 /\ Frac[2] = 3 /\ Frac[3] = 6
    /\ Share[1] = 45 /\ Share[2] = 30 /\ Share[3] = 25
<1>1. Groups = 1 .. 3
  BY DEF Groups, Frac
<1>2. Cardinality(1 .. 3) = 3
  <2>1. 1 \in Int /\ 3 \in Int
    OBVIOUS
  <2>2. Cardinality(1 .. 3) = IF 1 > 3 THEN 0 ELSE 3 - 1 + 1
    BY <2>1, Lengths, Zenon
  <2> QED
    BY <2>2
<1> QED
  BY <1>1, <1>2 DEF Frac, Share

\* Where the groups end.
LEMMA CutsAre ==
    ASSUME NEW n \in Nat
    PROVE  LET upTo(m) == IF m <= n THEN m ELSE n IN
           /\ Rounded(n) \in Nat /\ Rounded(3 * n) \in Nat /\ Rounded(6 * n) \in Nat
           /\ Cut(n, 0) = 0
           /\ Cut(n, 1) = upTo(Rounded(n))
           /\ Cut(n, 2) = upTo(Rounded(n) + Rounded(3 * n))
           /\ Cut(n, 3) = upTo(Rounded(n) + Rounded(3 * n) + Rounded(6 * n))
<1> DEFINE r == [g \in 1 .. 3 |-> Rounded(n * Frac[g])]
           upTo(m) == IF m <= n THEN m ELSE n
<1>1. /\ Rounded(n) \in Nat /\ Rounded(3 * n) \in Nat /\ Rounded(6 * n) \in Nat
  BY DEF Rounded
<1>2. r[1] = Rounded(n) /\ r[2] = Rounded(3 * n) /\ r[3] = Rounded(6 * n)
  <2>1. n * 1 = n /\ n * 3 = 3 * n /\ n * 6 = 6 * n
    OBVIOUS
  <2> QED
    BY <2>1, GroupsAre
<1>3. \A i \in 0 .. 3 : Cut(n, i) = upTo(Total(r, 1 .. i))
  <2>1. ASSUME NEW i \in 0 .. 3, Total(r, 1 .. i) \in Int
        PROVE  Cut(n, i) = upTo(Total(r, 1 .. i))
    <3> DEFINE s == [g \in 1 .. i |-> Rounded(n * Frac[g])]
    <3>1. IsFiniteSet(1 .. i)
      BY FS_Interval
    <3>2. \A x \in 1 .. i : r[x] \in Int /\ s[x] = r[x]
      <4>1. \A x \in 1 .. 3 : r[x] \in Int
        BY <1>1, <1>2
      <4> QED
        BY <4>1
    <3>3. SumFunction(s) = Total(s, 1 .. i)
      BY SumIsTotal
    <3>4. Total(s, 1 .. i) = Total(r, 1 .. i)
      <4> HIDE DEF s, r
      <4> QED
        BY <3>1, <3>2, TotalSame
    <3>5. Cut(n, i) = Min({n, SumFunction(s)})
      BY DEF Cut
    <3> HIDE DEF s, r
    <3> QED
      BY <2>1, <3>3, <3>4, <3>5 DEF Min
  <2>2. \A i \in 0 .. 3 : Total(r, 1 .. i) \in Int
    <3>1. ASSUME NEW i \in 0 .. 3 PROVE Total(r, 1 .. i) \in Int
      <4>1. IsFiniteSet(1 .. i) /\ \A x \in 1 .. i : r[x] \in Int
        <5>1. IsFiniteSet(1 .. i)
          BY FS_Interval
        <5>2. \A x \in 1 .. 3 : r[x] \in Int
          BY <1>1, <1>2
        <5> QED
          BY <5>1, <5>2
      <4> HIDE DEF r
      <4> QED
        BY <4>1, TotalPick
    <3> QED
      BY <3>1
  <2> HIDE DEF r
  <2> QED
    BY <2>1, <2>2
<1> HIDE DEF r
<1>4. /\ Total(r, {}) = 0 /\ Total(r, {1}) = r[1] /\ Total(r, {1, 2}) = r[1] + r[2]
      /\ Total(r, {1, 2, 3}) = r[1] + r[2] + r[3]
  BY <1>1, <1>2, ThreeTerms
<1>5. 1 .. 0 = {} /\ 1 .. 1 = {1} /\ 1 .. 2 = {1, 2} /\ 1 .. 3 = {1, 2, 3}
  OBVIOUS
<1> QED
  BY <1>1, <1>2, <1>3, <1>4, <1>5

\* The sizes are the fractions of n but for the rounding.
LEMMA SizesAre ==
    ASSUME NEW n \in Nat, n >= 10
    PROVE  LET a == Rounded(n)
               b == Rounded(3 * n)
               c == Rounded(6 * n)
           IN  /\ a > 0 /\ b > 0 /\ c > 1
               /\ 10 * a - n \in -5 .. 5 /\ 10 * b - 3 * n \in -5 .. 5
               /\ 10 * c - 6 * n \in -5 .. 5
               /\ a + b + c \in n - 1 .. n + 1
               /\ a + b + c > n => 10 * c >= 6 * n
               /\ n % 10 = 0 => 10 * a = n /\ 10 * b = 3 * n /\ 10 * c = 6 * n
<1> DEFINE q == n \div 10
           r == n % 10
<1>1. q \in Nat /\ q >= 1 /\ r \in 0 .. 9 /\ n = 10 * q + r
  OBVIOUS
<1> HIDE DEF q, r
<1> QED
  BY <1>1 DEF Rounded

\* The three groups, and the tenant they may leave over.
LEMMA GroupBounds ==
    ASSUME NEW n \in Nat, n >= 10
    PROVE  \E e \in [0 .. 3 -> 0 .. n] :
              /\ e[0] = 0 /\ e[0] < e[1] /\ e[1] < e[2] /\ e[2] < e[3] /\ e[3] >= n - 1
              /\ \A i \in Groups :
                    /\ InGroup(n, i) = e[i - 1] + 1 .. e[i]
                    /\ Cardinality(InGroup(n, i)) = e[i] - e[i - 1]
                    /\ 10 * (e[i] - e[i - 1]) - n * Frac[i] \in -10 .. 10
                    /\ n % 10 = 0 => 10 * (e[i] - e[i - 1]) = n * Frac[i]
              /\ Leftover(n) = e[3] + 1 .. n
              /\ n % 10 = 0 => e[3] = n
<1> DEFINE a == Rounded(n)
           b == Rounded(3 * n)
           c == Rounded(6 * n)
           e == [i \in 0 .. 3 |-> Cut(n, i)]
<1>1. a \in Nat /\ b \in Nat /\ c \in Nat
  BY CutsAre
<1>2. /\ e[0] = 0
      /\ e[1] = IF a <= n THEN a ELSE n
      /\ e[2] = IF a + b <= n THEN a + b ELSE n
      /\ e[3] = IF a + b + c <= n THEN a + b + c ELSE n
  BY CutsAre
<1>3. /\ a > 0 /\ b > 0 /\ c > 1
      /\ 10 * a - n \in -5 .. 5 /\ 10 * b - 3 * n \in -5 .. 5
      /\ 10 * c - 6 * n \in -5 .. 5
      /\ a + b + c \in n - 1 .. n + 1
      /\ a + b + c > n => 10 * c >= 6 * n
      /\ n % 10 = 0 => 10 * a = n /\ 10 * b = 3 * n /\ 10 * c = 6 * n
  BY SizesAre
<1>4. /\ \A i \in Groups : InGroup(n, i) = e[i - 1] + 1 .. e[i]
      /\ Leftover(n) = e[3] + 1 .. n
  BY GroupsAre DEF InGroup, Leftover
<1> HIDE DEF a, b, c, e
<1>5. e[1] = a /\ e[2] = a + b /\ e[3] = IF a + b + c <= n THEN a + b + c ELSE n
  BY <1>1, <1>2, <1>3
<1>6. e[0] = 0 /\ e[0] < e[1] /\ e[1] < e[2] /\ e[2] < e[3] /\ e[3] >= n - 1
  BY <1>1, <1>2, <1>3, <1>5
<1>7. e \in [0 .. 3 -> 0 .. n]
  <2>1. e[0] \in 0 .. n /\ e[1] \in 0 .. n /\ e[2] \in 0 .. n /\ e[3] \in 0 .. n
    BY <1>1, <1>2, <1>3, <1>5
  <2>2. e = [i \in 0 .. 3 |-> e[i]]
    BY DEF e
  <2> QED
    BY <2>1, <2>2
<1>8. \A i \in Groups :
         /\ Cardinality(InGroup(n, i)) = e[i] - e[i - 1]
         /\ 10 * (e[i] - e[i - 1]) - n * Frac[i] \in -10 .. 10
         /\ n % 10 = 0 => 10 * (e[i] - e[i - 1]) = n * Frac[i]
  <2>1. ASSUME NEW i \in Groups
        PROVE  Cardinality(InGroup(n, i)) = e[i] - e[i - 1]
    <3> DEFINE x == e[i - 1] + 1
               y == e[i]
    <3>1. x \in Int /\ y \in Int /\ x <= y /\ y - x + 1 = e[i] - e[i - 1]
      BY <1>6, <1>7, GroupsAre
    <3>2. InGroup(n, i) = x .. y
      BY <1>4
    <3> HIDE DEF x, y
    <3>3. Cardinality(x .. y) = IF x > y THEN 0 ELSE y - x + 1
      BY <3>1, Lengths
    <3>4. Cardinality(x .. y) = e[i] - e[i - 1]
      BY <3>1, <3>3
    <3> QED
      BY <3>2, <3>4, Zenon
  <2>2. n * Frac[1] = n /\ n * Frac[2] = 3 * n /\ n * Frac[3] = 6 * n
    BY GroupsAre
  <2>3. /\ e[1] - e[0] = a /\ e[2] - e[1] = b
        /\ e[3] - e[2] = IF a + b + c <= n THEN c ELSE c - 1
    BY <1>1, <1>2, <1>3, <1>5
  <2>4. /\ 10 * a - n \in -10 .. 10 /\ 10 * b - 3 * n \in -10 .. 10
        /\ 10 * (e[3] - e[2]) - 6 * n \in -10 .. 10
        /\ n % 10 = 0 => 10 * a = n /\ 10 * b = 3 * n /\ 10 * (e[3] - e[2]) = 6 * n
    BY <1>1, <1>3, <2>3
  <2>5. \A i \in Groups : i = 1 \/ i = 2 \/ i = 3
    BY GroupsAre
  <2> QED
    BY <2>1, <2>2, <2>3, <2>4, <2>5
<1>9. n % 10 = 0 => e[3] = n
  BY <1>1, <1>3, <1>5
<1> QED
  BY <1>4, <1>6, <1>7, <1>8, <1>9

\* What a group has of the total, and what all have.
LEMMA SharesAre ==
    ASSUME NEW n \in Nat, n >= 10
    PROVE  /\ \A i \in Groups : ShareOf(n, InGroup(n, i)) = Share[i]
           /\ ShareOf(n, 1 .. n) = IF Leftover(n) = {} THEN 100 ELSE 105
<1>1. PICK e \in [0 .. 3 -> 0 .. n] :
         /\ e[0] = 0 /\ e[0] < e[1] /\ e[1] < e[2] /\ e[2] < e[3]
         /\ \A i \in Groups : InGroup(n, i) = e[i - 1] + 1 .. e[i]
         /\ Leftover(n) = e[3] + 1 .. n
  BY GroupBounds
<1>2. \A i \in Groups :
         /\ InGroup(n, i) # {} /\ InGroup(n, i) \subseteq 1 .. n
         /\ \A j \in Groups : InGroup(n, j) \subseteq InGroup(n, i) => j = i
         /\ Leftover(n) # {} => ~(Leftover(n) \subseteq InGroup(n, i))
  <2>1. /\ InGroup(n, 1) = 1 .. e[1] /\ InGroup(n, 2) = e[1] + 1 .. e[2]
        /\ InGroup(n, 3) = e[2] + 1 .. e[3]
    BY <1>1, GroupsAre
  <2>2. e[1] \in 1 .. n /\ e[2] \in 1 .. n /\ e[3] \in 1 .. n
    BY <1>1
  <2>3. e[1] \in InGroup(n, 1) /\ e[2] \in InGroup(n, 2) /\ e[3] \in InGroup(n, 3)
    BY <1>1, <2>1, <2>2
  <2>4. Leftover(n) # {} => n \in Leftover(n) /\ n > e[3]
    BY <1>1, <2>2
  <2>5. \A i, j \in Groups : e[j] \in InGroup(n, i) => j = i
    BY <1>1, <2>1, <2>2, GroupsAre
  <2>6. \A i \in Groups : e[i] \in InGroup(n, i) /\ InGroup(n, i) \subseteq 1 .. e[3]
    <3>1. 1 .. e[1] \subseteq 1 .. e[3] /\ e[1] + 1 .. e[2] \subseteq 1 .. e[3]
             /\ e[2] + 1 .. e[3] \subseteq 1 .. e[3]
      BY <1>1, <2>2
    <3>2. \A i \in Groups : i = 1 \/ i = 2 \/ i = 3
      BY GroupsAre
    <3> QED
      BY <2>1, <2>3, <3>1, <3>2
  <2>7. n > e[3] => n \notin 1 .. e[3]
    BY <2>2
  <2>8. 1 .. e[3] \subseteq 1 .. n
    BY <2>2
  <2> QED
    BY <2>4, <2>5, <2>6, <2>7, <2>8
<1>3. {i \in Groups : InGroup(n, i) # {}} = {1, 2, 3}
  BY <1>2, GroupsAre
<1>4. /\ SumFunctionOnSet(Share, {1, 2, 3}) = 100
      /\ \A i \in Groups : SumFunctionOnSet(Share, {i}) = Share[i]
  <2>1. Total(Share, {1, 2, 3}) = 100 /\ \A i \in Groups : Total(Share, {i}) = Share[i]
    BY GroupsAre, ThreeTerms
  <2>2. \A S : SumFunctionOnSet(Share, S) = Total(Share, S)
    BY DEF SumFunctionOnSet, FoldFunctionOnSet, Total, MapThenSumSet, MapThenFoldSet
  <2> QED
    BY <2>1, <2>2
<1>5. Max({100 - 100, 5}) = 5
  BY DEF Max
<1>6. ASSUME NEW i \in Groups PROVE ShareOf(n, InGroup(n, i)) = Share[i]
  <2>1. {j \in Groups : InGroup(n, j) # {} /\ InGroup(n, j) \subseteq InGroup(n, i)} = {i}
    BY <1>2
  <2>2. ~(Leftover(n) # {} /\ Leftover(n) \subseteq InGroup(n, i))
    BY <1>2
  <2>3. Share[i] + 0 = Share[i]
    BY GroupsAre
  <2> QED
    BY <1>4, <2>1, <2>2, <2>3 DEF ShareOf
<1>7. ShareOf(n, 1 .. n) = IF Leftover(n) = {} THEN 100 ELSE 105
  <2>1. {j \in Groups : InGroup(n, j) # {} /\ InGroup(n, j) \subseteq 1 .. n} = {1, 2, 3}
    BY <1>2, GroupsAre
  <2>2. Leftover(n) \subseteq 1 .. n
    BY <1>1
  <2>3. ShareOf(n, 1 .. n) = 100 + IF Leftover(n) # {} THEN 5 ELSE 0
    BY <1>3, <1>4, <1>5, <2>1, <2>2, Zenon DEF ShareOf
  <2> QED
    BY <2>3
<1> QED
  BY <1>6, <1>7

\* The plan of any ten tenants or more.
LEMMA SkewRight == \A n \in Nat : n >= 10 => SkewAsPlanned(n)
<1>1. ASSUME NEW n \in Nat, n >= 10 PROVE SkewAsPlanned(n)
  <2>1. PICK e \in [0 .. 3 -> 0 .. n] :
           /\ e[0] = 0 /\ e[0] < e[1] /\ e[1] < e[2] /\ e[2] < e[3] /\ e[3] >= n - 1
           /\ \A i \in Groups :
                 /\ InGroup(n, i) = e[i - 1] + 1 .. e[i]
                 /\ Cardinality(InGroup(n, i)) = e[i] - e[i - 1]
                 /\ 10 * (e[i] - e[i - 1]) - n * Frac[i] \in -10 .. 10
                 /\ n % 10 = 0 => 10 * (e[i] - e[i - 1]) = n * Frac[i]
           /\ Leftover(n) = e[3] + 1 .. n
           /\ n % 10 = 0 => e[3] = n
    BY <1>1, GroupBounds
  <2>2. e[1] \in 1 .. n /\ e[2] \in 1 .. n /\ e[3] \in 1 .. n
    BY <2>1
  <2>3. UNION {InGroup(n, i) : i \in Groups} = InGroup(n, 1) \cup InGroup(n, 2) \cup InGroup(n, 3)
    BY GroupsAre
  <2>4. /\ InGroup(n, 1) = 1 .. e[1] /\ InGroup(n, 2) = e[1] + 1 .. e[2]
        /\ InGroup(n, 3) = e[2] + 1 .. e[3]
    BY <2>1, GroupsAre
  <2>5. 1 .. n = (1 .. e[1]) \cup (e[1] + 1 .. e[2]) \cup (e[2] + 1 .. e[3]) \cup (e[3] + 1 .. n)
    BY <2>1, <2>2
  <2>9. 1 .. n = (UNION {InGroup(n, i) : i \in Groups}) \cup Leftover(n)
    BY <2>1, <2>3, <2>4, <2>5, Zenon
  <2>6. Cardinality(Leftover(n)) <= 1
    <3> DEFINE x == e[3] + 1
    <3>1. x \in Int /\ n - x + 1 \in 0 .. 1 /\ Leftover(n) = x .. n
      BY <2>1, <2>2
    <3> HIDE DEF x
    <3>2. Cardinality(x .. n) = IF x > n THEN 0 ELSE n - x + 1
      BY <3>1, Lengths
    <3>3. Cardinality(x .. n) <= 1
      BY <3>1, <3>2
    <3> QED
      BY <3>1, <3>3, Zenon
  <2>7. n % 10 = 0 => Leftover(n) = {}
    BY <2>1
  <2>8. \A i \in Groups :
           /\ 10 * Cardinality(InGroup(n, i)) - n * Frac[i] \in -10 .. 10
           /\ n % 10 = 0 => 10 * Cardinality(InGroup(n, i)) = n * Frac[i]
    BY <2>1
  <2> QED
    BY <1>1, <2>6, <2>7, <2>8, <2>9, SharesAre DEF SkewAsPlanned
<1> QED
  BY <1>1

-----------------------------------------------------------------------------
(***************************************************************************)
(* What any scenario offers with any tenants.                              *)
(***************************************************************************)

\* A sum over all tenants.
LEMMA PerTenant ==
    ASSUME NEW profiles \in Fleets, NEW v, DOMAIN v = DOMAIN profiles,
           \A t \in DOMAIN profiles : v[t] \in Nat
    PROVE  /\ SumFunction(v) = Total(v, DOMAIN profiles)
           /\ SumFunction(v) \in Nat
           /\ (\E t \in DOMAIN profiles : v[t] > 0) => SumFunction(v) > 0
<1> DEFINE D == DOMAIN profiles
           zero == [t \in D |-> 0]
           w == [t \in D |-> v[t]]
<1>1. IsFiniteSet(D)
  BY LoadAssumption
<1>2. SumFunction(v) = Total(v, D)
  BY SumIsTotal
<1>3. zero \in [D -> Nat] /\ w \in [D -> Nat] /\ \A t \in D : zero[t] <= w[t]
  OBVIOUS
<1>4. Total(zero, D) = 0
  BY <1>1, TotalZero
<1>5. /\ Total(w, D) \in Nat
      /\ (\E t \in D : zero[t] < w[t]) => Total(zero, D) < Total(w, D)
  <2> HIDE DEF zero, w, D
  <2> QED
    BY <1>1, <1>3, TotalMonotone
<1>6. Total(w, D) = Total(v, D)
  <2>1. \A t \in D : v[t] \in Int /\ w[t] = v[t]
    OBVIOUS
  <2> HIDE DEF w, D
  <2> QED
    BY <1>1, <2>1, TotalSame
<1>7. (\E t \in D : v[t] > 0) => Total(v, D) > 0
  <2>1. (\E t \in D : v[t] > 0) => \E t \in D : zero[t] < w[t]
    OBVIOUS
  <2> HIDE DEF zero, w, D
  <2> QED
    BY <1>4, <1>5, <1>6, <2>1
<1> HIDE DEF w
<1> QED
  BY <1>2, <1>5, <1>6, <1>7 DEF D

\* The fields of a scenario and of a profile.
LEMMA ScenarioIs ==
    ASSUME NEW s \in Scenarios
    PROVE  s \in [rpm : Nat, smokeRpm : Nat, forced : {""} \cup DOMAIN Tokens, budget : Nat,
                  phases : Seq(TokenPhases), victim : Nat, bursts : Seq(BurstPhases)]
BY LoadAssumption, Zenon

LEMMA ScenarioFields ==
    ASSUME NEW s \in Scenarios
    PROVE  /\ s.rpm \in Nat /\ s.smokeRpm \in Nat /\ s.budget \in Nat
           /\ s.forced # "" => s.forced \in DOMAIN Tokens
           /\ s.phases \in Seq(TokenPhases) /\ s.bursts \in Seq(BurstPhases)
BY ScenarioIs

LEMMA LoadsAre ==
    /\ \A p \in Fleets : IsFiniteSet(DOMAIN p) /\ DOMAIN p # {}
    /\ LoadPcts \subseteq Nat /\ Moments \subseteq Nat
BY LoadAssumption, Zenon

LEMMA ProfileFields ==
    ASSUME NEW p \in Fleets, NEW t \in DOMAIN p
    PROVE  p[t].rpm \in Nat /\ p[t].rpm > 0 /\ p[t].class \in DOMAIN Tokens
<1>1. p[t] \in [rpm : Nat \ {0}, class : DOMAIN Tokens]
  BY LoadAssumption DEF Range
<1> QED
  BY <1>1

LEMMA TokensPositive ==
    ASSUME NEW c \in DOMAIN Tokens
    PROVE  Tokens[c] \in Nat /\ Tokens[c] > 0
<1>1. Tokens[c] \in Nat \ {0}
  BY LoadAssumption
<1> QED
  BY <1>1

\* The phase of a moment is one of the file.
LEMMA CurrentIn ==
    ASSUME NEW X, NEW phases \in Seq(X), phases # <<>>, NEW elapsed
    PROVE  Current(phases, elapsed) \in X
<1> DEFINE n == Len(phases)
           coming == {i \in DOMAIN phases : elapsed < phases[i].end}
<1>1. /\ n \in Nat /\ n > 0 /\ DOMAIN phases = 1 .. n
      /\ \A i \in 1 .. n : phases[i] \in X
  OBVIOUS
<1>2. coming \in SUBSET (1 .. n)
  BY <1>1
<1>3. ASSUME coming # {} PROVE Min(coming) \in coming
  <2> HIDE DEF coming, n
  <2>1. \E m \in coming : \A k \in coming : m <= k
    BY <1>1, <1>2, <1>3, Least
  <2> QED
    BY <2>1 DEF Min
<1>4. (IF coming = {} THEN n ELSE Min(coming)) \in 1 .. n
  <2>1. n \in 1 .. n
    BY <1>1
  <2> HIDE DEF coming, n
  <2> QED
    BY <1>2, <1>3, <2>1
<1>5. Current(phases, elapsed) = phases[IF coming = {} THEN n ELSE Min(coming)]
  BY DEF Current
<1> HIDE DEF coming, n
<1> QED
  BY <1>1, <1>4, <1>5

LEMMA TokensSent ==
    ASSUME NEW s \in Scenarios, NEW p \in Fleets, NEW t \in DOMAIN p, NEW elapsed
    PROVE  /\ PostedTokens(s, p[t], elapsed) \in Nat
           /\ Tokens[ClassOf(s, p[t])] \in Nat /\ Tokens[ClassOf(s, p[t])] > 0
           /\ s.phases = <<>> => PostedTokens(s, p[t], elapsed) = Tokens[ClassOf(s, p[t])]
<1>1. ClassOf(s, p[t]) \in DOMAIN Tokens
  BY ScenarioFields, ProfileFields DEF ClassOf
<1>2. Tokens[ClassOf(s, p[t])] \in Nat /\ Tokens[ClassOf(s, p[t])] > 0
  BY <1>1, TokensPositive
<1>3. CASE s.phases = <<>>
  BY <1>2, <1>3 DEF PostedTokens, PromptClass
<1>4. CASE s.phases # <<>>
  <2> DEFINE phases == s.phases
  <2>1. phases \in Seq(TokenPhases)
    BY ScenarioFields
  <2>2. \A x \in TokenPhases : x.tokens \in Nat
    BY DEF TokenPhases
  <2>3. PostedTokens(s, p[t], elapsed) = Current(phases, elapsed).tokens
    BY <1>4 DEF PostedTokens, PromptPhase
  <2>4. phases # <<>>
    BY <1>4
  <2> HIDE DEF phases
  <2>5. Current(phases, elapsed) \in TokenPhases
    BY <2>1, <2>4, CurrentIn
  <2>6. PostedTokens(s, p[t], elapsed) \in Nat
    BY <2>2, <2>3, <2>5
  <2> QED
    BY <1>2, <1>4, <2>6
<1> QED
  BY <1>3, <1>4

LEMMA BurstIs ==
    ASSUME NEW s \in Scenarios, s.bursts # <<>>, NEW elapsed
    PROVE  Current(s.bursts, elapsed).burst \in Nat \ {0}
<1> DEFINE phases == s.bursts
<1>1. phases \in Seq(BurstPhases) /\ phases # <<>>
  BY ScenarioFields
<1>2. \A x \in BurstPhases : x.burst \in Nat \ {0}
  BY DEF BurstPhases
<1> HIDE DEF phases
<1>3. Current(phases, elapsed) \in BurstPhases
  BY <1>1, CurrentIn
<1> QED
  BY <1>2, <1>3 DEF phases

\* What the rates are multiplied by.
Rated(s, brief) == s.rpm # 0 \/ (brief /\ s.smokeRpm # 0)
Rate(s, p) == IF s.rpm # 0 THEN s.rpm ELSE s.smokeRpm * Cardinality(DOMAIN p)

LEMMA FactorIs ==
    ASSUME NEW s \in Scenarios, NEW p \in Fleets, NEW brief \in BOOLEAN, NEW pct \in LoadPcts
    PROVE  LET factor == Factor(s, p, brief, pct)
               requests == [t \in DOMAIN p |-> p[t].rpm]
               believed == [t \in DOMAIN p |-> p[t].rpm * Tokens[ClassOf(s, p[t])]]
           IN  /\ factor[1] \in Nat /\ factor[2] \in Nat /\ factor[2] > 0
               /\ Rated(s, brief) =>
                     /\ Rate(s, p) \in Nat
                     /\ factor[1] = Rate(s, p) /\ factor[2] = Total(requests, DOMAIN p)
               /\ ~Rated(s, brief) /\ s.budget * pct > 0 =>
                     /\ factor[1] = s.budget * pct
                     /\ factor[2] = 100 * Total(believed, DOMAIN p)
<1> DEFINE D == DOMAIN p
           requests == [t \in D |-> p[t].rpm]
           believed == [t \in D |-> p[t].rpm * Tokens[ClassOf(s, p[t])]]
           factor == Factor(s, p, brief, pct)
<1>1. /\ IsFiniteSet(D) /\ D # {} /\ pct \in Nat
      /\ s.budget \in Nat /\ s.rpm \in Nat /\ s.smokeRpm \in Nat
  <2>1. IsFiniteSet(D) /\ D # {} /\ pct \in Nat
    BY LoadsAre
  <2> QED
    BY <2>1, ScenarioFields
<1>2. \A t \in D : requests[t] \in Nat /\ requests[t] > 0
  BY ProfileFields
<1>3. \A t \in D : believed[t] \in Nat /\ believed[t] > 0
  <2>1. ASSUME NEW t \in D PROVE believed[t] \in Nat /\ believed[t] > 0
    <3> DEFINE r == p[t].rpm
               c == Tokens[ClassOf(s, p[t])]
    <3>1. r \in Nat /\ r > 0 /\ c \in Nat /\ c > 0 /\ believed[t] = r * c
      BY ProfileFields, TokensSent
    <3> HIDE DEF r, c, believed
    <3>2. r * c \in Nat /\ r * c > 0
      BY <3>1
    <3> QED
      BY <3>1, <3>2
  <2> QED
    BY <2>1
<1>4. /\ Requests(p) = Total(requests, D) /\ Requests(p) \in Nat /\ Requests(p) > 0
      /\ OfferedTpm(s, p) = Total(believed, D) /\ OfferedTpm(s, p) \in Nat
      /\ OfferedTpm(s, p) > 0
  <2>1. Requests(p) = SumFunction(requests) /\ OfferedTpm(s, p) = SumFunction(believed)
    BY DEF Requests, OfferedTpm
  <2>2. DOMAIN requests = D /\ DOMAIN believed = D
    OBVIOUS
  <2> HIDE DEF requests, believed
  <2> QED
    BY <1>1, <1>2, <1>3, <2>1, <2>2, PerTenant
<1>5. ASSUME Rated(s, brief)
      PROVE  factor = <<Rate(s, p), Requests(p)>> /\ Rate(s, p) \in Nat
  <2>1. CASE s.rpm # 0
    BY <1>1, <2>1 DEF Factor, Rate
  <2>2. CASE s.rpm = 0
    <3>1. brief /\ s.smokeRpm # 0 /\ Cardinality(D) \in Nat
      BY <1>1, <1>5, <2>2, FS_CardinalityType DEF Rated
    <3> QED
      BY <1>1, <2>2, <3>1 DEF Factor, Rate
  <2> QED
    BY <2>1, <2>2
<1>6. ASSUME ~Rated(s, brief)
      PROVE  factor = IF s.budget * pct > 0 THEN <<s.budget * pct, 100 * OfferedTpm(s, p)>>
                                            ELSE <<1, 1>>
  <2>1. factor = BudgetFactor(s, p, pct)
    BY <1>6 DEF Factor, Rated
  <2> QED
    BY <1>4, <2>1 DEF BudgetFactor
<1>7. s.budget * pct \in Nat
  BY <1>1
<1> HIDE DEF factor, requests, believed
<1>8. CASE Rated(s, brief)
  BY <1>4, <1>5, <1>8 DEF factor, requests, believed
<1>9. CASE ~Rated(s, brief) /\ s.budget * pct > 0
  BY <1>4, <1>6, <1>7, <1>9 DEF factor, requests, believed
<1>10. CASE ~Rated(s, brief) /\ ~(s.budget * pct > 0)
  BY <1>6, <1>10 DEF factor, requests, believed
<1> QED
  BY <1>8, <1>9, <1>10

\* Of two ways to weigh, some member makes as little of the first sum as of the
\* second, each against the other's weight.
LEMMA Mean ==
    ASSUME NEW S, IsFiniteSet(S), S # {}, NEW r, NEW b, NEW c,
           \A x \in S : r[x] \in Nat /\ r[x] > 0 /\ b[x] \in Nat /\ c[x] \in Nat
    PROVE  LET light == Total([x \in S |-> r[x] * b[x]], S)
               heavy == Total([x \in S |-> r[x] * c[x]], S)
           IN  /\ light \in Nat /\ heavy \in Nat
               /\ \E x \in S : heavy * b[x] <= light * c[x]
<1> DEFINE u == [x \in S |-> r[x] * b[x]]
           v == [x \in S |-> r[x] * c[x]]
           L == Total(u, S)
           H == Total(v, S)
           hu == [x \in S |-> H * u[x]]
           lv == [x \in S |-> L * v[x]]
<1>1. u \in [S -> Nat] /\ v \in [S -> Nat]
  OBVIOUS
<1>2. L \in Nat /\ H \in Nat
  <2> HIDE DEF u, v
  <2>1. (\A x \in S : u[x] <= u[x]) /\ (\A x \in S : v[x] <= v[x])
    BY <1>1
  <2> QED
    BY <1>1, <2>1, TotalMonotone
<1> HIDE DEF L, H
<1>3. ASSUME \A x \in S : ~(H * b[x] <= L * c[x]) PROVE FALSE
  <2>1. ASSUME NEW x \in S PROVE lv[x] \in Nat /\ hu[x] \in Nat /\ lv[x] < hu[x]
    <3> DEFINE k == r[x]
               m == b[x]
               n == c[x]
    <3>1. k \in Nat /\ k > 0 /\ m \in Nat /\ n \in Nat /\ ~(H * m <= L * n)
      BY <1>3
    <3>2. lv[x] = L * (k * n) /\ hu[x] = H * (k * m)
      OBVIOUS
    <3> HIDE DEF k, m, n, lv, hu
    <3>3. H * m \in Nat /\ L * n \in Nat /\ L * n < H * m
      BY <1>2, <3>1
    <3>4. k * (L * n) < k * (H * m) /\ k * (L * n) \in Nat /\ k * (H * m) \in Nat
      BY <3>1, <3>3
    <3>5. L * (k * n) = k * (L * n) /\ H * (k * m) = k * (H * m)
      BY <1>2, <3>1
    <3> QED
      BY <3>2, <3>4, <3>5
  <2>2. hu \in [S -> Nat] /\ lv \in [S -> Nat]
    BY <2>1
  <2>3. Total(hu, S) = H * L
    <3>1. \A x \in S : u[x] \in Int /\ hu[x] = H * u[x]
      BY <1>1
    <3> HIDE DEF u, hu
    <3>2. Total(hu, S) = H * Total(u, S)
      BY <1>2, <3>1, TotalScaled
    <3> QED
      BY <3>2 DEF L
  <2>4. Total(lv, S) = L * H
    <3>1. \A x \in S : v[x] \in Int /\ lv[x] = L * v[x]
      BY <1>1
    <3> HIDE DEF v, lv
    <3>2. Total(lv, S) = L * Total(v, S)
      BY <1>2, <3>1, TotalScaled
    <3> QED
      BY <3>2 DEF H
  <2> HIDE DEF hu, lv
  <2>5. Total(lv, S) < Total(hu, S)
    <3>1. (\A x \in S : lv[x] <= hu[x]) /\ \E x \in S : lv[x] < hu[x]
      BY <2>1, <2>2
    <3> QED
      BY <2>2, <3>1, TotalMonotone
  <2>6. H * L = L * H /\ H * L \in Nat
    BY <1>2
  <2> QED
    BY <2>3, <2>4, <2>5, <2>6
<1> QED
  BY <1>2, <1>3 DEF L, H

\* What is planned, as a sum over the tenants.
LEMMA PlannedIs ==
    ASSUME NEW s \in Scenarios, NEW p \in Fleets, NEW factor, factor[1] \in Nat, NEW elapsed
    PROVE  LET posted == [t \in DOMAIN p |-> p[t].rpm * PostedTokens(s, p[t], elapsed)]
           IN  /\ Total(posted, DOMAIN p) \in Nat
               /\ PlannedTpm(s, p, factor, elapsed) = (20 * factor[1]) * Total(posted, DOMAIN p)
<1> DEFINE D == DOMAIN p
           posted == [t \in D |-> p[t].rpm * PostedTokens(s, p[t], elapsed)]
           f == 20 * factor[1]
           planned == [t \in D |-> PlannedRpm(p, factor, t) * PostedTokens(s, p[t], elapsed)]
<1>1. IsFiniteSet(D) /\ f \in Nat
  BY LoadsAre
<1>2. \A t \in D : posted[t] \in Nat /\ planned[t] = f * posted[t]
  <2>1. ASSUME NEW t \in D PROVE posted[t] \in Nat /\ planned[t] = f * posted[t]
    <3> DEFINE r == p[t].rpm
               k == PostedTokens(s, p[t], elapsed)
    <3>1. r \in Nat /\ k \in Nat
      BY ProfileFields, TokensSent
    <3>2. posted[t] = r * k /\ planned[t] = (f * r) * k
      BY DEF PlannedRpm
    <3> HIDE DEF r, k, f, posted, planned
    <3>3. (f * r) * k = f * (r * k) /\ r * k \in Nat
      BY <1>1, <3>1
    <3> QED
      BY <3>2, <3>3
  <2> QED
    BY <2>1
<1>3. PlannedTpm(s, p, factor, elapsed) = Total(planned, D)
  <2> DEFINE terms == [t \in D |-> [x \in D |-> PlannedRpm(p, factor, x)][t]
                                       * PostedTokens(s, p[t], elapsed)]
  <2>1. terms = planned
    OBVIOUS
  <2>2. PlannedTpm(s, p, factor, elapsed) = SumFunction(terms)
    BY DEF PlannedTpm, TpmOf
  <2>3. SumFunction(planned) = Total(planned, D)
    <3>1. DOMAIN planned = D
      OBVIOUS
    <3> HIDE DEF planned
    <3> QED
      BY <3>1, SumIsTotal
  <2> QED
    BY <2>1, <2>2, <2>3
<1>4. Total(planned, D) = f * Total(posted, D) /\ Total(posted, D) \in Nat
  <2>1. \A t \in D : posted[t] \in Int
    BY <1>2
  <2>2. posted \in [D -> Nat] /\ \A t \in D : posted[t] <= posted[t]
    BY <1>2
  <2> HIDE DEF planned, posted, f, D
  <2> QED
    BY <1>1, <1>2, <2>1, <2>2, TotalScaled, TotalMonotone
<1> QED
  BY <1>3, <1>4

\* The load of a run is planned as its name or its file says.
LEMMA PlannedRight ==
    ASSUME NEW s \in Scenarios, NEW p \in Fleets, NEW brief \in BOOLEAN,
           NEW pct \in LoadPcts, NEW elapsed \in Moments
    PROVE  PlannedAsNamed(s, p, brief, pct, elapsed)
<1> DEFINE D == DOMAIN p
           factor == Factor(s, p, brief, pct)
           planned == PlannedTpm(s, p, factor, elapsed)
           target == s.budget * pct
           r == [t \in D |-> p[t].rpm]
           one == [t \in D |-> 1]
           posted == [t \in D |-> PostedTokens(s, p[t], elapsed)]
           believed == [t \in D |-> Tokens[ClassOf(s, p[t])]]
           S == Total([t \in D |-> r[t] * posted[t]], D)
           B == Total([t \in D |-> r[t] * believed[t]], D)
           R == Total([t \in D |-> r[t] * one[t]], D)
<1>1. /\ IsFiniteSet(D) /\ D # {}
      /\ \A t \in D : /\ r[t] \in Nat /\ r[t] > 0 /\ one[t] \in Nat
                      /\ posted[t] \in Nat /\ believed[t] \in Nat
                      /\ s.phases = <<>> => posted[t] = believed[t]
  BY LoadsAre, ProfileFields, TokensSent
<1>2. target \in Nat
  <2>1. s.budget \in Nat /\ pct \in Nat
    BY ScenarioFields, LoadsAre
  <2> QED
    BY <2>1
<1>3. /\ S \in Nat /\ B \in Nat /\ R \in Nat
      /\ \E t \in D : S * believed[t] <= B * posted[t]
      /\ \E t \in D : B * posted[t] <= S * believed[t]
      /\ \E t \in D : S * one[t] <= R * posted[t]
      /\ \E t \in D : R * posted[t] <= S * one[t]
  <2> HIDE DEF r, one, posted, believed, D
  <2> QED
    BY <1>1, Mean
<1>4. /\ factor[1] \in Nat /\ factor[2] \in Nat
      /\ Rated(s, brief) => /\ Rate(s, p) \in Nat
                            /\ factor[1] = Rate(s, p) /\ factor[2] = Total(r, D)
      /\ ~Rated(s, brief) /\ target > 0 =>
            /\ factor[1] = target
            /\ factor[2] = 100 * Total([t \in D |-> p[t].rpm * Tokens[ClassOf(s, p[t])]], D)
  BY FactorIs
<1>5. Total(r, D) = R
  <2> DEFINE w == [t \in D |-> r[t] * one[t]]
  <2>1. \A t \in D : w[t] \in Int /\ r[t] = w[t]
    BY <1>1
  <2> HIDE DEF w, r, D
  <2>2. Total(r, D) = Total(w, D)
    BY <1>1, <2>1, TotalSame
  <2> QED
    BY <2>2 DEF w
<1>6. B = Total([t \in D |-> p[t].rpm * Tokens[ClassOf(s, p[t])]], D)
  <2>1. [t \in D |-> r[t] * believed[t]] = [t \in D |-> p[t].rpm * Tokens[ClassOf(s, p[t])]]
    OBVIOUS
  <2> QED
    BY <2>1
<1>7. planned = (20 * factor[1]) * S
  <2>1. [t \in D |-> r[t] * posted[t]] = [t \in D |-> p[t].rpm * PostedTokens(s, p[t], elapsed)]
    OBVIOUS
  <2> HIDE DEF factor
  <2> QED
    BY <1>4, <2>1, PlannedIs
<1>8. ASSUME s.phases = <<>> PROVE S = B
  <2>1. [t \in D |-> r[t] * posted[t]] = [t \in D |-> r[t] * believed[t]]
    BY <1>1, <1>8
  <2> QED
    BY <2>1
<1> HIDE DEF S, B, R, factor, planned, target, D
<1>9. CASE ~Rated(s, brief)
  <2>1. ASSUME target > 0
        PROVE  /\ s.phases = <<>> => 5 * planned = target * factor[2]
               /\ \E t \in D : 5 * planned * believed[t] <= target * factor[2] * posted[t]
               /\ \E t \in D : 5 * planned * believed[t] >= target * factor[2] * posted[t]
    <3>1. factor[2] = 100 * B /\ planned = (20 * target) * S
      BY <1>4, <1>6, <1>7, <1>9, <2>1
    <3>2. ASSUME NEW b \in Nat, NEW c \in Nat
          PROVE  /\ 5 * planned * b = (100 * target) * (S * b)
                 /\ target * factor[2] * c = (100 * target) * (B * c)
      BY <1>2, <1>3, <3>1
    <3>3. \A x, y \in Nat : x <= y => (100 * target) * x <= (100 * target) * y
      BY <1>2
    <3>4. \A t \in D : S * believed[t] \in Nat /\ B * posted[t] \in Nat
      BY <1>1, <1>3
    <3>5. PICK t \in D : S * believed[t] <= B * posted[t]
      BY <1>3
    <3>6. 5 * planned * believed[t] <= target * factor[2] * posted[t]
      <4>1. (100 * target) * (S * believed[t]) <= (100 * target) * (B * posted[t])
        BY <3>3, <3>4, <3>5
      <4> QED
        BY <1>1, <3>2, <4>1
    <3>7. PICK x \in D : B * posted[x] <= S * believed[x]
      BY <1>3
    <3>8. 5 * planned * believed[x] >= target * factor[2] * posted[x]
      <4>1. (100 * target) * (B * posted[x]) <= (100 * target) * (S * believed[x])
        BY <3>3, <3>4, <3>7
      <4>2. /\ (100 * target) * (B * posted[x]) \in Nat
            /\ (100 * target) * (S * believed[x]) \in Nat
        BY <1>2, <3>4
      <4> QED
        BY <1>1, <3>2, <4>1, <4>2
    <3>9. s.phases = <<>> => 5 * planned = target * factor[2]
      BY <1>2, <1>3, <1>8, <3>1
    <3> QED
      BY <3>6, <3>8, <3>9
  <2> QED
    BY <1>9, <2>1 DEF PlannedAsNamed, Rated, D, factor, planned, target
<1>10. CASE Rated(s, brief)
  <2> DEFINE rate == Rate(s, p)
  <2>1. rate \in Nat /\ factor[2] = R /\ planned = (20 * rate) * S
    BY <1>4, <1>5, <1>7, <1>10
  <2> HIDE DEF rate
  <2>2. ASSUME NEW c \in Nat
        PROVE  20 * rate * factor[2] * c = (20 * rate) * (R * c) /\ R * c \in Nat
    BY <1>3, <2>1
  <2>3. \A x, y \in Nat : x <= y => (20 * rate) * x <= (20 * rate) * y
    BY <2>1
  <2>4. \E t \in D : planned <= 20 * rate * factor[2] * posted[t]
    <3>1. PICK t \in D : S * one[t] <= R * posted[t]
      BY <1>3
    <3>2. S <= R * posted[t] /\ posted[t] \in Nat
      BY <1>1, <1>3, <3>1
    <3> QED
      BY <1>3, <2>1, <2>2, <2>3, <3>2
  <2>5. \E t \in D : planned >= 20 * rate * factor[2] * posted[t]
    <3>1. PICK t \in D : R * posted[t] <= S * one[t]
      BY <1>3
    <3>2. R * posted[t] <= S /\ posted[t] \in Nat
      BY <1>1, <1>3, <3>1
    <3>3. (20 * rate) * (R * posted[t]) <= (20 * rate) * S
      BY <1>3, <2>2, <2>3, <3>2
    <3>4. (20 * rate) * (R * posted[t]) \in Nat /\ (20 * rate) * S \in Nat
      BY <1>3, <2>1, <2>2, <3>2
    <3> QED
      BY <2>1, <2>2, <3>2, <3>3, <3>4
  <2>6. ~(s.rpm = 0 /\ (~brief \/ s.smokeRpm = 0))
    BY <1>10 DEF Rated
  <2>7. rate = IF s.rpm # 0 THEN s.rpm ELSE s.smokeRpm * Cardinality(DOMAIN p)
    BY DEF rate, Rate
  <2> QED
    BY <2>4, <2>5, <2>6, <2>7 DEF PlannedAsNamed, D, factor, planned
<1> QED
  BY <1>9, <1>10

\* A sum over the tenants, from the rates.
LEMMA TpmIs ==
    ASSUME NEW s \in Scenarios, NEW p \in Fleets, NEW elapsed,
           NEW rate, DOMAIN rate = DOMAIN p, \A t \in DOMAIN p : rate[t] \in Nat
    PROVE  LET terms == [t \in DOMAIN p |-> rate[t] * PostedTokens(s, p[t], elapsed)]
           IN  /\ terms \in [DOMAIN p -> Nat]
               /\ TpmOf(s, p, rate, elapsed) = Total(terms, DOMAIN p)
<1> DEFINE D == DOMAIN p
           terms == [t \in D |-> rate[t] * PostedTokens(s, p[t], elapsed)]
<1>1. terms \in [D -> Nat]
  BY TokensSent
<1>2. TpmOf(s, p, rate, elapsed) = SumFunction(terms)
  BY DEF TpmOf
<1>3. SumFunction(terms) = Total(terms, D)
  <2>1. DOMAIN terms = D
    OBVIOUS
  <2> HIDE DEF terms
  <2> QED
    BY <2>1, SumIsTotal
<1> QED
  BY <1>1, <1>2, <1>3

\* What is planned is posted, with the burst of the victim on top and the least
\* rate below.
LEMMA PostedRight ==
    ASSUME NEW s \in Scenarios, NEW p \in Fleets, NEW brief \in BOOLEAN,
           NEW pct \in LoadPcts, NEW elapsed \in Moments
    PROVE  PostedAsPlanned(s, p, brief, pct, elapsed)
<1> DEFINE D == DOMAIN p
           factor == Factor(s, p, brief, pct)
           k == [t \in D |-> PostedTokens(s, p[t], elapsed)]
           plan == [t \in D |-> PlannedRpm(p, factor, t)]
           burst == [t \in D |-> BurstRpm(s, p, factor, t, elapsed)]
           post == [t \in D |-> PostedRpm(s, p, factor, t, elapsed)]
           rest == [t \in D |-> IF BurstRpm(s, p, factor, t, elapsed) < factor[2]
                                THEN factor[2] ELSE 0]
           plans == [t \in D |-> plan[t] * k[t]]
           bursts == [t \in D |-> burst[t] * k[t]]
           posts == [t \in D |-> post[t] * k[t]]
           rests == [t \in D |-> rest[t] * k[t]]
           both == [t \in D |-> bursts[t] + rests[t]]
           bursting == s.victim \in D /\ s.bursts # <<>>
           onTop == IF bursting
                    THEN (Current(s.bursts, elapsed).burst - 1) * plan[s.victim] * k[s.victim]
                    ELSE 0
<1>1. IsFiniteSet(D) /\ factor[1] \in Nat /\ factor[2] \in Nat
  BY LoadsAre, FactorIs
<1>2. /\ \A t \in D : BurstAt(s, t, elapsed) \in Nat \ {0}
      /\ \A t \in D : ~(bursting /\ t = s.victim) => BurstAt(s, t, elapsed) = 1
      /\ bursting => BurstAt(s, s.victim, elapsed) = Current(s.bursts, elapsed).burst
  BY BurstIs DEF BurstAt
<1>3. ASSUME NEW t \in D
      PROVE  /\ plan[t] \in Nat /\ k[t] \in Nat
             /\ burst[t] = plan[t] * BurstAt(s, t, elapsed) /\ burst[t] \in Nat
             /\ post[t] = IF burst[t] < factor[2] THEN factor[2] ELSE burst[t]
             /\ rest[t] = IF burst[t] < factor[2] THEN factor[2] ELSE 0
             /\ post[t] \in Nat /\ rest[t] \in Nat
  <2>1. k[t] \in Nat /\ p[t].rpm \in Nat
    BY TokensSent, ProfileFields
  <2>2. plan[t] = 20 * factor[1] * p[t].rpm
    BY DEF PlannedRpm
  <2>3. burst[t] = plan[t] * BurstAt(s, t, elapsed)
    BY DEF BurstRpm
  <2>4. plan[t] \in Nat /\ burst[t] \in Nat
    <3> DEFINE x == p[t].rpm
               y == factor[1]
               m == BurstAt(s, t, elapsed)
    <3>1. x \in Nat /\ y \in Nat /\ m \in Nat
      BY <1>1, <1>2, <2>1
    <3>2. plan[t] = 20 * y * x /\ burst[t] = plan[t] * m
      BY <2>2, <2>3
    <3> HIDE DEF x, y, m, plan, burst
    <3> QED
      BY <3>1, <3>2
  <2>5. post[t] = IF burst[t] < factor[2] THEN factor[2] ELSE burst[t]
    <3> DEFINE b == BurstRpm(s, p, factor, t, elapsed)
               f == factor[2]
    <3>1. post[t] = Max({b, f}) /\ burst[t] = b
      BY DEF PostedRpm
    <3>2. b \in Nat /\ f \in Nat
      BY <1>1, <2>4, <3>1
    <3> HIDE DEF b, f
    <3>3. Max({b, f}) = IF b < f THEN f ELSE b
      BY <3>2, MaxOf
    <3> QED
      BY <3>1, <3>3 DEF f
  <2> QED
    BY <1>1, <2>1, <2>3, <2>4, <2>5
<1>4. /\ PlannedTpm(s, p, factor, elapsed) = Total(plans, D)
      /\ TpmOf(s, p, post, elapsed) = Total(posts, D)
      /\ TpmOf(s, p, rest, elapsed) = Total(rests, D)
      /\ plans \in [D -> Nat] /\ posts \in [D -> Nat] /\ rests \in [D -> Nat]
      /\ bursts \in [D -> Nat]
  <2>1. ASSUME NEW rate, DOMAIN rate = D, \A t \in D : rate[t] \in Nat
        PROVE  LET terms == [t \in D |-> rate[t] * k[t]]
               IN  terms \in [D -> Nat] /\ TpmOf(s, p, rate, elapsed) = Total(terms, D)
    <3>1. [t \in D |-> rate[t] * k[t]] = [t \in D |-> rate[t] * PostedTokens(s, p[t], elapsed)]
      OBVIOUS
    <3>2. LET terms == [t \in D |-> rate[t] * PostedTokens(s, p[t], elapsed)]
          IN  terms \in [D -> Nat] /\ TpmOf(s, p, rate, elapsed) = Total(terms, D)
      BY <2>1, TpmIs
    <3> QED
      BY <3>1, <3>2
  <2>2. /\ DOMAIN plan = D /\ DOMAIN post = D /\ DOMAIN rest = D /\ DOMAIN burst = D
        /\ \A t \in D : plan[t] \in Nat /\ post[t] \in Nat /\ rest[t] \in Nat /\ burst[t] \in Nat
    BY <1>3
  <2>3. PlannedTpm(s, p, factor, elapsed) = TpmOf(s, p, plan, elapsed)
    BY DEF PlannedTpm
  <2> HIDE DEF plan, burst, post, rest, k, D
  <2> QED
    BY <2>1, <2>2, <2>3
<1>5. Total(bursts, D) = Total(plans, D) + onTop
  <2>1. ASSUME NEW t \in D, ~(bursting /\ t = s.victim) PROVE bursts[t] = plans[t]
    <3>1. burst[t] = plan[t] /\ k[t] \in Nat
      BY <1>2, <1>3, <2>1
    <3> QED
      BY <3>1
  <2>2. CASE ~bursting
    <3>1. \A t \in D : plans[t] \in Int /\ bursts[t] = plans[t]
      BY <1>4, <2>1, <2>2
    <3>2. Total(bursts, D) = Total(plans, D) /\ Total(plans, D) \in Int
      <4> HIDE DEF plans, bursts, D
      <4> QED
        BY <1>1, <3>1, TotalSame, TotalPick
    <3> QED
      BY <2>2, <3>2
  <2>3. CASE bursting
    <3> DEFINE v == s.victim
               others == D \ {v}
               m == Current(s.bursts, elapsed).burst
    <3>1. v \in D /\ IsFiniteSet(others) /\ others \subseteq D
      BY <1>1, <2>3, FS_Subset
    <3>2. /\ \A t \in D : plans[t] \in Int /\ bursts[t] \in Int
          /\ \A t \in others : bursts[t] = plans[t]
      BY <1>4, <2>1
    <3>3. bursts[v] = plans[v] + onTop /\ onTop \in Int
      <4> DEFINE x == plan[v]
                 y == k[v]
      <4>1. x \in Nat /\ y \in Nat /\ m \in Nat
        BY <1>2, <1>3, <2>3, <3>1
      <4>2. bursts[v] = (x * m) * y /\ plans[v] = x * y
        BY <1>2, <1>3, <2>3, <3>1
      <4>3. onTop = (m - 1) * x * y
        BY <2>3
      <4> HIDE DEF x, y, m, bursts, plans, onTop
      <4>4. (x * m) * y = x * y + (m - 1) * x * y /\ (m - 1) * x * y \in Int
        BY <4>1
      <4> QED
        BY <4>2, <4>3, <4>4
    <3> HIDE DEF plans, bursts, onTop, D, v
    <3>4. /\ Total(bursts, D) = bursts[v] + Total(bursts, others)
          /\ Total(plans, D) = plans[v] + Total(plans, others)
      BY <1>1, <3>1, <3>2, TotalPick
    <3> HIDE DEF others
    <3>5. Total(bursts, others) = Total(plans, others) /\ Total(plans, others) \in Int
      BY <3>1, <3>2, TotalSame, TotalPick
    <3>6. plans[v] \in Int
      BY <3>1, <3>2
    <3> QED
      BY <3>3, <3>4, <3>5, <3>6
  <2> QED
    BY <2>2, <2>3
<1>6. \A t \in D : bursts[t] <= posts[t] /\ posts[t] <= both[t] /\ both[t] \in Nat
  <2>1. ASSUME NEW t \in D PROVE bursts[t] <= posts[t] /\ posts[t] <= both[t] /\ both[t] \in Nat
    <3> DEFINE a == burst[t]
               b == post[t]
               c == rest[t]
               y == k[t]
    <3>1. a \in Nat /\ b \in Nat /\ c \in Nat /\ y \in Nat /\ a <= b /\ b <= a + c
      BY <1>1, <1>3
    <3>2. bursts[t] = a * y /\ posts[t] = b * y /\ both[t] = a * y + c * y
      OBVIOUS
    <3> HIDE DEF a, b, c, y, bursts, posts, both
    <3>3. /\ a * y <= b * y /\ b * y <= (a + c) * y /\ (a + c) * y = a * y + c * y
          /\ a * y + c * y \in Nat
      BY <3>1
    <3> QED
      BY <3>2, <3>3
  <2> QED
    BY <2>1
<1>7. /\ Total(bursts, D) <= Total(posts, D) /\ Total(posts, D) <= Total(both, D)
      /\ Total(both, D) = Total(bursts, D) + Total(rests, D)
  <2>1. both \in [D -> Nat]
    BY <1>6
  <2>2. \A t \in D : bursts[t] \in Int /\ rests[t] \in Int /\ both[t] = bursts[t] + rests[t]
    BY <1>4
  <2> HIDE DEF plan, burst, post, rest, k, D, bursts, posts, both, rests
  <2> QED
    BY <1>1, <1>4, <1>6, <2>1, <2>2, TotalMonotone, TotalPlus
<1>8. LET expected == PlannedTpm(s, p, factor, elapsed) + onTop
          posted == TpmOf(s, p, post, elapsed)
      IN  expected <= posted /\ posted <= expected + TpmOf(s, p, rest, elapsed)
  <2> HIDE DEF plan, burst, post, rest, k, D, bursts, posts, both, rests, onTop
  <2> QED
    BY <1>4, <1>5, <1>7
<1>9. onTop = IF s.victim \in D /\ s.bursts # <<>>
              THEN (Current(s.bursts, elapsed).burst - 1)
                      * PlannedRpm(p, factor, s.victim)
                      * PostedTokens(s, p[s.victim], elapsed)
              ELSE 0
  OBVIOUS
<1> HIDE DEF onTop
<1> QED
  BY <1>8, <1>9 DEF PostedAsPlanned

\* Whatever the file and the name of a run say.
LEMMA LoadRight ==
    \A s \in Scenarios, p \in Fleets, brief \in BOOLEAN, pct \in LoadPcts, elapsed \in Moments :
        OfferedAsNamed(s, p, brief, pct, elapsed)
BY PlannedRight, PostedRight DEF OfferedAsNamed

-----------------------------------------------------------------------------
(***************************************************************************)
(* The dates of any legible trace.                                         *)
(***************************************************************************)

\* Whole bins.
LEMMA Multiples ==
    ASSUME NEW a \in Nat
    PROVE  /\ a \div BinS \in Nat
           /\ (a \div BinS) * BinS <= a /\ a < (a \div BinS) * BinS + BinS
           /\ \A k \in Nat : k * BinS <= a => k <= a \div BinS
<1> DEFINE q == a \div BinS
<1>1. BinS \in Nat /\ BinS > 0
  BY ContractionAssumption
<1>2. q \in Nat /\ q * BinS <= a /\ a < q * BinS + BinS
  BY <1>1
<1>3. ASSUME NEW k \in Nat, k * BinS <= a, k > q PROVE FALSE
  <2> HIDE DEF q
  <2>1. k * BinS >= (q + 1) * BinS
    BY <1>1, <1>2, <1>3
  <2>2. (q + 1) * BinS = q * BinS + BinS
    BY <1>1, <1>2
  <2>3. k * BinS \in Int /\ q * BinS \in Int
    BY <1>1, <1>2
  <2> QED
    BY <1>1, <1>2, <1>3, <2>1, <2>2, <2>3
<1> HIDE DEF q
<1>4. \A k \in Nat : k * BinS <= a => k <= q
  BY <1>2, <1>3
<1> QED
  BY <1>2, <1>4 DEF q

\* The first and the last of a finite set of numbers.
LEMMA Extremes ==
    ASSUME NEW S \in SUBSET Int, S # {}, IsFiniteSet(S)
    PROVE  /\ Min(S) \in S /\ \A x \in S : Min(S) <= x
           /\ Max(S) \in S /\ \A x \in S : x <= Max(S)
<1> DEFINE up == [x \in S |-> x]
           down == [x \in S |-> -x]
<1>1. \A x \in S : up[x] \in Int /\ down[x] \in Int
  OBVIOUS
<1>2. \E j \in S : \A x \in S : up[x] <= up[j]
  <2> HIDE DEF up, down
  <2> QED
    BY <1>1, Greatest
<1>3. \E j \in S : \A x \in S : down[x] <= down[j]
  <2> HIDE DEF up, down
  <2> QED
    BY <1>1, Greatest
<1>4. \E j \in S : \A x \in S : x <= j
  BY <1>2
<1>5. \E j \in S : \A x \in S : j <= x
  BY <1>3
<1>6. Min(S) \in S /\ \A x \in S : Min(S) <= x
  BY <1>5 DEF Min
<1>7. Max(S) \in S /\ \A x \in S : x <= Max(S)
  BY <1>4 DEF Max
<1> QED
  BY <1>6, <1>7

\* The first of any numbers.
LEMMA FirstIs ==
    ASSUME NEW S \in SUBSET Nat, S # {}
    PROVE  First(S) \in S /\ \A x \in S : First(S) <= x
<1>1. PICK b \in S : TRUE
  OBVIOUS
<1> DEFINE T == {x \in S : x <= b}
<1>2. T \in SUBSET Int /\ T # {} /\ T \in SUBSET (0 .. b)
  <2>1. b \in T
    OBVIOUS
  <2>2. \A x \in T : x \in Int /\ x \in 0 .. b
    OBVIOUS
  <2> QED
    BY <2>1, <2>2
<1>3. IsFiniteSet(T)
  <2>1. IsFiniteSet(0 .. b)
    BY FS_Interval
  <2> HIDE DEF T
  <2> QED
    BY <1>2, <2>1, FS_Subset
<1>4. Min(T) \in T /\ \A x \in T : Min(T) <= x
  <2> HIDE DEF T
  <2> QED
    BY <1>2, <1>3, Extremes
<1>5. \E m \in S : \A x \in S : m <= x
  <2>1. \A x \in S : x \in T \/ b < x
    OBVIOUS
  <2>2. Min(T) \in S /\ Min(T) <= b /\ Min(T) \in Nat
    BY <1>4
  <2> HIDE DEF T
  <2>3. \A x \in S : Min(T) <= x
    BY <1>1, <1>4, <2>1, <2>2
  <2> QED
    BY <2>2, <2>3
<1>6. Min(S) \in S /\ \A x \in S : Min(S) <= x
  BY <1>5 DEF Min
<1> QED
  BY <1>6 DEF First

\* An average is on the side of a mark that all of its terms are on.
LEMMA Averages ==
    ASSUME NEW log, NEW S \in SUBSET DOMAIN log, IsFiniteSet(S), S # {},
           Normal(log) \in SUBSET DOMAIN log, IsFiniteSet(Normal(log)),
           \A e \in DOMAIN log : log[e].cap \in Nat,
           NEW num \in Nat, NEW den \in Nat
    PROVE  LET all == Compare(log, S, Normal(log), num, den)
               one(e) == Against(log, log[e].cap, num, den)
           IN  /\ (\A e \in S : one(e) <= 0) => all <= 0
               /\ (\A e \in S : one(e) > 0) => all > 0
               /\ (\A e \in S : one(e) >= 0) => all >= 0
               /\ (\A e \in S : one(e) < 0) => all < 0
<1> DEFINE P == Normal(log)
           v == [e \in DOMAIN log |-> log[e].cap]
           p == Cardinality(P)
           n == Estimates(log, P)
           scaled == [e \in S |-> (den * p) * v[e]]
           m == -(num * n)
           less == [e \in S |-> m]
           each == [e \in S |-> Against(log, log[e].cap, num, den)]
<1>1. p \in Nat /\ Cardinality(S) \in Nat
  BY FS_CardinalityType
<1>2. Estimates(log, S) = Total(v, S) /\ n = Total(v, P)
  BY DEF Estimates, SumFunctionOnSet, FoldFunctionOnSet, Total, MapThenSumSet, MapThenFoldSet
<1>3. (\A e \in S : v[e] \in Nat) /\ (\A e \in P : v[e] \in Nat)
  OBVIOUS
<1>4. Total(v, S) \in Int /\ Total(v, P) \in Int
  <2> HIDE DEF v, P
  <2>1. (\A e \in S : v[e] \in Int) /\ (\A e \in P : v[e] \in Int) /\ IsFiniteSet(P)
    BY <1>3 DEF P
  <2>2. Total(v, S) \in Int
    BY <2>1, TotalSigns
  <2>3. P # {} => Total(v, P) \in Int
    BY <2>1, TotalSigns
  <2>4. P = {} => Total(v, P) \in Int
    BY TotalEmpty
  <2> QED
    BY <2>2, <2>3, <2>4
<1>5. \A e \in S : Against(log, log[e].cap, num, den) = den * v[e] * p - num * n
  BY DEF Against
<1>6. Compare(log, S, P, num, den) = den * Total(v, S) * p - num * n * Cardinality(S)
  BY <1>2 DEF Compare
<1> HIDE DEF v, p, n
<1>7. den * p \in Int /\ m \in Int
  BY <1>1, <1>2, <1>4
<1>8. \A e \in S : each[e] = scaled[e] + less[e] /\ scaled[e] \in Int /\ less[e] \in Int
  <2>1. \A a, b, c, d \in Int : a * b * c - d = (a * c) * b + (-d)
    OBVIOUS
  <2>2. num * n \in Int /\ p \in Int /\ den \in Int
    BY <1>1, <1>2, <1>4
  <2>3. ASSUME NEW e \in S
        PROVE  each[e] = scaled[e] + less[e] /\ scaled[e] \in Int /\ less[e] \in Int
    <3>1. v[e] \in Int
      BY <1>3
    <3>2. den * v[e] * p - num * n = (den * p) * v[e] + m
      BY <2>1, <2>2, <3>1
    <3>3. (den * p) * v[e] \in Int
      BY <1>7, <3>1
    <3> QED
      BY <1>5, <1>7, <3>2, <3>3
  <2> QED
    BY <2>3
<1>9. \A e \in S : v[e] \in Int /\ scaled[e] = (den * p) * v[e]
  BY <1>3
<1>10. \A e \in S : less[e] = m
  OBVIOUS
<1>11. \A e \in S : each[e] = Against(log, log[e].cap, num, den) /\ each[e] \in Int
  BY <1>8
<1> HIDE DEF each, scaled, less, m
<1>12. Total(each, S) = Total(scaled, S) + Total(less, S)
  BY <1>8, TotalPlus
<1>13. Total(scaled, S) = (den * p) * Total(v, S)
  BY <1>7, <1>9, TotalScaled
<1>14. Total(less, S) = m * Cardinality(S)
  BY <1>7, <1>10, TotalConstant
<1>15. Compare(log, S, P, num, den) = Total(each, S)
  <2>1. \A a, b, c, d, k \in Int : a * b * c - d * k = (a * c) * b + (-d) * k
    OBVIOUS
  <2>2. num * n \in Int /\ p \in Int /\ den \in Int /\ Cardinality(S) \in Int
    BY <1>1, <1>2, <1>4
  <2>3. den * Total(v, S) * p - (num * n) * Cardinality(S)
           = (den * p) * Total(v, S) + m * Cardinality(S)
    BY <1>4, <2>1, <2>2 DEF m
  <2> QED
    BY <1>6, <1>12, <1>13, <1>14, <2>3
<1>16. /\ (\A e \in S : each[e] >= 0) => Total(each, S) >= 0
       /\ (\A e \in S : each[e] > 0) => Total(each, S) > 0
       /\ (\A e \in S : each[e] <= 0) => Total(each, S) <= 0
       /\ (\A e \in S : each[e] < 0) => Total(each, S) < 0
  BY <1>11, TotalSigns
<1> QED
  BY <1>11, <1>15, <1>16 DEF P

Start(trace) == Beginning(LogOf(trace))
Stop(trace) == Max({LogOf(trace)[e].at : e \in DOMAIN LogOf(trace)})

\* The requests of a trace.
LEMMA RequestsAre ==
    ASSUME NEW trace \in Traces
    PROVE  LET log == LogOf(trace)
               arrivals == {e.at : e \in trace.requests}
           IN  /\ DOMAIN log = trace.requests /\ IsFiniteSet(trace.requests)
               /\ Start(trace) = Min(arrivals) /\ Stop(trace) = Max(arrivals)
               /\ Start(trace) \in Nat /\ Stop(trace) \in Nat
               /\ \E e \in trace.requests : e.at = Start(trace)
               /\ \A e \in trace.requests :
                     /\ e.at \in Nat /\ Start(trace) <= e.at /\ e.at <= Stop(trace)
                     /\ log[e].at = e.at /\ Since(log, e) = e.at - Start(trace)
                     /\ log[e].cap = trace.est[e.stamp] /\ log[e].cap \in Nat
<1> DEFINE R == trace.requests
           log == LogOf(trace)
           arrivals == {e.at : e \in R}
<1>1. /\ R # {} /\ IsFiniteSet(R)
      /\ \A e \in R : e.at \in Nat /\ e.stamp \in DOMAIN trace.est
      /\ \A m \in DOMAIN trace.est : trace.est[m] \in Nat
  BY TraceAssumption DEF Legible
<1>2. /\ DOMAIN log = R
      /\ \A e \in R : log[e].at = e.at /\ log[e].cap = trace.est[e.stamp]
  BY DEF LogOf
<1> HIDE DEF R, log
<1>3. {log[e].at : e \in DOMAIN log} = arrivals
  BY <1>2
<1>4. arrivals \in SUBSET Int /\ arrivals # {} /\ \A t \in arrivals : t \in Nat
  BY <1>1
<1>5. IsFiniteSet(arrivals)
  <2> DEFINE f == [e \in R |-> e.at]
  <2>1. f \in Surjection(R, arrivals)
    BY DEF Surjection
  <2> HIDE DEF f, arrivals
  <2> QED
    BY <1>1, <2>1, FS_Surjection
<1>6. Start(trace) = Min(arrivals) /\ Stop(trace) = Max(arrivals)
  BY <1>3 DEF Start, Stop, Beginning, log
<1>7. \A e \in R : e.at \in arrivals
  OBVIOUS
<1>8. \A t \in arrivals : \E e \in R : e.at = t
  OBVIOUS
<1> HIDE DEF arrivals
<1>9. /\ Min(arrivals) \in arrivals /\ \A t \in arrivals : Min(arrivals) <= t
      /\ Max(arrivals) \in arrivals /\ \A t \in arrivals : t <= Max(arrivals)
  BY <1>4, <1>5, Extremes
<1>10. \A e \in R : Since(log, e) = e.at - Start(trace)
  BY <1>2 DEF Since, Start, log
<1>11. \A e \in R : log[e].cap \in Nat
  BY <1>1, <1>2
<1>12. Start(trace) \in Nat /\ Stop(trace) \in Nat
  BY <1>4, <1>6, <1>9
<1>13. \E e \in R : e.at = Start(trace)
  BY <1>6, <1>8, <1>9
<1>14. \A e \in R : e.at \in Nat /\ Start(trace) <= e.at /\ e.at <= Stop(trace)
  BY <1>1, <1>6, <1>7, <1>9
<1> QED
  BY <1>1, <1>2, <1>6, <1>10, <1>11, <1>12, <1>13, <1>14 DEF R, log, arrivals

\* A window of it.
LEMMA WindowIs ==
    ASSUME NEW trace \in Traces, NEW from, NEW to
    PROVE  LET S == Within(LogOf(trace), from, to)
           IN  /\ S \in SUBSET DOMAIN LogOf(trace) /\ IsFiniteSet(S)
               /\ \A e : e \in S <=> /\ e \in trace.requests
                                     /\ from <= e.at - Start(trace)
                                     /\ e.at - Start(trace) < to
<1> DEFINE S == Within(LogOf(trace), from, to)
<1>1. \A e : e \in S <=> /\ e \in trace.requests
                         /\ from <= e.at - Start(trace) /\ e.at - Start(trace) < to
  BY RequestsAre DEF Within
<1>2. S \in SUBSET DOMAIN LogOf(trace)
  BY DEF Within
<1>3. IsFiniteSet(DOMAIN LogOf(trace))
  BY RequestsAre
<1> HIDE DEF S
<1>4. IsFiniteSet(S)
  BY <1>2, <1>3, FS_Subset
<1> QED
  BY <1>1, <1>2, <1>4 DEF S

\* The bins that hold an event are all from the first to the last.
LEMMA BinsAre ==
    ASSUME NEW trace \in Traces
    PROVE  LET log == LogOf(trace)
           IN  /\ \A x \in BinsOf(log) : x \in Nat /\ Bin(log, x) # {}
               /\ \A k \in Nat : k * BinS <= Stop(trace) - Start(trace)
                                 => k * BinS \in BinsOf(log)
<1> DEFINE log == LogOf(trace)
           R == trace.requests
           start == Start(trace)
           since(e) == e.at - start
           length == Stop(trace) - start
<1>1. /\ DOMAIN log = R /\ length \in Nat /\ start \in Nat
      /\ \A e \in R : since(e) \in Nat /\ Since(log, e) = since(e)
  <2>1. /\ DOMAIN log = R /\ start \in Nat /\ Stop(trace) \in Nat /\ \E e \in R : e.at = start
        /\ \A e \in R : /\ e.at \in Nat /\ start <= e.at /\ e.at <= Stop(trace)
                        /\ Since(log, e) = since(e)
    BY RequestsAre
  <2> HIDE DEF log, R, start
  <2> QED
    BY <2>1
<1>2. BinS \in Nat /\ BinS > 0
  BY ContractionAssumption
<1>3. BinsOf(log) = {(since(e) \div BinS) * BinS : e \in R}
  BY <1>1 DEF BinsOf
<1>4. ASSUME NEW e \in R
      PROVE  LET x == (since(e) \div BinS) * BinS IN x \in Nat /\ e \in Bin(log, x)
  <2> DEFINE q == since(e) \div BinS
             x == q * BinS
  <2>1. since(e) \in Nat
    BY <1>1
  <2>2. q \in Nat /\ x <= since(e) /\ since(e) < x + BinS
    <3> HIDE DEF since
    <3> QED
      BY <2>1, Multiples
  <2> HIDE DEF q
  <2>3. x \in Nat
    BY <1>2, <2>2
  <2>4. e \in Within(log, x, x + BinS)
    BY <2>2, WindowIs
  <2> QED
    BY <2>3, <2>4 DEF Bin, q
<1>5. \A x \in BinsOf(log) : x \in Nat /\ Bin(log, x) # {}
  <2> HIDE DEF log, since, R
  <2> QED
    BY <1>3, <1>4
<1>6. ASSUME NEW k \in Nat, k * BinS <= length PROVE k * BinS \in BinsOf(log)
  <2>1. k \in 0 .. length \div BinS
    <3> HIDE DEF length
    <3> QED
      BY <1>1, <1>6, Multiples
  <2> DEFINE arrivals == {e.at : e \in R}
  <2>2. start = Min(arrivals) /\ Stop(trace) = Max(arrivals)
    BY RequestsAre
  <2>3. \A j \in 0 .. (Max(arrivals) - Min(arrivals)) \div BinS :
           \E t \in arrivals : (t - Min(arrivals)) \div BinS = j
    BY TraceAssumption DEF Legible
  <2> HIDE DEF start
  <2>4. PICK t \in arrivals : (t - start) \div BinS = k
    BY <2>1, <2>2, <2>3
  <2>5. PICK e \in R : e.at = t
    OBVIOUS
  <2> QED
    BY <1>3, <2>4, <2>5
<1> QED
  BY <1>5, <1>6

\* What is taken as normal.
LEMMA NormalIs ==
    ASSUME NEW trace \in Traces
    PROVE  LET P == Normal(LogOf(trace))
           IN  P \in SUBSET DOMAIN LogOf(trace) /\ IsFiniteSet(P) /\ P # {}
<1> DEFINE log == LogOf(trace)
           near == Within(log, PressureStart - Lead, PressureStart)
           before == Within(log, 0, PressureStart)
<1>1. PressureStart \in Nat /\ PressureStart > 0
  BY ContractionAssumption
<1>2. \A w \in {near, before} : w \in SUBSET DOMAIN log /\ IsFiniteSet(w)
  <2>1. near \in SUBSET DOMAIN log /\ IsFiniteSet(near)
    BY WindowIs
  <2>2. before \in SUBSET DOMAIN log /\ IsFiniteSet(before)
    BY WindowIs
  <2> HIDE DEF near, before, log
  <2> QED
    BY <2>1, <2>2
<1>3. before # {}
  <2>1. PICK e \in trace.requests : e.at = Start(trace)
    BY RequestsAre
  <2>2. Start(trace) \in Nat
    BY RequestsAre
  <2>3. 0 <= e.at - Start(trace) /\ e.at - Start(trace) < PressureStart
    BY <1>1, <2>1, <2>2
  <2> QED
    BY <2>3, WindowIs
<1>4. Normal(log) = IF near # {} THEN near ELSE before
  BY DEF Normal
<1> HIDE DEF log, near, before
<1>5. Normal(log) \in {near, before} /\ Normal(log) # {}
  BY <1>3, <1>4
<1> QED
  BY <1>2, <1>5 DEF log

\* When the estimate of an event was looked at.
Stamped(trace, e) == e.stamp - Start(trace)

\* A bin that passes has an event whose estimate does, and one passes if all of
\* its events do.
LEMMA Tests ==
    ASSUME NEW trace \in Traces, NEW x \in BinsOf(LogOf(trace))
    PROVE  LET log == LogOf(trace)
               P == Normal(log)
               S == Bin(log, x)
           IN  /\ \A percent \in {20, 50} :
                     LET all == Compare(log, S, P, 100 - percent, 100)
                         low == LowAt(trace, percent)
                     IN  /\ all <= 0 => \E e \in S : Stamped(trace, e) \in low
                         /\ (\A e \in S : Stamped(trace, e) \in low) => all <= 0
               /\ LET all == Compare(log, S, P, 9, 10)
                      high == HighAt(trace)
                  IN  /\ all >= 0 => \E e \in S : Stamped(trace, e) \in high
                      /\ (\A e \in S : Stamped(trace, e) \in high) => all >= 0
<1> DEFINE log == LogOf(trace)
           P == Normal(log)
           S == Bin(log, x)
           est == trace.est
           start == Start(trace)
           one(e, num, den) == Against(log, log[e].cap, num, den)
<1>1. S # {} /\ S \in SUBSET DOMAIN log /\ IsFiniteSet(S)
  BY BinsAre, WindowIs DEF Bin
<1>2. P \in SUBSET DOMAIN log /\ IsFiniteSet(P)
  BY NormalIs
<1>3. DOMAIN log = trace.requests /\ start \in Nat /\ start = Beginning(log)
  BY RequestsAre DEF Start
<1>4. \A e \in DOMAIN log : /\ log[e].cap \in Nat /\ log[e].cap = est[e.stamp]
                           /\ e.stamp \in DOMAIN est
  BY RequestsAre, TraceAssumption DEF Legible
<1>5. DOMAIN est \subseteq Nat
  BY TraceAssumption DEF Legible
<1>6. ASSUME NEW num \in Nat, NEW den \in Nat
      PROVE  LET all == Compare(log, S, P, num, den)
             IN  /\ (\A e \in S : one(e, num, den) <= 0) => all <= 0
                 /\ (\A e \in S : one(e, num, den) > 0) => all > 0
                 /\ (\A e \in S : one(e, num, den) >= 0) => all >= 0
                 /\ (\A e \in S : one(e, num, den) < 0) => all < 0
  <2> HIDE DEF log, S
  <2> QED
    BY <1>1, <1>2, <1>4, Averages
<1>7. ASSUME NEW num \in Nat, NEW den \in Nat
      PROVE  Compare(log, S, P, num, den) \in Int /\ \A e \in S : one(e, num, den) \in Int
  <2>1. Cardinality(P) \in Nat /\ Cardinality(S) \in Nat
    BY <1>1, <1>2, FS_CardinalityType
  <2>2. \A T \in SUBSET DOMAIN log : IsFiniteSet(T) => Estimates(log, T) \in Int
    <3> DEFINE v == [e \in DOMAIN log |-> log[e].cap]
    <3>1. \A T : Estimates(log, T) = Total(v, T)
      BY DEF Estimates, SumFunctionOnSet, FoldFunctionOnSet, Total, MapThenSumSet, MapThenFoldSet
    <3>2. \A e \in DOMAIN log : v[e] \in Int
      BY <1>4
    <3> HIDE DEF v, log
    <3>3. ASSUME NEW T \in SUBSET DOMAIN log, IsFiniteSet(T) PROVE Total(v, T) \in Int
      <4>1. CASE T = {}
        BY <4>1, TotalEmpty
      <4>2. CASE T # {}
        <5>1. \A e \in T : v[e] \in Int
          BY <3>2
        <5> QED
          BY <3>3, <4>2, <5>1, TotalSigns
      <4> QED
        BY <4>1, <4>2
    <3> QED
      BY <3>1, <3>3
  <2>3. Estimates(log, P) \in Int /\ Estimates(log, S) \in Int
    BY <1>1, <1>2, <2>2
  <2> HIDE DEF log, P, S
  <2>4. \A e \in S : log[e].cap \in Nat
    BY <1>1, <1>4
  <2>5. \A a, b, c, d \in Int : a * b * c \in Int /\ a * b * c - d \in Int
    OBVIOUS
  <2>6. Compare(log, S, P, num, den) \in Int
    <3>1. num * Estimates(log, P) * Cardinality(S) \in Int
      BY <2>1, <2>3, <2>5
    <3> QED
      BY <2>1, <2>3, <2>5, <3>1 DEF Compare
  <2>7. \A e \in S : Against(log, log[e].cap, num, den) \in Int
    <3>1. num * Estimates(log, P) \in Int
      BY <2>3
    <3> QED
      BY <2>1, <2>4, <2>5, <3>1 DEF Against, P
  <2> QED
    BY <2>6, <2>7
<1>8. ASSUME NEW percent \in {20, 50}, NEW e \in S
      PROVE  Stamped(trace, e) \in LowAt(trace, percent) <=> one(e, 100 - percent, 100) <= 0
  <2>1. e.stamp \in DOMAIN est /\ log[e].cap = est[e.stamp] /\ e.stamp \in Nat
    BY <1>1, <1>4, <1>5
  <2>2. LowAt(trace, percent) =
           {m - start : m \in {m \in DOMAIN est : Against(log, est[m], 100 - percent, 100) <= 0}}
    BY <1>3 DEF LowAt
  <2> HIDE DEF log, est, start, S
  <2>3. \A m \in DOMAIN est : m - start = e.stamp - start => m = e.stamp
    BY <1>3, <1>5, <2>1
  <2> QED
    BY <2>1, <2>2, <2>3 DEF Stamped, start
<1>9. ASSUME NEW e \in S
      PROVE  Stamped(trace, e) \in HighAt(trace) <=> one(e, 9, 10) >= 0
  <2>1. e.stamp \in DOMAIN est /\ log[e].cap = est[e.stamp] /\ e.stamp \in Nat
    BY <1>1, <1>4, <1>5
  <2>2. HighAt(trace) = {m - start : m \in {m \in DOMAIN est : Against(log, est[m], 9, 10) >= 0}}
    BY <1>3 DEF HighAt
  <2> HIDE DEF log, est, start, S
  <2>3. \A m \in DOMAIN est : m - start = e.stamp - start => m = e.stamp
    BY <1>3, <1>5, <2>1
  <2> QED
    BY <2>1, <2>2, <2>3 DEF Stamped, start
<1> HIDE DEF log, P, S, est, start, one
<1>10. ASSUME NEW percent \in {20, 50}
       PROVE  LET all == Compare(log, S, P, 100 - percent, 100)
                  low == LowAt(trace, percent)
              IN  /\ all <= 0 => \E e \in S : Stamped(trace, e) \in low
                  /\ (\A e \in S : Stamped(trace, e) \in low) => all <= 0
  <2>1. 100 - percent \in Nat /\ 100 \in Nat
    OBVIOUS
  <2> DEFINE all == Compare(log, S, P, 100 - percent, 100)
  <2>2. /\ all \in Int /\ \A e \in S : one(e, 100 - percent, 100) \in Int
        /\ (\A e \in S : one(e, 100 - percent, 100) <= 0) => all <= 0
        /\ (\A e \in S : one(e, 100 - percent, 100) > 0) => all > 0
    BY <1>6, <1>7, <2>1
  <2> HIDE DEF all
  <2>3. all <= 0 => \E e \in S : one(e, 100 - percent, 100) <= 0
    BY <2>2
  <2> QED
    BY <1>8, <2>2, <2>3 DEF all
<1>11. LET all == Compare(log, S, P, 9, 10)
           high == HighAt(trace)
       IN  /\ all >= 0 => \E e \in S : Stamped(trace, e) \in high
           /\ (\A e \in S : Stamped(trace, e) \in high) => all >= 0
  <2> DEFINE all == Compare(log, S, P, 9, 10)
  <2>2. /\ all \in Int /\ \A e \in S : one(e, 9, 10) \in Int
        /\ (\A e \in S : one(e, 9, 10) >= 0) => all >= 0
        /\ (\A e \in S : one(e, 9, 10) < 0) => all < 0
    BY <1>6, <1>7
  <2> HIDE DEF all
  <2>3. all >= 0 => \E e \in S : one(e, 9, 10) >= 0
    BY <2>2
  <2> QED
    BY <1>9, <2>2, <2>3 DEF all
<1> QED
  BY <1>10, <1>11 DEF log, P, S

\* The first bin from a date on.
LEMMA NextBin ==
    ASSUME NEW d \in Nat
    PROVE  \E k \in Nat : d <= k * BinS /\ k * BinS <= d + BinS - 1 /\ k * BinS \in Nat
<1> DEFINE a == d + BinS - 1
           k == a \div BinS
<1>1. BinS \in Nat /\ BinS > 0 /\ a \in Nat
  BY ContractionAssumption
<1>2. k \in Nat /\ k * BinS <= a /\ a < k * BinS + BinS
  <2> HIDE DEF a
  <2> QED
    BY <1>1, Multiples
<1>3. k * BinS \in Nat
  <2> HIDE DEF k
  <2> QED
    BY <1>1, <1>2
<1> DEFINE x == k * BinS
<1>4. x \in Nat /\ x <= d + BinS - 1 /\ d + BinS - 1 < x + BinS
  BY <1>2, <1>3
<1> HIDE DEF k, x
<1>5. d <= x
  BY <1>1, <1>4
<1> QED
  BY <1>2, <1>4, <1>5 DEF x

\* A date of bins that have an event with a moment that holds if they pass, and
\* pass if all of their events have.
LEMMA DateIs ==
    ASSUME NEW trace \in Traces, NEW passing \in SUBSET BinsOf(LogOf(trace)),
           NEW after \in Nat, NEW holding \in SUBSET Int,
           \A x \in passing : \E e \in Bin(LogOf(trace), x) : Stamped(trace, e) \in holding,
           \A x \in BinsOf(LogOf(trace)) :
              (\A e \in Bin(LogOf(trace), x) : Stamped(trace, e) \in holding) => x \in passing
    PROVE  Dates(FirstCapacity(passing, after), holding, after, Stop(trace) - Start(trace))
<1> DEFINE log == LogOf(trace)
           start == Start(trace)
           length == Stop(trace) - start
           H == {m \in holding : m >= after}
           S == {x \in passing : x >= after}
           truth == First(H)
           date == First(S)
<1>1. BinS \in Nat /\ BinS > 0 /\ Latency \in Nat /\ Never \notin Int
  BY ContractionAssumption
<1>2. H \in SUBSET Nat
  <2>1. \A m \in H : m \in Int /\ m >= after
    OBVIOUS
  <2>2. after \in Nat
    OBVIOUS
  <2> HIDE DEF H
  <2> QED
    BY <2>1, <2>2
<1>3. S \in SUBSET Nat
  BY BinsAre
<1>4. (H # {} => truth \in H /\ \A m \in H : truth <= m) /\ (H = {} => truth = Never)
  <2> HIDE DEF H
  <2> QED
    BY <1>2, FirstIs DEF First
<1>5. (S # {} => date \in S /\ \A x \in S : date <= x) /\ (S = {} => date = Never)
  <2> HIDE DEF S
  <2> QED
    BY <1>3, FirstIs DEF First
<1>6. ASSUME NEW x \in Nat, NEW e \in Bin(log, x)
      PROVE  /\ Stamped(trace, e) \in Nat
             /\ x <= Stamped(trace, e) /\ Stamped(trace, e) < x + BinS + Latency
  <2>1. e \in trace.requests /\ x <= e.at - start /\ e.at - start < x + BinS
    BY <1>6, WindowIs DEF Bin
  <2>2. e.at \in Nat /\ start \in Nat
    BY <2>1, RequestsAre
  <2>3. e.stamp \in e.at .. e.at + Latency
    BY <2>1, TraceAssumption DEF Legible
  <2> HIDE DEF start
  <2> QED
    BY <1>1, <2>1, <2>2, <2>3 DEF Stamped, start
<1>7. ASSUME date # Never
      PROVE  date >= after /\ truth # Never /\ date - truth > -(BinS + Latency)
  <2>1. date \in S /\ date \in Nat /\ date >= after /\ date \in passing
    BY <1>3, <1>5, <1>7
  <2>2. PICK e \in Bin(log, date) : Stamped(trace, e) \in holding
    BY <2>1
  <2> DEFINE m == Stamped(trace, e)
  <2>3. m \in Nat /\ date <= m /\ m < date + BinS + Latency
    <3> HIDE DEF date, log
    <3> QED
      BY <1>6, <2>1, <2>2
  <2>4. m \in H
    <3> HIDE DEF date, m
    <3> QED
      BY <2>1, <2>2, <2>3 DEF m
  <2> HIDE DEF H, S, date, truth, m
  <2>5. truth \in Nat /\ truth <= m
    BY <1>2, <1>4, <2>4
  <2> QED
    BY <1>1, <2>1, <2>3, <2>5
<1>8. ASSUME truth # Never, truth + BinS <= length,
             truth .. truth + 2 * BinS + Latency \subseteq holding
      PROVE  date # Never /\ date - truth < BinS
  <2>1. truth \in H /\ truth \in Nat /\ truth >= after
    <3>1. truth \in H
      BY <1>4, <1>8
    <3> QED
      BY <1>2, <3>1
  <2> HIDE DEF truth, date, length, log
  <2>2. PICK k \in Nat : /\ truth <= k * BinS /\ k * BinS <= truth + BinS - 1
                        /\ k * BinS \in Nat
    BY <2>1, NextBin
  <2>3. length \in Int
    <3>1. Start(trace) \in Nat /\ Stop(trace) \in Nat
      BY RequestsAre
    <3> QED
      BY <3>1 DEF length
  <2> DEFINE x == k * BinS
  <2>4. x \in Nat /\ truth <= x /\ x <= truth + BinS - 1
    BY <2>2
  <2>5. x <= length => x \in BinsOf(log)
    BY BinsAre DEF length, log
  <2> HIDE DEF x, H, S
  <2>6. x \in BinsOf(log)
    BY <1>1, <1>8, <2>1, <2>3, <2>4, <2>5
  <2>7. ASSUME NEW e \in Bin(log, x) PROVE Stamped(trace, e) \in holding
    <3>1. /\ Stamped(trace, e) \in Nat
          /\ x <= Stamped(trace, e) /\ Stamped(trace, e) < x + BinS + Latency
      BY <1>6, <2>4
    <3>2. Stamped(trace, e) \in truth .. truth + 2 * BinS + Latency
      BY <1>1, <2>1, <2>4, <3>1
    <3> QED
      BY <1>8, <3>2
  <2>8. x \in passing
    BY <2>6, <2>7 DEF log
  <2>9. x \in S
    BY <2>1, <2>4, <2>8 DEF S
  <2>10. date \in Nat /\ date <= x
    BY <1>3, <1>5, <2>9
  <2> QED
    BY <1>1, <2>1, <2>4, <2>10
<1>9. FirstCapacity(passing, after) = date
  BY DEF FirstCapacity
<1> QED
  BY <1>7, <1>8, <1>9 DEF Dates

\* A fall is looked for from some moment on.
LEMMA OnsetIs == \A trace \in Traces : Onset(LogOf(trace)) \in Nat
<1> SUFFICES ASSUME NEW trace \in Traces PROVE Onset(LogOf(trace)) \in Nat
  OBVIOUS
<1> DEFINE log == LogOf(trace)
           hurt == {e \in Within(log, PressureStart, PressureEnd) : log[e].hurt}
           S == {Since(log, e) : e \in hurt}
<1>1. FirstPressure(log) = First(S)
  BY DEF FirstPressure
<1>2. S \in SUBSET Nat
  <2>1. \A e \in hurt : e \in trace.requests
    BY WindowIs
  <2>2. \A e \in trace.requests : Since(log, e) \in Nat
    <3>1. Start(trace) \in Nat
      BY RequestsAre
    <3>2. \A e \in trace.requests : /\ e.at \in Nat /\ Start(trace) <= e.at
                                   /\ Since(log, e) = e.at - Start(trace)
      BY RequestsAre
    <3> QED
      BY <3>1, <3>2
  <2> HIDE DEF hurt
  <2> QED
    BY <2>1, <2>2
<1> HIDE DEF S, log
<1>3. First(S) # Never => First(S) \in Nat
  BY <1>2, FirstIs DEF First
<1> QED
  BY <1>1, <1>3, ContractionAssumption DEF Onset, log

\* The dates of any trace.
LEMMA TraceRight == \A trace \in Traces : Dated(trace)
<1> SUFFICES ASSUME NEW trace \in Traces PROVE Dated(trace)
  OBVIOUS
<1> DEFINE log == LogOf(trace)
           P == Normal(log)
           length == Stop(trace) - Start(trace)
<1>1. Start(trace) \in Nat /\ DOMAIN trace.est \subseteq Nat /\ P # {}
  BY RequestsAre, NormalIs, TraceAssumption DEF Legible
<1>2. ASSUME NEW percent \in {20, 50}
      PROVE  Dates(Contracted(log, percent), LowAt(trace, percent), Onset(log), length)
  <2> DEFINE passing == {x \in BinsOf(log) :
                            /\ P # {}
                            /\ Compare(log, Bin(log, x), P, 100 - percent, 100) <= 0}
  <2>1. \A x \in passing : \E e \in Bin(log, x) : Stamped(trace, e) \in LowAt(trace, percent)
    BY Tests
  <2>2. \A x \in BinsOf(log) :
           (\A e \in Bin(log, x) : Stamped(trace, e) \in LowAt(trace, percent)) => x \in passing
    BY <1>1, Tests
  <2>3. LowAt(trace, percent) \in SUBSET Int
    BY <1>1 DEF LowAt, Start
  <2>4. passing \in SUBSET BinsOf(log)
    OBVIOUS
  <2>5. Contracted(log, percent) = FirstCapacity(passing, Onset(log))
    BY DEF Contracted
  <2> HIDE DEF passing
  <2>6. Dates(FirstCapacity(passing, Onset(log)), LowAt(trace, percent), Onset(log), length)
    BY <2>1, <2>2, <2>3, <2>4, OnsetIs, DateIs
  <2> QED
    BY <2>5, <2>6
<1>3. Dates(Recovered(log), HighAt(trace), PressureEnd, length)
  <2> DEFINE passing == {x \in BinsOf(log) :
                            /\ P # {}
                            /\ Compare(log, Bin(log, x), P, 9, 10) >= 0}
  <2>1. \A x \in passing : \E e \in Bin(log, x) : Stamped(trace, e) \in HighAt(trace)
    BY Tests
  <2>2. \A x \in BinsOf(log) :
           (\A e \in Bin(log, x) : Stamped(trace, e) \in HighAt(trace)) => x \in passing
    BY <1>1, Tests
  <2>3. HighAt(trace) \in SUBSET Int
    BY <1>1 DEF HighAt, Start
  <2>4. passing \in SUBSET BinsOf(log) /\ PressureEnd \in Nat
    BY ContractionAssumption
  <2>5. Recovered(log) = FirstCapacity(passing, PressureEnd)
    BY DEF Recovered
  <2> HIDE DEF passing
  <2>6. Dates(FirstCapacity(passing, PressureEnd), HighAt(trace), PressureEnd, length)
    BY <2>1, <2>2, <2>3, <2>4, DateIs
  <2> QED
    BY <2>5, <2>6
<1> QED
  BY <1>2, <1>3 DEF Dated, Start, Stop

-----------------------------------------------------------------------------
(***************************************************************************)
(* What holds of a plan, a load and the dates of a trace, holds of a run.  *)
(***************************************************************************)

\* The groups of tenants have the shares of the total rate that traffic.py
\* plans, for any ten tenants or more; and, whatever tenants, prompts, budgets,
\* phases and percentages there are, a run offers the load of its name or of its
\* file, with the victim's burst on top of it and no tenant slower than the least
\* rate of locustfile.py 92.
THEOREM PlansKept == Spec => []PlansAsNamed
<1>1. PlansAsNamed
  BY SkewRight, LoadRight, CountAssumption DEF PlansAsNamed, AllPlans, AllLoads
<1> QED
  BY <1>1, PTL

\* However wide the bins are, whenever requests come, however long they take and
\* whatever the estimate does: it is dated as low, or as back, only if it was, no
\* more than a bin and the latency too early, and if it stays so it is dated less
\* than a bin too late at most.
THEOREM TracesRight == Spec => []TracesDated
<1>1. TracesDated
  BY TraceRight DEF TracesDated, AllTraces
<1> QED
  BY <1>1, PTL
=============================================================================
