------------------------------ MODULE BucketProofs ------------------------------
(***************************************************************************)
(* Proofs about TokenBuckets: what charges take is bounded by the refill,  *)
(* for any number of tasks and tenants, any limits and any length of the   *)
(* behaviour.                                                              *)
(*                                                                         *)
(* The bound is not inductive in terms of the present balance, as a call   *)
(* may carry an earlier time.  Sold states it for every time a call still  *)
(* to come may carry; Solvent, which the expiry of a bucket needs, states  *)
(* that the balance was not negative when the script last ran.             *)
(*                                                                         *)
(* What a look has found stays in both buckets until the charge, unless    *)
(* another task's call spoils it (Stands): a call with an earlier time     *)
(* takes nothing from what the bucket holds at a later one.                *)
(***************************************************************************)
EXTENDS BucketOvershoot, TLAPS

Due(b, now) == Cap[b] + (now - since + MaxDelay) * Rate[b]

Timely ==
    /\ since <= clock
    /\ \A t \in Tasks : Calling(t) => at[t] <= clock /\ clock <= at[t] + MaxDelay

Solvent ==
    \A b \in Buckets :
        ts[b] # None => /\ used[b] <= clock
                        /\ tokens[b] + (used[b] - ts[b]) * Rate[b] >= 0

Sold ==
    \A b \in Buckets : \A now \in Int :
        now >= clock - MaxDelay => paid[b] + Refilled(b, now) <= Due(b, now)

IInv == TypeOK /\ Timely /\ Solvent /\ Sold

-----------------------------------------------------------------------------
(***************************************************************************)
(* Arithmetic of one bucket.                                               *)
(***************************************************************************)

\* What the script computes, on plain numbers.
Fill(cap, rate, tok, s, now) ==
    IF s = None THEN cap
    ELSE IF tok + (now - s) * rate < cap THEN tok + (now - s) * rate ELSE cap

\* Multiplication by a rate is monotonic.
LEMMA ProductGrows ==
    ASSUME NEW m \in Int, NEW n \in Int, NEW r \in Nat, m <= n
    PROVE  m * r <= n * r
<1>1. (n - m) * r >= 0
  BY SMT
<1>2. (n - m) * r = n * r - m * r
  BY SMT
<1> QED
  BY <1>1, <1>2, SMT

\* Durations add up under a rate.
LEMMA ProductAdds ==
    ASSUME NEW m \in Int, NEW n \in Int, NEW r \in Nat
    PROVE  (m + n) * r = m * r + n * r /\ m * r \in Int
  BY SMT

\* A bucket written at time n, with a cost taken from it, has sold at any
\* other time what it had sold at time n.
LEMMA SoldAfterEval ==
    ASSUME NEW cap \in Nat, NEW rate \in Nat, NEW F \in Int, NEW n \in Nat,
           NEW m \in Int, NEW base \in Int, NEW p \in Int, NEW c \in Int,
           p + F <= cap + (n - base) * rate
    PROVE  (p + c) + Fill(cap, rate, F - c, n, m) <= cap + (m - base) * rate
<1>1. (n - base) * rate + (m - n) * rate = (m - base) * rate
  <2>1. (n - base) + (m - n) = m - base
    OBVIOUS
  <2> QED
    BY <2>1, ProductAdds
<1>2. (m - n) * rate \in Int /\ (n - base) * rate \in Int /\ (m - base) * rate \in Int
  BY ProductAdds
<1>3. Fill(cap, rate, F - c, n, m) <= (F - c) + (m - n) * rate
  BY <1>2 DEF Fill, None
<1>4. Fill(cap, rate, F - c, n, m) \in Int
  BY <1>2 DEF Fill, None
<1> QED
  BY <1>1, <1>2, <1>3, <1>4

\* The balance at the time of the call is not negative afterwards.
LEMMA SolventAfterEval ==
    ASSUME NEW cap \in Nat, NEW rate \in Nat, NEW tok \in Int, NEW s \in Int,
           NEW n \in Int, NEW u \in Int, NEW k \in Int, n <= k,
           s # None => u <= k /\ tok + (u - s) * rate >= 0
    PROVE  Fill(cap, rate, tok, s, n) + (k - n) * rate >= 0
<1>1. (k - n) * rate >= 0 /\ (k - n) * rate \in Int
  BY ProductGrows, ProductAdds
<1>2. CASE s = None \/ ~(tok + (n - s) * rate < cap)
  BY <1>1, <1>2 DEF Fill
<1>3. CASE s # None /\ tok + (n - s) * rate < cap
  <2>1. (n - s) * rate + (k - n) * rate = (k - s) * rate
    <3>1. (n - s) + (k - n) = k - s
      OBVIOUS
    <3> QED
      BY <3>1, ProductAdds
  <2>2. (u - s) * rate <= (k - s) * rate
    BY <1>3, ProductGrows
  <2>3. (u - s) * rate \in Int /\ (k - s) * rate \in Int /\ (n - s) * rate \in Int
    BY ProductAdds
  <2> QED
    BY <1>1, <1>3, <2>1, <2>2, <2>3 DEF Fill
<1> QED
  BY <1>2, <1>3

-----------------------------------------------------------------------------
(***************************************************************************)
(* The same on the buckets of a state.                                     *)
(***************************************************************************)

LEMMA Constants ==
    ASSUME NEW b \in Buckets
    PROVE  /\ Cap[b] \in Nat /\ Rate[b] \in Nat
           /\ PerMinute * Rate[b] = Cap[b]
           /\ MaxDelay \in Nat /\ MaxDelay <= 2 * PerMinute /\ PerMinute \in Nat
<1>1. Cap[b] \in Nat
  BY BucketAssumption DEF Cap, Buckets
<1>2. Rate[b] = Cap[b] \div PerMinute
  BY DEF Rate
<1>3. Rate[b] \in Nat
  BY <1>1, <1>2, BucketAssumption, SMT
<1>4. Rate[b] * PerMinute = Cap[b] /\ PerMinute \in Nat
  BY BucketAssumption
<1>5. MaxDelay \in Nat /\ MaxDelay <= 2 * PerMinute
  BY BucketAssumption
<1> QED
  BY <1>1, <1>3, <1>4, <1>5, SMT

LEMMA RefilledIsFill ==
    ASSUME NEW b, NEW now
    PROVE  Refilled(b, now) = Fill(Cap[b], Rate[b], tokens[b], ts[b], now)
  BY DEF Refilled, Fill

LEMMA RefilledType ==
    ASSUME TypeOK, NEW b \in Buckets, NEW now \in Int
    PROVE  Refilled(b, now) \in Int /\ Refilled(b, now) <= Cap[b]
<1>1. tokens[b] \in Int /\ ts[b] \in Int
  BY DEF TypeOK, None
<1>2. (now - ts[b]) * Rate[b] \in Int
  BY <1>1, Constants, ProductAdds
<1> QED
  BY <1>1, <1>2, Constants DEF Refilled

\* A bucket untouched for three minutes is full for every call to come.
LEMMA FullWhenExpired ==
    ASSUME IInv, NEW b \in Buckets, ts[b] # None,
           clock >= used[b] + 3 * PerMinute,
           NEW now \in Int, now >= clock - MaxDelay
    PROVE  Refilled(b, now) = Cap[b]
<1>1. /\ tokens[b] \in Int /\ ts[b] \in Int /\ used[b] \in Int /\ clock \in Int
      /\ tokens[b] + (used[b] - ts[b]) * Rate[b] >= 0
  BY DEF IInv, TypeOK, Solvent, None
<1>2. used[b] + PerMinute - ts[b] <= now - ts[b]
  BY <1>1, Constants
<1>3. (used[b] + PerMinute - ts[b]) * Rate[b] <= (now - ts[b]) * Rate[b]
  <2>1. used[b] + PerMinute - ts[b] \in Int /\ now - ts[b] \in Int
    BY <1>1, Constants
  <2> QED
    BY <2>1, <1>2, Constants, ProductGrows
<1>4. (used[b] + PerMinute - ts[b]) * Rate[b]
         = (used[b] - ts[b]) * Rate[b] + PerMinute * Rate[b]
  <2>1. used[b] + PerMinute - ts[b] = (used[b] - ts[b]) + PerMinute
    BY <1>1, Constants
  <2>2. used[b] - ts[b] \in Int
    BY <1>1
  <2> QED
    BY <2>1, <2>2, Constants, ProductAdds
<1>5. (now - ts[b]) * Rate[b] \in Int /\ (used[b] - ts[b]) * Rate[b] \in Int
  BY <1>1, Constants, ProductAdds
<1>6. tokens[b] + (now - ts[b]) * Rate[b] >= Cap[b]
  BY <1>1, <1>3, <1>4, <1>5, Constants
<1> QED
  BY <1>1, <1>5, <1>6, Constants DEF Refilled

\* The balance of no bucket is negative.
LEMMA BalanceNotNegative ==
    ASSUME IInv
    PROVE  NeverOverdrawn
<1> SUFFICES ASSUME NEW b \in Buckets PROVE Balance(b) >= 0
  BY DEF NeverOverdrawn
<1>1. /\ tokens[b] \in Int /\ ts[b] \in Int /\ used[b] \in Int /\ clock \in Int
      /\ ts[b] # None => /\ used[b] <= clock
                         /\ tokens[b] + (used[b] - ts[b]) * Rate[b] >= 0
  BY DEF IInv, TypeOK, Solvent, None
<1>2. Fill(Cap[b], Rate[b], tokens[b], ts[b], clock) + (clock - clock) * Rate[b] >= 0
  <2>1. Cap[b] \in Nat /\ Rate[b] \in Nat
    BY Constants
  <2>2. \A n \in Int : n <= clock =>
           Fill(Cap[b], Rate[b], tokens[b], ts[b], n) + (clock - n) * Rate[b] >= 0
    BY <1>1, <2>1, SolventAfterEval
  <2> QED
    BY <1>1, <2>2
<1>3. (clock - clock) * Rate[b] = 0
  BY <1>1, Constants, SMT
<1>4. Refilled(b, clock) \in Int
  BY <1>1, RefilledType DEF IInv
<1> QED
  BY <1>2, <1>3, <1>4, RefilledIsFill DEF Balance

\* What the script takes from b when it runs on the buckets of S.
Drawn(b, S, now, cost) ==
    IF b \in S /\ cost > 0 /\ Covers(b, now, cost) THEN cost ELSE 0

\* One execution of the script on the buckets of S keeps the invariant.
LEMMA EvalKeeps ==
    ASSUME IInv, NEW S, NEW now \in Nat, now <= clock, clock - MaxDelay <= now,
           NEW cost \in Nat, Eval(S, now, cost), UNCHANGED <<clock, since>>,
           \A b \in Buckets : paid'[b] = paid[b] + Drawn(b, S, now, cost)
    PROVE  /\ tokens' \in [Buckets -> Int] /\ \A b \in Buckets : tokens'[b] <= Cap[b]
           /\ ts' \in [Buckets -> (0 .. MaxTime) \cup {None}]
           /\ used' \in [Buckets -> 0 .. MaxTime]
           /\ Solvent' /\ Sold'
<1> DEFINE Cost(b) == IF cost > 0 /\ Covers(b, now, cost) THEN cost ELSE 0
<1>1. /\ clock \in 0 .. MaxTime /\ clock \in Nat /\ MaxTime \in Nat /\ since \in Int
      /\ clock' = clock /\ since' = since /\ MaxDelay \in Nat
      /\ ts \in [Buckets -> (0 .. MaxTime) \cup {None}]
      /\ used \in [Buckets -> 0 .. MaxTime]
  BY BucketAssumption DEF IInv, TypeOK
<1>2. \A b \in Buckets : /\ tokens[b] \in Int /\ tokens[b] <= Cap[b] /\ ts[b] \in Int
                         /\ used[b] \in Int /\ paid[b] \in Int
  BY DEF IInv, TypeOK, None
<1>3. \A b \in Buckets : Refilled(b, now) \in Int /\ Refilled(b, now) <= Cap[b]
  BY RefilledType DEF IInv
<1>4. \A b \in Buckets : Cost(b) \in Nat
  OBVIOUS
<1>5. \A b \in Buckets : b \in S =>
         /\ tokens'[b] = Refilled(b, now) - Cost(b)
         /\ ts'[b] = now /\ used'[b] = clock /\ paid'[b] = paid[b] + Cost(b)
  <2> SUFFICES ASSUME NEW b \in Buckets, b \in S
               PROVE  /\ tokens'[b] = Refilled(b, now) - Cost(b)
                      /\ ts'[b] = now /\ used'[b] = clock
                      /\ paid'[b] = paid[b] + Cost(b)
    OBVIOUS
  <2>1. tokens'[b] = IF cost > 0 /\ Covers(b, now, cost)
                     THEN Refilled(b, now) - cost ELSE Refilled(b, now)
    BY DEF Eval
  <2>2. ts'[b] = now /\ used'[b] = clock
    BY DEF Eval
  <2> QED
    BY <2>1, <2>2, <1>3 DEF Drawn
<1>6. \A b \in Buckets : b \notin S =>
         tokens'[b] = tokens[b] /\ ts'[b] = ts[b] /\ used'[b] = used[b] /\ paid'[b] = paid[b]
  <2> SUFFICES ASSUME NEW b \in Buckets, b \notin S
               PROVE  /\ tokens'[b] = tokens[b] /\ ts'[b] = ts[b]
                      /\ used'[b] = used[b] /\ paid'[b] = paid[b]
    OBVIOUS
  <2>1. tokens'[b] = tokens[b] /\ ts'[b] = ts[b] /\ used'[b] = used[b]
    BY DEF Eval
  <2> QED
    BY <2>1, <1>2 DEF Drawn
<1>7. /\ tokens' \in [Buckets -> Int] /\ \A b \in Buckets : tokens'[b] <= Cap[b]
      /\ ts' \in [Buckets -> (0 .. MaxTime) \cup {None}]
      /\ used' \in [Buckets -> 0 .. MaxTime]
  <2>1. /\ DOMAIN tokens' = Buckets /\ tokens' = [b \in Buckets |-> tokens'[b]]
        /\ ts' = [b \in Buckets |-> ts'[b]] /\ used' = [b \in Buckets |-> used'[b]]
    BY DEF Eval
  <2>2. \A b \in Buckets : tokens'[b] \in Int /\ tokens'[b] <= Cap[b]
    <3> SUFFICES ASSUME NEW b \in Buckets
                 PROVE  tokens'[b] \in Int /\ tokens'[b] <= Cap[b]
      OBVIOUS
    <3>1. CASE b \in S
      BY <3>1, <1>3, <1>4, <1>5, Constants
    <3>2. CASE b \notin S
      BY <3>2, <1>2, <1>6
    <3> QED
      BY <3>1, <3>2
  <2>3. \A b \in Buckets : ts'[b] \in (0 .. MaxTime) \cup {None} /\ used'[b] \in 0 .. MaxTime
    BY <1>1, <1>5, <1>6
  <2> QED
    BY <2>1, <2>2, <2>3
<1>8. Solvent'
  <2> SUFFICES ASSUME NEW b \in Buckets, ts'[b] # None
               PROVE  /\ used'[b] <= clock'
                      /\ tokens'[b] + (used'[b] - ts'[b]) * Rate[b] >= 0
    BY DEF Solvent
  <2>1. CASE b \in S
    <3>1. Fill(Cap[b], Rate[b], tokens[b], ts[b], now) + (clock - now) * Rate[b] >= 0
      <4>1. /\ tokens[b] \in Int /\ ts[b] \in Int /\ used[b] \in Int
            /\ clock \in Int /\ now \in Int
        BY <1>1, <1>2
      <4>2. ts[b] # None => /\ used[b] <= clock
                            /\ tokens[b] + (used[b] - ts[b]) * Rate[b] >= 0
        BY DEF IInv, Solvent
      <4>3. Cap[b] \in Nat /\ Rate[b] \in Nat
        BY Constants
      <4> QED
        BY <4>1, <4>2, <4>3, SolventAfterEval
    <3>2. Refilled(b, now) + (clock - now) * Rate[b] >= 0
      BY <3>1, RefilledIsFill
    <3>3. (clock - now) * Rate[b] >= 0 /\ (clock - now) * Rate[b] \in Int
      BY <1>1, Constants, ProductGrows, ProductAdds
    <3>4. Refilled(b, now) - Cost(b) >= 0 \/ Cost(b) = 0
      BY <1>3 DEF Covers
    <3>5. (Refilled(b, now) - Cost(b)) + (clock - now) * Rate[b] >= 0
      BY <1>3, <1>4, <3>2, <3>3, <3>4
    <3> QED
      BY <2>1, <3>5, <1>1, <1>5
  <2>2. CASE b \notin S
    BY <2>2, <1>1, <1>6 DEF IInv, Solvent
  <2> QED
    BY <2>1, <2>2
<1>9. Sold'
  <2> SUFFICES ASSUME NEW b \in Buckets, NEW m \in Int, m >= clock - MaxDelay
               PROVE  paid'[b] + Refilled(b, m)' <= Due(b, m)
    BY <1>1 DEF Sold, Due
  <2>1. CASE b \in S
    <3> DEFINE base == since - MaxDelay
    <3>1. paid[b] + Refilled(b, now) <= Cap[b] + (now - base) * Rate[b]
      <4>1. now - base = now - since + MaxDelay
        BY <1>1
      <4> QED
        BY <4>1, <1>1 DEF IInv, Sold, Due
    <3>2. (paid[b] + Cost(b)) + Fill(Cap[b], Rate[b], Refilled(b, now) - Cost(b), now, m)
             <= Cap[b] + (m - base) * Rate[b]
      <4>1. base \in Int /\ paid[b] \in Int /\ Refilled(b, now) \in Int /\ Cost(b) \in Int
        BY <1>1, <1>2, <1>3, <1>4
      <4>2. Cap[b] \in Nat /\ Rate[b] \in Nat
        BY Constants
      <4> HIDE DEF base, Cost
      <4> QED
        BY <4>1, <4>2, <3>1, SoldAfterEval
    <3>3. Refilled(b, m)' = Fill(Cap[b], Rate[b], tokens'[b], ts'[b], m)
      BY DEF Refilled, Fill
    <3>4. m - base = m - since + MaxDelay
      BY <1>1
    <3> HIDE DEF base, Cost
    <3> QED
      BY <2>1, <1>5, <3>2, <3>3, <3>4 DEF Due
  <2>2. CASE b \notin S
    <3>1. Refilled(b, m)' = Refilled(b, m)
      BY <2>2, <1>6 DEF Refilled
    <3> QED
      BY <2>2, <3>1, <1>6 DEF IInv, Sold
  <2> QED
    BY <2>1, <2>2
<1> QED
  BY <1>7, <1>8, <1>9

-----------------------------------------------------------------------------
(***************************************************************************)
(* The invariant.                                                          *)
(***************************************************************************)

LEMMA InitIInv == Init => IInv
<1> SUFFICES ASSUME Init PROVE IInv
  OBVIOUS
<1>1. TypeOK
  <2>1. \A b \in Buckets : Cap[b] >= 0
    BY Constants
  <2> QED
    BY <2>1, BucketAssumption DEF Init, TypeOK, None
<1>2. Timely
  BY BucketAssumption DEF Init, Timely, Calling
<1>3. Solvent
  BY DEF Init, Solvent
<1>4. Sold
  <2> SUFFICES ASSUME NEW b \in Buckets, NEW now \in Int, now >= clock - MaxDelay
               PROVE  paid[b] + Refilled(b, now) <= Due(b, now)
    BY DEF Sold
  <2>1. paid[b] = 0 /\ since = 0 /\ clock = 0 /\ Refilled(b, now) = Cap[b]
    BY DEF Init, Refilled
  <2>2. (now - since + MaxDelay) * Rate[b] >= 0 * Rate[b]
    <3>1. now - since + MaxDelay \in Int /\ 0 <= now - since + MaxDelay
      BY <2>1, Constants
    <3> QED
      BY <3>1, Constants, ProductGrows
  <2>3. (now - since + MaxDelay) * Rate[b] \in Int
    BY <2>1, Constants, ProductAdds
  <2> QED
    BY <2>1, <2>2, <2>3, Constants DEF Due
<1> QED
  BY <1>1, <1>2, <1>3, <1>4 DEF IInv

\* What a charge counts, bucket by bucket.
LEMMA PaidAfterCharge ==
    ASSUME TypeOK, NEW S, NEW now, NEW cost \in Nat, cost > 0,
           paid' = Plus(paid, Taken(S, now, cost), cost), S \subseteq Buckets
    PROVE  /\ paid' \in [Buckets -> Nat]
           /\ \A b \in Buckets : paid'[b] = paid[b] + Drawn(b, S, now, cost)
  BY DEF TypeOK, Plus, Taken, Drawn

\* A call of a task, with all or a part of its pipeline executed.
LEMMA CallKeeps ==
    ASSUME IInv, NEW t \in Tasks, Calling(t), NEW S, S \subseteq Buckets,
           \/ pc[t] = "look" /\ Eval(S, at[t], 0) /\ UNCHANGED paid
           \/ /\ pc[t] = "charge" /\ Eval(S, at[t], est[t])
              /\ paid' = Plus(paid, Taken(S, at[t], est[t]), est[t]),
           UNCHANGED <<clock, since>>
    PROVE  /\ tokens' \in [Buckets -> Int] /\ \A b \in Buckets : tokens'[b] <= Cap[b]
           /\ ts' \in [Buckets -> (0 .. MaxTime) \cup {None}]
           /\ used' \in [Buckets -> 0 .. MaxTime]
           /\ paid' \in [Buckets -> Nat]
           /\ Solvent' /\ Sold'
<1>1. at[t] \in Nat /\ at[t] <= clock /\ clock - MaxDelay <= at[t]
  <2>1. at[t] \in Nat /\ clock \in Nat /\ MaxDelay \in Nat
    BY BucketAssumption DEF IInv, TypeOK
  <2> QED
    BY <2>1 DEF IInv, Timely
<1>2. est[t] \in Nat /\ est[t] > 0
  <2>1. est[t] \in Estimates
    BY DEF IInv, TypeOK
  <2> QED
    BY <2>1, BucketAssumption
<1>3. CASE pc[t] = "look" /\ Eval(S, at[t], 0) /\ UNCHANGED paid
  <2>1. \A b \in Buckets : paid[b] \in Nat
    BY DEF IInv, TypeOK
  <2>2. \A b \in Buckets : paid'[b] = paid[b] + Drawn(b, S, at[t], 0)
    BY <1>3, <2>1 DEF Drawn
  <2>3. paid' \in [Buckets -> Nat]
    BY <1>3 DEF IInv, TypeOK
  <2> QED
    BY <1>1, <1>3, <2>2, <2>3, EvalKeeps
<1>4. CASE /\ pc[t] = "charge" /\ Eval(S, at[t], est[t])
           /\ paid' = Plus(paid, Taken(S, at[t], est[t]), est[t])
  <2>1. /\ paid' \in [Buckets -> Nat]
        /\ \A b \in Buckets : paid'[b] = paid[b] + Drawn(b, S, at[t], est[t])
    BY <1>2, <1>4, PaidAfterCharge DEF IInv
  <2> QED
    BY <1>1, <1>2, <1>4, <2>1, EvalKeeps
<1> QED
  BY <1>3, <1>4

LEMMA NextIInv == IInv /\ [Next]_vars => IInv'
<1> SUFFICES ASSUME IInv, [Next]_vars PROVE IInv'
  OBVIOUS
<1> USE DEF IInv
<1>0. /\ clock \in Nat /\ clock \in 0 .. MaxTime /\ MaxTime \in Nat /\ MaxDelay \in Nat
      /\ PerMinute \in Nat /\ since \in Nat /\ at \in [Tasks -> 0 .. MaxTime]
  BY BucketAssumption DEF TypeOK
<1>1. CASE UNCHANGED vars
  <2>1. TypeOK'
    BY <1>1 DEF TypeOK, vars, bucket, request, history
  <2>2. Timely' /\ Solvent'
    BY <1>1 DEF Timely, Calling, Solvent, vars, bucket, request, history
  <2>3. Sold'
    BY <1>1 DEF Sold, Due, Refilled, vars, bucket, request, history
  <2> QED
    BY <2>1, <2>2, <2>3
<1>2. ASSUME NEW t \in Tasks, NEW x \in Tenants, NEW e \in Estimates, Turn(t, x, e)
      PROVE  IInv'
  <2>1. TypeOK'
    BY <1>2 DEF Turn, Goto, TypeOK, bucket, history
  <2>2. Timely'
    BY <1>0, <1>2 DEF Turn, Goto, Timely, Calling, TypeOK, bucket, history
  <2>3. Solvent'
    BY <1>2 DEF Turn, Solvent, bucket, history
  <2>4. Sold'
    BY <1>2 DEF Turn, Sold, Due, Refilled, bucket, history
  <2> QED
    BY <2>1, <2>2, <2>3, <2>4
<1>3. ASSUME NEW t \in Tasks, Look(t)
      PROVE  IInv'
  <2>1. Both(t) \subseteq Buckets /\ Calling(t)
    BY <1>3 DEF Look, Both, Buckets, TypeOK, Calling
  <2>2. /\ tokens' \in [Buckets -> Int] /\ \A b \in Buckets : tokens'[b] <= Cap[b]
        /\ ts' \in [Buckets -> (0 .. MaxTime) \cup {None}]
        /\ used' \in [Buckets -> 0 .. MaxTime]
        /\ paid' \in [Buckets -> Nat] /\ Solvent' /\ Sold'
    BY <1>3, <2>1, CallKeeps DEF Look, history
  <2>3. /\ pc' \in [Tasks -> {"idle", "look", "admit", "charge"}]
        /\ at' \in [Tasks -> 0 .. MaxTime]
        /\ \A u \in Tasks : Calling(u)' => Calling(u) /\ at'[u] = at[u]
    BY <1>0, <1>3 DEF Look, Goto, Done, Calling, TypeOK
  <2>4. TypeOK'
    BY <1>3, <2>2, <2>3 DEF Look, TypeOK, request, history
  <2>5. Timely'
    BY <1>3, <2>3 DEF Look, Timely, request, history
  <2> QED
    BY <2>2, <2>4, <2>5
<1>4. ASSUME NEW t \in Tasks, Admit(t)
      PROVE  IInv'
  <2>1. TypeOK'
    BY <1>4 DEF Admit, Goto, TypeOK, bucket, request, history
  <2>2. Timely'
    BY <1>0, <1>4 DEF Admit, Goto, Timely, Calling, TypeOK, bucket, request, history
  <2>3. Solvent'
    BY <1>4 DEF Admit, Solvent, bucket, history
  <2>4. Sold'
    BY <1>4 DEF Admit, Sold, Due, Refilled, bucket, history
  <2> QED
    BY <2>1, <2>2, <2>3, <2>4
<1>5. ASSUME NEW t \in Tasks, Charge(t)
      PROVE  IInv'
  <2>1. Both(t) \subseteq Buckets /\ Calling(t)
    BY <1>5 DEF Charge, Both, Buckets, TypeOK, Calling
  <2>2. /\ tokens' \in [Buckets -> Int] /\ \A b \in Buckets : tokens'[b] <= Cap[b]
        /\ ts' \in [Buckets -> (0 .. MaxTime) \cup {None}]
        /\ used' \in [Buckets -> 0 .. MaxTime]
        /\ paid' \in [Buckets -> Nat] /\ Solvent' /\ Sold'
    BY <1>5, <2>1, CallKeeps DEF Charge
  <2>3. /\ pc' \in [Tasks -> {"idle", "look", "admit", "charge"}]
        /\ at' \in [Tasks -> 0 .. MaxTime]
        /\ \A u \in Tasks : Calling(u)' => Calling(u) /\ at'[u] = at[u]
    BY <1>0, <1>5 DEF Charge, Goto, Done, Calling, TypeOK
  <2>4. TypeOK'
    BY <1>5, <2>2, <2>3 DEF Charge, TypeOK, request
  <2>5. Timely'
    BY <1>5, <2>3 DEF Charge, Timely
  <2> QED
    BY <2>2, <2>4, <2>5
<1>6. ASSUME NEW t \in Tasks, Fail(t)
      PROVE  IInv'
  <2>1. \A S \in Prefixes(t) : S \subseteq Buckets
    BY DEF Prefixes, Both, Buckets, TypeOK
  <2>2. /\ pc' \in [Tasks -> {"idle", "look", "admit", "charge"}]
        /\ at' \in [Tasks -> 0 .. MaxTime]
        /\ \A u \in Tasks : Calling(u)' => Calling(u) /\ at'[u] = at[u]
    BY <1>0, <1>6 DEF Fail, Goto, Done, Calling, TypeOK
  <2>3. PICK S \in Prefixes(t) :
           \/ pc[t] = "look" /\ Eval(S, at[t], 0) /\ UNCHANGED paid
           \/ /\ pc[t] = "charge" /\ Eval(S, at[t], est[t])
              /\ paid' = Plus(paid, Taken(S, at[t], est[t]), est[t])
           \/ pc[t] = "admit" /\ S = {} /\ UNCHANGED <<bucket, paid>>
    BY <1>6 DEF Fail
  <2>4. UNCHANGED <<clock, since, request>>
    BY <1>6 DEF Fail
  <2>5. /\ tokens' \in [Buckets -> Int] /\ \A b \in Buckets : tokens'[b] <= Cap[b]
        /\ ts' \in [Buckets -> (0 .. MaxTime) \cup {None}]
        /\ used' \in [Buckets -> 0 .. MaxTime]
        /\ paid' \in [Buckets -> Nat] /\ Solvent' /\ Sold'
    <3>1. CASE UNCHANGED <<bucket, paid>>
      <4>1. Solvent'
        BY <2>4, <3>1 DEF Solvent, bucket
      <4>2. Sold'
        BY <2>4, <3>1 DEF Sold, Due, Refilled, bucket
      <4> QED
        BY <3>1, <4>1, <4>2 DEF TypeOK, bucket
    <3>2. CASE pc[t] = "look" /\ Eval(S, at[t], 0) /\ UNCHANGED paid
      BY <2>1, <2>4, <3>2, CallKeeps DEF Calling
    <3>3. CASE /\ pc[t] = "charge" /\ Eval(S, at[t], est[t])
               /\ paid' = Plus(paid, Taken(S, at[t], est[t]), est[t])
      BY <2>1, <2>4, <3>3, CallKeeps DEF Calling
    <3> QED
      BY <2>3, <3>1, <3>2, <3>3
  <2>6. TypeOK'
    BY <2>2, <2>4, <2>5 DEF TypeOK, request
  <2>7. Timely'
    BY <2>2, <2>4 DEF Timely
  <2> QED
    BY <2>5, <2>6, <2>7
<1>7. ASSUME NEW b \in Buckets, Expire(b)
      PROVE  IInv'
  <2>1. Cap[b] \in Nat
    BY Constants
  <2>2. TypeOK'
    BY <1>0, <1>7, <2>1 DEF Expire, TypeOK, None, request, history
  <2>3. Timely'
    BY <1>7 DEF Expire, Timely, Calling, request, history
  <2>4. Solvent'
    BY <1>7 DEF Expire, Solvent, TypeOK
  <2>5. Sold'
    <3> SUFFICES ASSUME NEW c \in Buckets, NEW now \in Int, now >= clock - MaxDelay
                 PROVE  paid[c] + Refilled(c, now)' <= Due(c, now)
      BY <1>7 DEF Expire, Sold, Due, history
    <3>1. paid[c] + Refilled(c, now) <= Due(c, now)
      BY DEF Sold
    <3>2. CASE c = b
      <4>1. Refilled(b, now) = Cap[b]
        BY <1>7, FullWhenExpired DEF Expire
      <4>2. ts'[b] = None
        BY <1>7 DEF Expire, TypeOK
      <4>3. Refilled(b, now)' = Cap[b]
        BY <4>2 DEF Refilled
      <4> QED
        BY <3>1, <3>2, <4>1, <4>3
    <3>3. CASE c # b
      BY <1>7, <3>1, <3>3 DEF Expire, Refilled, TypeOK
    <3> QED
      BY <3>2, <3>3
  <2> QED
    BY <2>2, <2>3, <2>4, <2>5
<1>8. CASE Tick
  <2>1. TypeOK'
    BY <1>0, <1>8 DEF Tick, TypeOK, bucket, request, history
  <2>2. Timely'
    BY <1>0, <1>8 DEF Tick, Timely, Calling, bucket, request, history
  <2>3. Solvent'
    <3>1. \A b \in Buckets : used[b] \in Int
      BY DEF TypeOK
    <3> QED
      BY <1>0, <1>8, <3>1 DEF Tick, Solvent, bucket, history
  <2>4. Sold'
    <3>1. \A b \in Buckets, now \in Int :
             /\ Refilled(b, now)' = Refilled(b, now)
             /\ Due(b, now)' = Due(b, now)
      BY <1>8 DEF Tick, Refilled, Due, bucket, history
    <3>2. paid' = paid /\ clock' = clock + 1
      BY <1>8 DEF Tick, history
    <3> QED
      BY <1>0, <3>1, <3>2 DEF Sold
  <2> QED
    BY <2>1, <2>2, <2>3, <2>4
<1>9. CASE Watch
  <2>1. TypeOK'
    BY <1>0, <1>9 DEF Watch, TypeOK, bucket, request
  <2>2. Timely'
    BY <1>0, <1>9 DEF Watch, Timely, Calling
  <2>3. Solvent'
    BY <1>9 DEF Watch, Solvent, bucket
  <2>4. Sold'
    <3> SUFFICES ASSUME NEW b \in Buckets, NEW now \in Int, now >= clock - MaxDelay
                 PROVE  Refilled(b, now) <= Cap[b] + (now - clock + MaxDelay) * Rate[b]
      <4>1. \A b \in Buckets, now \in Int : Refilled(b, now)' = Refilled(b, now)
        BY <1>9 DEF Watch, Refilled, bucket
      <4>2. \A b \in Buckets, now \in Int : Refilled(b, now) \in Int
        BY RefilledType
      <4> QED
        BY <1>9, <4>1, <4>2 DEF Watch, Sold, Due
    <3>1. 0 <= now - clock + MaxDelay /\ now - clock + MaxDelay \in Int
      BY <1>0
    <3>2. 0 * Rate[b] <= (now - clock + MaxDelay) * Rate[b]
      BY <3>1, Constants, ProductGrows
    <3>3. 0 * Rate[b] = 0 /\ (now - clock + MaxDelay) * Rate[b] \in Int
      BY <3>1, Constants, ProductAdds
    <3> QED
      BY <3>2, <3>3, Constants, RefilledType
  <2> QED
    BY <2>1, <2>2, <2>3, <2>4
<1> QED
  BY <1>1, <1>2, <1>3, <1>4, <1>5, <1>6, <1>7, <1>8, <1>9 DEF Next

LEMMA Invariance == Spec => []IInv
  BY InitIInv, NextIInv, PTL DEF Spec

-----------------------------------------------------------------------------
\* The state is well typed and no bucket holds more than its capacity
\* (math.min in _BUCKET_LUA).
THEOREM TypeCorrect == Spec => []TypeOK
<1>1. IInv => TypeOK
  BY DEF IInv
<1> QED
  BY <1>1, Invariance, PTL

\* A charge never takes from a bucket what it does not hold, whatever times
\* the calls of the tasks carry (the test of tokens < cost in _BUCKET_LUA).
THEOREM NoDebt == Spec => []NeverOverdrawn
  BY Invariance, BalanceNotNegative, PTL

\* From any moment on, what record_admit takes from a bucket is bounded by its
\* capacity and the refill of the time passed plus the delay of one call.
THEOREM PaidBound == Spec => []PaidWithinRate
<1>1. IInv => PaidWithinRate
  <2> SUFFICES ASSUME IInv, NEW b \in Buckets PROVE paid[b] <= Due(b, clock)
    BY DEF PaidWithinRate, Due
  <2>1. clock \in Int /\ clock >= clock - MaxDelay
    BY BucketAssumption DEF IInv, TypeOK
  <2>2. paid[b] + Refilled(b, clock) <= Due(b, clock)
    BY <2>1 DEF IInv, Sold
  <2>3. Refilled(b, clock) >= 0 /\ Refilled(b, clock) \in Int
    BY <2>1, BalanceNotNegative, RefilledType DEF NeverOverdrawn, Balance, IInv
  <2>4. paid[b] \in Int /\ Due(b, clock) \in Int
    <3>1. clock - since + MaxDelay \in Int /\ paid[b] \in Int
      BY <2>1, Constants DEF IInv, TypeOK
    <3>2. (clock - since + MaxDelay) * Rate[b] \in Int
      BY <3>1, Constants, ProductAdds
    <3> QED
      BY <3>1, <3>2, Constants DEF Due
  <2> QED
    BY <2>2, <2>3, <2>4
<1> QED
  BY <1>1, Invariance, PTL

-----------------------------------------------------------------------------
(***************************************************************************)
(* What a look has found.                                                  *)
(***************************************************************************)

\* Each bucket t looked at holds its estimate at every time the charge of t may
\* carry: its sample, or from now on if it is still to come.
Stands(t) ==
    \A b \in Both(t), m \in Int :
        (\/ pc[t] = "admit" /\ m >= clock
         \/ pc[t] = "charge" /\ m >= at[t])
           => est[t] <= Refilled(b, m)

Kept == spoilt \subseteq Tasks /\ \A t \in Tasks \ spoilt : Stands(t)

TracedInv == IInv /\ Kept

\* A script that takes nothing leaves a bucket, at its own time and later, as
\* full as it was: it cuts off at the brim only what would be cut off again.
LEMMA FillAgain ==
    ASSUME NEW cap \in Nat, NEW rate \in Nat, NEW tok \in Int, NEW s \in Int,
           NEW n \in Nat, NEW m \in Int, n <= m, tok <= cap,
           NEW F, F = Fill(cap, rate, tok, s, n)
    PROVE  /\ Fill(cap, rate, F, n, m) >= Fill(cap, rate, tok, s, m)
           /\ Fill(cap, rate, F, n, m) >= F
           /\ Fill(cap, rate, F, n, m) \in Int
<1>1. (n - s) * rate \in Int /\ (m - n) * rate \in Int /\ (m - s) * rate \in Int
  BY ProductAdds
<1>2. (m - n) * rate >= 0
  <2>1. 0 * rate <= (m - n) * rate
    BY ProductGrows
  <2> QED
    BY <2>1
<1>3. (n - s) * rate + (m - n) * rate = (m - s) * rate
  <2>1. (n - s) + (m - n) = m - s
    OBVIOUS
  <2> QED
    BY <2>1, ProductAdds
<1>4. n # None
  BY DEF None
<1> QED
  BY <1>1, <1>2, <1>3, <1>4 DEF Fill

\* The same of a state: what b holds at m, when the script takes nothing from it.
LEMMA EvalLeaves ==
    ASSUME TypeOK, NEW S, NEW n \in Nat, NEW cost \in Nat, Eval(S, n, cost),
           NEW b \in Buckets, Drawn(b, S, n, cost) = 0, NEW m \in Int, n <= m
    PROVE  /\ Refilled(b, m)' >= Refilled(b, m)
           /\ b \in S => Refilled(b, m)' >= Refilled(b, n)
           /\ Refilled(b, m)' \in Int
<1>1. tokens[b] \in Int /\ ts[b] \in Int /\ tokens[b] <= Cap[b]
  BY DEF TypeOK, None
<1>2. Cap[b] \in Nat /\ Rate[b] \in Nat
  BY Constants
<1>3. CASE b \notin S
  <2>1. tokens'[b] = tokens[b] /\ ts'[b] = ts[b]
    BY <1>3 DEF Eval
  <2>2. Refilled(b, m)' = Refilled(b, m)
    BY <2>1 DEF Refilled
  <2> QED
    BY <1>3, <2>2, RefilledType
<1>4. CASE b \in S
  <2>1. tokens'[b] = Refilled(b, n) /\ ts'[b] = n
    <3>1. Refilled(b, n) \in Int
      BY RefilledType
    <3> QED
      BY <1>4, <3>1 DEF Eval, Drawn
  <2>2. Refilled(b, m)' = Fill(Cap[b], Rate[b], Refilled(b, n), n, m)
    BY <2>1 DEF Refilled, Fill
  <2>3. Refilled(b, n) = Fill(Cap[b], Rate[b], tokens[b], ts[b], n)
    BY RefilledIsFill
  <2>4. Refilled(b, m) = Fill(Cap[b], Rate[b], tokens[b], ts[b], m)
    BY RefilledIsFill
  <2>5. \A tok, s \in Int : tok <= Cap[b] =>
           LET F == Fill(Cap[b], Rate[b], tok, s, n)
           IN  /\ Fill(Cap[b], Rate[b], F, n, m) >= Fill(Cap[b], Rate[b], tok, s, m)
               /\ Fill(Cap[b], Rate[b], F, n, m) >= F
               /\ Fill(Cap[b], Rate[b], F, n, m) \in Int
    BY <1>2, FillAgain
  <2> QED
    BY <1>1, <2>2, <2>3, <2>4, <2>5
<1> QED
  BY <1>3, <1>4

LEMMA TracedTypes ==
    ASSUME IInv, NEW t \in Tasks
    PROVE  /\ at[t] \in Nat /\ clock \in Nat /\ est[t] \in Nat /\ est[t] > 0
           /\ Both(t) \subseteq Buckets
<1>1. at[t] \in Nat /\ clock \in Nat /\ est[t] \in Estimates /\ tenant[t] \in Tenants
  BY BucketAssumption DEF IInv, TypeOK
<1> QED
  BY <1>1, BucketAssumption DEF Both, Buckets

\* A look that admits stands.
LEMMA LookStands ==
    ASSUME IInv, NEW t \in Tasks, Look(t)
    PROVE  Stands(t)'
<1>1. /\ at[t] \in Nat /\ at[t] <= clock /\ clock \in Nat /\ clock' = clock
      /\ tenant' = tenant /\ est' = est /\ est[t] \in Nat
      /\ Both(t) \subseteq Buckets /\ Eval(Both(t), at[t], 0)
  BY TracedTypes DEF Look, request, IInv, Timely, Calling
<1>2. pc'[t] \in {"admit", "idle"}
  BY DEF Look, Goto, Done, IInv, TypeOK
<1>3. pc'[t] = "admit" => \A b \in Both(t) : est[t] <= Refilled(b, at[t])
  BY DEF Look, Goto, Done, IInv, TypeOK
<1> SUFFICES ASSUME NEW b \in Both(t), NEW m \in Int, m >= clock, pc'[t] = "admit"
             PROVE  est[t] <= Refilled(b, m)'
  BY <1>1, <1>2 DEF Stands, Both
<1>4. Refilled(b, m)' >= Refilled(b, at[t]) /\ Refilled(b, m)' \in Int
  <2>1. b \in Buckets /\ at[t] <= m /\ TypeOK
    BY <1>1 DEF IInv
  <2>2. Drawn(b, Both(t), at[t], 0) = 0
    BY DEF Drawn
  <2> QED
    BY <1>1, <2>1, <2>2, EvalLeaves
<1>5. Refilled(b, at[t]) \in Int
  BY <1>1, RefilledType DEF IInv
<1> QED
  BY <1>1, <1>3, <1>4, <1>5

\* Nothing happens to the buckets.
LEMMA UntouchedStands ==
    ASSUME IInv, NEW t \in Tasks, Stands(t),
           UNCHANGED <<tokens, ts, tenant[t], est[t], pc[t], at[t]>>,
           clock' \in Nat, clock' >= clock
    PROVE  Stands(t)'
<1>1. \A b, m : Refilled(b, m)' = Refilled(b, m)
  BY DEF Refilled
<1>2. clock \in Nat
  BY TracedTypes
<1> QED
  BY <1>1, <1>2 DEF Stands, Both

\* A bucket is created anew, and full.
LEMMA ExpiryStands ==
    ASSUME IInv, NEW t \in Tasks, Stands(t), NEW b \in Buckets, Expire(b)
    PROVE  Stands(t)'
<1>1. /\ clock' = clock /\ UNCHANGED <<tenant, est, pc, at>>
      /\ ts'[b] = None /\ \A d \in Buckets : d # b => tokens'[d] = tokens[d] /\ ts'[d] = ts[d]
  BY DEF Expire, request, IInv, TypeOK
<1> SUFFICES ASSUME NEW d \in Both(t), NEW m \in Int,
                    \/ pc[t] = "admit" /\ m >= clock
                    \/ pc[t] = "charge" /\ m >= at[t]
             PROVE  est[t] <= Refilled(d, m)'
  BY <1>1 DEF Stands, Both
<1>2. est[t] <= Refilled(d, m) /\ d \in Buckets /\ est[t] \in Nat
  BY TracedTypes DEF Stands
<1>3. CASE d = b
  <2>1. Refilled(d, m)' = Cap[d]
    BY <1>1, <1>3 DEF Refilled
  <2>2. Refilled(d, m) \in Int /\ Refilled(d, m) <= Cap[d] /\ Cap[d] \in Int
    BY <1>2, RefilledType, Constants DEF IInv
  <2> QED
    BY <1>2, <2>1, <2>2
<1>4. CASE d # b
  BY <1>1, <1>2, <1>4 DEF Refilled
<1> QED
  BY <1>3, <1>4

\* Another task's call takes nothing and comes in its time.
LEMMA CallStands ==
    ASSUME IInv, NEW t \in Tasks, Stands(t), NEW u \in Tasks, Calling(u),
           NEW S, NEW cost \in Nat, Eval(S, at[u], cost),
           \A b \in Buckets : paid'[b] = paid[b] + Drawn(b, S, at[u], cost),
           ~Robbed(t), pc[t] = "charge" => at[u] <= at[t],
           UNCHANGED <<clock, tenant, est, pc[t], at[t]>>
    PROVE  Stands(t)'
<1>1. /\ at[u] \in Nat /\ at[u] <= clock /\ clock \in Nat /\ at[t] \in Nat
      /\ est[t] \in Nat /\ Both(t) \subseteq Buckets
  BY TracedTypes DEF IInv, Timely
<1> SUFFICES ASSUME NEW b \in Both(t), NEW m \in Int,
                    \/ pc[t] = "admit" /\ m >= clock
                    \/ pc[t] = "charge" /\ m >= at[t]
             PROVE  est[t] <= Refilled(b, m)'
  BY DEF Stands, Both
<1>2. est[t] <= Refilled(b, m) /\ at[u] <= m
  BY <1>1 DEF Stands
<1>3. Drawn(b, S, at[u], cost) = 0
  <2>1. paid[b] \in Nat /\ ~(paid'[b] > paid[b]) /\ paid'[b] = paid[b] + Drawn(b, S, at[u], cost)
    BY <1>1 DEF Robbed, IInv, TypeOK
  <2>2. Drawn(b, S, at[u], cost) \in Nat
    BY DEF Drawn
  <2> QED
    BY <2>1, <2>2
<1>4. Refilled(b, m)' >= Refilled(b, m) /\ Refilled(b, m)' \in Int
  BY <1>1, <1>2, <1>3, EvalLeaves DEF IInv
<1>5. Refilled(b, m) \in Int
  BY <1>1, RefilledType DEF IInv
<1> QED
  BY <1>1, <1>2, <1>4, <1>5

\* What the pipeline of a call did, in whole or in part.
Piped(u, S, cost) ==
    /\ Eval(S, at[u], cost)
    /\ \A b \in Buckets : paid'[b] = paid[b] + Drawn(b, S, at[u], cost)

LEMMA CallPiped ==
    ASSUME IInv, NEW u \in Tasks, NEW S, S \subseteq Buckets,
           \/ Eval(S, at[u], 0) /\ UNCHANGED paid
           \/ Eval(S, at[u], est[u]) /\ paid' = Plus(paid, Taken(S, at[u], est[u]), est[u])
    PROVE  \E cost \in Nat : Piped(u, S, cost)
<1>1. CASE Eval(S, at[u], 0) /\ UNCHANGED paid
  <2>1. \A b \in Buckets : paid[b] \in Nat
    BY DEF IInv, TypeOK
  <2>2. Piped(u, S, 0)
    BY <1>1, <2>1 DEF Piped, Drawn
  <2> QED
    BY <2>2
<1>2. CASE Eval(S, at[u], est[u]) /\ paid' = Plus(paid, Taken(S, at[u], est[u]), est[u])
  <2>1. est[u] \in Nat /\ est[u] > 0
    BY TracedTypes
  <2>2. Piped(u, S, est[u])
    BY <1>2, <2>1, PaidAfterCharge DEF Piped, IInv
  <2> QED
    BY <2>1, <2>2
<1> QED
  BY <1>1, <1>2

\* A step of task u, as the look of another task t sees it.
Turning(u) == \E x \in Tenants, e \in Estimates : Turn(u, x, e)
TaskStep(u) == Turning(u) \/ Look(u) \/ Admit(u) \/ Charge(u) \/ Fail(u)

LEMMA TaskEffect ==
    ASSUME IInv, NEW u \in Tasks, TaskStep(u)
    PROVE  /\ clock' = clock
           /\ \A t \in Tasks : t # u => UNCHANGED <<tenant[t], est[t], pc[t], at[t]>>
           /\ \/ UNCHANGED <<tokens, ts>>
              \/ /\ Calling(u) /\ pc'[u] # pc[u] /\ UNCHANGED <<tenant, est>>
                 /\ \E S \in SUBSET Buckets, cost \in Nat : Piped(u, S, cost)
<1> USE DEF IInv, TypeOK
<1>1. Both(u) \subseteq Buckets /\ \A S \in Prefixes(u) : S \subseteq Buckets
  BY TracedTypes DEF Prefixes, Both
<1>2. CASE Turning(u) \/ Admit(u)
  BY <1>2 DEF Turning, Turn, Admit, Goto, bucket, request
<1>3. CASE Look(u)
  <2>1. \E cost \in Nat : Piped(u, Both(u), cost)
    BY <1>1, <1>3, CallPiped DEF Look, history
  <2> QED
    BY <1>1, <1>3, <2>1 DEF Look, Goto, Done, Calling, request
<1>4. CASE Charge(u)
  <2>1. \E cost \in Nat : Piped(u, Both(u), cost)
    BY <1>1, <1>4, CallPiped DEF Charge
  <2> QED
    BY <1>1, <1>4, <2>1 DEF Charge, Goto, Done, Calling, request
<1>5. CASE Fail(u)
  <2>1. PICK S \in Prefixes(u) :
           \/ pc[u] = "look" /\ Eval(S, at[u], 0) /\ UNCHANGED paid
           \/ /\ pc[u] = "charge" /\ Eval(S, at[u], est[u])
              /\ paid' = Plus(paid, Taken(S, at[u], est[u]), est[u])
           \/ pc[u] = "admit" /\ S = {} /\ UNCHANGED <<bucket, paid>>
    BY <1>5 DEF Fail
  <2>2. /\ clock' = clock /\ UNCHANGED <<tenant, est>> /\ pc'[u] = "idle" /\ pc[u] # "idle"
        /\ \A t \in Tasks : t # u => UNCHANGED <<pc[t], at[t]>>
    BY <1>5 DEF Fail, Goto, Done, request
  <2>3. CASE pc[u] = "admit" /\ S = {} /\ UNCHANGED <<bucket, paid>>
    BY <2>2, <2>3 DEF bucket
  <2>4. CASE ~(pc[u] = "admit" /\ S = {} /\ UNCHANGED <<bucket, paid>>)
    <3>1. \E cost \in Nat : Piped(u, S, cost)
      BY <1>1, <2>1, <2>4, CallPiped
    <3> QED
      BY <1>1, <2>1, <2>2, <2>4, <3>1 DEF Calling
  <2> QED
    BY <2>3, <2>4
<1> QED
  BY <1>2, <1>3, <1>4, <1>5 DEF TaskStep

\* A look stays good until something in the account spoils it.
LEMMA StepKeeps ==
    ASSUME TracedInv, TracedNext
    PROVE  Kept'
<1>1. IInv /\ TypeOK /\ \A t \in Tasks \ spoilt : Stands(t)
  BY DEF TracedInv, IInv, Kept
<1>2. IInv'
  BY <1>1, NextIInv DEF TracedNext
<1> SUFFICES ASSUME NEW t \in Tasks \ spoilt', pc'[t] \in {"admit", "charge"}
             PROVE  Stands(t)'
  BY DEF Kept, TracedNext, Stands
<1>3. Decided(t) => t \notin spoilt /\ ~Robbed(t) /\ ~Overtaken(t)
  BY DEF TracedNext
<1>4. ASSUME NEW u \in Tasks, TaskStep(u) PROVE Stands(t)'
  <2>1. CASE u = t
    <3>1. CASE Turning(t) \/ Charge(t) \/ Fail(t)
      BY <1>1, <3>1 DEF Turning, Turn, Charge, Fail, Goto, Done, TypeOK
    <3>2. CASE Look(t)
      BY <1>1, <3>2, LookStands
    <3>3. CASE Admit(t)
      <4>1. Stands(t) /\ pc[t] = "admit" /\ at'[t] = clock /\ pc'[t] = "charge"
        BY <1>1, <1>3, <3>3 DEF Admit, Goto, Decided, TypeOK
      <4>2. \A b, m : Refilled(b, m)' = Refilled(b, m)
        BY <3>3 DEF Admit, bucket, Refilled
      <4> QED
        BY <3>3, <4>1, <4>2 DEF Stands, Both, Admit, request
    <3> QED
      BY <1>4, <2>1, <3>1, <3>2, <3>3 DEF TaskStep
  <2>2. CASE u # t
    <3>1. UNCHANGED <<clock, tenant[t], est[t], pc[t], at[t]>> /\ Decided(t)
      BY <1>1, <1>4, <2>2, TaskEffect DEF Decided
    <3>2. Stands(t) /\ clock \in Nat
      BY <1>1, <1>3, <3>1, TracedTypes
    <3>3. CASE UNCHANGED <<tokens, ts>>
      BY <1>1, <3>1, <3>2, <3>3, UntouchedStands
    <3>4. ASSUME Calling(u), pc'[u] # pc[u], UNCHANGED <<tenant, est>>,
                 NEW S \in SUBSET Buckets, NEW cost \in Nat, Piped(u, S, cost)
          PROVE  Stands(t)'
      <4>1. pc[t] = "charge" => at[u] <= at[t]
        BY <1>1, <1>3, <3>1, <3>4, TracedTypes DEF Overtaken
      <4> QED
        BY <1>1, <1>3, <3>1, <3>2, <3>4, <4>1, CallStands DEF Piped
    <3> QED
      BY <1>1, <1>4, <3>3, <3>4, TaskEffect
  <2> QED
    BY <2>1, <2>2
<1>5. ASSUME NEW b \in Buckets, Expire(b) PROVE Stands(t)'
  BY <1>1, <1>3, <1>5, ExpiryStands DEF Expire, Decided
<1>6. CASE Tick \/ Watch
  <2>1. UNCHANGED <<tokens, ts, tenant, est, pc, at>> /\ clock' \in Nat /\ clock' >= clock
    BY <1>1, <1>6, TracedTypes DEF Tick, Watch, bucket, request, TypeOK
  <2> QED
    BY <1>1, <1>3, <2>1, UntouchedStands DEF Decided
<1> QED
  BY <1>4, <1>5, <1>6 DEF TracedNext, Next, TaskStep, Turning

LEMMA TracedInvariance == TracedSpec => []TracedInv
<1>1. TracedInit => TracedInv
  <2> SUFFICES ASSUME TracedInit PROVE TracedInv
    OBVIOUS
  <2>1. IInv
    BY InitIInv DEF TracedInit
  <2>2. \A t \in Tasks : pc[t] = "idle"
    BY DEF TracedInit, Init
  <2> QED
    BY <2>1, <2>2 DEF TracedInv, TracedInit, Kept, Stands
<1>2. TracedInv /\ [TracedNext]_<<vars, spoilt>> => TracedInv'
  <2> SUFFICES ASSUME TracedInv, [TracedNext]_<<vars, spoilt>> PROVE TracedInv'
    OBVIOUS
  <2>1. IInv'
    BY NextIInv DEF TracedInv, TracedNext
  <2>2. CASE TracedNext
    BY <2>1, <2>2, StepKeeps DEF TracedInv
  <2>3. CASE UNCHANGED <<vars, spoilt>>
    <3>1. \A b, m : Refilled(b, m)' = Refilled(b, m)
      BY <2>3 DEF Refilled, vars, bucket
    <3>2. \A t \in Tasks : Stands(t)' = Stands(t)
      BY <2>3, <3>1 DEF Stands, Both, vars, request
    <3> QED
      BY <2>1, <2>3, <3>2 DEF TracedInv, Kept
  <2> QED
    BY <2>2, <2>3
<1> QED
  BY <1>1, <1>2, PTL DEF TracedSpec

\* A request that is streamed without its tokens (the answer of record_admit's
\* pipeline is dropped) has lost them to another task.
THEOREM PaidUnlessSpoiltHolds == TracedSpec => PaidUnlessSpoilt
<1>1. TracedInv /\ [TracedNext]_<<vars, spoilt>> =>
         \A t \in Tasks : Charge(t) /\ Taken(Both(t), at[t], est[t]) # Both(t) => t \in spoilt
  <2> SUFFICES ASSUME TracedInv, NEW t \in Tasks, Charge(t), t \notin spoilt
               PROVE  Taken(Both(t), at[t], est[t]) = Both(t)
    OBVIOUS
  <2>1. Stands(t) /\ pc[t] = "charge" /\ at[t] \in Nat
    BY TracedTypes DEF TracedInv, Kept, Charge
  <2>2. \A b \in Both(t) : est[t] <= Refilled(b, at[t])
    BY <2>1 DEF Stands
  <2> QED
    BY <2>2 DEF Taken, Covers
<1> QED
  BY <1>1, TracedInvariance, PTL DEF TracedSpec, PaidUnlessSpoilt
=============================================================================
