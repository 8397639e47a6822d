---------------------------- MODULE AdaptiveProofs ----------------------------
(***************************************************************************)
(* Proofs about AdaptiveCapacity: the range of the estimate, for any       *)
(* number of tasks and callers, any interleaving of their calls, resets,   *)
(* expiries and replaced tasks.                                            *)
(***************************************************************************)
EXTENDS AdaptiveCapacity, TLAPS

-----------------------------------------------------------------------------
(***************************************************************************)
(* Arithmetic of a multiplicative step.                                    *)
(***************************************************************************)

LEMMA DivBounds ==
    ASSUME NEW a \in Nat, NEW d \in Nat \ {0}
    PROVE  /\ a \div d \in Nat
           /\ (a \div d) * d <= a
           /\ a < (a \div d + 1) * d
OBVIOUS

\* A floor is at least any integer below the quotient.
LEMMA DivAtLeast ==
    ASSUME NEW a \in Nat, NEW d \in Nat \ {0}, NEW n \in Nat, n * d <= a
    PROVE  n <= a \div d
<1> DEFINE q == a \div d
<1>1. q \in Nat /\ a < (q + 1) * d
  BY DivBounds
<1> HIDE DEF q
<1>2. n * d < (q + 1) * d
  BY <1>1
<1>3. n < q + 1
  BY <1>1, <1>2
<1> QED
  BY <1>1, <1>3 DEF q

LEMMA TimesMonotone ==
    ASSUME NEW m \in Nat, NEW n \in Nat, NEW k \in Nat, m <= n
    PROVE  m * k <= n * k /\ m * k \in Nat /\ n * k \in Nat
<1>1. PICK d \in Nat : n = m + d
  BY n - m \in Nat
<1>2. n * k = m * k + d * k /\ d * k \in Nat /\ m * k \in Nat
  BY <1>1
<1> QED
  BY <1>2

\* A step up stays in the range and within its factor: rounding takes back
\* less than it adds.
LEMMA IncreasedInRange ==
    ASSUME NEW c \in Range, NEW r \in Increased(c)
    PROVE  /\ r \in Range /\ c <= r
           /\ r * AlphaDen <= c * (AlphaDen + AlphaNum)
<1> DEFINE p == c * (AlphaDen + AlphaNum)
           q == p \div AlphaDen
<1>1. /\ c \in Nat /\ c >= CMin /\ c >= 1 /\ c <= CMax
      /\ CMin \in Nat /\ CMax \in Nat
      /\ AlphaNum \in Nat \ {0} /\ AlphaDen \in Nat \ {0}
  BY RangeAssumption DEF Range
<1>2. p \in Nat /\ p = c * AlphaDen + c * AlphaNum /\ c * AlphaNum >= 1
  BY <1>1
<1>3. q \in Nat /\ c <= q
  <2>1. c * AlphaDen <= p /\ p \in Nat
    BY <1>1, <1>2
  <2> HIDE DEF p
  <2> QED
    BY <2>1, <1>1, DivBounds, DivAtLeast
<1>4. q * AlphaDen = p => c + 1 <= q
  <2> SUFFICES ASSUME q * AlphaDen = p PROVE c # q
    BY <1>1, <1>3
  <2> QED
    BY <1>1, <1>2
<1>5. PICK s : /\ r = AtMost(CMax, s)
               /\ s = q \/ (s = q - 1 /\ q * AlphaDen = p)
  BY DEF Increased, Scaled
<1> HIDE DEF p, q
<1>6. s \in Nat /\ s >= c /\ s <= q
  BY <1>1, <1>3, <1>4, <1>5
<1>7. r \in Nat /\ r \in Range /\ c <= r /\ r <= q
  BY <1>1, <1>3, <1>5, <1>6 DEF AtMost, Range
<1>8. r * AlphaDen <= q * AlphaDen /\ r * AlphaDen \in Nat /\ q * AlphaDen \in Nat
  BY <1>1, <1>3, <1>7, TimesMonotone
<1>9. q * AlphaDen <= p
  <2>1. p \in Nat
    BY <1>2
  <2> QED
    BY <2>1, <1>1, DivBounds DEF q
<1> QED
  BY <1>2, <1>7, <1>8, <1>9 DEF p

\* So does a step down, whose result is at most what it started from and
\* which rounding takes less than two tokens below its factor.
LEMMA DecreasedInRange ==
    ASSUME NEW c \in Range, NEW r \in Decreased(c)
    PROVE  /\ r \in Range /\ r <= c
           /\ (r + 2) * BetaDen > c * BetaNum
<1> DEFINE p == c * BetaNum
           q == p \div BetaDen
<1>1. /\ c \in Nat /\ c <= CMax
      /\ CMin \in Nat /\ CMax \in Nat /\ CMin <= CMax
      /\ BetaNum \in Nat /\ BetaDen \in Nat \ {0} /\ BetaNum <= BetaDen
  BY RangeAssumption DEF Range
<1>2. p \in Nat /\ p <= c * BetaDen
  BY <1>1
<1>3. q \in Nat /\ q * BetaDen <= p
  <2> HIDE DEF p
  <2> QED
    BY <1>1, <1>2, DivBounds
<1>4. q <= c
  <2>1. q * BetaDen <= c * BetaDen
    BY <1>1, <1>2, <1>3
  <2> HIDE DEF p, q
  <2> QED
    BY <2>1, <1>1, <1>3
<1>5. PICK s : r = AtLeast(CMin, s) /\ s \in {q - 1, q}
  BY DEF Decreased, Scaled
<1>6. p < (q + 1) * BetaDen
  <2> HIDE DEF p
  <2> QED
    BY <1>1, <1>2, DivBounds
<1> HIDE DEF p, q
<1>7. r \in Nat /\ r \in Range /\ r <= c /\ q + 1 <= r + 2
  BY <1>1, <1>3, <1>4, <1>5 DEF AtLeast, Range
<1>8. (q + 1) * BetaDen <= (r + 2) * BetaDen /\ (r + 2) * BetaDen \in Nat
        /\ (q + 1) * BetaDen \in Nat
  <2>1. q + 1 \in Nat /\ r + 2 \in Nat
    BY <1>3, <1>7
  <2> QED
    BY <2>1, <1>1, <1>7, TimesMonotone
<1> QED
  BY <1>2, <1>6, <1>7, <1>8 DEF p

\* One multiplicative step, up or down.
LEMMA SteppedInRange ==
    ASSUME NEW s, NEW c \in Range, NEW r \in Stepped(s, c)
    PROVE  /\ r \in Range
           /\ r * AlphaDen <= c * (AlphaDen + AlphaNum)
           /\ (r + 2) * BetaDen > c * BetaNum
<1>1. /\ c \in Nat /\ AlphaNum \in Nat /\ AlphaDen \in Nat
      /\ BetaNum \in Nat /\ BetaDen \in Nat \ {0} /\ BetaNum <= BetaDen
  BY RangeAssumption DEF Range
<1>2. ASSUME r \in Range, c <= r PROVE (r + 2) * BetaDen > c * BetaNum
  <2>1. r \in Nat /\ c + 2 <= r + 2 /\ c + 2 \in Nat /\ r + 2 \in Nat
    BY <1>1, <1>2, RangeAssumption DEF Range
  <2>2. (c + 2) * BetaDen <= (r + 2) * BetaDen /\ (r + 2) * BetaDen \in Nat
    BY <2>1, <1>1, TimesMonotone
  <2>3. BetaNum * c <= BetaDen * c /\ BetaNum * c = c * BetaNum
    BY <1>1, TimesMonotone
  <2>4. (c + 2) * BetaDen = BetaDen * c + 2 * BetaDen /\ BetaDen * c \in Nat
    BY <1>1
  <2>5. c * BetaNum \in Nat /\ 2 * BetaDen > 0
    BY <1>1
  <2> QED
    BY <2>2, <2>3, <2>4, <2>5, <1>1
<1>3. ASSUME r \in Range, r <= c PROVE r * AlphaDen <= c * (AlphaDen + AlphaNum)
  <2>1. r \in Nat
    BY <1>3, RangeAssumption DEF Range
  <2>2. r * AlphaDen <= c * AlphaDen /\ r * AlphaDen \in Nat /\ c * AlphaDen \in Nat
    BY <2>1, <1>1, <1>3, TimesMonotone
  <2>3. c * (AlphaDen + AlphaNum) = c * AlphaDen + c * AlphaNum /\ c * AlphaNum \in Nat
    BY <1>1
  <2> QED
    BY <2>2, <2>3
<1> QED
  BY <1>2, <1>3, IncreasedInRange, DecreasedInRange DEF Stepped

-----------------------------------------------------------------------------
(***************************************************************************)
(* Types.                                                                  *)
(***************************************************************************)

LEMMA BucketType ==
    ASSUME NEW t \in 0 .. MaxTime
    PROVE  Bucket(t) \in Buckets
<1>1. t \in Nat /\ MaxTime \in Nat /\ W \in Nat \ {0} /\ t <= MaxTime
  BY CallerAssumption
<1>2. t \div W \in Nat /\ (t \div W) * W <= t
  BY <1>1, DivBounds
<1>3. (t \div W) * W <= MaxTime
  <2> DEFINE q == t \div W
  <2>1. q \in Nat /\ q * W <= t
    BY <1>2
  <2> HIDE DEF q
  <2>2. q * W \in Nat
    BY <2>1, <1>1
  <2> QED
    BY <2>1, <2>2, <1>1 DEF q
<1>4. t \div W <= MaxTime \div W
  BY <1>1, <1>2, <1>3, DivAtLeast
<1>5. MaxTime \div W \in Nat
  BY <1>1, DivBounds
<1> QED
  BY <1>2, <1>4, <1>5 DEF Bucket, Buckets

LEMMA UpdateType ==
    ASSUME TypeOK, NEW a \in Callers, Update(a)
    PROVE  TypeOK'
<1> USE CallerAssumption DEF TypeOK, Goto, shared, local, caller, history
<1>0. TaskOf[a] \in Tasks
  OBVIOUS
<1>1. CASE Sample(a)
  BY <1>1 DEF Sample
<1>2. CASE Check(a)
  <2>1. \/ pc' = [pc EXCEPT ![a] = "idle"] /\ lock' = lock
        \/ pc' = [pc EXCEPT ![a] = "prev"] /\ lock' = [lock EXCEPT ![TaskOf[a]] = a]
    BY <1>2 DEF Check
  <2>2. lock' \in [Tasks -> Callers \cup {None}]
    BY <1>0, <2>1
  <2>3. pc' \in [Callers -> {"idle", "bad", "sample", "check", "prev", "cur",
                           "claim", "read", "write", "resetCap", "resetUpdated"}]
    BY <2>1
  <2>4. overtaken' \subseteq Callers
    BY <1>2 DEF Check
  <2> QED
    BY <1>2, <2>2, <2>3, <2>4 DEF Check
<1>3. CASE ReadPrevious(a)
  <2>1. ts[a] - W \in 0 .. MaxTime
    OBVIOUS
  <2>2. WindowStats(Bucket(ts[a] - W)) \in [offered : Nat, bad : Nat]
    BY <2>1, BucketType DEF WindowStats
  <2> QED
    BY <1>3, <2>2 DEF ReadPrevious
<1>4. CASE ReadCurrent(a)
  <2>1. ts[a] \in 0 .. MaxTime
    OBVIOUS
  <2>2. WindowStats(Bucket(ts[a])) \in [offered : Nat, bad : Nat]
    BY <2>1, BucketType DEF WindowStats
  <2> QED
    BY <1>0, <1>4, <2>2 DEF ReadCurrent, Unlock
<1>5. CASE Claim(a)
  BY <1>0, <1>5 DEF Claim
<1>6. CASE ReadCapacity(a)
  BY <1>0, <1>6 DEF ReadCapacity, View
<1>7. CASE WriteCapacity(a)
  <2>1. PICK c \in Stepped(stats[a], seen[a]) :
          /\ localCap' = [localCap EXCEPT ![TaskOf[a]] = c]
          /\ cap' = c
    BY <1>7 DEF WriteCapacity
  <2>2. c \in Range
    BY <2>1, SteppedInRange
  <2>3. C0 \in Range /\ Empty \in [offered : Nat, bad : Nat]
    BY RangeAssumption DEF Range, Empty
  <2> QED
    BY <1>0, <1>7, <2>1, <2>2, <2>3 DEF WriteCapacity, Unlock
<1> QED
  BY <1>1, <1>2, <1>3, <1>4, <1>5, <1>6, <1>7 DEF Update

LEMMA NextType == TypeOK /\ [Next]_vars => TypeOK'
<1> SUFFICES ASSUME TypeOK, [Next]_vars PROVE TypeOK'
  OBVIOUS
<1> USE CallerAssumption DEF TypeOK, Goto, shared, local, caller, history
<1>0. C0 \in Range /\ Empty \in [offered : Nat, bad : Nat]
  BY RangeAssumption DEF Range, Empty
<1>1. ASSUME NEW a \in Callers, Update(a) PROVE TypeOK'
  BY <1>1, UpdateType
<1>2. ASSUME NEW a \in Callers, NEW isBad \in BOOLEAN, Observe(a, isBad)
      PROVE  TypeOK'
  <2>1. Bucket(now) \in Buckets
    BY BucketType
  <2> QED
    BY <1>2, <2>1 DEF Observe
<1>3. ASSUME NEW a \in Callers, ObserveBad(a) PROVE TypeOK'
  <2>1. Bucket(ts[a]) \in Buckets
    BY BucketType
  <2> QED
    BY <1>3, <2>1 DEF ObserveBad
<1>4. ASSUME NEW a \in Callers, Reset(a) PROVE TypeOK'
  <2>1. CASE ResetDelete(a)
    BY <2>1 DEF ResetDelete
  <2>2. CASE ResetCapacity(a)
    BY <1>0, <2>2 DEF ResetCapacity
  <2>3. CASE ResetUpdated(a)
    BY <2>3 DEF ResetUpdated
  <2> QED
    BY <1>4, <2>1, <2>2, <2>3 DEF Reset
<1>5. ASSUME NEW k \in Tasks, Restart(k) PROVE TypeOK'
  BY <1>0, <1>5 DEF Restart, Unlock
<1>6. CASE Tick
  BY <1>6 DEF Tick
<1>7. CASE IdleDay
  BY <1>7 DEF IdleDay
<1>8. CASE UNCHANGED vars
  BY <1>8 DEF vars
<1> QED
  BY <1>1, <1>2, <1>3, <1>4, <1>5, <1>6, <1>7, <1>8 DEF Next

\* The estimate, its local copies and everything the callers remember keep
\* their types and ranges.
THEOREM TypeCorrect == Spec => []TypeOK
<1>1. Init => TypeOK
  <2> SUFFICES ASSUME Init PROVE TypeOK
    OBVIOUS
  <2>1. C0 \in Range /\ Empty \in [offered : Nat, bad : Nat]
    BY RangeAssumption DEF Range, Empty
  <2> QED
    BY <2>1, CallerAssumption DEF Init, TypeOK
<1> QED
  BY <1>1, NextType, PTL DEF Spec

\* Whatever the tasks, a reset, an expiry and a restart do to each other, the
\* budget a task divides by is between CMin and CMax.
THEOREM BudgetInRange == Spec => []EstimateInRange
<1>1. TypeOK => EstimateInRange
  BY DEF TypeOK, EstimateInRange, View
<1> QED
  BY <1>1, TypeCorrect, PTL

-----------------------------------------------------------------------------
(***************************************************************************)
(* One task: its lock makes the check and the claim of an update one       *)
(* transaction, whatever a reset does beside it.                           *)
(*                                                                         *)
(* The clock is sampled before the lock is taken, so what a caller finds   *)
(* due must be the time it sampled against the time it reads under the     *)
(* lock; until its claim, only a reset can move that time, and its steps   *)
(* mark every caller.  A reset neither takes nor gives back the lock, so a *)
(* caller that comes to the lock after it is protected again.              *)
(***************************************************************************)

OneTask == \E k : Tasks = {k}

Locked(a) == pc[a] \in {"prev", "cur", "claim", "read", "write"}

HoldsLock == \A a \in Callers : Locked(a) => lock[TaskOf[a]] = a

StillDue ==
    \A a \in Callers \ overtaken :
        pc[a] \in {"prev", "cur", "claim"} => ts[a] - LastUpdate(TaskOf[a]) >= W

ClaimInv == TypeOK /\ HoldsLock /\ StillDue

LEMMA ClaimInit == Init => ClaimInv
<1> SUFFICES ASSUME Init PROVE ClaimInv
  OBVIOUS
<1>1. TypeOK
  <2>1. C0 \in Range /\ Empty \in [offered : Nat, bad : Nat]
    BY RangeAssumption DEF Range, Empty
  <2> QED
    BY <2>1, CallerAssumption DEF Init, TypeOK
<1>2. HoldsLock /\ StillDue
  BY DEF Init, HoldsLock, StillDue, Locked
<1> QED
  BY <1>1, <1>2 DEF ClaimInv

\* No other caller is in the locked section of the only task.
LEMMA OneLocked ==
    ASSUME OneTask, HoldsLock, NEW a \in Callers, NEW b \in Callers,
           Locked(a), Locked(b)
    PROVE  a = b
BY CallerAssumption DEF OneTask, HoldsLock

LEMMA ClaimUpdate ==
    ASSUME OneTask, ClaimInv, NEW a \in Callers, Update(a)
    PROVE  HoldsLock' /\ StillDue'
<1>0. /\ \A b \in Callers : TaskOf[b] = TaskOf[a] /\ TaskOf[b] \in Tasks
      /\ \A b \in Callers : Locked(a) /\ Locked(b) => b = a
  BY CallerAssumption, OneLocked DEF OneTask, ClaimInv
<1> USE DEF ClaimInv, TypeOK, Goto, shared, local, caller, history,
        Locked, HoldsLock, StillDue, LastUpdate
<1>1. CASE Sample(a)
  BY <1>0, <1>1 DEF Sample
<1>2. CASE Check(a)
  <2>1. \A b \in Callers : ~Locked(b)
    BY <1>0, <1>2, CallerAssumption DEF Check
  <2>2. /\ ts' = ts
        /\ \A k \in Tasks : LastUpdate(k)' = LastUpdate(k) /\ LastUpdate(k) \in Int
        /\ \A b \in Callers : ts[b] \in Int /\ W \in Int
        /\ \A b \in Callers : b # a => pc'[b] = pc[b]
    BY <1>2, CallerAssumption DEF Check
  <2>3. CASE pc' = [pc EXCEPT ![a] = "idle"]
    BY <2>1, <2>2, <2>3
  <2>4. CASE /\ ts[a] - LastUpdate(TaskOf[a]) >= W
             /\ pc' = [pc EXCEPT ![a] = "prev"]
             /\ lock' = [lock EXCEPT ![TaskOf[a]] = a]
    <3>1. HoldsLock'
      BY <2>1, <2>4, <1>0
    <3>2. StillDue'
      <4> SUFFICES ASSUME NEW b \in Callers \ overtaken', pc'[b] \in {"prev", "cur", "claim"}
                   PROVE  ts'[b] - LastUpdate(TaskOf[b])' >= W
        OBVIOUS
      <4>1. b = a
        BY <2>1, <2>2
      <4>2. LastUpdate(TaskOf[b])' = LastUpdate(TaskOf[a])
        BY <4>1, <2>2, <1>0
      <4> QED
        BY <4>1, <4>2, <2>2, <2>4
    <3> QED
      BY <3>1, <3>2
  <2>5. ~(ts[a] - LastUpdate(TaskOf[a]) < W) => ts[a] - LastUpdate(TaskOf[a]) >= W
    <3> HIDE DEF LastUpdate
    <3> QED
      BY <2>2, <1>0
  <2> QED
    BY <2>3, <2>4, <2>5, <1>2 DEF Check
<1>3. CASE ReadPrevious(a)
  BY <1>0, <1>3 DEF ReadPrevious
<1>4. CASE ReadCurrent(a)
  BY <1>0, <1>4 DEF ReadCurrent, Unlock
<1>5. CASE Claim(a)
  BY <1>0, <1>5 DEF Claim
<1>6. CASE ReadCapacity(a)
  BY <1>0, <1>6 DEF ReadCapacity
<1>7. CASE WriteCapacity(a)
  BY <1>0, <1>7 DEF WriteCapacity, Unlock
<1> QED
  BY <1>1, <1>2, <1>3, <1>4, <1>5, <1>6, <1>7 DEF Update

LEMMA ClaimNext == OneTask /\ ClaimInv /\ [Next]_vars => ClaimInv'
<1> SUFFICES ASSUME OneTask, ClaimInv, [Next]_vars PROVE ClaimInv'
  OBVIOUS
<1>0. TypeOK /\ TypeOK'
  BY NextType DEF ClaimInv
<1> SUFFICES HoldsLock' /\ StillDue'
  BY <1>0 DEF ClaimInv
<1> USE <1>0 DEF ClaimInv, Goto, shared, local, caller, history,
        Locked, HoldsLock, StillDue, LastUpdate
<1>1. ASSUME NEW a \in Callers, Update(a)
      PROVE  HoldsLock' /\ StillDue'
  BY <1>1, ClaimUpdate
<1>2. ASSUME NEW a \in Callers, NEW isBad \in BOOLEAN, Observe(a, isBad)
      PROVE  HoldsLock' /\ StillDue'
  BY <1>2 DEF Observe, TypeOK
<1>3. ASSUME NEW a \in Callers, ObserveBad(a)
      PROVE  HoldsLock' /\ StillDue'
  BY <1>3 DEF ObserveBad, TypeOK
<1>4. ASSUME NEW a \in Callers, Reset(a)
      PROVE  HoldsLock' /\ StillDue'
  <2>1. overtaken' = Callers /\ lock' = lock
    BY <1>4 DEF Reset, ResetDelete, ResetCapacity, ResetUpdated
  <2>2. \A b \in Callers : Locked(b)' => Locked(b)
    BY <1>4 DEF Reset, ResetDelete, ResetCapacity, ResetUpdated, TypeOK
  <2> QED
    BY <2>1, <2>2
<1>5. ASSUME NEW k \in Tasks, Restart(k)
      PROVE  HoldsLock' /\ StillDue'
  <2>1. \A a \in Callers : TaskOf[a] = k
    BY <1>5, CallerAssumption DEF OneTask
  <2> QED
    BY <2>1, <1>5 DEF Restart, TypeOK
<1>6. CASE Tick
  BY <1>6 DEF Tick
<1>7. CASE IdleDay
  BY <1>7 DEF IdleDay
<1>8. CASE UNCHANGED vars
  BY <1>8 DEF vars
<1> QED
  BY <1>1, <1>2, <1>3, <1>4, <1>5, <1>6, <1>7, <1>8 DEF Next

\* With one task an update is still due when it is claimed, for any number of
\* threads, replaced tasks and resets: only an update that a reset overtakes
\* between its look at the time and its claim is not.  With two tasks this fails:
\* their locks are not one.
THEOREM ClaimsAreDue == OneTask => (Spec => ClaimStillDue)
<1>1. ClaimInv /\ [Next]_vars =>
        [\A a \in Callers \ overtaken : pc[a] = "claim" /\ pc'[a] = "read"
            => ts[a] - LastUpdate(TaskOf[a]) >= W]_vars
  BY DEF ClaimInv, StillDue
<1>2. CASE OneTask
  BY <1>1, <1>2, ClaimInit, ClaimNext, PTL DEF Spec, ClaimStillDue
<1>3. CASE ~OneTask
  BY <1>3
<1> QED
  BY <1>2, <1>3
-----------------------------------------------------------------------------
(***************************************************************************)
(* One task is an AimdEstimate.  Until it is reset, a claim is made by the *)
(* caller that holds the lock, so what it read is the estimate until it    *)
(* writes it, and the copies of the task stand in for the shared keys when *)
(* these expire.                                                           *)
(***************************************************************************)

NoReset ==
    /\ overtaken = {}
    /\ \A a \in Callers : pc[a] \notin {"resetCap", "resetUpdated"}

Claimed(a) == pc[a] \in {"read", "write"}

\* The clock is ahead of every time kept, and the copy of the task of the
\* shared one.
Clocks ==
    /\ \A a \in Callers : ts[a] <= now
    /\ localUpdated[TheTask] <= now
    /\ updated # None => updated <= localUpdated[TheTask]

\* The copy of the estimate is the shared one, or C0 in a replaced task.
Copies == cap # None => localCap[TheTask] \in {cap, C0}

\* What a claim has promised not to change until it is kept.
Promise ==
    \A a \in Callers :
        /\ Claimed(a) => updated # None
        /\ pc[a] = "write" => seen[a] = View(TheTask)

Kept == NoReset /\ Clocks /\ Copies /\ Promise

EstimateInv == ClaimInv /\ (resets = 0 => Kept)

LEMMA TheOne ==
    OneTask => /\ Tasks = {TheTask}
               /\ \A a \in Callers : TaskOf[a] = TheTask
BY CallerAssumption DEF OneTask, TheTask

LEMMA EstimateInit == OneTask /\ Init => EstimateInv
<1> SUFFICES ASSUME OneTask, Init PROVE EstimateInv
  OBVIOUS
<1>1. ClaimInv
  BY ClaimInit
<1>2. W \in Nat /\ TheTask \in Tasks
  BY CallerAssumption, TheOne
<1> QED
  BY <1>1, <1>2 DEF Init, EstimateInv, Kept, NoReset, Clocks, Copies, Promise, Claimed, None

\* What a call of the controller keeps, and what it does to the estimate.
LEMMA EstimateUpdate ==
    ASSUME OneTask, ClaimInv, Kept, ClaimInv', resets = 0, NEW a \in Callers, Update(a)
    PROVE  Kept' /\ [Estimate!Next]_(Estimate!vars)
<1>0. /\ Tasks = {TheTask} /\ TheTask \in Tasks
      /\ \A b \in Callers : TaskOf[b] = TheTask
      /\ \A b \in Callers : Locked(a) /\ Locked(b) => b = a
      /\ TypeOK /\ TypeOK' /\ now \in Nat /\ W \in Nat \ {0} /\ None = -1
      /\ resets = 0 /\ resets' = 0
  BY TheOne, OneLocked, CallerAssumption DEF ClaimInv, TypeOK, None, history, Update, Sample, Check,
     ReadPrevious, ReadCurrent, Claim, ReadCapacity, WriteCapacity
<1> USE DEF Goto, shared, local, caller, history, Locked, Claimed, LastUpdate, View,
        Kept, NoReset, Clocks, Copies, Promise, TypeOK, Estimate!vars
<1>1. CASE Sample(a)
  BY <1>0, <1>1 DEF Sample
<1>2. CASE Check(a)
  BY <1>0, <1>2 DEF Check
<1>3. CASE ReadPrevious(a)
  BY <1>0, <1>3 DEF ReadPrevious
<1>4. CASE ReadCurrent(a)
  BY <1>0, <1>4 DEF ReadCurrent, Unlock
<1>5. CASE Claim(a)
  <2>1. ts[a] - LastUpdate(TheTask) >= W
    BY <1>0, <1>5 DEF Claim, ClaimInv, StillDue
  <2>2. /\ \A b \in Callers : b # a => pc'[b] = pc[b] /\ ~Claimed(b)
        /\ ~Claimed(a) /\ Claimed(a)'
        /\ updated' = ts[a] /\ localUpdated'[TheTask] = ts[a]
        /\ View(TheTask)' = View(TheTask)
    BY <1>0, <1>5 DEF Claim
  <2>3. Kept'
    BY <1>0, <1>5, <2>2 DEF Claim
  <2>4. Estimate!Claim
    <3>1. LastUpdate(TheTask)' = ts[a]
      BY <2>2, <1>0
    <3>2. ts[a] >= LastUpdate(TheTask) + W
      BY <2>1, <1>0
    <3> QED
      BY <3>1, <3>2, <2>2 DEF Estimate!Claim
  <2> QED
    BY <1>0, <2>3, <2>4 DEF Estimate!Next, Estimate!Undisturbed
<1>6. CASE ReadCapacity(a)
  BY <1>0, <1>6 DEF ReadCapacity
<1>7. CASE WriteCapacity(a)
  <2>1. PICK c \in Stepped(stats[a], seen[a]) :
          /\ localCap' = [localCap EXCEPT ![TaskOf[a]] = c]
          /\ cap' = c
    BY <1>7 DEF WriteCapacity
  <2>2. /\ seen[a] = View(TheTask) /\ seen[a] \in Range
        /\ \A b \in Callers : b # a => pc'[b] = pc[b] /\ ~Claimed(b)
        /\ Claimed(a) /\ ~Claimed(a)'
        /\ UNCHANGED <<updated, localUpdated, ts, now>>
    BY <1>0, <1>7 DEF WriteCapacity
  <2>3. /\ c \in Range
        /\ c * AlphaDen <= seen[a] * (AlphaDen + AlphaNum)
        /\ (c + 2) * BetaDen > seen[a] * BetaNum
    BY <2>1, <2>2, SteppedInRange
  <2>4. View(TheTask)' = c
    <3>1. c # None
      BY <2>3, <1>0, RangeAssumption DEF Range
    <3> QED
      BY <3>1, <2>1
  <2>5. Kept'
    BY <1>0, <1>7, <2>1, <2>2 DEF WriteCapacity
  <2>6. Estimate!Move
    BY <2>2, <2>3, <2>4 DEF Estimate!Move, Range
  <2> QED
    BY <1>0, <2>5, <2>6 DEF Estimate!Next, Estimate!Undisturbed
<1> QED
  BY <1>1, <1>2, <1>3, <1>4, <1>5, <1>6, <1>7 DEF Update

\* The same of any step that leaves the estimate unreset.
LEMMA EstimateStep ==
    ASSUME OneTask, ClaimInv, Kept, ClaimInv', resets = 0, resets' = 0, [Next]_vars
    PROVE  Kept' /\ [Estimate!Next]_(Estimate!vars)
<1>0. /\ Tasks = {TheTask} /\ TheTask \in Tasks
      /\ \A b \in Callers : TaskOf[b] = TheTask
      /\ TypeOK /\ TypeOK' /\ now \in Nat /\ W \in Nat \ {0} /\ None = -1
      /\ resets = 0 /\ resets' = 0
  BY TheOne, CallerAssumption DEF ClaimInv, TypeOK, None
<1>1. ASSUME NEW a \in Callers, Update(a)
      PROVE  Kept' /\ [Estimate!Next]_(Estimate!vars)
  BY <1>1, EstimateUpdate
<1> USE DEF Goto, shared, local, caller, history, Claimed, LastUpdate, View,
        Kept, NoReset, Clocks, Copies, Promise, TypeOK, Estimate!vars
<1>2. ASSUME NEW a \in Callers, ObserveBad(a) \/ \E isBad \in BOOLEAN : Observe(a, isBad)
      PROVE  Kept' /\ [Estimate!Next]_(Estimate!vars)
  <2>1. /\ UNCHANGED <<cap, updated, localCap, localUpdated, now, seen, overtaken>>
        /\ \A b \in Callers : ts'[b] \in {ts[b], now}
        /\ \A b \in Callers : pc'[b] = pc[b] \/ pc'[b] \in {"bad", "sample"}
        /\ \A b \in Callers : pc'[b] = pc[b] \/ pc[b] \in {"idle", "bad"}
    BY <1>0, <1>2 DEF Observe, ObserveBad
  <2>2. \A b \in Callers : Claimed(b)' <=> Claimed(b)
    BY <2>1
  <2>3. Kept'
    <3>1. NoReset'
      BY <2>1
    <3>2. Clocks' /\ Copies'
      BY <1>0, <2>1
    <3>3. Promise'
      BY <1>0, <2>1, <2>2
    <3> QED
      BY <3>1, <3>2, <3>3
  <2>4. UNCHANGED Estimate!vars
    BY <1>0, <2>1, <2>2
  <2> QED
    BY <2>3, <2>4
<1>3. ASSUME NEW a \in Callers, Reset(a) PROVE FALSE
  BY <1>0, <1>3 DEF Reset, ResetDelete, ResetCapacity, ResetUpdated
<1>4. ASSUME NEW k \in Tasks, Restart(k)
      PROVE  Kept' /\ [Estimate!Next]_(Estimate!vars)
  <2>1. /\ \A b \in Callers : pc'[b] = "idle"
        /\ localCap'[TheTask] = C0 /\ localUpdated'[TheTask] = now
        /\ cap' \in {cap, C0} /\ cap' # None /\ (cap # None => cap' = cap)
        /\ updated' \in {updated, now} /\ updated' # None /\ (updated # None => updated' = updated)
        /\ ts' = ts /\ now' = now /\ overtaken' = overtaken
    <3>1. C0 # None
      BY <1>0, RangeAssumption
    <3> QED
      BY <1>0, <1>4, <3>1 DEF Restart
  <2>2. Kept'
    BY <1>0, <2>1
  <2>3. View(TheTask)' \in {View(TheTask), C0}
    BY <1>0, <2>1
  <2>4. ~\E b \in Callers : Claimed(b)'
    BY <2>1
  <2>5. CASE \E b \in Callers : Claimed(b)
    <3>1. LastUpdate(TheTask)' = LastUpdate(TheTask)
      BY <2>1, <2>5
    <3>2. Estimate!Abandon
      BY <2>3, <2>4, <2>5, <3>1 DEF Estimate!Abandon
    <3> QED
      BY <1>0, <2>2, <3>2 DEF Estimate!Next, Estimate!Undisturbed
  <2>6. CASE ~\E b \in Callers : Claimed(b)
    <3>1. LastUpdate(TheTask)' >= LastUpdate(TheTask)
      BY <1>0, <2>1
    <3>2. Estimate!Forget
      BY <2>3, <2>4, <2>6, <3>1 DEF Estimate!Forget
    <3> QED
      BY <1>0, <2>2, <3>2 DEF Estimate!Next, Estimate!Undisturbed
  <2> QED
    BY <2>5, <2>6
<1>5. CASE Tick
  BY <1>0, <1>5 DEF Tick
<1>6. CASE IdleDay
  <2>1. Kept'
    BY <1>0, <1>6 DEF IdleDay
  <2>2. Estimate!Forget
    <3>1. View(TheTask)' \in {View(TheTask), C0}
      BY <1>0, <1>6 DEF IdleDay
    <3>2. LastUpdate(TheTask)' >= LastUpdate(TheTask)
      BY <1>0, <1>6 DEF IdleDay
    <3>3. (~\E b \in Callers : Claimed(b)) /\ ~\E b \in Callers : Claimed(b)'
      BY <1>6 DEF IdleDay
    <3> QED
      BY <3>1, <3>2, <3>3 DEF Estimate!Forget
  <2> QED
    BY <1>0, <2>1, <2>2 DEF Estimate!Next, Estimate!Undisturbed
<1>7. CASE UNCHANGED vars
  BY <1>7 DEF vars
<1> QED
  BY <1>1, <1>2, <1>3, <1>4, <1>5, <1>6, <1>7 DEF Next

\* A reset is never taken back, and the range survives it.
LEMMA EstimateNext ==
    ASSUME OneTask, EstimateInv, [Next]_vars
    PROVE  EstimateInv' /\ [Estimate!Next]_(Estimate!vars)
<1>1. ClaimInv /\ ClaimInv' /\ TypeOK /\ TypeOK' /\ resets \in Nat /\ resets' \in Nat
  BY ClaimNext DEF EstimateInv, ClaimInv, TypeOK
<1>2. CASE resets' = 0
  <2>1. resets = 0
    BY <1>1, <1>2 DEF Next, vars, history, Update, Sample, Check, ReadPrevious, ReadCurrent,
          Claim, ReadCapacity, WriteCapacity, Observe, ObserveBad, Reset, ResetDelete,
          ResetCapacity, ResetUpdated, Restart, Tick, IdleDay
  <2> QED
    BY <1>1, <1>2, <2>1, EstimateStep DEF EstimateInv
<1>3. CASE resets' # 0
  <2>1. (View(TheTask) \in Range)'
    BY <1>1, TheOne DEF View, TypeOK
  <2>2. (resets > 0)'
    BY <1>1, <1>3
  <2> QED
    BY <1>1, <1>3, <2>1, <2>2 DEF EstimateInv, Estimate!Next, Estimate!Disturbed, Range
<1> QED
  BY <1>2, <1>3

\* One task, with any number of threads, any range and any factors, implements
\* the abstract controller: until it is reset, the estimate takes one multiplicative
\* step per claim, claims are a window apart, and it falls back to C0 only after a
\* restart or a day without traffic; its range it keeps through a reset as well.
THEOREM OneTaskEstimates == OneTask => (Spec => ImplementsEstimate)
<1>1. OneTask /\ Init => EstimateInv /\ Estimate!Init
  <2> SUFFICES ASSUME OneTask, Init PROVE EstimateInv /\ Estimate!Init
    OBVIOUS
  <2>1. EstimateInv
    BY EstimateInit
  <2>2. View(TheTask) = C0 /\ LastUpdate(TheTask) = W /\ W \in Nat /\ resets = 0
          /\ ~\E a \in Callers : pc[a] \in {"read", "write"}
    BY CallerAssumption, RangeAssumption DEF Init, View, LastUpdate, None
  <2> QED
    BY <2>1, <2>2 DEF Estimate!Init
<1>2. OneTask /\ EstimateInv /\ [Next]_vars => EstimateInv' /\ [Estimate!Next]_(Estimate!vars)
  BY EstimateNext
<1>3. CASE OneTask
  BY <1>1, <1>2, <1>3, PTL DEF Spec, ImplementsEstimate, Estimate!Spec
<1>4. CASE ~OneTask
  BY <1>4
<1> QED
  BY <1>3, <1>4

=============================================================================
