---------------------------- MODULE ConverseProofs ----------------------------
(***************************************************************************)
(* What the conditional update of consume_quota guarantees for any number  *)
(* of requests, apps and attempts, and any limits.                         *)
(***************************************************************************)
EXTENDS ConverseQuota, FiniteSetTheorems, TLAPS

LEMMA RequestType ==
    ASSUME NEW r \in Requests
    PROVE  /\ AppOf[r] \in Apps
           /\ Est[r] \in Nat /\ 1 <= Est[r] /\ Est[r] <= MaxEst /\ MaxEst \in Nat
           /\ RpmLimit[AppOf[r]] \in Nat /\ TokenLimit[AppOf[r]] \in Nat
  BY AppAssumption

\* A request that may still ask the table has an attempt left.
TriesLeft ==
    \A r \in Requests : pc[r] \in {"new", "consume"} => tries[r] < MaxTries

TypeInv == TypeOK /\ TriesLeft

LEMMA TypeNext == TypeInv /\ [Next]_vars => TypeInv'
<1> SUFFICES ASSUME TypeInv, [Next]_vars PROVE TypeInv'
  OBVIOUS
<1> USE AppAssumption DEF TypeInv, TypeOK, TriesLeft, Minutes, Ended
<1>1. CASE NewMinute
  BY <1>1 DEF NewMinute, table
<1>2. ASSUME NEW r \in Requests, Deny(r) PROVE TypeInv'
  BY <1>2 DEF Deny, Goto, table
<1>3. ASSUME NEW r \in Requests, Identify(r) PROVE TypeInv'
  BY <1>3 DEF Identify, Goto, table
<1>4. ASSUME NEW r \in Requests, Add(r)
      PROVE  /\ requestCount' \in [Minutes -> [Apps -> Nat]]
             /\ tokenCount' \in [Minutes -> [Apps -> Nat]]
  BY <1>4, RequestType DEF Add
<1>5. ASSUME NEW r \in Requests, ConsumeOk(r) PROVE TypeInv'
  BY <1>4, <1>5 DEF ConsumeOk, Goto
<1>6. ASSUME NEW r \in Requests, ConsumeRefused(r) PROVE TypeInv'
  BY <1>6 DEF ConsumeRefused, Goto, table
<1>7. ASSUME NEW r \in Requests, ConsumeLost(r) PROVE TypeInv'
  <2>1. /\ requestCount' \in [Minutes -> [Apps -> Nat]]
        /\ tokenCount' \in [Minutes -> [Apps -> Nat]]
    BY <1>4, <1>7 DEF ConsumeLost, table
  <2>2. pc' \in [Requests -> {"new", "consume", "invoke"} \cup Ended]
    BY <1>7 DEF ConsumeLost, Goto
  <2>3. /\ UNCHANGED <<minute, window>>
        /\ tries[r] < MaxTries /\ tries' = [tries EXCEPT ![r] = @ + 1]
        /\ pc'[r] = "consume" => tries[r] + 1 < MaxTries
        /\ \A s \in Requests : s # r => pc'[s] = pc[s]
        /\ pc'[r] # "new"
    BY <1>7 DEF ConsumeLost, Goto
  <2>4. tries' \in [Requests -> 0 .. MaxTries]
    BY <2>3
  <2>5. TriesLeft'
    BY <2>3
  <2> QED
    BY <2>1, <2>2, <2>3, <2>4, <2>5
<1>8. ASSUME NEW r \in Requests, Invoke(r) PROVE TypeInv'
  BY <1>8 DEF Invoke, Goto, table
<1>9. ASSUME NEW r \in Requests, Die(r) PROVE TypeInv'
  BY <1>9 DEF Die, Goto, table
<1>10. CASE UNCHANGED vars
  BY <1>10 DEF vars, table
<1> QED
  BY <1>1, <1>2, <1>3, <1>5, <1>6, <1>7, <1>8, <1>9, <1>10 DEF Next, Step

\* Every item, program point and attempt count of the production path keeps
\* its type: no request asks the table more often than the SDK allows.
THEOREM TypeCorrect == Spec => []TypeOK
<1>1. Init => TypeInv
  BY AppAssumption DEF Init, TypeInv, TypeOK, TriesLeft, Minutes
<1>2. TypeInv => TypeOK
  BY DEF TypeInv
<1> QED
  BY <1>1, <1>2, TypeNext, PTL DEF Spec

-----------------------------------------------------------------------------
(***************************************************************************)
(* The table: what a step may do to it.                                    *)
(***************************************************************************)

\* The table changes only by a charge that passed its condition.
LEMMA TableMoves ==
    ASSUME [Next]_vars
    PROVE  (UNCHANGED table) \/ \E r \in Requests : HasRoom(r) /\ Add(r)
<1>1. ASSUME NEW r \in Requests, Step(r) \/ Die(r)
      PROVE  (UNCHANGED table) \/ (HasRoom(r) /\ Add(r))
  BY <1>1 DEF Step, Deny, Identify, ConsumeOk, ConsumeRefused, ConsumeLost,
     Invoke, Die
<1>2. CASE NewMinute \/ UNCHANGED vars
  BY <1>2 DEF NewMinute, vars
<1> QED
  BY <1>1, <1>2 DEF Next

LEMMA AddEffect ==
    ASSUME TypeOK, NEW r \in Requests, Add(r), NEW m \in Minutes, NEW a \in Apps
    PROVE  IF m = window[r] /\ a = AppOf[r]
           THEN /\ requestCount'[m][a] = requestCount[m][a] + 1
                /\ tokenCount'[m][a] = tokenCount[m][a] + Est[r]
           ELSE /\ requestCount'[m][a] = requestCount[m][a]
                /\ tokenCount'[m][a] = tokenCount[m][a]
  BY RequestType DEF TypeOK, Add

\* No charge is ever taken back.
LEMMA TableGrows ==
    ASSUME TypeOK, [Next]_vars, NEW m \in Minutes, NEW a \in Apps
    PROVE  /\ requestCount[m][a] \in Nat /\ tokenCount[m][a] \in Nat
           /\ requestCount'[m][a] \in Nat /\ tokenCount'[m][a] \in Nat
           /\ requestCount'[m][a] >= requestCount[m][a]
           /\ tokenCount'[m][a] >= tokenCount[m][a]
<1>1. requestCount[m][a] \in Nat /\ tokenCount[m][a] \in Nat
  BY DEF TypeOK
<1>2. CASE UNCHANGED table
  BY <1>1, <1>2 DEF table
<1>3. ASSUME NEW r \in Requests, Add(r)
      PROVE  /\ requestCount'[m][a] \in Nat /\ tokenCount'[m][a] \in Nat
             /\ requestCount'[m][a] >= requestCount[m][a]
             /\ tokenCount'[m][a] >= tokenCount[m][a]
  BY <1>1, <1>3, AddEffect, RequestType
<1> QED
  BY <1>1, <1>2, <1>3, TableMoves

-----------------------------------------------------------------------------
(***************************************************************************)
(* The quota.                                                              *)
(***************************************************************************)

\* An item without requests has no tokens either: what passes because there
\* is no item starts from nothing.
Together ==
    \A m \in Minutes, a \in Apps : requestCount[m][a] = 0 => tokenCount[m][a] = 0

QuotaInv == TypeInv /\ Together /\ QuotaHolds

LEMMA QuotaNext == QuotaInv /\ [Next]_vars => QuotaInv'
<1> SUFFICES ASSUME QuotaInv, [Next]_vars PROVE QuotaInv'
  OBVIOUS
<1>1. TypeInv' /\ TypeOK
  BY TypeNext DEF QuotaInv, TypeInv
<1>2. CASE UNCHANGED table
  BY <1>1, <1>2 DEF QuotaInv, Together, QuotaHolds, table
<1>3. ASSUME NEW r \in Requests, HasRoom(r), Add(r),
             NEW m \in Minutes, NEW a \in Apps
      PROVE  /\ requestCount'[m][a] # 0 \/ tokenCount'[m][a] = 0
             /\ requestCount'[m][a] <= AtLeastOne(RpmLimit[a])
             /\ tokenCount'[m][a] < AtLeastOne(TokenLimit[a]) + MaxEst
  <2>1. /\ requestCount[m][a] \in Nat /\ tokenCount[m][a] \in Nat
        /\ RpmLimit[a] \in Nat /\ TokenLimit[a] \in Nat
    BY <1>1, AppAssumption DEF TypeOK
  <2>2. CASE m = window[r] /\ a = AppOf[r]
    <3>1. /\ requestCount'[m][a] = requestCount[m][a] + 1
          /\ tokenCount'[m][a] = tokenCount[m][a] + Est[r]
      BY <1>1, <1>3, <2>2, AddEffect
    <3>2. \/ requestCount[m][a] = 0 /\ tokenCount[m][a] = 0
          \/ requestCount[m][a] < RpmLimit[a] /\ tokenCount[m][a] < TokenLimit[a]
      BY <1>3, <2>2 DEF HasRoom, NoItem, Item, QuotaInv, Together
    <3> QED
      BY <2>1, <3>1, <3>2, RequestType DEF AtLeastOne
  <2>3. CASE ~(m = window[r] /\ a = AppOf[r])
    BY <1>1, <1>3, <2>3, AddEffect DEF QuotaInv, Together, QuotaHolds
  <2> QED
    BY <2>2, <2>3
<1>4. CASE \E r \in Requests : HasRoom(r) /\ Add(r)
  BY <1>1, <1>3, <1>4 DEF QuotaInv, Together, QuotaHolds
<1> QED
  BY <1>2, <1>4, TableMoves

\* An app's minute carries at most rpm_limit requests and less than one
\* estimate beyond token_limit, for any number of requests, repeated attempts
\* and replaced tasks.
THEOREM QuotaBound == Spec => []QuotaHolds
<1>1. Init => QuotaInv
  BY AppAssumption DEF Init, QuotaInv, TypeInv, TypeOK, TriesLeft, Together,
     QuotaHolds, AtLeastOne, Minutes
<1>2. QuotaInv => QuotaHolds
  BY DEF QuotaInv
<1> QED
  BY <1>1, <1>2, QuotaNext, PTL DEF Spec

-----------------------------------------------------------------------------
(***************************************************************************)
(* Refusals and invocations.                                               *)
(***************************************************************************)

RefusalInv == TypeInv /\ RefusedOnlyWhenFull

LEMMA RefusalNext == RefusalInv /\ [Next]_vars => RefusalInv'
<1> SUFFICES ASSUME RefusalInv, [Next]_vars, NEW r \in Requests,
                    pc'[r] = "refused"
             PROVE  ~HasRoom(r)'
  BY TypeNext DEF RefusalInv, RefusedOnlyWhenFull
<1>1. TypeOK
  BY DEF RefusalInv, TypeInv
<1>2. CASE pc[r] = "refused"
  <2>1. window'[r] = window[r]
    <3>1. ASSUME NEW s \in Requests, Step(s) \/ Die(s)
          PROVE  window'[r] = window[r]
      BY <1>1, <1>2, <3>1 DEF Step, Deny, Identify, ConsumeOk, ConsumeRefused,
         ConsumeLost, Invoke, Die, TypeOK
    <3>2. CASE NewMinute \/ UNCHANGED vars
      BY <3>2 DEF NewMinute, vars
    <3> QED
      BY <3>1, <3>2 DEF Next
  <2>2. ~HasRoom(r)
    BY <1>2 DEF RefusalInv, RefusedOnlyWhenFull
  <2>3. window[r] \in Minutes /\ AppOf[r] \in Apps
    BY <1>1, RequestType DEF TypeOK
  <2> QED
    BY <1>1, <2>1, <2>2, <2>3, TableGrows, RequestType
    DEF HasRoom, NoItem, Item
<1>3. CASE pc[r] # "refused"
  <2>1. ~HasRoom(r) /\ UNCHANGED <<window, table>>
    <3>1. ASSUME NEW s \in Requests, Step(s) \/ Die(s)
          PROVE  ~HasRoom(r) /\ UNCHANGED <<window, table>>
      BY <1>1, <1>3, <3>1 DEF Step, Deny, Identify, ConsumeOk, ConsumeRefused,
         ConsumeLost, Invoke, Die, Goto, TypeOK
    <3>2. CASE NewMinute \/ UNCHANGED vars
      BY <1>3, <3>2 DEF NewMinute, vars
    <3> QED
      BY <3>1, <3>2 DEF Next
  <2> QED
    BY <2>1 DEF HasRoom, NoItem, Item, table
<1> QED
  BY <1>2, <1>3

\* A caller is told 429 only when its app's minute is used up.
THEOREM RefusalsTrue == Spec => []RefusedOnlyWhenFull
<1>1. Init => RefusalInv
  BY AppAssumption DEF Init, RefusalInv, RefusedOnlyWhenFull, TypeInv, TypeOK,
     TriesLeft, Minutes
<1>2. RefusalInv => RefusedOnlyWhenFull
  BY DEF RefusalInv
<1> QED
  BY <1>1, <1>2, RefusalNext, PTL DEF Spec

-----------------------------------------------------------------------------
(***************************************************************************)
(* Every invocation is paid for.                                           *)
(***************************************************************************)

PaidInv == TypeInv /\ PaidBeforeInvoked

LEMMA InvokedFinite ==
    ASSUME NEW m, NEW a
    PROVE  IsFiniteSet(Invoked(m, a)) /\ Cardinality(Invoked(m, a)) \in Nat
  BY AppAssumption, FS_Subset, FS_CardinalityType DEF Invoked

\* Only a granted charge sends a request on to Bedrock.
LEMMA InvokedMoves ==
    ASSUME TypeOK, [Next]_vars, NEW m \in Minutes, NEW a \in Apps
    PROVE  \/ Invoked(m, a)' \subseteq Invoked(m, a)
           \/ \E r \in Requests :
                 /\ Add(r) /\ m = window[r] /\ a = AppOf[r]
                 /\ Invoked(m, a)' \subseteq Invoked(m, a) \cup {r}
<1> USE DEF TypeOK, Goto, Invoked
<1>1. ASSUME NEW r \in Requests, Deny(r) \/ Identify(r) \/ ConsumeRefused(r)
      PROVE  Invoked(m, a)' \subseteq Invoked(m, a)
  BY <1>1 DEF Deny, Identify, ConsumeRefused
<1>2. ASSUME NEW r \in Requests, ConsumeLost(r)
      PROVE  Invoked(m, a)' \subseteq Invoked(m, a)
  BY <1>2 DEF ConsumeLost
<1>3. ASSUME NEW r \in Requests, Invoke(r) \/ Die(r)
      PROVE  Invoked(m, a)' \subseteq Invoked(m, a)
  BY <1>3 DEF Invoke, Die, Ended
<1>4. ASSUME NEW r \in Requests, ConsumeOk(r)
      PROVE  \/ Invoked(m, a)' \subseteq Invoked(m, a)
             \/ /\ Add(r) /\ m = window[r] /\ a = AppOf[r]
                /\ Invoked(m, a)' \subseteq Invoked(m, a) \cup {r}
  BY <1>4 DEF ConsumeOk
<1>5. CASE NewMinute \/ UNCHANGED vars
  BY <1>5 DEF NewMinute, vars
<1> QED
  BY <1>1, <1>2, <1>3, <1>4, <1>5 DEF Next, Step

LEMMA PaidNext == PaidInv /\ [Next]_vars => PaidInv'
<1> SUFFICES ASSUME PaidInv, [Next]_vars, NEW m \in Minutes, NEW a \in Apps
             PROVE  Cardinality(Invoked(m, a)') <= requestCount'[m][a]
  BY TypeNext DEF PaidInv, PaidBeforeInvoked
<1>1. TypeOK /\ Cardinality(Invoked(m, a)) <= requestCount[m][a]
  BY DEF PaidInv, PaidBeforeInvoked, TypeInv
<1>2. /\ IsFiniteSet(Invoked(m, a)) /\ Cardinality(Invoked(m, a)) \in Nat
      /\ IsFiniteSet(Invoked(m, a)') /\ Cardinality(Invoked(m, a)') \in Nat
  <2>1. Invoked(m, a)' \subseteq Requests
    BY DEF Invoked
  <2> QED
    BY <2>1, InvokedFinite, AppAssumption, FS_Subset, FS_CardinalityType
<1>3. CASE Invoked(m, a)' \subseteq Invoked(m, a)
  <2>1. Cardinality(Invoked(m, a)') <= Cardinality(Invoked(m, a))
    BY <1>2, <1>3, FS_Subset
  <2> QED
    BY <1>1, <1>2, <2>1, TableGrows
<1>4. ASSUME NEW r \in Requests, Add(r), m = window[r], a = AppOf[r],
             Invoked(m, a)' \subseteq Invoked(m, a) \cup {r}
      PROVE  Cardinality(Invoked(m, a)') <= requestCount'[m][a]
  <2>1. requestCount'[m][a] = requestCount[m][a] + 1
    BY <1>1, <1>4, AddEffect
  <2>2. /\ IsFiniteSet(Invoked(m, a) \cup {r})
        /\ Cardinality(Invoked(m, a) \cup {r}) <= Cardinality(Invoked(m, a)) + 1
        /\ Cardinality(Invoked(m, a) \cup {r}) \in Nat
    <3>1. /\ IsFiniteSet(Invoked(m, a) \cup {r})
          /\ \/ Cardinality(Invoked(m, a) \cup {r}) = Cardinality(Invoked(m, a))
             \/ Cardinality(Invoked(m, a) \cup {r}) = Cardinality(Invoked(m, a)) + 1
      BY <1>2, FS_AddElement
    <3> QED
      BY <1>2, <3>1
  <2>3. Cardinality(Invoked(m, a)') <= Cardinality(Invoked(m, a) \cup {r})
    BY <1>4, <2>2, FS_Subset
  <2> QED
    BY <1>1, <1>2, <2>1, <2>2, <2>3 DEF TypeOK
<1> QED
  BY <1>1, <1>3, <1>4, InvokedMoves

\* Bedrock is never called for a request whose charge is not in the table,
\* whatever answers were lost on the way.
THEOREM NoFreeInvocation == Spec => []PaidBeforeInvoked
<1>1. Init => PaidInv
  <2> SUFFICES ASSUME Init PROVE PaidInv
    OBVIOUS
  <2>1. TypeInv
    BY AppAssumption DEF Init, TypeInv, TypeOK, TriesLeft, Minutes
  <2>2. ASSUME NEW m \in Minutes, NEW a \in Apps
        PROVE  Cardinality(Invoked(m, a)) <= requestCount[m][a]
    <3>1. Invoked(m, a) = {}
      BY DEF Init, Invoked
    <3> QED
      BY <3>1, FS_EmptySet DEF Init
  <2> QED
    BY <2>1, <2>2 DEF PaidInv, PaidBeforeInvoked
<1>2. PaidInv => PaidBeforeInvoked
  BY DEF PaidInv
<1> QED
  BY <1>1, <1>2, PaidNext, PTL DEF Spec
=============================================================================
