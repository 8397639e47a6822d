--------------------------- MODULE AdaptiveCapacity ---------------------------
(***************************************************************************)
(* The AIMD estimate C_hat of gateway/app/adaptive_capacity.py.            *)
(*                                                                         *)
(* Every task keeps an AdaptiveCapacity object with a lock of its own and  *)
(* a local copy of the estimate; the estimate, the time of its last update *)
(* and the counters of each window are shared in Redis.  The callers are   *)
(* the threads of a task: its event loop, which observes outcomes and asks *)
(* for the budget, and the thread pool, which answers /health and the      *)
(* reset request.  A step of a caller is one Redis call with the local     *)
(* code before it; the four GETs of _window_stats are taken together.      *)
(*                                                                         *)
(* A window has two counters here: offered (admits and rejects) and bad    *)
(* (Bedrock 429 and 5xx); the others and last_action decide nothing.  The  *)
(* local copy keeps whole tokens, the code keeps the fraction it truncates *)
(* when the shared value is written.                                       *)
(***************************************************************************)
EXTENDS Integers

CONSTANTS
    Tasks, Callers, TaskOf,    \* the tasks and their threads
    C0, CMin, CMax,            \* c0, c_min, c_max
    AlphaNum, AlphaDen,        \* alpha, as a fraction
    BetaNum, BetaDen,          \* beta
    Inexact,                   \* 1 + alpha and beta have no exact binary64
    W,                         \* window_s
    MaxTime,                   \* bound on the clock
    MaxObservations,           \* bound on the outcomes observed
    MaxResets, MaxRestarts     \* bounds on resets, and on tasks replaced

None == -1

ASSUME CallerAssumption ==
    /\ TaskOf \in [Callers -> Tasks]
    /\ None \notin Callers
    /\ W \in Nat \ {0}
    /\ {MaxTime, MaxObservations, MaxResets, MaxRestarts} \subseteq Nat
    /\ MaxTime >= W

\* The estimate starts in its range (the defaults are 50k, 100k and 2M).
ASSUME RangeAssumption ==
    /\ C0 \in Nat /\ CMin \in Nat /\ CMax \in Nat
    /\ 1 <= CMin /\ CMin <= C0 /\ C0 <= CMax
    /\ AlphaNum \in Nat \ {0} /\ AlphaDen \in Nat \ {0}
    /\ BetaNum \in Nat /\ BetaDen \in Nat \ {0} /\ BetaNum <= BetaDen
    /\ Inexact \in BOOLEAN

VARIABLES
    now,          \* time.time()
    cap,          \* adaptive:capacity, or None
    updated,      \* adaptive:updated_at, or None
    offered, bad, \* adaptive:w:<bucket>:...
    localCap, localUpdated, lock,    \* of each task
    pc,           \* where each caller is
    ts,           \* the clock as the caller sampled it
    stats,        \* the window the caller looks at
    seen,         \* the estimate it read
    observations, resets, restarts,
    overtaken     \* history: the callers that a reset has written since they
                  \* last read the time of the last update

shared == <<cap, updated, offered, bad>>
local == <<localCap, localUpdated, lock>>
caller == <<pc, ts, stats, seen>>
history == <<observations, resets, restarts, overtaken>>
vars == <<now, shared, local, caller, history>>

Bucket(time) == time \div W
Buckets == 0 .. Bucket(MaxTime)
Empty == [offered |-> 0, bad |-> 0]

\* The first task has seeded the shared keys (_seed_shared_state).
Init ==
    /\ now = W
    /\ cap = C0
    /\ updated = W
    /\ offered = [b \in Buckets |-> 0]
    /\ bad = [b \in Buckets |-> 0]
    /\ localCap = [k \in Tasks |-> C0]
    /\ localUpdated = [k \in Tasks |-> W]
    /\ lock = [k \in Tasks |-> None]
    /\ pc = [a \in Callers |-> "idle"]
    /\ ts = [a \in Callers |-> W]
    /\ stats = [a \in Callers |-> Empty]
    /\ seen = [a \in Callers |-> C0]
    /\ observations = 0 /\ resets = 0 /\ restarts = 0 /\ overtaken = {}

Goto(a, next) == pc' = [pc EXCEPT ![a] = next]

-----------------------------------------------------------------------------
(***************************************************************************)
(* observe: count the outcome, then update.                                *)
(***************************************************************************)

\* The first counter of an outcome.  A provider error is counted next, under
\* the bucket sampled here.
Observe(a, isBad) ==
    /\ pc[a] = "idle"
    /\ observations < MaxObservations
    /\ observations' = observations + 1
    /\ ts' = [ts EXCEPT ![a] = now]
    /\ offered' = [offered EXCEPT ![Bucket(now)] = @ + 1]
    /\ Goto(a, IF isBad THEN "bad" ELSE "sample")
    /\ UNCHANGED <<now, cap, updated, bad, local, stats, seen, resets, restarts, overtaken>>

ObserveBad(a) ==
    /\ pc[a] = "bad"
    /\ bad' = [bad EXCEPT ![Bucket(ts[a])] = @ + 1]
    /\ Goto(a, "sample")
    /\ UNCHANGED <<now, cap, updated, offered, local, ts, stats, seen, history>>

-----------------------------------------------------------------------------
(***************************************************************************)
(* _maybe_update, called by observe, by current_budget and by snapshot.    *)
(***************************************************************************)

\* The clock is read before the lock is asked for.
Sample(a) ==
    /\ pc[a] \in {"idle", "sample"}
    /\ ts' = [ts EXCEPT ![a] = now]
    /\ Goto(a, "check")
    /\ UNCHANGED <<now, shared, local, stats, seen, history>>

\* _read_updated_at
LastUpdate(k) == IF updated # None THEN updated ELSE localUpdated[k]

\* The same read without the lock.
CheckUnlocked(a) ==
    /\ pc[a] = "check"
    /\ Goto(a, IF ts[a] - LastUpdate(TaskOf[a]) < W THEN "idle" ELSE "prev")
    /\ overtaken' = overtaken \ {a}
    /\ UNCHANGED <<now, shared, local, ts, stats, seen, observations, resets, restarts>>

\* Taking the lock and reading the time of the last update; too early, the
\* lock is given back at once.
Check(a) ==
    /\ pc[a] = "check"
    /\ lock[TaskOf[a]] = None
    /\ IF ts[a] - LastUpdate(TaskOf[a]) < W
       THEN Goto(a, "idle") /\ UNCHANGED lock
       ELSE Goto(a, "prev") /\ lock' = [lock EXCEPT ![TaskOf[a]] = a]
    /\ overtaken' = overtaken \ {a}
    /\ UNCHANGED <<now, shared, localCap, localUpdated, ts, stats, seen, observations,
                   resets, restarts>>

\* _window_stats
WindowStats(b) == [offered |-> offered[b], bad |-> bad[b]]

ReadPrevious(a) ==
    /\ pc[a] = "prev"
    /\ stats' = [stats EXCEPT ![a] = WindowStats(Bucket(ts[a] - W))]
    /\ Goto(a, "cur")
    /\ UNCHANGED <<now, shared, local, ts, seen, history>>

Busier(s, t) == s.offered + s.bad > t.offered + t.bad

Unlock(k) == lock' = [lock EXCEPT ![k] = None]

\* The busier of the two windows decides, the previous one when equal; with
\* nothing in it, nothing is claimed.
ReadCurrent(a) ==
    /\ pc[a] = "cur"
    /\ LET current == WindowStats(Bucket(ts[a]))
           chosen == IF Busier(current, stats[a]) THEN current ELSE stats[a]
       IN  /\ stats' = [stats EXCEPT ![a] = chosen]
           /\ IF chosen = Empty
              THEN Goto(a, "idle") /\ Unlock(TaskOf[a])
              ELSE Goto(a, "claim") /\ UNCHANGED lock
    /\ UNCHANGED <<now, shared, localCap, localUpdated, ts, seen, history>>

\* A claim remembered in Redis alone.
ClaimSharedOnly(a) ==
    /\ pc[a] = "claim"
    /\ updated' = ts[a]
    /\ Goto(a, "read")
    /\ UNCHANGED <<now, cap, offered, bad, local, ts, stats, seen, history>>

\* _set_updated_at
Claim(a) ==
    /\ pc[a] = "claim"
    /\ localUpdated' = [localUpdated EXCEPT ![TaskOf[a]] = ts[a]]
    /\ updated' = ts[a]
    /\ Goto(a, "read")
    /\ UNCHANGED <<now, cap, offered, bad, localCap, lock, ts, stats, seen, history>>

\* What _read_capacity returns.
View(k) == IF cap # None THEN cap ELSE localCap[k]

\* _read_capacity
ReadCapacity(a) ==
    /\ pc[a] = "read"
    /\ seen' = [seen EXCEPT ![a] = View(TaskOf[a])]
    /\ Goto(a, "write")
    /\ UNCHANGED <<now, shared, local, ts, stats, history>>

AtLeast(bound, c) == IF c < bound THEN bound ELSE c
AtMost(bound, c) == IF c > bound THEN bound ELSE c

\* int(c * num / den): binary64 may miss a whole product from below.
Scaled(c, num, den) ==
    LET q == (c * num) \div den
    IN  IF Inexact /\ q * den = c * num THEN {q - 1, q} ELSE {q}

Decreased(c) == {AtLeast(CMin, q) : q \in Scaled(c, BetaNum, BetaDen)}
IncreasedUnbounded(c) == Scaled(c, AlphaDen + AlphaNum, AlphaDen)
Increased(c) == {AtMost(CMax, q) : q \in Scaled(c, AlphaDen + AlphaNum, AlphaDen)}

\* A multiplicative step down after provider errors, up otherwise.
Stepped(s, c) == IF s.bad > 0 THEN Decreased(c) ELSE Increased(c)

\* _write_capacity, and the end of the locked section.
WriteCapacity(a) ==
    /\ pc[a] = "write"
    /\ \E c \in Stepped(stats[a], seen[a]) :
          /\ localCap' = [localCap EXCEPT ![TaskOf[a]] = c]
          /\ cap' = c
    /\ Unlock(TaskOf[a])
    /\ stats' = [stats EXCEPT ![a] = Empty]
    /\ seen' = [seen EXCEPT ![a] = C0]
    /\ Goto(a, "idle")
    /\ UNCHANGED <<now, updated, offered, bad, localUpdated, ts, history>>

-----------------------------------------------------------------------------
(***************************************************************************)
(* reset, in a thread of the pool and without the lock.                    *)
(***************************************************************************)

\* Delete the estimate, the time of its update and the recent windows.
ResetDelete(a) ==
    /\ pc[a] = "idle"
    /\ resets < MaxResets
    /\ resets' = resets + 1
    /\ ts' = [ts EXCEPT ![a] = now]
    /\ cap' = None /\ updated' = None
    /\ LET recent == Bucket(now) - 8 .. Bucket(now) + 1
       IN  /\ offered' = [b \in Buckets |-> IF b \in recent THEN 0 ELSE offered[b]]
           /\ bad' = [b \in Buckets |-> IF b \in recent THEN 0 ELSE bad[b]]
    /\ overtaken' = Callers
    /\ Goto(a, "resetCap")
    /\ UNCHANGED <<now, local, stats, seen, observations, restarts>>

ResetCapacity(a) ==
    /\ pc[a] = "resetCap"
    /\ localCap' = [localCap EXCEPT ![TaskOf[a]] = C0]
    /\ localUpdated' = [localUpdated EXCEPT ![TaskOf[a]] = ts[a]]
    /\ cap' = C0
    /\ overtaken' = Callers
    /\ Goto(a, "resetUpdated")
    /\ UNCHANGED <<now, updated, offered, bad, lock, ts, stats, seen, observations, resets,
                   restarts>>

\* The last write; the handler then takes a snapshot, which may update.
ResetUpdated(a) ==
    /\ pc[a] = "resetUpdated"
    /\ updated' = ts[a]
    /\ overtaken' = Callers
    /\ Goto(a, "sample")
    /\ UNCHANGED <<now, cap, offered, bad, local, ts, stats, seen, observations, resets,
                   restarts>>

-----------------------------------------------------------------------------
(***************************************************************************)
(* Time, expiry and the replacement of a task.                             *)
(***************************************************************************)

Tick ==
    /\ now < MaxTime
    /\ now' = now + 1
    /\ UNCHANGED <<shared, local, caller, history>>

\* A day without an update: the shared keys and all windows have expired.  Of
\* the length of the day, only that it exceeds a window makes a difference.
IdleDay ==
    /\ \A a \in Callers : pc[a] = "idle"
    /\ now + W <= MaxTime
    /\ now' = now + W
    /\ cap' = None /\ updated' = None
    /\ offered' = [b \in Buckets |-> 0]
    /\ bad' = [b \in Buckets |-> 0]
    /\ UNCHANGED <<local, caller, history>>

\* A task dies wherever its threads are and its replacement seeds what is
\* missing.
Restart(k) ==
    /\ restarts < MaxRestarts
    /\ restarts' = restarts + 1
    /\ localCap' = [localCap EXCEPT ![k] = C0]
    /\ localUpdated' = [localUpdated EXCEPT ![k] = now]
    /\ Unlock(k)
    /\ cap' = IF cap = None THEN C0 ELSE cap
    /\ updated' = IF updated = None THEN now ELSE updated
    /\ pc' = [a \in Callers |-> IF TaskOf[a] = k THEN "idle" ELSE pc[a]]
    /\ stats' = [a \in Callers |-> IF TaskOf[a] = k THEN Empty ELSE stats[a]]
    /\ seen' = [a \in Callers |-> IF TaskOf[a] = k THEN C0 ELSE seen[a]]
    /\ UNCHANGED <<now, offered, bad, ts, observations, resets, overtaken>>

Update(a) ==
    \/ Sample(a) \/ Check(a) \/ ReadPrevious(a) \/ ReadCurrent(a)
    \/ Claim(a) \/ ReadCapacity(a) \/ WriteCapacity(a)

Reset(a) == ResetDelete(a) \/ ResetCapacity(a) \/ ResetUpdated(a)

Next ==
    \/ \E a \in Callers :
          \/ Update(a) \/ ObserveBad(a) \/ Reset(a)
          \/ \E isBad \in BOOLEAN : Observe(a, isBad)
    \/ \E k \in Tasks : Restart(k)
    \/ Tick \/ IdleDay

Spec == Init /\ [][Next]_vars

-----------------------------------------------------------------------------
(***************************************************************************)
(* Properties.                                                             *)
(***************************************************************************)

Range == CMin .. CMax

TypeOK ==
    /\ now \in W .. MaxTime
    /\ cap \in Range \cup {None}
    /\ updated \in (W .. MaxTime) \cup {None}
    /\ offered \in [Buckets -> Nat]
    /\ bad \in [Buckets -> Nat]
    /\ localCap \in [Tasks -> Range]
    /\ localUpdated \in [Tasks -> W .. MaxTime]
    /\ lock \in [Tasks -> Callers \cup {None}]
    /\ pc \in [Callers -> {"idle", "bad", "sample", "check", "prev", "cur",
                           "claim", "read", "write", "resetCap", "resetUpdated"}]
    /\ ts \in [Callers -> W .. MaxTime]
    /\ stats \in [Callers -> [offered : Nat, bad : Nat]]
    /\ seen \in [Callers -> Range]
    /\ observations \in Nat /\ resets \in Nat /\ restarts \in Nat
    /\ overtaken \subseteq Callers

\* Whatever two tasks and a reset do to each other, and whether the shared key
\* is there or has expired, the budget a task divides by is between CMin and
\* CMax: never zero, never absent, never beyond the ceiling.
EstimateInRange == \A k \in Tasks : View(k) \in Range

\* An update is claimed only while it is due.  The time of the last update is
\* read two window reads before the claim, under the lock of the task: within
\* a task nobody claims the same window in between ("Claim this window
\* update."), neither a thread nor a task started in its place.  Only a reset
\* moves that time without the lock; an update it overtakes claims all the same.
ClaimStillDue ==
    [][\A a \in Callers \ overtaken :
          pc[a] = "claim" /\ pc'[a] = "read"
              => ts[a] - LastUpdate(TaskOf[a]) >= W]_vars

\* The docstring of the module: the estimate is raised when recent traffic is
\* healthy.  Of the two windows an update looks at, neither holds a provider
\* error when it goes up.
IncreaseOnlyWhenHealthy ==
    [][\A a \in Callers :
          pc[a] = "cur" /\ pc'[a] = "claim" /\ stats'[a].bad = 0
              => stats[a].bad = 0 /\ bad[Bucket(ts[a])] = 0]_vars

\* With one task the controller is an AimdEstimate: its lock makes the check, the
\* claim and the step of an update one transaction, and between the claim and the
\* write the estimate is promised to nobody else, until a reset, which takes no
\* lock, writes between any two of them.
TheTask == CHOOSE k \in Tasks : TRUE

Estimate ==
    INSTANCE AimdEstimate WITH
        estimate <- View(TheTask),
        last <- LastUpdate(TheTask),
        claimed <- \E a \in Callers : pc[a] \in {"read", "write"},
        wasReset <- resets > 0

ImplementsEstimate == Estimate!Spec
=============================================================================
