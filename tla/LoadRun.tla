-------------------------------- MODULE LoadRun --------------------------------
(***************************************************************************)
(* The load of one run: the plan scenario.py makes of a YAML file, the     *)
(* Locust users that follow it, and bedrock_background.py, which presses   *)
(* on Bedrock beside the gateway for a part of the run and has to be gone  *)
(* when the runner goes on to fetch the results.                           *)
(*                                                                         *)
(* Users are greenlets of one process: they give way at network calls and  *)
(* sleeps only.  The workers of the background are threads of another      *)
(* process, of which the runner only learns whether it has exited.         *)
(*                                                                         *)
(* How rates are planned, what load a scenario offers and what is read     *)
(* from its events are functions: TrafficPlan, OfferedLoad, Contraction.   *)
(***************************************************************************)
EXTENDS TrafficPlan, OfferedLoad, Contraction

CONSTANTS
    Users, Workers,
    Profiles,        \* the tenants of the scenario, in the order of the file
    Victim,
    BaseWait,        \* ticks between two requests of a tenant, 60 / rpm
    MaxWait,         \* 60 / 0.05, the wait of the least rate
    Burst,           \* the victim's multiplier in each phase
    Ends,            \* end_s of each phase in the YAML file
    BgStart, BgEnd,  \* the window of the background in the file
    SmokeDurations,  \* duration_s of a smoke run: one of these
    None,
    MaxStartup,      \* bound on the ticks until Locust starts its test
    MaxCalls         \* bound on the calls of the background

Last(s) == s[Len(s)]
Tenants == {Profiles[i] : i \in DOMAIN Profiles}
Indices == 1 .. Len(Ends)

ASSUME ScenarioAssumption ==
    /\ IsFiniteSet(Users) /\ IsFiniteSet(Workers)
    /\ Profiles \in Seq(Tenants) /\ Victim \in Tenants
    /\ Cardinality(Users) = Len(Profiles) /\ Len(Profiles) > 0
    /\ Cardinality(Tenants) = Len(Profiles)
    /\ BaseWait \in [Tenants -> Nat \ {0}] /\ MaxWait \in Nat \ {0}
    /\ Ends \in Seq(Nat) /\ Len(Ends) > 0 /\ Ends[1] > 0
    /\ \A i, j \in Indices : i < j => Ends[i] < Ends[j]
    /\ Burst \in [Indices -> Nat \ {0}]
    /\ \A i \in Indices : BaseWait[Victim] % Burst[i] = 0
    /\ BgStart \in 0 .. BgEnd /\ BgEnd \in 0 .. Last(Ends)
    /\ SmokeDurations \subseteq 1 .. Last(Ends)
    /\ None \notin Nat \cup Tenants
    /\ MaxStartup \in Nat /\ MaxCalls \in Nat

VARIABLES
    smoke,          \* duration_s of a --smoke run, or None
    time,           \* ticks since the background process started
    stage,          \* where the runner is
    testStart,      \* _TEST_START
    index,          \* _tenant_index
    upc, profile,   \* where each user is, and its tenant
    wake,           \* when its wait is over
    sent,           \* the requests it has sent
    process,        \* the background process
    wpc,            \* where each of its workers is
    issued,         \* history: calls of the workers to Bedrock
    logged          \* the lines of background.jsonl

users == <<index, upc, profile, wake, sent>>
background == <<process, wpc, issued, logged>>
vars == <<smoke, time, stage, testStart, users, background>>

-----------------------------------------------------------------------------
(***************************************************************************)
(* load_scenario.                                                          *)
(***************************************************************************)

Duration == IF smoke = None THEN Last(Ends) ELSE smoke

\* Mutant: phases of whole ticks, so that 5 ticks in 3 phases end at 3.
SmokedByWidth(i) == i * (smoke \div Len(Ends))

\* int(i * width): the width is a fraction, here an exact one (in floats the
\* last of 7 phases may end a second early; the scenarios have up to 3)
Smoked(i) == (i * smoke) \div Len(Ends)

EndOf(i) == IF i = 0 THEN 0
            ELSE IF smoke = None THEN Ends[i]
            ELSE Smoked(i)

\* start_s <= elapsed < end_s
In(i, elapsed) == EndOf(i - 1) <= elapsed /\ elapsed < EndOf(i)

\* burst_multiplier: the first phase that holds, or else the last one.
PhaseAt(elapsed) ==
    LET current == {i \in Indices : In(i, elapsed)}
    IN  IF current = {} THEN Len(Ends) ELSE Min(current)

\* A bound of the background's window, shortened with the run.
Scaled(t) == IF smoke = None THEN t ELSE (t * smoke) \div Last(Ends)

-----------------------------------------------------------------------------
\* _start_background, before Locust; the log begins empty.
BackgroundStarted ==
    /\ process = "running"
    /\ wpc = [w \in Workers |-> "idle"]
    /\ issued = 0 /\ logged = 0

Init ==
    /\ smoke \in SmokeDurations \cup {None}
    /\ time = 0 /\ stage = "load" /\ testStart = None
    /\ index = 0
    /\ upc = [u \in Users |-> "unborn"]
    /\ profile = [u \in Users |-> None]
    /\ wake = [u \in Users |-> 0]
    /\ sent = [u \in Users |-> 0]
    /\ BackgroundStarted

Elapsed == IF testStart = None THEN 0 ELSE time - testStart

\* Time passes for all; Locust is up before MaxStartup is over.
Tick ==
    /\ time < MaxStartup + Duration
    /\ testStart = None => time < MaxStartup
    /\ time' = time + 1
    /\ UNCHANGED <<smoke, stage, testStart, users, background>>

(***************************************************************************)
(* Locust.                                                                 *)
(***************************************************************************)

Goto(u, here, there) ==
    /\ stage = "load" /\ upc[u] = here
    /\ upc' = [upc EXCEPT ![u] = there]
    /\ UNCHANGED <<smoke, time, stage, testStart, background>>

\* The event comes before any user is spawned.
TestStart ==
    /\ stage = "load" /\ testStart = None
    /\ testStart' = time
    /\ UNCHANGED <<smoke, time, stage, users, background>>

\* on_start up to the answer of STS: other users run meanwhile.
Assume(u) ==
    /\ testStart # None
    /\ Goto(u, "unborn", "assumed")
    /\ UNCHANGED <<index, profile, wake, sent>>

ProfileAt(i) == Profiles[(i % Len(Profiles)) + 1]

\* Mutant: an index read before the call to STS and used after it.
RegisterStale(u) ==
    /\ Goto(u, "assumed", "ready")
    /\ \E i \in 0 .. index : profile' = [profile EXCEPT ![u] = ProfileAt(i)]
    /\ index' = index + 1
    /\ UNCHANGED <<wake, sent>>

\* The rest of on_start gives way to nobody.
Register(u) ==
    /\ Goto(u, "assumed", "ready")
    /\ profile' = [profile EXCEPT ![u] = ProfileAt(index)]
    /\ index' = index + 1
    /\ UNCHANGED <<wake, sent>>

\* max(rpm, 0.05): no tenant waits longer than at this rate.
Floored(wait) == Min({wait, MaxWait})

\* Mutants: a burst for everyone; no floor.
WaitBursting(t, i) == Floored(BaseWait[t] \div Burst[i])
WaitUnfloored(t, i) == IF t = Victim THEN BaseWait[t] \div Burst[i] ELSE BaseWait[t]

\* wait_time of a tenant in a phase: only the victim bursts, and the floor
\* comes last.
Wait(t, i) == Floored(IF t = Victim THEN BaseWait[t] \div Burst[i] ELSE BaseWait[t])

\* infer up to the post: prompt, body and signature.
Send(u) ==
    /\ Goto(u, "ready", "calling")
    /\ sent' = [sent EXCEPT ![u] = @ + 1]
    /\ UNCHANGED <<index, profile, wake>>

\* The answer, and the wait by the phase of the moment.
Answered(u) ==
    /\ Goto(u, "calling", "waiting")
    /\ wake' = [wake EXCEPT ![u] =
                    time + Wait(profile[u], PhaseAt(Elapsed))]
    /\ UNCHANGED <<index, profile, sent>>

Wake(u) ==
    /\ time >= wake[u]
    /\ Goto(u, "waiting", "ready")
    /\ UNCHANGED <<index, profile, wake, sent>>

\* The subprocess ends with --run-time, or before by an error: the code goes
\* on in both cases.
EndLoad ==
    /\ stage = "load"
    /\ stage' = "stop"
    /\ upc' = [u \in Users |-> "gone"]
    /\ UNCHANGED <<smoke, time, testStart, index, profile, wake, sent,
                   background>>

RunTime == testStart # None /\ Elapsed >= Duration /\ EndLoad

(***************************************************************************)
(* The background process: its workers, its main thread.                   *)
(***************************************************************************)

Step(w, here, there) ==
    /\ process # "exited" /\ wpc[w] = here
    /\ wpc' = [wpc EXCEPT ![w] = there]
    /\ UNCHANGED <<smoke, time, stage, testStart, users, process>>

\* From the test of stop to the call.
Begin(w) ==
    /\ process = "running" /\ time < Duration
    /\ Scaled(BgStart) <= time /\ time < Scaled(BgEnd)
    /\ issued < MaxCalls
    /\ Step(w, "idle", "calling")
    /\ issued' = issued + 1
    /\ UNCHANGED logged

\* A stream to its end, a refusal or any other exception: an event each.
Reply(w) ==
    /\ Step(w, "calling", "replied")
    /\ UNCHANGED <<issued, logged>>

\* The critical section: list and file.
Log(w) ==
    /\ Step(w, "replied", "idle")
    /\ logged' = logged + 1
    /\ UNCHANGED issued

\* run_s is over: stop.set().
StopWorkers ==
    /\ process = "running" /\ time >= Duration
    /\ process' = "joining"
    /\ UNCHANGED <<smoke, time, stage, testStart, users, wpc, issued, logged>>

\* The process is gone, its threads with it.
Gone ==
    /\ process # "exited"
    /\ process' = "exited"
    /\ wpc' = [w \in Workers |-> "gone"]
    /\ UNCHANGED <<smoke, time, stage, testStart, users, issued, logged>>

\* The workers are joined, or the timeouts of the joins are over.
Exit == process = "joining" /\ Gone

(***************************************************************************)
(* _stop_background.                                                       *)
(***************************************************************************)

Runner(here, there) ==
    /\ stage = here
    /\ stage' = there
    /\ UNCHANGED <<smoke, time, testStart, users, background>>

\* poll(): nothing to stop.
FoundExited == process = "exited" /\ Runner("stop", "fetch")

Terminate == process # "exited" /\ Runner("stop", "terminated")

\* Mutants: no kill; a kill nobody waits for.
KillNever == FALSE /\ Runner("terminated", "killed")
KillUnwaited == process # "exited" /\ Runner("terminated", "fetch")

\* wait(timeout=45) runs out.
Kill == process # "exited" /\ Runner("terminated", "killed")

\* wait() returns.
Waited ==
    \E here \in {"terminated", "killed"} :
        process = "exited" /\ Runner(here, "fetch")

\* The operating system: SIGTERM may be slow, SIGKILL is not.
Terminated == stage = "terminated" /\ Gone
Killed == stage = "killed" /\ Gone

-----------------------------------------------------------------------------
UserStep(u) == \/ Assume(u) \/ Register(u)
               \/ Send(u) \/ Answered(u) \/ Wake(u)
WorkerStep(w) == Begin(w) \/ Reply(w) \/ Log(w)

Next ==
    \/ Tick \/ TestStart \/ EndLoad
    \/ StopWorkers \/ Exit
    \/ FoundExited \/ Terminate \/ Kill \/ Waited
    \/ Terminated \/ Killed
    \/ \E u \in Users : UserStep(u)
    \/ \E w \in Workers : WorkerStep(w)

\* Time passes, Locust starts and keeps --run-time, the runner goes on and
\* SIGKILL works.  Nothing is asked of users, workers, Bedrock or SIGTERM.
Fairness ==
    /\ WF_vars(Tick) /\ WF_vars(TestStart) /\ WF_vars(RunTime)
    /\ WF_vars(FoundExited) /\ WF_vars(Terminate)
    /\ WF_vars(Kill) /\ WF_vars(Waited) /\ WF_vars(Killed)

Spec == Init /\ [][Next]_vars /\ Fairness

-----------------------------------------------------------------------------
(***************************************************************************)
(* Properties.                                                             *)
(***************************************************************************)

\* The state has its types: a wait is never longer than the tenant's own,
\* nor than that of the least rate.
TypeOK ==
    /\ smoke \in SmokeDurations \cup {None}
    /\ time \in 0 .. MaxStartup + Last(Ends)
    /\ stage \in {"load", "stop", "terminated", "killed", "fetch"}
    /\ testStart \in 0 .. MaxStartup \cup {None}
    /\ index \in 0 .. Cardinality(Users)
    /\ upc \in [Users -> {"unborn", "assumed", "ready", "calling",
                          "waiting", "gone"}]
    /\ profile \in [Users -> Tenants \cup {None}]
    /\ wake \in [Users -> Nat] /\ sent \in [Users -> Nat]
    /\ \A u \in Users :
           wake[u] <= IF profile[u] = None THEN 0 ELSE time + Floored(BaseWait[profile[u]])
    /\ process \in {"running", "joining", "exited"}
    /\ wpc \in [Workers -> {"idle", "calling", "replied", "gone"}]
    /\ issued \in 0 .. MaxCalls /\ logged \in 0 .. issued

\* Each user sends for a tenant of its own, in whatever order the answers of
\* STS arrive: no tenant's rate is offered twice and none is left out
\* (locustfile.py 88-89).
OneUserPerTenant ==
    \A u, v \in Users :
        u # v /\ profile[u] # None => profile[u] # profile[v]

\* ticks of the test that fall into phase i; the last one has no end
TicksIn(i, elapsed) ==
    LET from == Min({EndOf(i - 1), elapsed})
        to == IF i = Len(Ends) THEN elapsed ELSE Min({EndOf(i), elapsed})
    IN  to - from

CeilDiv(a, b) == (a + b - 1) \div b

\* The plan's own rate, or the least one of the users.
PlannedWait(t, i) ==
    Min({MaxWait, BaseWait[t] \div (IF t = Victim THEN Burst[i] ELSE 1)})

\* What the plan allows a tenant in each phase, up to a moment of the test.
Planned(t, elapsed) ==
    [i \in Indices |-> CeilDiv(TicksIn(i, elapsed), PlannedWait(t, i))]

\* A tenant offers no more than the plan: its own rate, the victim the
\* multiple of it of each phase and nothing of a burst before or after it,
\* with one request for free at the start.  A tenant, or a victim even in its
\* burst, whose rate is below the least one offers that instead, more than the
\* plan gave it (locustfile.py 91-99).
OfferedWithinPlan ==
    \A u \in Users :
        profile[u] # None =>
            sent[u] <= 1 + MapThenSumSet(LAMBDA i : Planned(profile[u], Elapsed)[i],
                                         Indices)

\* Shortened for a smoke run, the phases still cover every moment of it once
\* and the background's window still ends within it (scenario.py 44-57).
PlanFits ==
    /\ \A e \in 0 .. Duration - 1 :
           Cardinality({i \in Indices : In(i, e)}) = 1
    /\ Scaled(BgStart) <= Scaled(BgEnd) /\ Scaled(BgEnd) <= Duration

\* When the runner goes on, no worker presses on Bedrock any more, so that the
\* next run starts unloaded (run_experiment.py 277-286); and background.jsonl
\* shows the pressure of the run but for one call per worker at most, the one
\* it was in when the process went (bedrock_background.py 82-99).
BackgroundAccounted ==
    LET busy == {w \in Workers : wpc[w] \in {"calling", "replied"}}
    IN  /\ stage = "fetch" => \A w \in Workers : wpc[w] # "calling"
        /\ IF process = "exited" THEN issued - logged <= Cardinality(Workers)
                                 ELSE issued - logged = Cardinality(busy)

AllPlans == \A n \in TenantCounts : SkewAsPlanned(n)
AllLoads ==
    \A s \in Scenarios, p \in Fleets, brief \in BOOLEAN, pct \in LoadPcts, elapsed \in Moments :
        OfferedAsNamed(s, p, brief, pct, elapsed)
AllTraces == \A trace \in Traces : Dated(trace)

\* Nothing has happened yet in this run.
Fresh == stage = "load" /\ time = 0 /\ testStart = None /\ issued = 0

\* SkewAsPlanned of all numbers of tenants and OfferedAsNamed of all scenarios,
\* looked at when a run begins: its skew is the one traffic.py plans, and the
\* load it offers the one its name or its file gives.
PlansAsNamed == Fresh => AllPlans /\ AllLoads

\* Dated of all traces, looked at when a run begins: plot_contraction.py dates
\* a fall of the estimate and its return, too early by at most a bin and the
\* latency of an answer and too late by less than a bin.
TracesDated == Fresh => AllTraces

\* A run ends, however long SIGTERM or a call to Bedrock takes.
RunEnds == <>(stage = "fetch")
=============================================================================
