--------------------------- MODULE ExperimentProofs ---------------------------
(***************************************************************************)
(* Proofs about Experiment: which run an event is summed up in, under      *)
(* which settings and on which tenants table it was decided, that the      *)
(* writer keeps the order of the events, that a quiet run is summed up     *)
(* completely and that a summary adds up, for any campaign and log and any *)
(* number of containers, requests and failures.                            *)
(***************************************************************************)
EXTENDS Experiment, SumProofs, SequenceTheorems

-----------------------------------------------------------------------------
(***************************************************************************)
(* The inductive invariant.                                                *)
(***************************************************************************)

\* Only a failure makes a run that finishes no cell.
Counted ==
    /\ stage \in {"settle", "load", "fetch", "over"} => run <= next + faults
    /\ stage \in {"deploy", "down"} => run < next + faults
    /\ stage \notin {"load", "fetch"} => sent = 0

\* What is known of a run: it was measured on the last deployment of its time, one
\* with its own settings if its runner deployed, and with the table of its time.
Founded(r) ==
    /\ runs[r].by \in 0 .. deployed /\ runs[r].table \in 0 .. table
    /\ runs[r].deploy => /\ runs[r].by > 0
                        /\ KeyOf(runs[runs[r].by].cell) = KeyOf(runs[r].cell)
    /\ \A q \in 1 .. r : runs[q].by <= runs[r].by /\ runs[q].table <= runs[r].table

\* What the runner believes: key is that of the last deployment, and as soon as
\* there is load no container in service is of another one.
Settings ==
    /\ key # None => deploying /\ deployed > 0 /\ key = KeyOf(runs[deployed].cell)
    /\ \A r \in 1 .. run : Founded(r)
    /\ stage \in {"settle", "load", "fetch"} =>
          /\ run > 0 /\ runs[run].by = deployed /\ runs[run].deploy = deploying
          /\ deploying => key # None
    /\ stage = "settle" => run \notin clean
    /\ key # None /\ stage \in {"load", "fetch", "deploy"} =>
          \A c \in Up : deployment[c] = deployed

\* What the writer of c has of the stream of events, and what it has in hand.
Items(s) == Range(s) \ {Stop}
Held(c) == Items(queue[c]) \cup Range(buf[c])
Pending(c) == handling[c] \cup Held(c)
Batch(c, n) == Range(put[c][n].events)

Distinct(s) == \A i, j \in DOMAIN s : i # j /\ s[i] # Stop => s[i] # s[j]

\* An event is in one place at a time, and in one batch in the end.
Apart(c) ==
    /\ Distinct(queue[c]) /\ Items(queue[c]) \cap Range(buf[c]) = {}
    /\ handling[c] \cap Range(wrote[c]) = {}
    /\ Held(c) \subseteq Range(wrote[c])
    /\ \A n \in DOMAIN put[c] :
          /\ put[c][n].run = RunOf(Head(put[c][n].events))
          /\ Batch(c, n) \subseteq Range(wrote[c]) \ Held(c)
          /\ \A m \in DOMAIN put[c] : m # n => Batch(c, m) \cap Batch(c, n) = {}
    /\ status[c] = "unborn" => Requests(c) = {} /\ record[c] = None

\* Each container is asked on behalf of the runs since its deployment, those of a
\* runner that deploys being of this very deployment, and has read the table
\* between the deployment and the end of the first of these runs.
Served(c) ==
    /\ \A e \in Requests(c) :
          /\ RunOf(e) <= run /\ deployment[c] <= runs[RunOf(e)].by
          /\ runs[RunOf(e)].deploy => runs[RunOf(e)].by = deployment[c]
          /\ RunOf(e) = run /\ stage \in {"settle", "load", "fetch"} => e[2] <= sent
          /\ record[c] # None /\ record[c] <= TableBy(RunOf(e))
    /\ record[c] # None => record[c] <= table /\ TableAt(deployment[c]) <= record[c]
    /\ deployment[c] <= deployed

\* A run whose load met idle containers never follows an older event there.
Unmixed(c) ==
    /\ \A r \in clean :
          (\E e \in Requests(c) : RunOf(e) = r) =>
              /\ \A e \in Pending(c) : RunOf(e) >= r
              /\ \A n \in DOMAIN put[c] :
                    put[c][n].run = r => \A e \in Batch(c, n) : RunOf(e) >= r
    /\ stage = "load" /\ run \in clean /\ status[c] = "up" =>
          \A e \in Pending(c) : RunOf(e) = run

\* A summary is made of batches of its run, before there is a later one.
Summed ==
    \A r \in DOMAIN summary : \A e \in summary[r] : e \in Filed(r) /\ RunOf(e) <= r

Foreign == \A c, d \in Containers : c # d => Requests(c) \cap Requests(d) = {}

IInv ==
    /\ TypeOK /\ Counted /\ Settings /\ Foreign /\ Summed
    /\ \A c \in Containers : Apart(c) /\ Served(c) /\ Unmixed(c)

-----------------------------------------------------------------------------
(***************************************************************************)
(* Sequences.                                                              *)
(***************************************************************************)

LEMMA RangeAppend ==
    ASSUME NEW S, NEW s \in Seq(S), NEW e \in S
    PROVE  Range(Append(s, e)) = Range(s) \cup {e}
<1>1. /\ DOMAIN Append(s, e) = 1 .. Len(s) + 1 /\ DOMAIN s = 1 .. Len(s) /\ Len(s) \in Nat
      /\ \A i \in 1 .. Len(s) : Append(s, e)[i] = s[i]
      /\ Append(s, e)[Len(s) + 1] = e
  BY AppendProperties, LenProperties
<1> QED
  BY <1>1 DEF Range

LEMMA RangeTail ==
    ASSUME NEW S, NEW s \in Seq(S), s # <<>>
    PROVE  Range(s) = {Head(s)} \cup Range(Tail(s)) /\ Range(s) \subseteq S /\ Head(s) \in S
<1>1. /\ DOMAIN s = 1 .. Len(s) /\ Len(s) \in Nat \ {0} /\ Head(s) = s[1]
      /\ DOMAIN Tail(s) = 1 .. Len(s) - 1
      /\ \A i \in 1 .. Len(s) - 1 : Tail(s)[i] = s[i + 1]
  BY HeadTailProperties, LenProperties, EmptySeq
<1>2. \A i \in 1 .. Len(s) : s[i] \in S
  BY LenProperties
<1>3. \A i \in 1 .. Len(s) : s[i] = Head(s) \/ s[i] \in Range(Tail(s))
  <2> SUFFICES ASSUME NEW i \in 1 .. Len(s), i # 1 PROVE s[i] \in Range(Tail(s))
    BY <1>1
  <2>1. i - 1 \in DOMAIN Tail(s) /\ s[i] = Tail(s)[i - 1]
    BY <1>1
  <2> QED
    BY <2>1 DEF Range
<1>4. \A i \in DOMAIN Tail(s) : Tail(s)[i] \in Range(s)
  <2> SUFFICES ASSUME NEW i \in DOMAIN Tail(s) PROVE Tail(s)[i] \in Range(s)
    OBVIOUS
  <2>1. i + 1 \in DOMAIN s /\ Tail(s)[i] = s[i + 1]
    BY <1>1
  <2> QED
    BY <2>1 DEF Range
<1>5. Head(s) \in Range(s) /\ Range(s) \subseteq S /\ Head(s) \in S
  BY <1>1, <1>2 DEF Range
<1>6. Range(s) \subseteq {Head(s)} \cup Range(Tail(s))
  BY <1>1, <1>3 DEF Range
<1>7. Range(Tail(s)) \subseteq Range(s)
  BY <1>4 DEF Range
<1> QED
  BY <1>5, <1>6, <1>7

LEMMA RangeEmpty == Range(<<>>) = {}
  BY DEF Range

LEMMA DistinctTail ==
    ASSUME NEW S, NEW s \in Seq(S), s # <<>>, Distinct(s), Head(s) # Stop
    PROVE  Distinct(Tail(s)) /\ Head(s) \notin Range(Tail(s))
<1>1. /\ DOMAIN s = 1 .. Len(s) /\ Len(s) \in Nat \ {0} /\ Head(s) = s[1]
      /\ DOMAIN Tail(s) = 1 .. Len(s) - 1
      /\ \A i \in 1 .. Len(s) - 1 : Tail(s)[i] = s[i + 1]
  BY HeadTailProperties, LenProperties, EmptySeq
<1>2. Distinct(Tail(s))
  BY <1>1 DEF Distinct
<1>3. \A i \in 1 .. Len(s) - 1 : Tail(s)[i] # Head(s)
  BY <1>1 DEF Distinct
<1> QED
  BY <1>1, <1>2, <1>3 DEF Range

LEMMA DistinctAppend ==
    ASSUME NEW S, NEW s \in Seq(S), NEW e \in S, Distinct(s), e = Stop \/ e \notin Range(s)
    PROVE  Distinct(Append(s, e))
<1>1. /\ DOMAIN Append(s, e) = 1 .. Len(s) + 1 /\ DOMAIN s = 1 .. Len(s) /\ Len(s) \in Nat
      /\ \A i \in 1 .. Len(s) : Append(s, e)[i] = s[i]
      /\ Append(s, e)[Len(s) + 1] = e
  BY AppendProperties, LenProperties
<1> QED
  BY <1>1 DEF Distinct, Range

LEMMA StopNoEvent == Stop \notin Events /\ \A e \in Events : RunOf(e) \in 1 .. MaxRuns
  BY DEF Stop, Events, RunOf

-----------------------------------------------------------------------------
(***************************************************************************)
(* Types.                                                                  *)
(***************************************************************************)

Runs == [cell : Range(Campaign), deploy : BOOLEAN, by : 0 .. MaxRuns, table : 0 .. MaxSeeds]

LEMMA Plan ==
    /\ DOMAIN Campaign = 1 .. Len(Campaign) /\ Len(Campaign) \in Nat \ {0}
    /\ \A i \in DOMAIN Campaign : Campaign[i] \in Range(Campaign)
    /\ \A cell \in Range(Campaign) : KeyOf(cell) # None
    /\ MaxRuns \in Nat /\ MaxFaults \in Nat /\ MaxSeeds \in Nat /\ PerRun \in Nat
<1>1. DOMAIN Campaign = 1 .. Len(Campaign) /\ Len(Campaign) \in Nat \ {0}
  BY CampaignAssumption, LenProperties, EmptySeq
<1> QED
  BY <1>1, CampaignAssumption DEF Range, KeyOf, MaxRuns

LEMMA InitTypes == Init => TypeOK
<1> SUFFICES ASSUME Init PROVE TypeOK
  OBVIOUS
<1> USE DEF Init
<1>1. run = 0 /\ runs \in Seq(Runs)
  BY DEF run
<1>2. next \in DOMAIN Campaign
  BY Plan
<1>3. DOMAIN summary = {} /\ UNION Range(summary) = {}
  BY RangeEmpty
<1>4. /\ wrote \in [Containers -> Seq(Events)] /\ buf \in [Containers -> Seq(Events)]
      /\ queue \in [Containers -> Seq(Events \cup {Stop})]
      /\ put \in [Containers -> Seq(Batches)]
      /\ \A c \in Containers : Len(buf[c]) < FlushEvery /\ DOMAIN put[c] = {}
  BY CampaignAssumption
<1>5. /\ status \in [Containers -> Statuses]
      /\ deployment \in [Containers -> 0 .. run]
      /\ record \in [Containers -> (0 .. MaxSeeds) \cup {None}]
      /\ handling \in [Containers -> SUBSET Events]
  BY <1>1 DEF Statuses
<1>6. deploying \in BOOLEAN
  OBVIOUS
<1> QED
  BY <1>1, <1>2, <1>3, <1>4, <1>5, <1>6, Plan DEF TypeOK, Runs

\* What is filed are events.
LEMMA FiledEvents ==
    ASSUME TypeOK, NEW r
    PROVE  Filed(r) \subseteq Events
<1>1. \A b \in Stored : Range(b.events) \subseteq Events
  <2> SUFFICES ASSUME NEW c \in Containers, NEW n \in DOMAIN put[c]
               PROVE  Range(put[c][n].events) \subseteq Events
    BY DEF Stored, Range
  <2>1. put[c] \in Seq(Batches)
    BY DEF TypeOK
  <2>2. put[c][n] \in Batches
    BY <2>1, LenProperties
  <2>3. put[c][n].events \in Seq(Events)
    BY <2>2 DEF Batches
  <2> QED
    BY <2>3, RangeOfSeq
<1> QED
  BY <1>1 DEF Filed, EventsIn

\* The steps of the runner leave the service alone.
RunnerStep == Start \/ Seed \/ Deploy \/ Settle \/ EndLoad \/ Abort \/ Fetch

LEMMA RunnerSteps == RunnerStep => UNCHANGED service
  BY DEF RunnerStep, Start, Seed, Deploy, Settle, EndLoad, Abort, Fetch, campaign

LEMMA Cells ==
    ASSUME TypeOK
    PROVE  /\ next \in Nat /\ next <= Len(Campaign) /\ next > 0
           /\ KeyOf(Campaign[next]) # None /\ Campaign[next] \in Range(Campaign)
           /\ run \in Nat /\ deployed \in 0 .. run /\ faults \in Nat /\ faults <= MaxFaults
           /\ sent \in Nat /\ table \in 0 .. MaxSeeds
           /\ runs \in Seq(Runs) /\ DOMAIN runs = 1 .. run
           /\ \A r \in 1 .. run : runs[r] \in Runs
<1>1. next \in 1 .. Len(Campaign) /\ Len(Campaign) \in Nat
  BY Plan DEF TypeOK
<1>2. runs \in Seq(Runs)
  BY DEF TypeOK, Runs
<1>3. run \in Nat /\ DOMAIN runs = 1 .. run /\ \A r \in 1 .. run : runs[r] \in Runs
  BY <1>2, LenProperties DEF run
<1> QED
  BY <1>1, <1>2, <1>3, Plan DEF TypeOK

\* Deploy gives the run its number.
LEMMA RunAdded ==
    ASSUME TypeOK, Counted, Deploy
    PROVE  /\ run' = run + 1 /\ run + 1 <= MaxRuns /\ runs' \in Seq(Runs)
           /\ \A r \in 1 .. run : runs'[r] = runs[r]
           /\ runs'[run + 1] = [cell |-> Campaign[next], deploy |-> deploying,
                               by |-> deployed', table |-> table]
           /\ \/ /\ deploying /\ key # key' /\ key' = KeyOf(Campaign[next])
                 /\ deployed' = run + 1 /\ stage' = "settle" /\ UNCHANGED clean
              \/ /\ deploying => key = KeyOf(Campaign[next])
                 /\ UNCHANGED <<key, deployed>> /\ StartLoad(run + 1)
<1> DEFINE new == [cell |-> Campaign[next], deploy |-> deploying, by |-> deployed',
                   table |-> table]
<1>1. /\ stage = "deploy" /\ runs' = Append(runs, new)
      /\ \/ /\ deploying /\ key # key' /\ key' = KeyOf(Campaign[next])
            /\ deployed' = run + 1 /\ stage' = "settle" /\ UNCHANGED clean
         \/ /\ deploying => key = KeyOf(Campaign[next])
            /\ UNCHANGED <<key, deployed>> /\ StartLoad(run + 1)
  BY DEF Deploy
<1>2. run + 1 <= MaxRuns
  BY <1>1, Cells, Plan DEF Counted, MaxRuns
<1>3. new \in Runs
  <2>1. deployed' \in 0 .. MaxRuns
    BY <1>1, <1>2, Cells, Plan
  <2>2. deploying \in BOOLEAN
    BY DEF TypeOK
  <2> QED
    BY <2>1, <2>2, Cells DEF Runs
<1> HIDE DEF new
<1>4. /\ runs' \in Seq(Runs) /\ Len(runs') = Len(runs) + 1
      /\ \A r \in 1 .. Len(runs) : runs'[r] = runs[r]
      /\ runs'[Len(runs) + 1] = new
  BY <1>1, <1>3, Cells, AppendProperties
<1> QED
  BY <1>1, <1>2, <1>4 DEF run, new

LEMMA RunnerTypes ==
    ASSUME TypeOK, Counted, Settings, RunnerStep
    PROVE  TypeOK' /\ run <= run'
<1>1. UNCHANGED service
  BY RunnerSteps
<1>2. ASSUME run' \in Nat, run <= run' PROVE deployment' \in [Containers -> 0 .. run']
  BY <1>1, <1>2, Cells DEF service, life, TypeOK
<1>3. ASSUME run' = run,
             /\ stage' \in {"deploy", "settle", "load", "fetch", "down", "over"}
             /\ next' \in DOMAIN Campaign
             /\ runs' = runs /\ deploying' \in BOOLEAN
             /\ key' \in {KeyOf(cell) : cell \in Range(Campaign)} \cup {None}
             /\ deployed' = deployed
             /\ sent' \in 0 .. PerRun /\ table' \in 0 .. MaxSeeds /\ faults' \in 0 .. MaxFaults
             /\ clean' \subseteq 1 .. run /\ DOMAIN summary' \subseteq 1 .. run
             /\ UNION Range(summary') \subseteq Events
      PROVE  TypeOK' /\ run <= run'
  <2>1. run' \in Nat /\ run <= run' /\ deployed' \in 0 .. run' /\ run' <= MaxRuns
        /\ runs' \in Seq([cell : Range(Campaign), deploy : BOOLEAN, by : 0 .. MaxRuns,
                          table : 0 .. MaxSeeds])
    BY <1>3, Cells DEF TypeOK
  <2>2. deployment' \in [Containers -> 0 .. run']
    BY <1>2, <2>1
  <2>3. UNCHANGED <<status, record, handling, wrote, queue, buf, put>>
    BY <1>1 DEF service, life, writer
  <2>4. clean' \subseteq 1 .. run' /\ DOMAIN summary' \subseteq 1 .. run'
    BY <1>3
  <2> QED
    BY <1>3, <2>1, <2>2, <2>3, <2>4 DEF TypeOK
<1>4. /\ stage \in {"deploy", "settle", "load", "fetch", "down", "over"}
      /\ next \in DOMAIN Campaign /\ deploying \in BOOLEAN
      /\ key \in {KeyOf(cell) : cell \in Range(Campaign)} \cup {None}
      /\ sent \in 0 .. PerRun /\ table \in 0 .. MaxSeeds /\ faults \in 0 .. MaxFaults
      /\ clean \subseteq 1 .. run /\ DOMAIN summary \subseteq 1 .. run
      /\ UNION Range(summary) \subseteq Events
  BY DEF TypeOK
<1>5. CASE Seed
  BY <1>3, <1>4, <1>5, Plan DEF Seed, run
<1>6. CASE Settle
  <2>1. clean' \subseteq 1 .. run
    <3>1. run > 0
      BY <1>6 DEF Settle, Settings
    <3>2. clean' \subseteq clean \cup {run}
      BY <1>6 DEF Settle, StartLoad
    <3> QED
      BY <1>4, <3>1, <3>2, Cells
  <2> QED
    BY <1>3, <1>4, <1>6, <2>1 DEF Settle, StartLoad, run
<1>7. CASE EndLoad
  BY <1>3, <1>4, <1>7 DEF EndLoad, campaign, run
<1>8. CASE Abort
  BY <1>3, <1>4, <1>8, Plan DEF Abort, Fault, campaign, run
<1>9. CASE Start
  BY <1>3, <1>4, <1>9, Cells DEF Start, run
<1>10. CASE Fetch
  <2>1. PICK got \in SUBSET Filed(run) :
           /\ IF got = Filed(run) THEN UNCHANGED faults ELSE Fault
           /\ summary' = [r \in DOMAIN summary \cup {run} |-> IF r = run THEN got ELSE summary[r]]
    BY <1>10 DEF Fetch
  <2>2. run > 0
    BY <1>10 DEF Fetch, Settings
  <2>3. DOMAIN summary' \subseteq 1 .. run
    BY <1>4, <2>1, <2>2, Cells
  <2>4. UNION Range(summary') \subseteq Events
    <3>1. got \subseteq Events
      BY <2>1, FiledEvents
    <3> QED
      BY <1>4, <2>1, <3>1 DEF Range
  <2>5. faults' \in 0 .. MaxFaults
    BY <1>4, <2>1, Plan DEF Fault
  <2>6. next' \in DOMAIN Campaign
    BY <1>4, <1>10, Plan DEF Fetch
  <2>7. /\ stage' \in {"over", "deploy", "down"} /\ sent' = 0
        /\ UNCHANGED <<runs, deploying, key, deployed, clean, table>>
    BY <1>10 DEF Fetch
  <2>8. run' = run
    BY <2>7 DEF run
  <2>9. sent' \in 0 .. PerRun
    BY <2>7, Plan
  <2> QED
    BY <1>3, <1>4, <2>3, <2>4, <2>5, <2>6, <2>7, <2>8, <2>9
<1>11. CASE Deploy
  <2>1. /\ run' = run + 1 /\ run + 1 <= MaxRuns /\ runs' \in Seq(Runs)
        /\ key' \in {key, KeyOf(Campaign[next])}
        /\ \/ deployed' = run + 1 /\ stage' = "settle" /\ UNCHANGED clean
           \/ UNCHANGED deployed /\ stage' = "load" /\ clean' \subseteq clean \cup {run + 1}
    BY <1>11, RunAdded DEF StartLoad
  <2>2. UNCHANGED <<next, sent, deploying, table, faults, summary>>
    BY <1>11 DEF Deploy
  <2>3. deployment' \in [Containers -> 0 .. run']
    BY <1>2, <2>1, Cells
  <2>4. /\ stage' \in {"settle", "load"} /\ deployed' \in 0 .. run' /\ run' <= MaxRuns
        /\ key' \in {KeyOf(cell) : cell \in Range(Campaign)} \cup {None}
        /\ clean' \subseteq 1 .. run' /\ DOMAIN summary' \subseteq 1 .. run'
    BY <1>4, <2>1, <2>2, Cells
  <2>5. TypeOK'
    BY <1>1, <1>4, <2>1, <2>2, <2>3, <2>4 DEF TypeOK, Runs, service, life, writer
  <2> QED
    BY <2>1, <2>5, Cells
<1> QED
  BY <1>5, <1>6, <1>7, <1>8, <1>9, <1>10, <1>11 DEF RunnerStep

-----------------------------------------------------------------------------
(***************************************************************************)
(* What a step of a container does.                                        *)
(***************************************************************************)

\* Nothing to the runner, and nothing to the other containers.
OnAll(f) == f = [d \in Containers |-> f[d]]

Touches(c) ==
    /\ UNCHANGED <<stage, campaign>> /\ faults' \in 0 .. MaxFaults /\ faults <= faults'
    /\ /\ OnAll(status)' /\ OnAll(deployment)' /\ OnAll(record)' /\ OnAll(handling)'
       /\ OnAll(wrote)' /\ OnAll(queue)' /\ OnAll(buf)' /\ OnAll(put)'
    /\ \A d \in Containers \ {c} :
          UNCHANGED <<status[d], deployment[d], record[d], handling[d], wrote[d],
                      queue[d], buf[d], put[d]>>

\* A request comes in; it is answered.
Receives(c) ==
    /\ stage = "load" /\ status[c] = "up"
    /\ sent' = sent + 1 /\ sent' <= PerRun
    /\ handling'[c] = handling[c] \cup {<<run, sent + 1>>}
    /\ record'[c] = IF record[c] = None THEN table ELSE record[c]
    /\ UNCHANGED <<status[c], deployment[c], wrote[c], queue[c], buf[c], put[c]>>

Answers(c) ==
    /\ \E e \in handling[c] :
          /\ handling'[c] = handling[c] \ {e}
          /\ wrote'[c] = Append(wrote[c], e) /\ queue'[c] = Append(queue[c], e)
    /\ UNCHANGED <<sent, status[c], deployment[c], record[c], buf[c], put[c]>>

Starts(c) ==
    /\ status[c] = "unborn" /\ status'[c] = "up" /\ deployment'[c] = deployed
    /\ UNCHANGED <<sent, record[c], handling[c], wrote[c], queue[c], buf[c], put[c]>>

\* A batch of what the writer held, that it holds no more.
Puts(c) ==
    \E b \in Batches :
        /\ put'[c] = Append(put[c], b)
        /\ b.run = RunOf(Head(b.events)) /\ Len(b.events) \in 1 .. FlushEvery
        /\ Range(b.events) \subseteq Held(c) \ Held(c)'

\* The writer goes on, or the container ends.
Proceeds(c) ==
    /\ UNCHANGED <<sent, deployment[c], record[c], wrote[c]>>
    /\ status[c] # "unborn" /\ status'[c] \in Statuses \ {"unborn"}
    /\ status'[c] = "up" => status[c] = "up"
    /\ handling'[c] \subseteq handling[c]
    /\ queue'[c] \in Seq(Events \cup {Stop}) /\ Distinct(queue'[c])
    /\ buf'[c] \in Seq(Events) /\ Len(buf'[c]) < FlushEvery
    /\ Items(queue'[c]) \cap Range(buf'[c]) = {}
    /\ Held(c)' \subseteq Held(c)
    /\ put'[c] = put[c] \/ Puts(c)

\* The types, container by container.
Typed(c) ==
    /\ status[c] \in Statuses /\ deployment[c] \in 0 .. run
    /\ record[c] \in (0 .. MaxSeeds) \cup {None} /\ handling[c] \subseteq Events
    /\ wrote[c] \in Seq(Events) /\ queue[c] \in Seq(Events \cup {Stop})
    /\ buf[c] \in Seq(Events) /\ Len(buf[c]) < FlushEvery
    /\ put[c] \in Seq(Batches)
    /\ \A n \in DOMAIN put[c] : Len(put[c][n].events) \in 1 .. FlushEvery

LEMMA Container ==
    ASSUME TypeOK, NEW c \in Containers
    PROVE  Typed(c)
<1>1. status[c] \in Statuses
  BY DEF TypeOK
<1>2. deployment[c] \in 0 .. run
  BY DEF TypeOK
<1>3. record[c] \in (0 .. MaxSeeds) \cup {None}
  BY DEF TypeOK
<1>4. handling[c] \subseteq Events
  BY DEF TypeOK
<1>5. wrote[c] \in Seq(Events)
  BY DEF TypeOK
<1>6. queue[c] \in Seq(Events \cup {Stop})
  BY DEF TypeOK
<1>7. buf[c] \in Seq(Events) /\ Len(buf[c]) < FlushEvery
  BY DEF TypeOK
<1>8. put[c] \in Seq(Batches) /\ \A n \in DOMAIN put[c] : Len(put[c][n].events) \in 1 .. FlushEvery
  BY DEF TypeOK
<1> QED
  BY <1>1, <1>2, <1>3, <1>4, <1>5, <1>6, <1>7, <1>8 DEF Typed

LEMMA AllOn ==
    ASSUME TypeOK
    PROVE  /\ OnAll(status) /\ OnAll(deployment) /\ OnAll(record) /\ OnAll(handling)
           /\ OnAll(wrote) /\ OnAll(queue) /\ OnAll(buf) /\ OnAll(put)
<1>1. OnAll(status) /\ OnAll(deployment) /\ OnAll(record)
  BY DEF TypeOK, OnAll
<1>2. OnAll(handling) /\ OnAll(wrote) /\ OnAll(queue)
  BY DEF TypeOK, OnAll
<1>3. OnAll(buf) /\ OnAll(put)
  BY DEF TypeOK, OnAll
<1> QED
  BY <1>1, <1>2, <1>3

LEMMA Limits ==
    ASSUME TypeOK
    PROVE  /\ FlushEvery \in Nat \ {0} /\ MaxFaults \in Nat /\ faults \in Nat
           /\ PerRun \in Nat /\ sent \in Nat /\ faults <= MaxFaults /\ sent <= PerRun
           /\ run \in Nat /\ MaxSeeds \in Nat /\ table \in 0 .. MaxSeeds
<1>1. faults \in 0 .. MaxFaults /\ sent \in 0 .. PerRun
  BY DEF TypeOK
<1> QED
  BY <1>1, CampaignAssumption, Plan, Cells

LEMMA ContainerTypes ==
    ASSUME TypeOK, NEW c \in Containers, Touches(c), Typed(c)', sent' \in 0 .. PerRun
    PROVE  TypeOK'
<1>1. run' = run
  BY DEF Touches, campaign, run
<1>2. \A d \in Containers : Typed(d)'
  <2> SUFFICES ASSUME NEW d \in Containers, d # c PROVE Typed(d)'
    OBVIOUS
  <2>1. Typed(d)
    BY Container
  <2>2. UNCHANGED <<status[d], deployment[d], record[d], handling[d], wrote[d],
                    queue[d], buf[d], put[d]>>
    BY DEF Touches
  <2> QED
    BY <1>1, <2>1, <2>2 DEF Typed
<1>3. /\ OnAll(status)' /\ OnAll(deployment)' /\ OnAll(record)' /\ OnAll(handling)'
      /\ OnAll(wrote)' /\ OnAll(queue)' /\ OnAll(buf)' /\ OnAll(put)'
  BY DEF Touches
<1>4. status' \in [Containers -> Statuses] /\ deployment' \in [Containers -> 0 .. run']
  BY <1>2, <1>3 DEF Typed, OnAll
<1>5. record' \in [Containers -> (0 .. MaxSeeds) \cup {None}]
  BY <1>2, <1>3 DEF Typed, OnAll
<1>6. handling' \in [Containers -> SUBSET Events]
  BY <1>2, <1>3 DEF Typed, OnAll
<1>7. wrote' \in [Containers -> Seq(Events)]
  BY <1>2, <1>3 DEF Typed, OnAll
<1>8. queue' \in [Containers -> Seq(Events \cup {Stop})]
  BY <1>2, <1>3 DEF Typed, OnAll
<1>9. buf' \in [Containers -> Seq(Events)]
  BY <1>2, <1>3 DEF Typed, OnAll
<1>10. put' \in [Containers -> Seq(Batches)]
  BY <1>2, <1>3 DEF Typed, OnAll
<1>11. \A d \in Containers :
          /\ Len(buf'[d]) < FlushEvery
          /\ \A n \in DOMAIN put'[d] : Len(put'[d][n].events) \in 1 .. FlushEvery
  BY <1>2 DEF Typed
<1>12. UNCHANGED <<stage, next, runs, deploying, key, deployed, clean, summary, table>>
       /\ faults' \in 0 .. MaxFaults
  BY DEF Touches, campaign
<1> QED
  BY <1>1, <1>4, <1>5, <1>6, <1>7, <1>8, <1>9, <1>10, <1>11, <1>12 DEF TypeOK

LEMMA ReceivesStep ==
    ASSUME TypeOK, NEW c \in Containers, Send(c)
    PROVE  Touches(c) /\ Receives(c)
<1>1. sent < PerRun /\ sent \in Nat /\ PerRun \in Nat
  BY Limits DEF Send
<1>2. /\ OnAll(handling') /\ handling'[c] = handling[c] \cup {<<run, sent + 1>>}
      /\ \A d \in Containers \ {c} : handling'[d] = handling[d]
  <2>1. handling' = [handling EXCEPT ![c] = handling[c] \cup {<<run, sent + 1>>}]
    BY DEF Send
  <2> QED
    BY <2>1, AllOn DEF OnAll
<1>3. /\ OnAll(record') /\ record'[c] = IF record[c] = None THEN table ELSE record[c]
      /\ \A d \in Containers \ {c} : record'[d] = record[d]
  <2>1. record' = [record EXCEPT ![c] = IF record[c] = None THEN table ELSE record[c]]
    BY DEF Send, Lookup
  <2> QED
    BY <2>1, AllOn DEF OnAll
<1>4. UNCHANGED <<stage, campaign, status, deployment, wrote, queue, buf, put, faults>>
  BY DEF Send, writer
<1>5. Receives(c)
  BY <1>1, <1>2, <1>3, <1>4 DEF Send, Receives
<1>6. Touches(c)
  <2>1. faults' \in 0 .. MaxFaults /\ faults <= faults'
    BY <1>4, Limits
  <2>2. /\ OnAll(status)' /\ OnAll(deployment)' /\ OnAll(record)' /\ OnAll(handling)'
        /\ OnAll(wrote)' /\ OnAll(queue)' /\ OnAll(buf)' /\ OnAll(put)'
    BY <1>2, <1>3, <1>4, AllOn
  <2> QED
    BY <1>2, <1>3, <1>4, <2>1, <2>2 DEF Touches
<1> QED
  BY <1>5, <1>6

LEMMA AnswersStep ==
    ASSUME TypeOK, NEW c \in Containers, Answer(c)
    PROVE  Touches(c) /\ Answers(c) /\ status[c] # "unborn"
<1>1. PICK e \in handling[c] :
         /\ Alive(c)
         /\ handling' = [handling EXCEPT ![c] = handling[c] \ {e}]
         /\ wrote' = [wrote EXCEPT ![c] = Append(wrote[c], e)]
         /\ queue' = [queue EXCEPT ![c] = Append(queue[c], e)]
         /\ UNCHANGED <<runner, life, buf, put, faults>>
  BY DEF Answer
<1>2. OnAll(handling') /\ handling'[c] = handling[c] \ {e}
      /\ \A d \in Containers \ {c} : handling'[d] = handling[d]
  BY <1>1, AllOn DEF OnAll
<1>3. OnAll(wrote') /\ wrote'[c] = Append(wrote[c], e)
      /\ \A d \in Containers \ {c} : wrote'[d] = wrote[d]
  BY <1>1, AllOn DEF OnAll
<1>4. OnAll(queue') /\ queue'[c] = Append(queue[c], e)
      /\ \A d \in Containers \ {c} : queue'[d] = queue[d]
  BY <1>1, AllOn DEF OnAll
<1>5. UNCHANGED <<stage, sent, campaign, status, deployment, record, buf, put, faults>>
  BY <1>1 DEF runner, life
<1>6. Answers(c) /\ status[c] # "unborn"
  BY <1>1, <1>2, <1>3, <1>4, <1>5 DEF Answers, Alive
<1>7. Touches(c)
  <2>1. faults' \in 0 .. MaxFaults /\ faults <= faults'
    BY <1>5, Limits
  <2>2. /\ OnAll(status)' /\ OnAll(deployment)' /\ OnAll(record)' /\ OnAll(handling)'
        /\ OnAll(wrote)' /\ OnAll(queue)' /\ OnAll(buf)' /\ OnAll(put)'
    BY <1>2, <1>3, <1>4, <1>5, AllOn
  <2> QED
    BY <1>2, <1>3, <1>4, <1>5, <2>1, <2>2 DEF Touches
<1> QED
  BY <1>6, <1>7

LEMMA StartsStep ==
    ASSUME TypeOK, NEW c \in Containers, Launch(c)
    PROVE  Touches(c) /\ Starts(c)
<1>1. OnAll(status') /\ status'[c] = "up" /\ \A d \in Containers \ {c} : status'[d] = status[d]
  BY AllOn DEF Launch, OnAll
<1>2. OnAll(deployment') /\ deployment'[c] = deployed
      /\ \A d \in Containers \ {c} : deployment'[d] = deployment[d]
  BY AllOn DEF Launch, OnAll
<1>3. UNCHANGED <<stage, sent, campaign, record, handling, wrote, queue, buf, put, faults>>
  BY DEF Launch, runner, writer
<1>4. status[c] = "unborn"
  BY DEF Launch
<1>5. Starts(c)
  BY <1>1, <1>2, <1>3, <1>4 DEF Starts
<1>6. Touches(c)
  <2>1. faults' \in 0 .. MaxFaults /\ faults <= faults'
    BY <1>3, Limits
  <2>2. /\ OnAll(status)' /\ OnAll(deployment)' /\ OnAll(record)' /\ OnAll(handling)'
        /\ OnAll(wrote)' /\ OnAll(queue)' /\ OnAll(buf)' /\ OnAll(put)'
    BY <1>1, <1>2, <1>3, AllOn
  <2> QED
    BY <1>1, <1>2, <1>3, <2>1, <2>2 DEF Touches
<1> QED
  BY <1>5, <1>6

\* What each step of the writer leaves to show.
LEMMA Touched ==
    ASSUME TypeOK, NEW c \in Containers,
           UNCHANGED <<runner, deployment, record, wrote>>,
           faults' \in 0 .. MaxFaults, faults <= faults',
           OnAll(status)' /\ OnAll(handling)' /\ OnAll(queue)' /\ OnAll(buf)' /\ OnAll(put)',
           \A d \in Containers \ {c} :
              UNCHANGED <<status[d], handling[d], queue[d], buf[d], put[d]>>
    PROVE  Touches(c) /\ UNCHANGED <<sent, deployment[c], record[c], wrote[c]>>
<1>1. UNCHANGED <<stage, sent, campaign>>
  BY DEF runner
<1>2. OnAll(deployment)' /\ OnAll(record)' /\ OnAll(wrote)'
  BY AllOn
<1> QED
  BY <1>1, <1>2 DEF Touches

LEMMA PutStep ==
    ASSUME TypeOK, NEW c \in Containers, NEW events \in Seq(Events),
           Len(events) \in 1 .. FlushEvery, Put(c, events)
    PROVE  /\ faults' \in 0 .. MaxFaults /\ faults <= faults'
           /\ OnAll(put') /\ \A d \in Containers \ {c} : put'[d] = put[d]
           /\ \E b \in Batches : /\ put'[c] = Append(put[c], b)
                                 /\ b.events = events /\ b.run = RunOf(Head(events))
                                 /\ b.stored \/ faults' > 0
<1>1. PICK ok \in BOOLEAN :
         /\ IF ok THEN UNCHANGED faults ELSE Fault
         /\ put' = [put EXCEPT ![c] = Append(put[c],
                       [run |-> RunOf(Head(events)), events |-> events, stored |-> ok])]
  BY DEF Put, PutAs
<1> DEFINE b == [run |-> RunOf(Head(events)), events |-> events, stored |-> ok]
<1>2. Head(events) \in Events
  <2>1. events # <<>>
    BY EmptySeq, LenProperties
  <2> QED
    BY <2>1, RangeTail
<1>3. b \in Batches /\ b.events = events /\ b.run = RunOf(Head(events)) /\ b.stored = ok
  BY <1>2, StopNoEvent DEF Batches
<1> HIDE DEF b
<1>4. put' = [put EXCEPT ![c] = Append(put[c], b)]
  BY <1>1 DEF b
<1>5. OnAll(put') /\ put'[c] = Append(put[c], b) /\ \A d \in Containers \ {c} : put'[d] = put[d]
  BY <1>4, AllOn DEF OnAll
<1>6. faults' \in 0 .. MaxFaults /\ faults <= faults' /\ (b.stored \/ faults' > 0)
  BY <1>1, <1>3, Limits DEF Fault
<1> QED
  BY <1>3, <1>5, <1>6

LEMMA RaiseProceeds ==
    ASSUME TypeOK, NEW c \in Containers, Apart(c), Raise(c)
    PROVE  Touches(c) /\ Proceeds(c)
<1>1. PICK e \in handling[c] :
         /\ Alive(c) /\ Fault
         /\ handling' = [handling EXCEPT ![c] = handling[c] \ {e}]
         /\ UNCHANGED <<runner, life, wrote, writer>>
  BY DEF Raise
<1>2. OnAll(handling') /\ handling'[c] = handling[c] \ {e}
      /\ \A d \in Containers \ {c} : handling'[d] = handling[d]
  BY <1>1, AllOn DEF OnAll
<1>3. UNCHANGED <<runner, status, deployment, record, wrote, queue, buf, put>>
  BY <1>1 DEF life, writer
<1>4. faults' \in 0 .. MaxFaults /\ faults <= faults'
  BY <1>1, Limits DEF Fault
<1>5. OnAll(status)' /\ OnAll(handling)' /\ OnAll(queue)' /\ OnAll(buf)' /\ OnAll(put)'
  BY <1>2, <1>3, AllOn
<1>6. Touches(c) /\ UNCHANGED <<sent, deployment[c], record[c], wrote[c]>>
  BY <1>2, <1>3, <1>4, <1>5, Touched
<1>7. status[c] # "unborn" /\ status'[c] \in Statuses \ {"unborn"} /\ Typed(c)
  BY <1>1, <1>3, Container DEF Alive, Statuses
<1>8. Held(c)' = Held(c)
  BY <1>3 DEF Held
<1> QED
  BY <1>2, <1>3, <1>6, <1>7, <1>8 DEF Proceeds, Apart, Typed

LEMMA TakeProceeds ==
    ASSUME TypeOK, NEW c \in Containers, Apart(c), Take(c)
    PROVE  Touches(c) /\ Proceeds(c)
<1> DEFINE h == Head(queue[c])
           more == Append(buf[c], h)
<1>1. Typed(c) /\ queue[c] \in Seq(Events \cup {Stop}) /\ buf[c] \in Seq(Events)
  BY Container DEF Typed
<1>2. /\ Alive(c) /\ queue[c] # <<>> /\ h # Stop
      /\ queue' = [queue EXCEPT ![c] = Tail(queue[c])]
      /\ \/ Len(more) >= FlushEvery /\ Put(c, more) /\ buf' = [buf EXCEPT ![c] = <<>>]
         \/ ~(Len(more) >= FlushEvery) /\ buf' = [buf EXCEPT ![c] = more] /\ UNCHANGED <<put, faults>>
      /\ UNCHANGED <<runner, life, handling, wrote>>
  BY DEF Take, Received, Shift
<1>3. /\ h \in Events /\ Range(queue[c]) = {h} \cup Range(Tail(queue[c]))
      /\ Distinct(Tail(queue[c])) /\ h \notin Range(Tail(queue[c]))
      /\ Tail(queue[c]) \in Seq(Events \cup {Stop})
  BY <1>1, <1>2, RangeTail, DistinctTail, HeadTailProperties DEF Apart
<1>4. /\ more \in Seq(Events) /\ Range(more) = Range(buf[c]) \cup {h}
      /\ Len(more) \in 1 .. FlushEvery
  BY <1>1, <1>3, RangeAppend, AppendProperties, LenProperties, Limits DEF Typed
<1>5. Items(queue[c]) = {h} \cup Items(Tail(queue[c])) /\ h \notin Items(Tail(queue[c]))
  BY <1>2, <1>3 DEF Items
<1>6. Items(Tail(queue[c])) \cap Range(more) = {}
  BY <1>4, <1>5 DEF Apart
<1>7. OnAll(queue') /\ queue'[c] = Tail(queue[c])
      /\ \A d \in Containers \ {c} : queue'[d] = queue[d]
  BY <1>2, AllOn DEF OnAll
<1>8. UNCHANGED <<runner, status, deployment, record, handling, wrote>>
  BY <1>2 DEF life
<1>9. status[c] # "unborn" /\ status'[c] \in Statuses \ {"unborn"}
  BY <1>1, <1>2, <1>8 DEF Alive, Statuses
<1>10. OnAll(status)' /\ OnAll(handling)' /\ OnAll(queue)'
  BY <1>7, <1>8, AllOn
<1>11. queue'[c] \in Seq(Events \cup {Stop}) /\ Distinct(queue'[c])
  BY <1>3, <1>7
<1>12. Held(c) = Range(more) \cup Items(queue'[c])
  BY <1>4, <1>5, <1>7 DEF Held
<1> HIDE DEF more, h
<1>13. CASE Put(c, more) /\ buf' = [buf EXCEPT ![c] = <<>>]
  <2>1. OnAll(buf') /\ buf'[c] = <<>> /\ \A d \in Containers \ {c} : buf'[d] = buf[d]
    BY <1>13, AllOn DEF OnAll
  <2>2. /\ faults' \in 0 .. MaxFaults /\ faults <= faults'
        /\ OnAll(put') /\ \A d \in Containers \ {c} : put'[d] = put[d]
        /\ \E b \in Batches : /\ put'[c] = Append(put[c], b)
                              /\ b.events = more /\ b.run = RunOf(Head(more))
    BY <1>4, <1>13, PutStep
  <2>3. Touches(c) /\ UNCHANGED <<sent, deployment[c], record[c], wrote[c]>>
    BY <1>7, <1>8, <1>10, <2>1, <2>2, Touched
  <2>4. Range(buf'[c]) = {} /\ Held(c)' = Items(queue'[c])
    BY <2>1, RangeEmpty DEF Held
  <2>5. Puts(c)
    BY <1>4, <1>6, <1>7, <1>12, <2>2, <2>4 DEF Puts
  <2>6. buf'[c] \in Seq(Events) /\ Len(buf'[c]) < FlushEvery
    BY <2>1, Limits
  <2>7. Held(c)' \subseteq Held(c) /\ Items(queue'[c]) \cap Range(buf'[c]) = {}
    BY <1>12, <2>4
  <2> QED
    BY <1>8, <1>9, <1>11, <2>3, <2>5, <2>6, <2>7 DEF Proceeds
<1>14. CASE ~(Len(more) >= FlushEvery) /\ buf' = [buf EXCEPT ![c] = more] /\ UNCHANGED <<put, faults>>
  <2>1. OnAll(buf') /\ buf'[c] = more /\ \A d \in Containers \ {c} : buf'[d] = buf[d]
    BY <1>14, AllOn DEF OnAll
  <2>2. faults' \in 0 .. MaxFaults /\ faults <= faults' /\ OnAll(put)'
    BY <1>14, Limits, AllOn
  <2>3. Touches(c) /\ UNCHANGED <<sent, deployment[c], record[c], wrote[c]>>
    BY <1>7, <1>8, <1>10, <1>14, <2>1, <2>2, Touched
  <2>4. buf'[c] \in Seq(Events) /\ Len(buf'[c]) < FlushEvery
    BY <1>4, <1>14, <2>1, Limits
  <2>5. Held(c)' \subseteq Held(c) /\ Items(queue'[c]) \cap Range(buf'[c]) = {}
    BY <1>6, <1>7, <1>12, <2>1 DEF Held
  <2> QED
    BY <1>8, <1>9, <1>11, <1>14, <2>3, <2>4, <2>5 DEF Proceeds
<1> QED
  BY <1>2, <1>13, <1>14 DEF more, h

LEMMA IdleProceeds ==
    ASSUME TypeOK, NEW c \in Containers, Apart(c), Idle(c)
    PROVE  Touches(c) /\ Proceeds(c)
<1>1. /\ Typed(c) /\ queue[c] \in Seq(Events \cup {Stop}) /\ buf[c] \in Seq(Events)
      /\ Len(buf[c]) < FlushEvery
  BY Container DEF Typed
<1>2. /\ Alive(c) /\ buf[c] # <<>> /\ Put(c, buf[c]) /\ buf' = [buf EXCEPT ![c] = <<>>]
      /\ UNCHANGED <<runner, status, deployment, record, handling, wrote, queue>>
  BY DEF Idle, life
<1>3. Len(buf[c]) \in 1 .. FlushEvery
  BY <1>1, <1>2, EmptySeq, LenProperties, Limits
<1>4. /\ faults' \in 0 .. MaxFaults /\ faults <= faults'
      /\ OnAll(put') /\ \A d \in Containers \ {c} : put'[d] = put[d]
      /\ \E b \in Batches : /\ put'[c] = Append(put[c], b)
                            /\ b.events = buf[c] /\ b.run = RunOf(Head(buf[c]))
  BY <1>1, <1>2, <1>3, PutStep
<1>5. OnAll(buf') /\ buf'[c] = <<>> /\ \A d \in Containers \ {c} : buf'[d] = buf[d]
  BY <1>2, AllOn DEF OnAll
<1>6. OnAll(status)' /\ OnAll(handling)' /\ OnAll(queue)'
  BY <1>2, AllOn
<1>7. Touches(c) /\ UNCHANGED <<sent, deployment[c], record[c], wrote[c]>>
  BY <1>2, <1>4, <1>5, <1>6, Touched
<1>8. Range(buf'[c]) = {} /\ Held(c)' = Items(queue[c])
  BY <1>2, <1>5, RangeEmpty DEF Held
<1>9. Puts(c)
  BY <1>3, <1>4, <1>8 DEF Puts, Held, Apart
<1>10. status[c] # "unborn" /\ status'[c] \in Statuses \ {"unborn"}
  BY <1>1, <1>2 DEF Alive, Statuses
<1>11. buf'[c] \in Seq(Events) /\ Len(buf'[c]) < FlushEvery
  BY <1>5, Limits
<1>12. Held(c)' \subseteq Held(c) /\ Items(queue'[c]) \cap Range(buf'[c]) = {}
  BY <1>8 DEF Held
<1> QED
  BY <1>1, <1>2, <1>7, <1>9, <1>10, <1>11, <1>12 DEF Proceeds, Apart

LEMMA ExitLeaves ==
    ASSUME TypeOK, NEW c \in Containers, Exit(c)
    PROVE  /\ OnAll(status') /\ OnAll(queue') /\ OnAll(buf')
           /\ status'[c] = "gone" /\ queue'[c] = <<>> /\ buf'[c] = <<>>
           /\ \A d \in Containers \ {c} : UNCHANGED <<status[d], queue[d], buf[d]>>
           /\ UNCHANGED <<runner, deployment, record, wrote>> /\ Held(c)' = {}
           /\ Distinct(queue'[c]) /\ queue'[c] \in Seq(Events \cup {Stop})
           /\ buf'[c] \in Seq(Events) /\ Len(buf'[c]) < FlushEvery
           /\ Items(queue'[c]) \cap Range(buf'[c]) = {}
<1>1. OnAll(status') /\ status'[c] = "gone" /\ \A d \in Containers \ {c} : status'[d] = status[d]
  BY AllOn DEF Exit, OnAll
<1>2. OnAll(queue') /\ queue'[c] = <<>> /\ \A d \in Containers \ {c} : queue'[d] = queue[d]
  BY AllOn DEF Exit, OnAll
<1>3. OnAll(buf') /\ buf'[c] = <<>> /\ \A d \in Containers \ {c} : buf'[d] = buf[d]
  BY AllOn DEF Exit, OnAll
<1>4. Range(queue'[c]) = {} /\ Range(buf'[c]) = {} /\ Distinct(queue'[c])
  BY <1>2, <1>3, RangeEmpty DEF Distinct
<1>5. Held(c)' = {} /\ Items(queue'[c]) \cap Range(buf'[c]) = {}
  BY <1>4 DEF Held, Items
<1>6. queue'[c] \in Seq(Events \cup {Stop}) /\ buf'[c] \in Seq(Events) /\ Len(buf'[c]) < FlushEvery
  BY <1>2, <1>3, Limits
<1>7. UNCHANGED <<runner, deployment, record, wrote>>
  BY DEF Exit
<1> QED
  BY <1>1, <1>2, <1>3, <1>4, <1>5, <1>6, <1>7

LEMMA FlushedProceeds ==
    ASSUME TypeOK, NEW c \in Containers, Apart(c), Flushed(c)
    PROVE  Touches(c) /\ Proceeds(c)
<1>1. Exit(c) /\ Alive(c) /\ UNCHANGED handling
      /\ IF buf[c] # <<>> THEN Put(c, buf[c]) ELSE UNCHANGED <<put, faults>>
  BY DEF Flushed, Stopped
<1>2. Typed(c) /\ buf[c] \in Seq(Events)
  BY Container DEF Typed
<1>3. OnAll(handling')
  BY <1>1, AllOn
<1>4. status[c] # "unborn" /\ status'[c] \in Statuses \ {"unborn"} /\ status'[c] # "up"
  BY <1>1, ExitLeaves DEF Alive, Statuses
<1>5. CASE buf[c] = <<>>
  <2>1. UNCHANGED put /\ OnAll(put') /\ faults' \in 0 .. MaxFaults /\ faults <= faults'
    BY <1>1, <1>5, AllOn, Limits
  <2>2. Touches(c) /\ UNCHANGED <<sent, deployment[c], record[c], wrote[c]>>
    BY <1>1, <1>3, <2>1, ExitLeaves, Touched
  <2> QED
    BY <1>1, <1>4, <2>1, <2>2, ExitLeaves DEF Proceeds
<1>6. CASE buf[c] # <<>>
  <2>1. Len(buf[c]) \in 1 .. FlushEvery
    BY <1>2, <1>6, EmptySeq, LenProperties, Limits DEF Typed
  <2>2. /\ faults' \in 0 .. MaxFaults /\ faults <= faults'
        /\ OnAll(put') /\ \A d \in Containers \ {c} : put'[d] = put[d]
        /\ \E b \in Batches : /\ put'[c] = Append(put[c], b)
                              /\ b.events = buf[c] /\ b.run = RunOf(Head(buf[c]))
    BY <1>1, <1>2, <1>6, <2>1, PutStep
  <2>3. Touches(c) /\ UNCHANGED <<sent, deployment[c], record[c], wrote[c]>>
    BY <1>1, <1>3, <2>2, ExitLeaves, Touched
  <2>4. Puts(c)
    BY <1>1, <2>1, <2>2, ExitLeaves DEF Puts, Held
  <2> QED
    BY <1>1, <1>4, <2>3, <2>4, ExitLeaves DEF Proceeds
<1> QED
  BY <1>5, <1>6

LEMMA DieProceeds ==
    ASSUME TypeOK, NEW c \in Containers, Apart(c), Die(c)
    PROVE  Touches(c) /\ Proceeds(c)
<1>1. Alive(c) /\ Fault /\ Exit(c) /\ handling' = [handling EXCEPT ![c] = {}] /\ UNCHANGED put
  BY DEF Die
<1>2. OnAll(handling') /\ handling'[c] = {}
      /\ \A d \in Containers \ {c} : handling'[d] = handling[d]
  BY <1>1, AllOn DEF OnAll
<1>3. faults' \in 0 .. MaxFaults /\ faults <= faults' /\ OnAll(put')
  BY <1>1, Limits, AllOn DEF Fault
<1>4. status[c] # "unborn" /\ status'[c] \in Statuses \ {"unborn"} /\ status'[c] # "up"
  BY <1>1, ExitLeaves DEF Alive, Statuses
<1>5. Touches(c) /\ UNCHANGED <<sent, deployment[c], record[c], wrote[c]>>
  BY <1>1, <1>2, <1>3, ExitLeaves, Touched
<1> QED
  BY <1>1, <1>2, <1>4, <1>5, ExitLeaves DEF Proceeds

LEMMA RetireProceeds ==
    ASSUME TypeOK, NEW c \in Containers, Apart(c), Retire(c)
    PROVE  Touches(c) /\ Proceeds(c)
<1>1. /\ status[c] = "up" /\ status' = [status EXCEPT ![c] = "draining"]
      /\ UNCHANGED <<runner, deployment, record, handling, wrote, queue, buf, put, faults>>
  BY DEF Retire, Up, writer
<1>2. OnAll(status') /\ status'[c] = "draining"
      /\ \A d \in Containers \ {c} : status'[d] = status[d]
  BY <1>1, AllOn DEF OnAll
<1>3. OnAll(handling') /\ OnAll(queue') /\ OnAll(buf') /\ OnAll(put')
      /\ faults' \in 0 .. MaxFaults /\ faults <= faults'
  BY <1>1, AllOn, Limits
<1>4. Touches(c) /\ UNCHANGED <<sent, deployment[c], record[c], wrote[c]>>
  BY <1>1, <1>2, <1>3, Touched
<1>5. Held(c)' = Held(c) /\ Typed(c) /\ status'[c] \in Statuses \ {"unborn", "up"}
  BY <1>1, <1>2, Container DEF Held, Statuses
<1> QED
  BY <1>1, <1>4, <1>5 DEF Proceeds, Apart, Typed

LEMMA FlushProceeds ==
    ASSUME TypeOK, NEW c \in Containers, Apart(c), Flush(c)
    PROVE  Touches(c) /\ Proceeds(c)
<1>1. /\ status[c] = "draining" /\ status' = [status EXCEPT ![c] = "flushing"]
      /\ queue' = [queue EXCEPT ![c] = Append(queue[c], Stop)]
      /\ UNCHANGED <<runner, deployment, record, handling, wrote, buf, put, faults>>
  BY DEF Flush
<1>2. OnAll(status') /\ status'[c] = "flushing"
      /\ \A d \in Containers \ {c} : status'[d] = status[d]
  BY <1>1, AllOn DEF OnAll
<1>3. OnAll(queue') /\ queue'[c] = Append(queue[c], Stop)
      /\ \A d \in Containers \ {c} : queue'[d] = queue[d]
  BY <1>1, AllOn DEF OnAll
<1>4. OnAll(handling') /\ OnAll(buf') /\ OnAll(put')
      /\ faults' \in 0 .. MaxFaults /\ faults <= faults'
  BY <1>1, AllOn, Limits
<1>5. Touches(c) /\ UNCHANGED <<sent, deployment[c], record[c], wrote[c]>>
  BY <1>1, <1>2, <1>3, <1>4, Touched
<1>6. Typed(c) /\ status'[c] \in Statuses \ {"unborn", "up"}
  BY <1>2, Container DEF Statuses
<1>7. /\ queue'[c] \in Seq(Events \cup {Stop}) /\ Distinct(queue'[c])
      /\ Range(queue'[c]) = Range(queue[c]) \cup {Stop}
  BY <1>3, <1>6, AppendProperties, DistinctAppend, RangeAppend DEF Typed, Apart
<1>8. Items(queue'[c]) = Items(queue[c]) /\ Held(c)' = Held(c)
  BY <1>1, <1>7 DEF Items, Held
<1> QED
  BY <1>1, <1>5, <1>6, <1>7, <1>8 DEF Proceeds, Apart, Typed

\* Every step of a container is of one of four sorts.
ContainerStep(c) ==
    \/ Send(c) \/ Answer(c) \/ Raise(c) \/ Work(c)
    \/ Launch(c) \/ Retire(c) \/ Flush(c) \/ Die(c)

LEMMA FourSorts ==
    ASSUME TypeOK, NEW c \in Containers, Apart(c), ContainerStep(c)
    PROVE  /\ Touches(c)
           /\ \/ Receives(c) \/ Starts(c) \/ Proceeds(c)
              \/ Answers(c) /\ status[c] # "unborn"
  BY ReceivesStep, AnswersStep, StartsStep, RaiseProceeds, TakeProceeds, IdleProceeds,
     FlushedProceeds, DieProceeds, RetireProceeds, FlushProceeds DEF ContainerStep, Work

LEMMA PutsAdds ==
    ASSUME TypeOK, NEW c \in Containers, Puts(c)
    PROVE  \E b \in Batches, k \in Nat :
              /\ put'[c] \in Seq(Batches) /\ k \notin DOMAIN put[c]
              /\ DOMAIN put'[c] = DOMAIN put[c] \cup {k} /\ put'[c][k] = b
              /\ \A n \in DOMAIN put[c] : put'[c][n] = put[c][n]
              /\ b.run = RunOf(Head(b.events)) /\ Len(b.events) \in 1 .. FlushEvery
              /\ Range(b.events) \subseteq Held(c) \ Held(c)'
<1>1. PICK b \in Batches :
         /\ put'[c] = Append(put[c], b)
         /\ b.run = RunOf(Head(b.events)) /\ Len(b.events) \in 1 .. FlushEvery
         /\ Range(b.events) \subseteq Held(c) \ Held(c)'
  BY DEF Puts
<1>2. put[c] \in Seq(Batches)
  BY Container DEF Typed
<1>3. /\ put'[c] \in Seq(Batches) /\ Len(put[c]) + 1 \notin DOMAIN put[c]
      /\ DOMAIN put'[c] = DOMAIN put[c] \cup {Len(put[c]) + 1}
      /\ put'[c][Len(put[c]) + 1] = b /\ Len(put[c]) + 1 \in Nat
      /\ \A n \in DOMAIN put[c] : put'[c][n] = put[c][n]
  BY <1>1, <1>2, AppendProperties, LenProperties
<1> QED
  BY <1>1, <1>3

LEMMA ContainerKeepsTypes ==
    ASSUME TypeOK, Settings, NEW c \in Containers, Touches(c),
           Receives(c) \/ Answers(c) \/ Starts(c) \/ Proceeds(c)
    PROVE  TypeOK'
<1>1. UNCHANGED <<stage, campaign>> /\ run' = run
  BY DEF Touches, campaign, run
<1>2. Typed(c)
  BY Container
<1>3. sent \in Nat /\ PerRun \in Nat /\ sent \in 0 .. PerRun
  BY Limits
<1>4. CASE Receives(c)
  <2>1. sent' \in 0 .. PerRun
    BY <1>3, <1>4 DEF Receives
  <2>2. <<run, sent + 1>> \in Events
    <3>1. run > 0 /\ run <= MaxRuns /\ run \in Nat
      BY <1>4, Limits DEF Receives, Settings, TypeOK
    <3>2. sent + 1 \in 1 .. PerRun
      BY <1>3, <1>4 DEF Receives
    <3> QED
      BY <3>1, <3>2, Plan DEF Events
  <2>3. handling'[c] \subseteq Events /\ record'[c] \in (0 .. MaxSeeds) \cup {None}
    BY <1>2, <1>4, <2>2, Limits DEF Receives, Typed
  <2>4. UNCHANGED <<status[c], deployment[c], wrote[c], queue[c], buf[c], put[c]>>
    BY <1>4 DEF Receives
  <2>5. Typed(c)'
    BY <1>1, <1>2, <2>3, <2>4 DEF Typed
  <2> QED
    BY <2>1, <2>5, ContainerTypes
<1>5. CASE Answers(c)
  <2>1. PICK e \in handling[c] :
           /\ handling'[c] = handling[c] \ {e}
           /\ wrote'[c] = Append(wrote[c], e) /\ queue'[c] = Append(queue[c], e)
    BY <1>5 DEF Answers
  <2>2. /\ handling'[c] \subseteq Events /\ wrote'[c] \in Seq(Events)
        /\ queue'[c] \in Seq(Events \cup {Stop})
    BY <1>2, <2>1, AppendProperties DEF Typed
  <2>3. UNCHANGED <<sent, status[c], deployment[c], record[c], buf[c], put[c]>>
    BY <1>5 DEF Answers
  <2>4. Typed(c)'
    BY <1>1, <1>2, <2>2, <2>3 DEF Typed
  <2> QED
    BY <1>3, <2>3, <2>4, ContainerTypes
<1>6. CASE Starts(c)
  <2>1. /\ status'[c] = "up" /\ deployment'[c] = deployed
        /\ UNCHANGED <<sent, record[c], handling[c], wrote[c], queue[c], buf[c], put[c]>>
    BY <1>6 DEF Starts
  <2>2. status'[c] \in Statuses /\ deployment'[c] \in 0 .. run
    BY <2>1, Cells DEF Statuses
  <2>3. Typed(c)'
    BY <1>1, <1>2, <2>1, <2>2 DEF Typed
  <2> QED
    BY <1>3, <2>1, <2>3, ContainerTypes
<1>7. CASE Proceeds(c)
  <2>1. /\ UNCHANGED <<sent, deployment[c], record[c], wrote[c]>>
        /\ status'[c] \in Statuses /\ handling'[c] \subseteq handling[c]
        /\ queue'[c] \in Seq(Events \cup {Stop})
        /\ buf'[c] \in Seq(Events) /\ Len(buf'[c]) < FlushEvery
    BY <1>7 DEF Proceeds
  <2>2. put'[c] \in Seq(Batches) /\ \A n \in DOMAIN put'[c] : Len(put'[c][n].events) \in 1 .. FlushEvery
    <3>1. CASE put'[c] = put[c]
      BY <1>2, <3>1 DEF Typed
    <3>2. CASE Puts(c)
      BY <1>2, <3>2, PutsAdds DEF Typed
    <3> QED
      BY <1>7, <3>1, <3>2 DEF Proceeds
  <2>3. Typed(c)'
    BY <1>1, <1>2, <2>1, <2>2 DEF Typed
  <2> QED
    BY <1>3, <2>1, <2>3, ContainerTypes
<1> QED
  BY <1>4, <1>5, <1>6, <1>7

-----------------------------------------------------------------------------
(***************************************************************************)
(* The steps of a container keep the invariant.                            *)
(***************************************************************************)

\* The events of a batch are some that were written, its first one among them.
LEMMA BatchEvents ==
    ASSUME TypeOK, NEW c \in Containers, Apart(c), NEW n \in DOMAIN put[c]
    PROVE  /\ put[c][n] \in Batches /\ Batch(c, n) \subseteq Range(wrote[c])
           /\ Head(put[c][n].events) \in Batch(c, n)
           /\ put[c][n].run = RunOf(Head(put[c][n].events))
<1>1. put[c] \in Seq(Batches) /\ Len(put[c][n].events) \in 1 .. FlushEvery
  BY Container DEF Typed
<1>2. put[c][n] \in Batches /\ put[c][n].events \in Seq(Events)
  <2>1. put[c][n] \in Batches
    BY <1>1, LenProperties
  <2> QED
    BY <2>1 DEF Batches
<1>3. put[c][n].events # <<>>
  BY <1>1, <1>2, EmptySeq
<1>4. Head(put[c][n].events) \in Batch(c, n)
  BY <1>2, <1>3, RangeTail DEF Batch
<1>5. put[c][n].run = RunOf(Head(put[c][n].events)) /\ Batch(c, n) \subseteq Range(wrote[c])
  BY DEF Apart
<1> QED
  BY <1>2, <1>4, <1>5

LEMMA ReceivesKeeps ==
    ASSUME IInv, NEW c \in Containers, Touches(c), Receives(c)
    PROVE  (Apart(c) /\ Served(c) /\ Unmixed(c))'
<1> DEFINE new == <<run, sent + 1>>
<1>1. TypeOK /\ Settings /\ Apart(c) /\ Served(c) /\ Unmixed(c) /\ Typed(c)
  BY Container DEF IInv
<1>2. /\ stage = "load" /\ status[c] = "up" /\ sent' = sent + 1
      /\ handling'[c] = handling[c] \cup {new}
      /\ record'[c] = IF record[c] = None THEN table ELSE record[c]
      /\ UNCHANGED <<status[c], deployment[c], wrote[c], queue[c], buf[c], put[c]>>
  BY DEF Receives
<1>3. UNCHANGED <<stage, runs, clean, table, deployed, run>>
  BY DEF Touches, campaign, run
<1>4. RunOf(new) = run /\ new[2] = sent + 1
  BY DEF RunOf
<1>5. new \notin Requests(c)
  BY <1>1, <1>2, <1>4, Limits DEF Served
<1>6. Held(c)' = Held(c) /\ Requests(c)' = Requests(c) \cup {new}
      /\ Pending(c)' = Pending(c) \cup {new}
  BY <1>2 DEF Held, Requests, Pending
<1>7. Apart(c)'
  <2>1. handling'[c] \cap Range(wrote'[c]) = {}
    BY <1>1, <1>2, <1>5 DEF Apart, Requests
  <2> QED
    BY <1>1, <1>2, <1>6, <2>1 DEF Apart, Batch
<1>8. /\ run > 0 /\ deployment[c] <= runs[run].by
      /\ runs[run].deploy => runs[run].by = deployment[c]
      /\ TableAt(deployment[c]) \in Nat /\ TableAt(deployment[c]) <= table
  <2>1. run > 0 /\ runs[run].by = deployed /\ (runs[run].deploy => key # None)
    BY <1>1, <1>2 DEF Settings
  <2>2. deployment[c] <= deployed /\ (key # None => deployment[c] = deployed)
    BY <1>1, <1>2 DEF Settings, Served, Up
  <2>3. deployment[c] \in 0 .. run
    BY <1>1 DEF Typed
  <2>4. \A r \in 1 .. run : runs[r].table \in 0 .. table
    BY <1>1 DEF Settings, Founded
  <2> QED
    BY <1>1, <2>1, <2>2, <2>3, <2>4, Limits DEF TableAt
<1>9. table \in Nat /\ table # None
  BY <1>1, Limits, CampaignAssumption
<1>10. record'[c] # None /\ record'[c] <= table /\ TableAt(deployment[c]) <= record'[c]
  BY <1>1, <1>2, <1>8, <1>9 DEF Served
<1>11. Served(c)'
  <2>1. ASSUME NEW e \in Requests(c)'
        PROVE  /\ RunOf(e) <= run /\ deployment[c] <= runs[RunOf(e)].by
               /\ runs[RunOf(e)].deploy => runs[RunOf(e)].by = deployment[c]
               /\ RunOf(e) = run /\ stage \in {"settle", "load", "fetch"} => e[2] <= sent + 1
               /\ record'[c] <= TableBy(RunOf(e))
    <3>1. CASE e = new
      <4>1. TableBy(run) = table
        BY DEF TableBy
      <4> QED
        BY <1>1, <1>4, <1>8, <1>10, <3>1, <4>1, Limits
    <3>2. CASE e \in Requests(c)
      <4>1. /\ RunOf(e) <= run /\ deployment[c] <= runs[RunOf(e)].by
            /\ runs[RunOf(e)].deploy => runs[RunOf(e)].by = deployment[c]
            /\ RunOf(e) = run /\ stage \in {"settle", "load", "fetch"} => e[2] <= sent
            /\ record[c] # None /\ record[c] <= TableBy(RunOf(e))
        BY <1>1, <3>2 DEF Served
      <4>2. e \in Events
        BY <1>1, <3>2, RangeOfSeq DEF Requests, Typed
      <4>3. e[2] \in Nat
        BY <4>2 DEF Events
      <4> QED
        BY <1>1, <1>2, <4>1, <4>3, Limits
    <3> QED
      BY <1>6, <3>1, <3>2
  <2>2. deployment[c] <= deployed
    BY <1>1 DEF Served
  <2>3. \A r : TableBy(r)' = TableBy(r) /\ TableAt(r)' = TableAt(r)
    BY <1>3 DEF TableBy, TableAt
  <2> QED
    BY <1>2, <1>3, <1>10, <2>1, <2>2, <2>3 DEF Served
<1>12. Unmixed(c)'
  <2>1. ASSUME NEW r \in clean, NEW e \in Requests(c)', RunOf(e) = r
        PROVE  /\ \A f \in Pending(c)' : RunOf(f) >= r
               /\ \A n \in DOMAIN put[c] :
                     put[c][n].run = r => \A f \in Batch(c, n) : RunOf(f) >= r
    <3>1. r \in 1 .. run /\ run \in Nat
      BY <1>1, Limits DEF TypeOK
    <3>2. CASE \E f \in Requests(c) : RunOf(f) = r
      <4>1. /\ \A f \in Pending(c) : RunOf(f) >= r
            /\ \A n \in DOMAIN put[c] :
                  put[c][n].run = r => \A f \in Batch(c, n) : RunOf(f) >= r
        BY <1>1, <3>2 DEF Unmixed
      <4> QED
        BY <1>4, <1>6, <3>1, <4>1
    <3>3. CASE \A f \in Requests(c) : RunOf(f) # r
      <4>1. e = new /\ r = run
        BY <1>4, <1>6, <2>1, <3>3
      <4>2. \A f \in Pending(c) : RunOf(f) = run
        BY <1>1, <1>2, <4>1 DEF Unmixed
      <4>3. \A n \in DOMAIN put[c] : put[c][n].run # r
        BY <1>1, <3>3, BatchEvents DEF Requests
      <4> QED
        BY <1>4, <1>6, <3>1, <4>1, <4>2, <4>3
    <3> QED
      BY <3>2, <3>3
  <2>2. stage = "load" /\ run \in clean => \A e \in Pending(c)' : RunOf(e) = run
    BY <1>1, <1>2, <1>4, <1>6 DEF Unmixed
  <2> QED
    BY <1>2, <1>3, <2>1, <2>2 DEF Unmixed, Batch
<1> QED
  BY <1>7, <1>11, <1>12

LEMMA AnswersKeeps ==
    ASSUME IInv, NEW c \in Containers, Touches(c), Answers(c), status[c] # "unborn"
    PROVE  (Apart(c) /\ Served(c) /\ Unmixed(c))' /\ Requests(c)' = Requests(c)
<1>1. TypeOK /\ Apart(c) /\ Served(c) /\ Unmixed(c) /\ Typed(c)
  BY Container DEF IInv
<1>2. PICK e \in handling[c] :
         /\ handling'[c] = handling[c] \ {e}
         /\ wrote'[c] = Append(wrote[c], e) /\ queue'[c] = Append(queue[c], e)
  BY DEF Answers
<1>3. UNCHANGED <<sent, status[c], deployment[c], record[c], buf[c], put[c]>>
  BY DEF Answers
<1>4. UNCHANGED <<stage, runs, clean, table, deployed, run>>
  BY DEF Touches, campaign, run
<1>5. e \in Events /\ e # Stop /\ e \notin Range(wrote[c]) /\ e \notin Held(c)
  BY <1>1, StopNoEvent DEF Typed, Apart
<1>6. /\ Range(wrote'[c]) = Range(wrote[c]) \cup {e}
      /\ Range(queue'[c]) = Range(queue[c]) \cup {e}
      /\ Distinct(queue'[c])
  <2>1. wrote[c] \in Seq(Events) /\ queue[c] \in Seq(Events \cup {Stop}) /\ Distinct(queue[c])
    BY <1>1 DEF Typed, Apart
  <2>2. e \notin Range(queue[c])
    BY <1>5 DEF Held, Items
  <2>3. Range(wrote'[c]) = Range(wrote[c]) \cup {e}
    BY <1>2, <1>5, <2>1, RangeAppend
  <2>4. Range(queue'[c]) = Range(queue[c]) \cup {e}
    BY <1>2, <1>5, <2>1, RangeAppend
  <2>5. Distinct(queue'[c])
    BY <1>2, <1>5, <2>1, <2>2, DistinctAppend
  <2> QED
    BY <2>3, <2>4, <2>5
<1>7. /\ Items(queue'[c]) = Items(queue[c]) \cup {e} /\ Held(c)' = Held(c) \cup {e}
      /\ Requests(c)' = Requests(c) /\ Pending(c)' = Pending(c)
  BY <1>2, <1>3, <1>5, <1>6 DEF Items, Held, Requests, Pending
<1>8. Apart(c)'
  <2>1. Items(queue'[c]) \cap Range(buf'[c]) = {}
    BY <1>1, <1>3, <1>5, <1>7 DEF Apart, Held
  <2>2. handling'[c] \cap Range(wrote'[c]) = {} /\ Held(c)' \subseteq Range(wrote'[c])
    BY <1>1, <1>2, <1>6, <1>7 DEF Apart
  <2>3. \A n \in DOMAIN put[c] : Batch(c, n) \subseteq Range(wrote'[c]) \ Held(c)'
    BY <1>1, <1>5, <1>6, <1>7 DEF Apart
  <2> QED
    BY <1>1, <1>3, <1>6, <2>1, <2>2, <2>3 DEF Apart, Batch
<1>9. Served(c)'
  BY <1>1, <1>3, <1>4, <1>7 DEF Served, TableBy, TableAt
<1>10. Unmixed(c)'
  BY <1>1, <1>3, <1>4, <1>7 DEF Unmixed, Batch
<1> QED
  BY <1>7, <1>8, <1>9, <1>10

LEMMA StartsKeeps ==
    ASSUME IInv, NEW c \in Containers, Touches(c), Starts(c)
    PROVE  (Apart(c) /\ Served(c) /\ Unmixed(c))' /\ Requests(c)' = Requests(c)
<1>1. TypeOK /\ Apart(c) /\ Served(c) /\ Unmixed(c)
  BY DEF IInv
<1>2. /\ status[c] = "unborn" /\ status'[c] = "up" /\ deployment'[c] = deployed
      /\ UNCHANGED <<sent, record[c], handling[c], wrote[c], queue[c], buf[c], put[c]>>
  BY DEF Starts
<1>3. UNCHANGED <<stage, runs, clean, table, deployed, run>>
  BY DEF Touches, campaign, run
<1>4. Requests(c) = {} /\ record[c] = None
  BY <1>1, <1>2 DEF Apart
<1>5. Requests(c)' = {} /\ Held(c)' = Held(c) /\ Pending(c)' = Pending(c)
  BY <1>2, <1>4 DEF Requests, Held, Pending
<1>6. Pending(c) = {}
  BY <1>1, <1>4 DEF Pending, Requests, Apart
<1>7. Apart(c)'
  BY <1>1, <1>2, <1>5 DEF Apart, Batch
<1>8. Served(c)'
  <2>1. deployed <= deployed
    BY <1>1, Cells
  <2> QED
    BY <1>2, <1>3, <1>4, <1>5, <2>1 DEF Served
<1>9. Unmixed(c)'
  BY <1>5, <1>6 DEF Unmixed
<1> QED
  BY <1>4, <1>5, <1>7, <1>8, <1>9

LEMMA ProceedsKeeps ==
    ASSUME IInv, NEW c \in Containers, Touches(c), Proceeds(c)
    PROVE  (Apart(c) /\ Served(c) /\ Unmixed(c))' /\ Requests(c)' \subseteq Requests(c)
<1>1. TypeOK /\ Apart(c) /\ Served(c) /\ Unmixed(c)
  BY DEF IInv
<1>2. /\ UNCHANGED <<sent, deployment[c], record[c], wrote[c]>>
      /\ status[c] # "unborn" /\ status'[c] # "unborn"
      /\ status'[c] = "up" => status[c] = "up"
      /\ handling'[c] \subseteq handling[c] /\ Distinct(queue'[c])
      /\ Items(queue'[c]) \cap Range(buf'[c]) = {}
      /\ Held(c)' \subseteq Held(c)
  BY DEF Proceeds
<1>3. UNCHANGED <<stage, runs, clean, table, deployed, run>>
  BY DEF Touches, campaign, run
<1>4. Requests(c)' \subseteq Requests(c) /\ Pending(c)' \subseteq Pending(c)
  BY <1>2 DEF Requests, Pending
<1>5. ASSUME put'[c] = put[c]
      PROVE  /\ \A n \in DOMAIN put'[c] :
                   /\ put'[c][n].run = RunOf(Head(put'[c][n].events))
                   /\ Batch(c, n)' \subseteq Range(wrote[c]) \ Held(c)'
                   /\ \A m \in DOMAIN put'[c] : m # n => Batch(c, m)' \cap Batch(c, n)' = {}
             /\ \A n \in DOMAIN put'[c] : n \in DOMAIN put[c] /\ put'[c][n] = put[c][n]
  BY <1>1, <1>2, <1>5 DEF Apart, Batch
<1>6. ASSUME Puts(c)
      PROVE  /\ \A n \in DOMAIN put'[c] :
                   /\ put'[c][n].run = RunOf(Head(put'[c][n].events))
                   /\ Batch(c, n)' \subseteq Range(wrote[c]) \ Held(c)'
                   /\ \A m \in DOMAIN put'[c] : m # n => Batch(c, m)' \cap Batch(c, n)' = {}
             /\ \A n \in DOMAIN put'[c] :
                   (n \in DOMAIN put[c] /\ put'[c][n] = put[c][n]) \/ Batch(c, n)' \subseteq Held(c)
  <2>1. PICK b \in Batches, k \in Nat :
           /\ put'[c] \in Seq(Batches) /\ k \notin DOMAIN put[c]
           /\ DOMAIN put'[c] = DOMAIN put[c] \cup {k} /\ put'[c][k] = b
           /\ \A n \in DOMAIN put[c] : put'[c][n] = put[c][n]
           /\ b.run = RunOf(Head(b.events)) /\ Len(b.events) \in 1 .. FlushEvery
           /\ Range(b.events) \subseteq Held(c) \ Held(c)'
    BY <1>1, <1>6, PutsAdds
  <2>2. Batch(c, k)' = Range(b.events) /\ Batch(c, k)' \subseteq Held(c) \ Held(c)'
    BY <2>1 DEF Batch
  <2>3. \A n \in DOMAIN put[c] : Batch(c, n)' = Batch(c, n)
    BY <2>1 DEF Batch
  <2>4. Held(c) \subseteq Range(wrote[c])
    BY <1>1 DEF Apart
  <2>5. \A n \in DOMAIN put[c] :
           /\ put[c][n].run = RunOf(Head(put[c][n].events))
           /\ Batch(c, n) \subseteq Range(wrote[c]) \ Held(c)
           /\ \A m \in DOMAIN put[c] : m # n => Batch(c, m) \cap Batch(c, n) = {}
    BY <1>1 DEF Apart
  <2>6. \A n \in DOMAIN put[c] : Batch(c, n) \cap Batch(c, k)' = {}
    BY <2>2, <2>5
  <2>7. \A n \in DOMAIN put'[c] : /\ put'[c][n].run = RunOf(Head(put'[c][n].events))
                                  /\ Batch(c, n)' \subseteq Range(wrote[c]) \ Held(c)'
    BY <1>2, <2>1, <2>2, <2>3, <2>4, <2>5
  <2>8. \A n, m \in DOMAIN put'[c] : m # n => Batch(c, m)' \cap Batch(c, n)' = {}
    BY <2>1, <2>3, <2>5, <2>6
  <2> QED
    BY <2>1, <2>2, <2>7, <2>8
<1>7. put'[c] = put[c] \/ Puts(c)
  BY DEF Proceeds
<1>8. Apart(c)'
  <2>1. handling'[c] \cap Range(wrote'[c]) = {} /\ Held(c)' \subseteq Range(wrote'[c])
    BY <1>1, <1>2 DEF Apart
  <2>2. \A n \in DOMAIN put'[c] :
           /\ put'[c][n].run = RunOf(Head(put'[c][n].events))
           /\ Batch(c, n)' \subseteq Range(wrote'[c]) \ Held(c)'
           /\ \A m \in DOMAIN put'[c] : m # n => Batch(c, m)' \cap Batch(c, n)' = {}
    BY <1>2, <1>5, <1>6, <1>7
  <2> QED
    BY <1>2, <2>1, <2>2 DEF Apart
<1>9. Served(c)'
  BY <1>1, <1>2, <1>3, <1>4 DEF Served, TableBy, TableAt
<1>10. Unmixed(c)'
  <2>1. ASSUME NEW r \in clean, NEW e \in Requests(c)', RunOf(e) = r
        PROVE  /\ \A f \in Pending(c)' : RunOf(f) >= r
               /\ \A n \in DOMAIN put'[c] :
                     put'[c][n].run = r => \A f \in Batch(c, n)' : RunOf(f) >= r
    <3>1. /\ \A f \in Pending(c) : RunOf(f) >= r
          /\ \A n \in DOMAIN put[c] :
                put[c][n].run = r => \A f \in Batch(c, n) : RunOf(f) >= r
      BY <1>1, <1>4, <2>1 DEF Unmixed
    <3>2. Held(c) \subseteq Pending(c)
      BY DEF Pending
    <3> QED
      BY <1>4, <1>5, <1>6, <1>7, <3>1, <3>2 DEF Batch
  <2>2. stage = "load" /\ run \in clean /\ status'[c] = "up" =>
           \A e \in Pending(c)' : RunOf(e) = run
    BY <1>1, <1>2, <1>4 DEF Unmixed
  <2> QED
    BY <1>3, <2>1, <2>2 DEF Unmixed
<1> QED
  BY <1>4, <1>8, <1>9, <1>10

\* The invariant at a container that does nothing.
LEMMA OthersKeep ==
    ASSUME IInv, NEW c \in Containers, Touches(c), sent' \in {sent, sent + 1},
           NEW d \in Containers \ {c}
    PROVE  (Apart(d) /\ Served(d) /\ Unmixed(d))' /\ Requests(d)' = Requests(d)
<1>1. TypeOK /\ Apart(d) /\ Served(d) /\ Unmixed(d) /\ Typed(d)
  BY Container DEF IInv
<1>2. UNCHANGED <<status[d], deployment[d], record[d], handling[d], wrote[d], queue[d],
                  buf[d], put[d]>>
  BY DEF Touches
<1>3. UNCHANGED <<stage, runs, clean, table, deployed, run>>
  BY DEF Touches, campaign, run
<1>4. Requests(d)' = Requests(d) /\ Held(d)' = Held(d) /\ Pending(d)' = Pending(d)
  BY <1>2 DEF Requests, Held, Pending
<1>5. Apart(d)'
  BY <1>1, <1>2, <1>4 DEF Apart, Batch
<1>6. Served(d)'
  <2>1. ASSUME NEW e \in Requests(d), e[2] <= sent PROVE e[2] <= sent'
    <3>1. e \in Events
      BY <1>1, RangeOfSeq DEF Requests, Typed
    <3>2. e[2] \in Nat
      BY <3>1 DEF Events
    <3> QED
      BY <1>1, <2>1, <3>2, Limits
  <2> QED
    BY <1>1, <1>2, <1>3, <1>4, <2>1 DEF Served, TableBy, TableAt
<1>7. Unmixed(d)'
  BY <1>1, <1>2, <1>3, <1>4 DEF Unmixed, Batch
<1> QED
  BY <1>4, <1>5, <1>6, <1>7

\* What is filed stays filed.
LEMMA FiledStays ==
    ASSUME TypeOK, NEW c \in Containers, Touches(c),
           put'[c] = put[c] \/ Puts(c), NEW r
    PROVE  Filed(r) \subseteq Filed(r)'
<1>1. ASSUME NEW d \in Containers, NEW n \in DOMAIN put[d]
      PROVE  n \in DOMAIN put'[d] /\ put'[d][n] = put[d][n]
  <2>1. CASE d # c \/ put'[c] = put[c]
    <3>1. put'[d] = put[d]
      BY <2>1 DEF Touches
    <3> QED
      BY <3>1
  <2>2. CASE d = c /\ Puts(c)
    BY <2>2, PutsAdds
  <2> QED
    BY <2>1, <2>2
<1>2. Stored \subseteq Stored'
  <2> SUFFICES ASSUME NEW d \in Containers, NEW n \in DOMAIN put[d], put[d][n].stored
               PROVE  put[d][n] \in Stored'
    BY DEF Stored, Range
  <2>1. put[d][n] \in Range(put'[d])
    BY <1>1 DEF Range
  <2> QED
    BY <2>1 DEF Stored
<1> QED
  BY <1>2 DEF Filed, EventsIn

LEMMA Grows ==
    ASSUME NEW i \in Nat, NEW j \in Nat, NEW k \in Nat, NEW l \in Nat, k <= l
    PROVE  (i <= j + k => i <= j + l) /\ (i < j + k => i < j + l)
  OBVIOUS

LEMMA ContainerKeeps ==
    ASSUME IInv, NEW c \in Containers, ContainerStep(c)
    PROVE  IInv'
<1>1. TypeOK /\ Counted /\ Settings /\ Foreign /\ Summed /\ Apart(c) /\ Served(c)
  BY DEF IInv
<1>2. /\ Touches(c)
      /\ \/ Receives(c) \/ Starts(c) \/ Proceeds(c)
         \/ Answers(c) /\ status[c] # "unborn"
  BY <1>1, FourSorts
<1>3. TypeOK'
  BY <1>1, <1>2, ContainerKeepsTypes
<1>4. /\ UNCHANGED <<stage, next, runs, deploying, key, deployed, clean, summary, table, run>>
      /\ faults <= faults' /\ faults \in Nat /\ faults' \in Nat /\ sent \in Nat
      /\ next \in Nat /\ run \in Nat
  <2>1. UNCHANGED <<stage, campaign>> /\ faults <= faults' /\ faults' \in 0 .. MaxFaults
    BY <1>2 DEF Touches
  <2>2. UNCHANGED <<stage, next, runs, deploying, key, deployed, clean, summary, table, run>>
    BY <2>1 DEF campaign, run
  <2> QED
    BY <1>1, <2>1, <2>2, Limits, Cells
<1>5. sent' = sent \/ (stage = "load" /\ sent' = sent + 1)
  BY <1>2 DEF Receives, Answers, Starts, Proceeds
<1>6. Counted'
  <2>1. /\ run <= next + faults => run' <= next' + faults'
        /\ run < next + faults => run' < next' + faults'
    BY <1>4, Grows
  <2>2. stage \notin {"load", "fetch"} => sent' = sent
    BY <1>5
  <2>3. stage' = stage
    BY <1>4
  <2>4. /\ stage \in {"settle", "load", "fetch", "over"} => run <= next + faults
        /\ stage \in {"deploy", "down"} => run < next + faults
        /\ stage \notin {"load", "fetch"} => sent = 0
    BY <1>1 DEF Counted
  <2>5. /\ stage' \in {"settle", "load", "fetch", "over"} => run' <= next' + faults'
        /\ stage' \in {"deploy", "down"} => run' < next' + faults'
    BY <2>1, <2>3, <2>4
  <2>6. stage' \notin {"load", "fetch"} => sent' = 0
    BY <2>2, <2>3, <2>4
  <2> QED
    BY <2>5, <2>6 DEF Counted
<1>7. Settings'
  <2>1. \A d \in Up' : (d \in Up /\ deployment'[d] = deployment[d]) \/ deployment'[d] = deployed
    <3> SUFFICES ASSUME NEW d \in Containers, status'[d] = "up"
                 PROVE  (status[d] = "up" /\ deployment'[d] = deployment[d]) \/ deployment'[d] = deployed
      BY DEF Up
    <3>1. CASE d # c
      BY <1>2, <3>1 DEF Touches
    <3>2. CASE d = c
      BY <1>2, <3>2 DEF Receives, Answers, Starts, Proceeds
    <3> QED
      BY <3>1, <3>2
  <2> QED
    BY <1>1, <1>4, <2>1 DEF Settings, Founded
<1>8. /\ (Apart(c) /\ Served(c) /\ Unmixed(c))'
      /\ \/ Requests(c)' \subseteq Requests(c)
         \/ stage = "load" /\ Requests(c)' \subseteq Requests(c) \cup {<<run, sent + 1>>}
  <2>1. Receives(c) => stage = "load" /\ Requests(c)' \subseteq Requests(c) \cup {<<run, sent + 1>>}
    BY DEF Receives, Requests
  <2> QED
    BY <1>2, <2>1, ReceivesKeeps, AnswersKeeps, StartsKeeps, ProceedsKeeps
<1>9. \A d \in Containers \ {c} : /\ (Apart(d) /\ Served(d) /\ Unmixed(d))'
                                  /\ Requests(d)' = Requests(d)
  <2>1. sent' \in {sent, sent + 1}
    BY <1>5
  <2> QED
    BY <1>2, <2>1, OthersKeep
<1>10. Foreign'
  <2>1. \A d \in Containers : stage = "load" => <<run, sent + 1>> \notin Requests(d)
    <3> SUFFICES ASSUME NEW d \in Containers, stage = "load", <<run, sent + 1>> \in Requests(d)
                 PROVE  FALSE
      OBVIOUS
    <3>1. Served(d)
      BY DEF IInv
    <3> QED
      BY <1>4, <3>1 DEF Served, RunOf
  <2>2. \A d, e \in Containers : d # e => Requests(d) \cap Requests(e) = {}
    BY <1>1 DEF Foreign
  <2>3. \A d \in Containers \ {c} : Requests(c)' \cap Requests(d)' = {}
    BY <1>8, <1>9, <2>1, <2>2
  <2> QED
    BY <1>9, <2>2, <2>3 DEF Foreign
<1>11. Summed'
  <2>1. put'[c] = put[c] \/ Puts(c)
    BY <1>2 DEF Receives, Answers, Starts, Proceeds
  <2>2. \A r : Filed(r) \subseteq Filed(r)'
    BY <1>1, <1>2, <2>1, FiledStays
  <2> QED
    BY <1>1, <1>4, <2>2 DEF Summed
<1> QED
  BY <1>3, <1>6, <1>7, <1>8, <1>9, <1>10, <1>11 DEF IInv

-----------------------------------------------------------------------------
(***************************************************************************)
(* The steps of the runner keep it.                                        *)
(***************************************************************************)

LEMMA RunnerCounts ==
    ASSUME TypeOK, Counted, Settings, RunnerStep
    PROVE  Counted'
<1>1. /\ run \in Nat /\ next \in Nat /\ faults \in Nat
      /\ stage \in {"settle", "load", "fetch", "over"} => run <= next + faults
      /\ stage \in {"deploy", "down"} => run < next + faults
      /\ stage \notin {"load", "fetch"} => sent = 0
  BY Cells DEF Counted
<1>2. CASE Seed
  BY <1>1, <1>2 DEF Seed, Counted, run
<1>3. CASE Deploy
  <2>1. run' = run + 1 /\ stage' \in {"settle", "load"} /\ UNCHANGED <<sent, next, faults>>
        /\ stage = "deploy"
    BY <1>3, RunAdded DEF Deploy, StartLoad
  <2>2. run' <= next' + faults' /\ sent' = 0
    BY <1>1, <2>1
  <2> QED
    BY <2>1, <2>2 DEF Counted
<1>4. CASE Settle
  BY <1>1, <1>4 DEF Settle, StartLoad, Counted, run
<1>5. CASE EndLoad
  BY <1>1, <1>5 DEF EndLoad, Counted, campaign, run
<1>6. CASE Abort
  <2>1. run' = run /\ next' = next /\ faults' = faults + 1 /\ stage' = "down" /\ sent' = 0
        /\ stage \in {"settle", "load", "fetch"}
    BY <1>6 DEF Abort, campaign, Fault, run
  <2>2. run' < next' + faults'
    BY <1>1, <2>1
  <2> QED
    BY <2>1, <2>2 DEF Counted
<1>7. CASE Start
  BY <1>1, <1>7 DEF Start, Counted, run
<1>8. CASE Fetch
  <2>1. /\ stage = "fetch" /\ run' = run /\ sent' = 0
        /\ \/ stage' = "over" /\ next' = next
           \/ stage' \in {"deploy", "down"} /\ next' = next + 1
    BY <1>8 DEF Fetch, run
  <2>2. faults' = faults \/ faults' = faults + 1
    BY <1>8 DEF Fetch, Fault
  <2>3. stage' = "over" => run' <= next' + faults'
    BY <1>1, <2>1, <2>2
  <2>4. stage' \in {"deploy", "down"} => run' < next' + faults'
    BY <1>1, <2>1, <2>2
  <2> QED
    BY <2>1, <2>3, <2>4 DEF Counted
<1> QED
  BY <1>2, <1>3, <1>4, <1>5, <1>6, <1>7, <1>8 DEF RunnerStep

\* A run that was once made stays as it is founded.
LEMMA StaysFounded ==
    ASSUME TypeOK, TypeOK', Settings, NEW r \in 1 .. run,
           \A q \in 1 .. run : runs'[q] = runs[q],
           deployed <= deployed', table <= table'
    PROVE  Founded(r)'
<1>1. run \in Nat /\ deployed \in 0 .. run /\ table \in Nat /\ Founded(r)
  BY Limits, Cells DEF Settings
<1>2. deployed' \in Nat /\ table' \in Nat
  <2>1. run' \in Nat
    <3>1. runs' \in Seq([cell : Range(Campaign), deploy : BOOLEAN, by : 0 .. MaxRuns,
                         table : 0 .. MaxSeeds])
      BY DEF TypeOK
    <3> QED
      BY <3>1, LenProperties DEF run
  <2> QED
    BY <2>1, Plan DEF TypeOK
<1>3. /\ runs[r].by \in 0 .. deployed /\ runs[r].table \in 0 .. table
      /\ runs[r].deploy => /\ runs[r].by > 0
                          /\ KeyOf(runs[runs[r].by].cell) = KeyOf(runs[r].cell)
      /\ \A q \in 1 .. r : runs[q].by <= runs[r].by /\ runs[q].table <= runs[r].table
  BY <1>1 DEF Founded
<1>4. runs[r].by > 0 => runs'[runs[r].by] = runs[runs[r].by]
  BY <1>1, <1>3
<1>5. \A q \in 1 .. r : runs'[q] = runs[q]
  BY <1>1
<1>6. runs'[r].by \in 0 .. deployed' /\ runs'[r].table \in 0 .. table'
  BY <1>1, <1>2, <1>3
<1> QED
  BY <1>3, <1>4, <1>5, <1>6 DEF Founded

LEMMA RunnerSettings ==
    ASSUME TypeOK, Counted, Settings, RunnerStep
    PROVE  Settings'
<1>1. UNCHANGED service
  BY RunnerSteps
<1>2. Up' = Up /\ UNCHANGED <<status, deployment>>
  BY <1>1 DEF service, life, Up
<1>3. TypeOK'
  BY RunnerTypes
<1>4. /\ run \in Nat /\ table \in Nat /\ deployed \in 0 .. run /\ DOMAIN runs = 1 .. run
      /\ stage \in {"deploy", "settle", "load", "fetch", "down", "over"}
  BY Limits, Cells DEF TypeOK
<1>5. /\ key # None => deploying /\ deployed > 0 /\ key = KeyOf(runs[deployed].cell)
      /\ stage \in {"settle", "load", "fetch"} =>
            /\ run > 0 /\ runs[run].by = deployed /\ runs[run].deploy = deploying
            /\ deploying => key # None
      /\ stage = "settle" => run \notin clean
      /\ key # None /\ stage \in {"load", "fetch", "deploy"} =>
            \A c \in Up : deployment[c] = deployed
  BY DEF Settings
<1>6. ASSUME runs' = runs, deployed' = deployed, table' = table \/ table' = table + 1
      PROVE  run' = run /\ \A r \in 1 .. run' : Founded(r)'
  <2>1. run' = run /\ deployed <= deployed' /\ table <= table'
    BY <1>4, <1>6 DEF run
  <2> QED
    BY <1>3, <1>6, <2>1, StaysFounded
<1>7. CASE Seed
  <2>1. table' = table + 1 /\ UNCHANGED <<stage, runs, deploying, key, deployed, clean>>
    BY <1>7 DEF Seed
  <2> QED
    BY <1>2, <1>5, <1>6, <2>1 DEF Settings
<1>8. CASE Start
  <2>1. stage' = "deploy" /\ key' = None /\ UNCHANGED <<runs, deployed, table, clean>>
    BY <1>8 DEF Start
  <2> QED
    BY <1>6, <2>1 DEF Settings
<1>9. CASE Deploy
  <2> DEFINE new == [cell |-> Campaign[next], deploy |-> deploying, by |-> deployed',
                     table |-> table]
  <2>1. /\ run' = run + 1 /\ \A r \in 1 .. run : runs'[r] = runs[r]
        /\ runs'[run + 1] = new
        /\ \/ /\ deploying /\ key' = KeyOf(Campaign[next])
              /\ deployed' = run + 1 /\ stage' = "settle" /\ UNCHANGED clean
           \/ /\ deploying => key = KeyOf(Campaign[next])
              /\ UNCHANGED <<key, deployed>> /\ StartLoad(run + 1)
    BY <1>9, RunAdded
  <2>2. stage = "deploy" /\ table' = table /\ deploying' = deploying /\ deploying \in BOOLEAN
    BY <1>9 DEF Deploy, TypeOK
  <2>3. /\ runs'[run + 1].cell = Campaign[next] /\ runs'[run + 1].deploy = deploying
        /\ runs'[run + 1].by = deployed' /\ runs'[run + 1].table = table
    BY <2>1
  <2>4. deployed <= deployed' /\ deployed' \in 0 .. run + 1
    BY <1>4, <2>1
  <2>5. \A r \in 1 .. run : Founded(r)'
    BY <1>3, <1>4, <2>1, <2>2, <2>4, StaysFounded
  <2>6. key' # None => deploying' /\ deployed' > 0 /\ key' = KeyOf(runs'[deployed'].cell)
    <3>1. CASE deploying /\ key' = KeyOf(Campaign[next]) /\ deployed' = run + 1
      BY <1>4, <2>2, <2>3, <3>1
    <3>2. CASE UNCHANGED <<key, deployed>>
      <4>1. deployed > 0 => runs'[deployed] = runs[deployed]
        BY <1>4, <2>1
      <4> QED
        BY <1>5, <2>2, <3>2, <4>1
    <3> QED
      BY <2>1, <3>1, <3>2
  <2>7. deploying => key' # None /\ key' = KeyOf(Campaign[next])
    BY <2>1, Cells
  <2>8. ASSUME NEW r, r = run + 1 PROVE Founded(r)'
    <3>1. ASSUME NEW q \in 1 .. r PROVE runs'[q].by <= deployed' /\ runs'[q].table <= table
      <4>1. CASE q = run + 1
        BY <1>4, <2>3, <2>4, <4>1
      <4>2. CASE q \in 1 .. run
        <5>1. runs[q].by \in 0 .. deployed /\ runs[q].table \in 0 .. table
          BY <4>2 DEF Settings, Founded
        <5> QED
          BY <1>4, <2>1, <2>4, <4>2, <5>1
      <4> QED
        BY <1>4, <2>8, <4>1, <4>2
    <3>2. /\ runs'[r].by \in 0 .. deployed' /\ runs'[r].table \in 0 .. table
          /\ \A q \in 1 .. r : runs'[q].by <= runs'[r].by /\ runs'[q].table <= runs'[r].table
      BY <1>4, <2>3, <2>4, <2>8, <3>1
    <3>3. runs'[r].deploy => /\ runs'[r].by > 0
                             /\ KeyOf(runs'[runs'[r].by].cell) = KeyOf(runs'[r].cell)
      BY <2>2, <2>3, <2>6, <2>7, <2>8
    <3> QED
      BY <2>2, <3>2, <3>3 DEF Founded
  <2>9. \A r \in 1 .. run' : Founded(r)'
    <3>1. \A r \in 1 .. run' : r \in 1 .. run \/ r = run + 1
      BY <1>4, <2>1
    <3> QED
      BY <2>5, <2>8, <3>1
  <2>10. stage' = "settle" => run' \notin clean'
    <3>1. run + 1 \notin clean
      BY <1>4 DEF TypeOK
    <3> QED
      BY <2>1, <3>1 DEF StartLoad
  <2>11. run' > 0 /\ runs'[run'].by = deployed' /\ runs'[run'].deploy = deploying'
         /\ stage' \in {"settle", "load"}
    BY <1>4, <2>1, <2>2, <2>3 DEF StartLoad
  <2>12. key' # None /\ stage' = "load" => \A c \in Up : deployment[c] = deployed'
    BY <1>5, <2>1, <2>2 DEF StartLoad
  <2> QED
    BY <1>2, <2>2, <2>6, <2>7, <2>9, <2>10, <2>11, <2>12 DEF Settings
<1>10. CASE Settle
  <2>1. /\ stage = "settle" /\ stage' = "load" /\ Up = Serving
        /\ UNCHANGED <<runs, deploying, key, deployed, table>>
    BY <1>10 DEF Settle, StartLoad, Stable
  <2>2. \A c \in Up : deployment[c] = deployed
    BY <2>1 DEF Serving
  <2> QED
    BY <1>2, <1>5, <1>6, <2>1, <2>2 DEF Settings
<1>11. CASE EndLoad
  <2>1. /\ stage = "load" /\ stage' = "fetch"
        /\ UNCHANGED <<runs, deploying, key, deployed, table, clean>>
    BY <1>11 DEF EndLoad, campaign
  <2> QED
    BY <1>2, <1>5, <1>6, <2>1 DEF Settings
<1>12. CASE Abort
  <2>1. stage' = "down" /\ UNCHANGED <<runs, deploying, key, deployed, table, clean>>
    BY <1>12 DEF Abort, campaign
  <2> QED
    BY <1>5, <1>6, <2>1 DEF Settings
<1>13. CASE Fetch
  <2>1. /\ stage = "fetch" /\ stage' \in {"over", "deploy", "down"}
        /\ UNCHANGED <<runs, deploying, key, deployed, table, clean>>
    BY <1>13 DEF Fetch
  <2> QED
    BY <1>2, <1>5, <1>6, <2>1 DEF Settings
<1> QED
  BY <1>7, <1>8, <1>9, <1>10, <1>11, <1>12, <1>13 DEF RunnerStep

\* The table of a run may be written again, until there is a next one.
LEMMA TablesGrow ==
    ASSUME TypeOK, Counted, Settings, RunnerStep, NEW r \in 1 .. run
    PROVE  TableBy(r) \in Nat /\ TableBy(r)' \in Nat /\ TableBy(r) <= TableBy(r)'
<1>1. run \in Nat /\ table \in Nat /\ \A q \in 1 .. run : runs[q].table \in Nat
  BY Limits, Cells, Plan DEF Runs
<1>2. TableBy(r) \in Nat
  BY <1>1 DEF TableBy
<1>3. CASE Deploy
  <2>1. run' = run + 1 /\ \A q \in 1 .. run : runs'[q] = runs[q]
    BY <1>3, RunAdded
  <2>2. runs'[run + 1].table = table
    BY <1>3, RunAdded
  <2>3. TableBy(r)' = TableBy(r)
    <3>1. r # run'
      BY <1>1, <2>1
    <3>2. TableBy(r)' = runs'[r + 1].table
      BY <3>1 DEF TableBy
    <3>3. CASE r = run
      BY <2>2, <3>2, <3>3 DEF TableBy
    <3>4. CASE r # run
      <4>1. r + 1 \in 1 .. run
        BY <1>1, <3>4
      <4> QED
        BY <2>1, <3>2, <3>4, <4>1 DEF TableBy
    <3> QED
      BY <3>3, <3>4
  <2> QED
    BY <1>2, <2>3
<1>4. CASE Seed
  <2>1. runs' = runs /\ run' = run /\ table' = table + 1
    BY <1>4 DEF Seed, run
  <2>2. TableBy(r)' = IF r = run THEN table + 1 ELSE runs[r + 1].table
    BY <2>1 DEF TableBy
  <2> QED
    BY <1>1, <1>2, <2>2 DEF TableBy
<1>5. CASE ~Deploy /\ ~Seed
  <2>1. runs' = runs /\ table' = table /\ run' = run
    BY <1>5 DEF RunnerStep, Start, Settle, EndLoad, Abort, Fetch, campaign, run
  <2> QED
    BY <1>2, <2>1 DEF TableBy
<1> QED
  BY <1>3, <1>4, <1>5

\* What the runner does that a container notices.
LEMMA RunnerMoves ==
    ASSUME TypeOK, Counted, Settings, RunnerStep
    PROVE  /\ UNCHANGED service /\ run <= run' /\ table <= table' /\ deployed <= deployed'
           /\ \A r \in 1 .. run : runs'[r] = runs[r]
           /\ \/ run' = run /\ UNCHANGED <<stage, sent, clean>>
              \/ /\ stage' \in {"settle", "load", "fetch"} =>
                       \/ run' = run + 1 /\ stage = "deploy"
                       \/ /\ run' = run /\ UNCHANGED sent
                          /\ <<stage, stage'>> \in {<<"settle", "load">>, <<"load", "fetch">>}
                 /\ \/ clean' = clean /\ (stage' = "load" => Backlog)
                    \/ stage' = "load" /\ ~Backlog /\ clean' = clean \cup {run'}
                    \/ clean' = clean /\ stage' # "load"
                 /\ stage' = "load" => run' \notin clean
<1>1. UNCHANGED service /\ run <= run'
  BY RunnerSteps, RunnerTypes
<1>2. table \in Nat /\ run \in Nat /\ deployed \in Nat /\ deployed <= run
  BY Limits, Cells
<1>3. clean \subseteq 1 .. run
  BY DEF TypeOK
<1>4. CASE Deploy
  <2>1. /\ run' = run + 1 /\ \A r \in 1 .. run : runs'[r] = runs[r]
        /\ deployed' = run + 1 \/ deployed' = deployed
        /\ \/ stage' = "settle" /\ UNCHANGED clean
           \/ StartLoad(run + 1)
    BY <1>4, RunAdded
  <2>2. stage = "deploy" /\ table' = table
    BY <1>4 DEF Deploy
  <2>3. run + 1 \notin clean /\ deployed <= deployed'
    BY <1>2, <1>3, <2>1
  <2> QED
    BY <1>1, <1>2, <2>1, <2>2, <2>3 DEF StartLoad
<1>5. CASE Settle
  <2>1. /\ stage = "settle" /\ StartLoad(run) /\ UNCHANGED <<sent, runs, table, deployed>>
        /\ run' = run
    BY <1>5 DEF Settle, run
  <2>2. run \notin clean
    BY <2>1 DEF Settings
  <2> QED
    BY <1>1, <1>2, <2>1, <2>2 DEF StartLoad
<1>6. CASE Seed
  BY <1>1, <1>2, <1>6 DEF Seed, run
<1>7. CASE EndLoad
  BY <1>1, <1>2, <1>7 DEF EndLoad, campaign, run
<1>8. CASE Abort
  BY <1>1, <1>2, <1>8 DEF Abort, campaign, run
<1>9. CASE Start
  BY <1>1, <1>2, <1>9 DEF Start, run
<1>10. CASE Fetch
  BY <1>1, <1>2, <1>10 DEF Fetch, run
<1> QED
  BY <1>4, <1>5, <1>6, <1>7, <1>8, <1>9, <1>10 DEF RunnerStep

LEMMA RunnerKeepsContainer ==
    ASSUME IInv, RunnerStep, NEW c \in Containers
    PROVE  (Apart(c) /\ Served(c) /\ Unmixed(c))' /\ Requests(c)' = Requests(c)
<1>1. TypeOK /\ Counted /\ Settings /\ Apart(c) /\ Served(c) /\ Unmixed(c) /\ Typed(c)
  BY Container DEF IInv
<1>2. /\ UNCHANGED service /\ run <= run' /\ table <= table' /\ deployed <= deployed'
      /\ \A r \in 1 .. run : runs'[r] = runs[r]
  BY <1>1, RunnerMoves
<1>3. \/ run' = run /\ UNCHANGED <<stage, sent, clean>>
      \/ /\ stage' \in {"settle", "load", "fetch"} =>
               \/ run' = run + 1 /\ stage = "deploy"
               \/ /\ run' = run /\ UNCHANGED sent
                  /\ <<stage, stage'>> \in {<<"settle", "load">>, <<"load", "fetch">>}
         /\ \/ clean' = clean /\ (stage' = "load" => Backlog)
            \/ stage' = "load" /\ ~Backlog /\ clean' = clean \cup {run'}
            \/ clean' = clean /\ stage' # "load"
         /\ stage' = "load" => run' \notin clean
  BY <1>1, RunnerMoves
<1>4. \A r \in 1 .. run : TableBy(r) \in Nat /\ TableBy(r)' \in Nat /\ TableBy(r) <= TableBy(r)'
  BY <1>1, TablesGrow
<1>5. UNCHANGED <<status, deployment, record, handling, wrote, queue, buf, put>>
  BY <1>2 DEF service, life, writer
<1>6. Requests(c)' = Requests(c) /\ Held(c)' = Held(c) /\ Pending(c)' = Pending(c)
  BY <1>5 DEF Requests, Held, Pending
<1>7. /\ run \in Nat /\ run' \in Nat /\ table \in Nat /\ table' \in Nat
      /\ deployed \in Nat /\ deployed' \in Nat
  <2>1. TypeOK'
    BY <1>1, RunnerTypes
  <2>2. /\ table' \in 0 .. MaxSeeds /\ deployed' \in 0 .. run'
        /\ runs' \in Seq([cell : Range(Campaign), deploy : BOOLEAN, by : 0 .. MaxRuns,
                          table : 0 .. MaxSeeds])
    BY <2>1 DEF TypeOK
  <2>3. run' \in Nat
    BY <2>2, LenProperties DEF run
  <2> QED
    BY <1>1, <2>2, <2>3, Limits, Cells
<1>8. \A e \in Requests(c) : e \in Events /\ RunOf(e) \in 1 .. run /\ e[2] \in Nat \ {0}
  <2> SUFFICES ASSUME NEW e \in Requests(c)
               PROVE  e \in Events /\ RunOf(e) \in 1 .. run /\ e[2] \in Nat \ {0}
    OBVIOUS
  <2>1. e \in Events
    BY <1>1, RangeOfSeq DEF Requests, Typed
  <2>2. RunOf(e) \in Nat \ {0} /\ e[2] \in Nat \ {0}
    BY <2>1, Plan DEF Events, RunOf
  <2>3. RunOf(e) <= run
    BY <1>1 DEF Served
  <2> QED
    BY <1>7, <2>1, <2>2, <2>3
<1>9. Apart(c)'
  BY <1>1, <1>5, <1>6 DEF Apart, Batch
<1>10. Served(c)'
  <2>1. ASSUME NEW e \in Requests(c)
        PROVE  /\ RunOf(e) <= run' /\ deployment[c] <= runs'[RunOf(e)].by
               /\ runs'[RunOf(e)].deploy => runs'[RunOf(e)].by = deployment[c]
               /\ RunOf(e) = run' /\ stage' \in {"settle", "load", "fetch"} => e[2] <= sent'
               /\ record[c] # None /\ record[c] <= TableBy(RunOf(e))'
    <3>1. /\ deployment[c] <= runs[RunOf(e)].by
          /\ runs[RunOf(e)].deploy => runs[RunOf(e)].by = deployment[c]
          /\ RunOf(e) = run /\ stage \in {"settle", "load", "fetch"} => e[2] <= sent
          /\ record[c] # None /\ record[c] <= TableBy(RunOf(e))
      BY <1>1 DEF Served
    <3>2. runs'[RunOf(e)] = runs[RunOf(e)] /\ RunOf(e) <= run'
      BY <1>2, <1>7, <1>8
    <3>3. RunOf(e) = run' /\ stage' \in {"settle", "load", "fetch"} => e[2] <= sent'
      BY <1>3, <1>7, <1>8, <3>1
    <3>4. record[c] <= TableBy(RunOf(e))'
      <4>1. record[c] \in Nat
        BY <1>1, <3>1, Limits DEF Typed
      <4>2. /\ TableBy(RunOf(e)) \in Nat /\ TableBy(RunOf(e))' \in Nat
            /\ TableBy(RunOf(e)) <= TableBy(RunOf(e))'
        BY <1>4, <1>8, RunOf(e)' = RunOf(e) DEF RunOf
      <4> QED
        BY <3>1, <4>1, <4>2
    <3> QED
      BY <3>1, <3>2, <3>3, <3>4
  <2>2. deployment[c] \in 0 .. run /\ deployment[c] <= deployed'
    BY <1>1, <1>2, <1>7 DEF Served, Typed
  <2>3. record[c] # None => record[c] <= table' /\ TableAt(deployment[c])' <= record[c]
    <3> HAVE record[c] # None
    <3>1. /\ record[c] \in Nat /\ record[c] <= table /\ TableAt(deployment[c]) <= record[c]
      BY <1>1, <1>7, Limits DEF Served, Typed
    <3>2. TableAt(deployment[c])' = TableAt(deployment[c])
      BY <1>2, <1>5, <2>2 DEF TableAt
    <3> QED
      BY <1>2, <1>7, <3>1, <3>2
  <2> QED
    BY <1>5, <1>6, <2>1, <2>2, <2>3 DEF Served
<1>11. Unmixed(c)'
  <2>1. \A r \in clean :
          (\E e \in Requests(c) : RunOf(e) = r) =>
              /\ \A e \in Pending(c) : RunOf(e) >= r
              /\ \A n \in DOMAIN put[c] :
                    put[c][n].run = r => \A e \in Batch(c, n) : RunOf(e) >= r
    BY <1>1 DEF Unmixed
  <2>2. CASE run' = run /\ UNCHANGED <<stage, sent, clean>>
    BY <1>1, <1>5, <1>6, <2>2 DEF Unmixed, Batch
  <2>3. CASE ~(run' = run /\ UNCHANGED <<stage, sent, clean>>)
    <3>1. ASSUME stage' = "load", NEW e \in Requests(c) PROVE RunOf(e) # run'
      <4>1. CASE run' = run + 1
        BY <1>7, <1>8, <4>1
      <4>2. CASE run' = run /\ stage = "settle"
        <5>1. sent = 0
          BY <1>1, <4>2 DEF Counted
        <5> QED
          BY <1>1, <1>8, <4>2, <5>1 DEF Served
      <4> QED
        BY <1>3, <2>3, <3>1, <4>1, <4>2
    <3>2. stage' = "load" /\ run' \in clean' /\ status[c] = "up" => Pending(c) = {}
      <4> HAVE stage' = "load" /\ run' \in clean' /\ status[c] = "up"
      <4>1. ~Backlog
        BY <1>3, <2>3
      <4>2. handling[c] = {} /\ queue[c] = <<>> /\ buf[c] = <<>>
        BY <4>1 DEF Backlog, Up
      <4> QED
        BY <4>2, RangeEmpty DEF Pending, Held, Items
    <3>3. \A r \in clean' : r \in clean \/ (stage' = "load" /\ r = run')
      BY <1>3, <2>3
    <3>4. \A r \in clean' :
            (\E e \in Requests(c) : RunOf(e) = r) =>
                /\ \A e \in Pending(c) : RunOf(e) >= r
                /\ \A n \in DOMAIN put[c] :
                      put[c][n].run = r => \A e \in Batch(c, n) : RunOf(e) >= r
      BY <2>1, <3>1, <3>3
    <3> QED
      BY <1>5, <1>6, <3>2, <3>4 DEF Unmixed, Batch
  <2> QED
    BY <2>2, <2>3
<1> QED
  BY <1>6, <1>9, <1>10, <1>11

\* What is filed under a run are events of one of the batches.
LEMMA FiledIn ==
    ASSUME NEW r, NEW e \in Filed(r)
    PROVE  \E c \in Containers : \E n \in DOMAIN put[c] :
              put[c][n].run = r /\ e \in Batch(c, n)
  BY DEF Filed, EventsIn, Stored, Range, Batch

LEMMA RunnerKeeps ==
    ASSUME IInv, RunnerStep
    PROVE  IInv'
<1>1. TypeOK /\ Counted /\ Settings /\ Foreign /\ Summed
  BY DEF IInv
<1>2. TypeOK' /\ Counted' /\ Settings' /\ UNCHANGED service
  BY <1>1, RunnerTypes, RunnerCounts, RunnerSettings, RunnerSteps
<1>3. \A c \in Containers : (Apart(c) /\ Served(c) /\ Unmixed(c))' /\ Requests(c)' = Requests(c)
  BY RunnerKeepsContainer
<1>4. Foreign'
  BY <1>1, <1>3 DEF Foreign
<1>5. \A r : Filed(r)' = Filed(r)
  BY <1>2 DEF Filed, EventsIn, Stored, service, writer
<1>6. Summed'
  <2>1. CASE summary' = summary
    BY <1>1, <1>5, <2>1 DEF Summed
  <2>2. CASE Fetch
    <3>1. PICK got \in SUBSET Filed(run) :
             summary' = [r \in DOMAIN summary \cup {run} |-> IF r = run THEN got ELSE summary[r]]
      BY <2>2 DEF Fetch
    <3>2. \A e \in Filed(run) : RunOf(e) <= run
      <4> SUFFICES ASSUME NEW e \in Filed(run) PROVE RunOf(e) <= run
        OBVIOUS
      <4>1. PICK c \in Containers : \E n \in DOMAIN put[c] : e \in Batch(c, n)
        BY FiledIn
      <4>2. Apart(c) /\ Served(c)
        BY DEF IInv
      <4>3. e \in Requests(c)
        BY <1>1, <4>1, <4>2, BatchEvents DEF Requests
      <4> QED
        BY <4>2, <4>3 DEF Served
    <3>3. ASSUME NEW r \in DOMAIN summary', NEW e \in summary'[r]
          PROVE  e \in Filed(r) /\ RunOf(e) <= r
      <4>1. CASE r = run
        BY <3>1, <3>2, <3>3, <4>1
      <4>2. CASE r # run
        <5>1. r \in DOMAIN summary /\ e \in summary[r]
          BY <3>1, <3>3, <4>2
        <5> QED
          BY <1>1, <5>1 DEF Summed
      <4> QED
        BY <4>1, <4>2
    <3> QED
      BY <1>5, <3>3 DEF Summed
  <2> QED
    BY <2>1, <2>2 DEF RunnerStep, Start, Seed, Deploy, Settle, EndLoad, Abort, campaign
<1> QED
  BY <1>2, <1>3, <1>4, <1>6 DEF IInv

-----------------------------------------------------------------------------
(***************************************************************************)
(* The theorems.                                                           *)
(***************************************************************************)

LEMMA InitInv == Init => IInv
<1> SUFFICES ASSUME Init PROVE IInv
  OBVIOUS
<1>1. TypeOK
  BY InitTypes
<1>2. /\ stage = "down" /\ next = 1 /\ runs = <<>> /\ key = None /\ sent = 0 /\ clean = {}
      /\ summary = <<>> /\ faults = 0 /\ run = 0
  BY DEF Init, run
<1>3. DOMAIN runs = {} /\ DOMAIN summary = {}
  BY <1>2
<1>4. Counted /\ Settings /\ Summed
  BY <1>2, <1>3 DEF Counted, Settings, Summed
<1>5. ASSUME NEW c \in Containers
      PROVE  Requests(c) = {} /\ Apart(c) /\ Served(c) /\ Unmixed(c)
  <2>1. /\ status[c] = "unborn" /\ record[c] = None /\ handling[c] = {}
        /\ wrote[c] = <<>> /\ queue[c] = <<>> /\ buf[c] = <<>> /\ put[c] = <<>>
    BY DEF Init
  <2>2. Requests(c) = {} /\ Held(c) = {} /\ Items(queue[c]) = {}
    BY <2>1, RangeEmpty DEF Requests, Held, Items
  <2>3. Apart(c)
    BY <2>1, <2>2, RangeEmpty DEF Apart, Distinct
  <2>4. Served(c) /\ Unmixed(c)
    <3>1. deployment[c] = 0 /\ deployed = 0
      BY DEF Init
    <3> QED
      BY <1>2, <2>1, <2>2, <3>1 DEF Served, Unmixed
  <2> QED
    BY <2>2, <2>3, <2>4
<1>6. Foreign
  BY <1>5 DEF Foreign
<1> QED
  BY <1>1, <1>4, <1>5, <1>6 DEF IInv

LEMMA NextInv == IInv /\ [Next]_vars => IInv'
<1> SUFFICES ASSUME IInv, [Next]_vars PROVE IInv'
  OBVIOUS
<1>1. CASE RunnerStep
  BY <1>1, RunnerKeeps
<1>2. CASE \E c \in Containers : ContainerStep(c)
  BY <1>2, ContainerKeeps
<1>3. CASE UNCHANGED vars
  <2>1. /\ UNCHANGED <<stage, sent, next, runs, deploying, key, deployed, clean, summary, table,
                     faults>>
        /\ UNCHANGED <<status, deployment, record, handling, wrote, queue, buf, put>>
    BY <1>3 DEF vars, runner, campaign, service, life, writer
  <2>2. run' = run /\ Up' = Up /\ \A r : Filed(r)' = Filed(r)
    BY <2>1 DEF run, Up, Filed, EventsIn, Stored
  <2>3. TypeOK'
    BY <2>1, <2>2 DEF IInv, TypeOK
  <2>4. Counted' /\ Settings' /\ Summed'
    BY <2>1, <2>2 DEF IInv, Counted, Settings, Founded, Summed
  <2>5. \A c : Requests(c)' = Requests(c) /\ Held(c)' = Held(c) /\ Pending(c)' = Pending(c)
    BY <2>1 DEF Requests, Held, Pending
  <2>6. Foreign'
    BY <2>5 DEF IInv, Foreign
  <2>7. ASSUME NEW c \in Containers PROVE (Apart(c) /\ Served(c) /\ Unmixed(c))'
    <3>1. Apart(c) /\ Served(c) /\ Unmixed(c)
      BY DEF IInv
    <3>2. Apart(c)'
      BY <2>1, <2>5, <3>1 DEF Apart, Batch
    <3>3. Served(c)'
      BY <2>1, <2>2, <2>5, <3>1 DEF Served, TableBy, TableAt
    <3>4. Unmixed(c)'
      BY <2>1, <2>2, <2>5, <3>1 DEF Unmixed, Batch
    <3> QED
      BY <3>2, <3>3, <3>4
  <2> QED
    BY <2>3, <2>4, <2>6, <2>7 DEF IInv
<1> QED
  BY <1>1, <1>2, <1>3 DEF Next, RunnerStep, ContainerStep

LEMMA AlwaysInv == Spec => []IInv
  BY InitInv, NextInv, PTL DEF Spec

\* A request is one of a run there is.
LEMMA ServedRuns ==
    ASSUME TypeOK, NEW c \in Containers, Served(c), NEW e \in Requests(c)
    PROVE  e \in Events /\ RunOf(e) \in 1 .. run
<1>1. Typed(c)
  BY Container
<1>2. e \in Events
  BY <1>1, RangeOfSeq DEF Requests, Typed
<1>3. RunOf(e) <= run
  BY DEF Served
<1> QED
  BY <1>2, <1>3, StopNoEvent, Plan, Limits

\* What the variables hold, in every campaign: among others, that a runner that
\* fails and is started again makes no more runs than it has cells and failures.
THEOREM CampaignTypes == Spec => []TypeOK
<1>1. IInv => TypeOK
  BY DEF IInv
<1> QED
  BY <1>1, AlwaysInv, PTL

\* A request of a run whose runner deploys is decided under the policy and the
\* budget the run is named for, through any number of replaced containers,
\* aborted runs, runners with and without --deploy, and deployments left out
\* because the last one will do.
THEOREM SettingsRight == Spec => []RightSettings
<1>1. ASSUME IInv PROVE RightSettings
  <2> SUFFICES ASSUME NEW c \in Containers, NEW e \in Requests(c), runs[RunOf(e)].deploy
               PROVE  /\ deployment[c] # 0
                      /\ KeyOf(runs[deployment[c]].cell) = KeyOf(runs[RunOf(e)].cell)
    BY DEF RightSettings, KeyOf
  <2>1. TypeOK /\ Settings /\ Served(c)
    BY <1>1 DEF IInv
  <2>2. RunOf(e) \in 1 .. run
    BY <2>1, ServedRuns
  <2>3. Founded(RunOf(e)) /\ runs[RunOf(e)].by = deployment[c]
    BY <2>1, <2>2 DEF Settings, Served
  <2>4. /\ runs[RunOf(e)].by > 0
        /\ KeyOf(runs[runs[RunOf(e)].by].cell) = KeyOf(runs[RunOf(e)].cell)
    BY <2>3 DEF Founded
  <2> QED
    BY <2>3, <2>4
<1> QED
  BY <1>1, AlwaysInv, PTL

\* However often the table is written, and whenever: a request is decided on a
\* table between that of the deployment its container was started for and that of
\* the end of its run.
THEOREM RecordFresh == Spec => []FreshRecord
<1>1. ASSUME IInv PROVE FreshRecord
  <2> SUFFICES ASSUME NEW c \in Containers, NEW e \in Requests(c)
               PROVE  record[c] \in TableAt(deployment[c]) .. TableBy(RunOf(e))
    BY DEF FreshRecord
  <2>1. TypeOK /\ Settings /\ Served(c) /\ Typed(c)
    BY <1>1, Container DEF IInv
  <2>2. /\ record[c] # None /\ record[c] <= TableBy(RunOf(e))
        /\ TableAt(deployment[c]) <= record[c]
    BY <2>1 DEF Served
  <2>3. record[c] \in Nat
    BY <2>1, <2>2, Limits DEF Typed
  <2>4. RunOf(e) \in 1 .. run /\ deployment[c] \in 0 .. run
    BY <2>1, ServedRuns DEF Typed
  <2>5. TableAt(deployment[c]) \in Nat /\ TableBy(RunOf(e)) \in Nat
    <3>1. run \in Nat /\ table \in Nat /\ \A r \in 1 .. run : runs[r].table \in Nat
      BY <2>1, Limits, Cells, Plan DEF Runs
    <3> QED
      BY <2>4, <3>1 DEF TableAt, TableBy
  <2> QED
    BY <2>2, <2>3, <2>5
<1> QED
  BY <1>1, AlwaysInv, PTL

\* An event is summed up in one run at most; one of an earlier run only where the
\* load met containers still at work on that run, and then, if the runner deploys,
\* of one deployment for both runs.
THEOREM OnceCounted == Spec => []CountedOnce
<1>1. ASSUME IInv PROVE CountedOnce
  <2>1. TypeOK /\ Foreign /\ Summed /\ \A c \in Containers : Apart(c) /\ Served(c) /\ Unmixed(c)
    BY <1>1 DEF IInv
  <2>2. ASSUME NEW c \in Containers, NEW n \in DOMAIN put[c], NEW e \in Batch(c, n)
        PROVE  e \in Requests(c)
    BY <2>1, <2>2, BatchEvents DEF Requests
  <2>3. ASSUME NEW q \in DOMAIN summary, NEW r \in DOMAIN summary, q # r,
               NEW e \in summary[q], e \in summary[r]
        PROVE  FALSE
    <3>1. e \in Filed(q) /\ e \in Filed(r)
      BY <2>1, <2>3 DEF Summed
    <3>2. PICK c \in Containers : \E n \in DOMAIN put[c] : put[c][n].run = q /\ e \in Batch(c, n)
      BY <3>1, FiledIn
    <3>3. PICK d \in Containers : \E n \in DOMAIN put[d] : put[d][n].run = r /\ e \in Batch(d, n)
      BY <3>1, FiledIn
    <3>4. c = d
      BY <2>1, <2>2, <3>2, <3>3 DEF Foreign
    <3>5. PICK n, m \in DOMAIN put[c] : /\ put[c][n].run = q /\ put[c][m].run = r
                                        /\ e \in Batch(c, n) /\ e \in Batch(c, m)
      BY <3>2, <3>3, <3>4
    <3>6. n # m
      BY <2>3, <3>5
    <3> QED
      BY <2>1, <3>5, <3>6 DEF Apart
  <2>4. ASSUME NEW r \in DOMAIN summary, NEW e \in summary[r], RunOf(e) # r
        PROVE  /\ r \notin clean
               /\ runs[r].deploy => runs[RunOf(e)].by = runs[r].by
    <3>1. e \in Filed(r) /\ RunOf(e) <= r
      BY <2>1, <2>4 DEF Summed
    <3>2. PICK c \in Containers : \E n \in DOMAIN put[c] : put[c][n].run = r /\ e \in Batch(c, n)
      BY <3>1, FiledIn
    <3>3. PICK n \in DOMAIN put[c] : put[c][n].run = r /\ e \in Batch(c, n)
      BY <3>2
    <3> DEFINE h == Head(put[c][n].events)
    <3>4. h \in Batch(c, n) /\ RunOf(h) = r
      BY <2>1, <3>3, BatchEvents
    <3>5. h \in Requests(c) /\ e \in Requests(c)
      BY <2>2, <3>3, <3>4
    <3>6. runs[r].deploy => runs[RunOf(e)].by = runs[r].by
      <4> HAVE runs[r].deploy
      <4>1. runs[r].by = deployment[c] /\ deployment[c] <= runs[RunOf(e)].by
        BY <2>1, <3>4, <3>5 DEF Served
      <4>2. RunOf(e) \in 1 .. run /\ r \in 1 .. run /\ run \in Nat
        BY <2>1, <3>4, <3>5, ServedRuns, Limits
      <4>3. RunOf(e) \in 1 .. r
        BY <3>1, <4>2
      <4>4. Founded(r)
        BY <1>1, <4>2 DEF IInv, Settings
      <4>5. runs[RunOf(e)].by <= runs[r].by
        BY <4>3, <4>4 DEF Founded
      <4>6. runs[RunOf(e)].by \in Nat /\ runs[r].by \in Nat
        BY <2>1, <4>2, Cells, Plan DEF Runs
      <4> QED
        BY <4>1, <4>5, <4>6
    <3>7. ASSUME r \in clean PROVE FALSE
      <4>1. RunOf(e) >= r
        BY <2>1, <3>3, <3>4, <3>5, <3>7 DEF Unmixed
      <4>2. RunOf(e) \in Nat /\ r \in Nat
        <5>1. Typed(c) /\ r \in 1 .. run /\ run \in Nat
          BY <2>1, <2>4, Container, Limits DEF TypeOK
        <5>2. e \in Events
          BY <3>5, <5>1, RangeOfSeq DEF Requests, Typed
        <5> QED
          BY <5>1, <5>2, StopNoEvent, Plan
      <4> QED
        BY <2>4, <3>1, <4>1, <4>2
    <3> QED
      BY <3>6, <3>7
  <2> QED
    BY <2>3, <2>4 DEF CountedOnce
<1> QED
  BY <1>1, AlwaysInv, PTL

-----------------------------------------------------------------------------
(***************************************************************************)
(* The order of the events.  FlattenSeq is defined by recursion: there is  *)
(* a function with its equations, and what it makes of a sequence does not *)
(* depend on what comes behind, or there would be a least index for which  *)
(* it does.                                                                *)
(***************************************************************************)

\* f is the recursion of FlattenSeq, up to n.
Flattens(f, ss, n) ==
    f = [i \in 1 .. n |-> IF i = 1 THEN ss[i] ELSE f[i - 1] \o ss[i]]

LEMMA FlattensAgree ==
    ASSUME NEW f, NEW g, NEW ss, NEW tt, NEW n \in Nat, NEW m \in Nat,
           n <= m, Flattens(f, ss, n), Flattens(g, tt, m),
           \A i \in 1 .. n : ss[i] = tt[i]
    PROVE  \A i \in 1 .. n : f[i] = g[i]
<1> DEFINE Bad == {i \in 1 .. n : f[i] # g[i]}
<1> SUFFICES ASSUME Bad # {} PROVE FALSE
  OBVIOUS
<1>1. PICK i \in Bad : \A j \in Bad : i <= j
  <2>1. Bad \in SUBSET (1 .. n)
    OBVIOUS
  <2> HIDE DEF Bad
  <2> QED
    BY <2>1, Least
<1>2. i \in 1 .. n /\ i \in 1 .. m /\ f[i] # g[i]
  BY <1>1
<1>3. i # 1 => i - 1 \in 1 .. n /\ i - 1 \notin Bad
  BY <1>1, <1>2
<1>4. /\ f[i] = IF i = 1 THEN ss[i] ELSE f[i - 1] \o ss[i]
      /\ g[i] = IF i = 1 THEN tt[i] ELSE g[i - 1] \o tt[i]
  BY <1>2 DEF Flattens
<1> QED
  BY <1>2, <1>3, <1>4

LEMMA FlattensExist ==
    ASSUME NEW ss, NEW n \in Nat
    PROVE  \E f : Flattens(f, ss, n)
<1> DEFINE Bad == {k \in 1 .. n + 1 : ~\E f : Flattens(f, ss, k - 1)}
<1> SUFFICES ASSUME Bad # {} PROVE FALSE
  BY n + 1 \in 1 .. n + 1 /\ n + 1 - 1 = n
<1>1. PICK k \in Bad : \A j \in Bad : k <= j
  <2>1. Bad \in SUBSET (1 .. n + 1) /\ n + 1 \in Nat
    OBVIOUS
  <2> HIDE DEF Bad
  <2> QED
    BY <2>1, Least
<1>2. k \in 1 .. n + 1 /\ ~\E f : Flattens(f, ss, k - 1)
  BY <1>1
<1>3. k # 1
  <2>1. ASSUME k = 1 PROVE Flattens(<<>>, ss, k - 1)
    BY <2>1 DEF Flattens
  <2> QED
    BY <1>2, <2>1
<1>4. k - 1 \in 1 .. n + 1 /\ k - 1 \notin Bad
  BY <1>1, <1>2, <1>3
<1>5. PICK g : Flattens(g, ss, k - 1 - 1)
  BY <1>4
<1> DEFINE l == k - 1
           f == [i \in 1 .. l |-> IF i < l THEN g[i] ELSE IF i = 1 THEN ss[i] ELSE g[i - 1] \o ss[i]]
<1>6. l \in Nat /\ l >= 1 /\ Flattens(g, ss, l - 1)
  BY <1>2, <1>3, <1>5
<1>7. Flattens(f, ss, l)
  <2> HIDE DEF l
  <2>1. \A i \in 1 .. l : f[i] = IF i = 1 THEN ss[i] ELSE f[i - 1] \o ss[i]
    <3> SUFFICES ASSUME NEW i \in 1 .. l
                 PROVE  f[i] = IF i = 1 THEN ss[i] ELSE f[i - 1] \o ss[i]
      OBVIOUS
    <3>1. i # 1 => i - 1 \in 1 .. l /\ i - 1 < l /\ f[i - 1] = g[i - 1]
      BY <1>6
    <3>2. CASE i < l
      <4>1. i \in 1 .. l - 1
        BY <1>6, <3>2
      <4>2. g[i] = IF i = 1 THEN ss[i] ELSE g[i - 1] \o ss[i]
        BY <1>6, <4>1 DEF Flattens
      <4> QED
        BY <3>1, <3>2, <4>2
    <3>3. CASE ~(i < l)
      BY <3>1, <3>3
    <3> QED
      BY <3>2, <3>3
  <2>2. f = [i \in 1 .. l |-> f[i]]
    OBVIOUS
  <2> HIDE DEF f
  <2> QED
    BY <2>1, <2>2 DEF Flattens
<1> QED
  BY <1>2, <1>7

LEMMA FlattenIs ==
    ASSUME NEW S, NEW ss \in Seq(Seq(S)), ss # <<>>
    PROVE  \E f : Flattens(f, ss, Len(ss)) /\ FlattenSeq(ss) = f[Len(ss)]
<1> DEFINE f == CHOOSE g : Flattens(g, ss, Len(ss))
<1>1. Len(ss) \in Nat /\ Len(ss) # 0
  BY LenProperties, EmptySeq
<1>2. Flattens(f, ss, Len(ss))
  BY <1>1, FlattensExist
<1>3. FlattenSeq(ss) = f[Len(ss)]
  BY <1>1 DEF FlattenSeq, Flattens
<1> QED
  BY <1>2, <1>3

LEMMA FlattenAppend ==
    ASSUME NEW S, NEW ss \in Seq(Seq(S)), NEW s \in Seq(S)
    PROVE  FlattenSeq(Append(ss, s)) = FlattenSeq(ss) \o s
<1> DEFINE tt == Append(ss, s)
           n == Len(ss)
           p == Len(tt)
<1>1. /\ tt \in Seq(Seq(S)) /\ tt # <<>> /\ p = n + 1 /\ n \in Nat /\ p \in Nat
      /\ \A i \in 1 .. n : tt[i] = ss[i]
      /\ tt[p] = s /\ p \in 1 .. p /\ n <= n /\ n <= p /\ p - 1 = n
  BY AppendProperties, LenProperties
<1> HIDE DEF tt
<1>2. PICK g : Flattens(g, tt, p) /\ FlattenSeq(tt) = g[p]
  BY <1>1, FlattenIs
<1> HIDE DEF p
<1>3. g[p] = IF p = 1 THEN s ELSE g[n] \o s
  <2>1. g[p] = IF p = 1 THEN tt[p] ELSE g[p - 1] \o tt[p]
    BY <1>1, <1>2 DEF Flattens
  <2> QED
    BY <1>1, <2>1
<1>4. CASE ss = <<>>
  <2>1. n = 0 /\ FlattenSeq(ss) = <<>> /\ <<>> \o s = s
    BY <1>4, ConcatEmptySeq DEF FlattenSeq
  <2> QED
    BY <1>1, <1>2, <1>3, <2>1 DEF tt
<1>5. CASE ss # <<>>
  <2>1. PICK f : Flattens(f, ss, n) /\ FlattenSeq(ss) = f[n]
    BY <1>5, FlattenIs
  <2>2. n # 0 /\ n \in 1 .. n /\ p # 1
    BY <1>1, <1>5, EmptySeq
  <2>3. f[n] = g[n]
    <3> HIDE DEF n
    <3>1. \A i \in 1 .. n : f[i] = g[i]
      <4>1. /\ n \in Nat /\ p \in Nat /\ n <= p
            /\ Flattens(f, ss, n) /\ Flattens(g, tt, p)
            /\ \A i \in 1 .. n : ss[i] = tt[i]
        BY <1>1, <1>2, <2>1
      <4> QED
        BY <4>1, FlattensAgree
    <3> QED
      BY <2>2, <3>1
  <2> QED
    BY <1>2, <1>3, <2>1, <2>2, <2>3 DEF tt
<1> QED
  BY <1>4, <1>5

LEMMA FlattenType ==
    ASSUME NEW S, NEW ss \in Seq(Seq(S))
    PROVE  FlattenSeq(ss) \in Seq(S)
<1>1. CASE ss = <<>>
  BY <1>1 DEF FlattenSeq
<1>2. CASE ss # <<>>
  <2>1. PICK f : Flattens(f, ss, Len(ss)) /\ FlattenSeq(ss) = f[Len(ss)]
    BY <1>2, FlattenIs
  <2> DEFINE Bad == {i \in 1 .. Len(ss) : f[i] \notin Seq(S)}
  <2>2. Len(ss) \in Nat /\ Len(ss) \in 1 .. Len(ss) /\ \A i \in 1 .. Len(ss) : ss[i] \in Seq(S)
    BY <1>2, LenProperties, EmptySeq
  <2>3. ASSUME Bad # {} PROVE FALSE
    <3>1. PICK i \in Bad : \A j \in Bad : i <= j
      <4>1. Bad \in SUBSET (1 .. Len(ss))
        OBVIOUS
      <4> HIDE DEF Bad
      <4> QED
        BY <2>2, <2>3, <4>1, Least
    <3>2. i # 1 => f[i - 1] \in Seq(S)
      BY <2>2, <3>1
    <3>3. f[i] = IF i = 1 THEN ss[i] ELSE f[i - 1] \o ss[i]
      BY <2>1, <3>1 DEF Flattens
    <3>4. i # 1 => f[i - 1] \o ss[i] \in Seq(S)
      BY <2>2, <3>1, <3>2, ConcatProperties
    <3> QED
      BY <2>2, <3>1, <3>3, <3>4
  <2> QED
    BY <2>1, <2>2, <2>3
<1> QED
  BY <1>1, <1>2

\* What a writer has put, has in its buffer and has queued, where None is the
\* last of all; and with it there is no request in hand any more.
Ordered(c) ==
    /\ Queued(c) \in Seq(Events)
    /\ queue[c] = IF status[c] = "flushing" THEN Append(Queued(c), Stop) ELSE Queued(c)
    /\ status[c] = "flushing" => handling[c] = {}
    /\ IF status[c] = "gone" THEN IsPrefix(PutEvents(c), wrote[c])
       ELSE PutEvents(c) \o buf[c] \o Queued(c) = wrote[c]

LEMMA QueuedIs ==
    ASSUME NEW q \in Seq(Events \cup {Stop}), NEW s \in Seq(Events), q = s \/ q = Append(s, Stop)
    PROVE  (IF Stop \in Range(q) THEN Front(q) ELSE q) = s
<1>1. s \in Seq(Events \cup {Stop}) /\ Stop \notin Range(s)
  BY StopNoEvent, RangeOfSeq, SeqMonotonic
<1>2. CASE q = s
  BY <1>1, <1>2
<1>3. CASE q = Append(s, Stop)
  <2>1. Stop \in Range(q) /\ Len(q) - 1 = Len(s) /\ Len(s) \in Nat
    BY <1>1, <1>3, RangeAppend, AppendProperties, LenProperties
  <2>2. /\ SubSeq(q, 1, Len(s)) \in Seq(Events) /\ Len(SubSeq(q, 1, Len(s))) = Len(s)
        /\ \A i \in 1 .. Len(s) : SubSeq(q, 1, Len(s))[i] = s[i]
    <3>1. \A i \in 1 .. Len(s) : q[i] = s[i] /\ q[i] \in Events
      BY <1>1, <1>3, AppendProperties, LenProperties
    <3> QED
      BY <2>1, <3>1, SubSeqProperties
  <2>3. SubSeq(q, 1, Len(s)) = s
    BY <2>2, SeqEqual
  <2> QED
    BY <2>1, <2>3 DEF Front
<1> QED
  BY <1>2, <1>3

LEMMA PutsMore ==
    ASSUME TypeOK, NEW c \in Containers
    PROVE  /\ PutEvents(c) \in Seq(Events)
           /\ put'[c] = put[c] => PutEvents(c)' = PutEvents(c)
           /\ \A b \in Batches :
                 put'[c] = Append(put[c], b) => PutEvents(c)' = PutEvents(c) \o b.events
<1> DEFINE ss == [n \in DOMAIN put[c] |-> put[c][n].events]
<1>1. put[c] \in Seq(Batches)
  BY Container DEF Typed
<1>2. \A n \in DOMAIN put[c] : put[c][n].events \in Seq(Events)
  <2> SUFFICES ASSUME NEW n \in DOMAIN put[c] PROVE put[c][n].events \in Seq(Events)
    OBVIOUS
  <2>1. put[c][n] \in Batches
    BY <1>1, LenProperties
  <2> QED
    BY <2>1 DEF Batches
<1>3. DOMAIN put[c] = 1 .. Len(put[c]) /\ Len(put[c]) \in Nat
  BY <1>1, LenProperties
<1>4. ss \in Seq(Seq(Events)) /\ Len(ss) = Len(put[c])
  BY <1>2, <1>3, IsASeq
<1>5. PutEvents(c) = FlattenSeq(ss)
  BY DEF PutEvents
<1>6. ASSUME NEW b \in Batches, put'[c] = Append(put[c], b)
      PROVE  PutEvents(c)' = PutEvents(c) \o b.events
  <2> DEFINE tt == [n \in DOMAIN put'[c] |-> put'[c][n].events]
  <2>1. b.events \in Seq(Events)
    BY DEF Batches
  <2>2. /\ DOMAIN put'[c] = 1 .. Len(put[c]) + 1 /\ put'[c][Len(put[c]) + 1] = b
        /\ \A n \in 1 .. Len(put[c]) : put'[c][n] = put[c][n]
    BY <1>1, <1>3, <1>6, AppendProperties, LenProperties
  <2>3. tt = Append(ss, b.events)
    <3>1. /\ Append(ss, b.events) \in Seq(Seq(Events))
          /\ Len(Append(ss, b.events)) = Len(put[c]) + 1
          /\ \A n \in 1 .. Len(put[c]) : Append(ss, b.events)[n] = put[c][n].events
          /\ Append(ss, b.events)[Len(put[c]) + 1] = b.events
      BY <1>3, <1>4, <2>1, AppendProperties
    <3>2. /\ tt \in Seq(Seq(Events)) /\ Len(tt) = Len(put[c]) + 1
          /\ \A n \in 1 .. Len(put[c]) : tt[n] = put[c][n].events
          /\ tt[Len(put[c]) + 1] = b.events
      <4>1. \A n \in 1 .. Len(put[c]) + 1 : put'[c][n].events \in Seq(Events)
        BY <1>2, <1>3, <2>1, <2>2
      <4> QED
        BY <1>3, <2>2, <4>1, IsASeq
    <3> HIDE DEF tt, ss
    <3> QED
      BY <1>3, <3>1, <3>2, SeqEqual
  <2>4. PutEvents(c)' = FlattenSeq(tt)
    BY DEF PutEvents
  <2> HIDE DEF tt, ss
  <2> QED
    BY <1>4, <1>5, <2>1, <2>3, <2>4, FlattenAppend
<1>7. put'[c] = put[c] => PutEvents(c)' = PutEvents(c)
  BY DEF PutEvents
<1> HIDE DEF ss
<1> QED
  BY <1>4, <1>5, <1>6, <1>7, FlattenType

LEMMA Joined == \A p, q, t \in Seq(Events) : (p \o q) \o t = p \o (q \o t)
  BY ConcatAssociative

LEMMA Passes ==
    ASSUME NEW S, NEW p \in Seq(S), NEW b \in Seq(S), NEW q \in Seq(S), q # <<>>
    PROVE  /\ Head(q) \in S /\ Tail(q) \in Seq(S) /\ Append(b, Head(q)) \in Seq(S)
           /\ p \o b \o q = p \o Append(b, Head(q)) \o Tail(q)
<1> DEFINE h == Head(q)
           t == Tail(q)
<1>1. h \in S /\ t \in Seq(S) /\ h = q[1] /\ Len(q) \in Nat \ {0}
  BY HeadTailProperties, LenProperties, EmptySeq
<1>2. q = <<h>> \o t
  <2>1. 1 \in 1 .. Len(q) /\ Len(q) \in 1 .. Len(q)
    BY <1>1
  <2>2. q = SubSeq(q, 1, Len(q)) /\ t = SubSeq(q, 2, Len(q))
    BY SubSeqFull, TailIsSubSeq
  <2>3. SubSeq(q, 1, Len(q)) = <<q[1]>> \o SubSeq(q, 1 + 1, Len(q))
    BY <2>1, SubSeqRecursiveFirst
  <2> QED
    BY <1>1, <2>2, <2>3
<1> HIDE DEF h, t
<1>3. <<h>> \in Seq(S) /\ Append(b, h) = b \o <<h>> /\ Append(b, h) \in Seq(S)
  BY <1>1, AppendIsConcat, AppendProperties
<1>4. p \o b \in Seq(S)
  BY ConcatProperties
<1>5. p \o b \o q = ((p \o b) \o <<h>>) \o t
  <2>1. ((p \o b) \o <<h>>) \o t = (p \o b) \o (<<h>> \o t)
    BY <1>1, <1>3, <1>4, ConcatAssociative
  <2> QED
    BY <1>2, <2>1
<1>6. (p \o b) \o <<h>> = p \o (b \o <<h>>)
  BY <1>3, ConcatAssociative
<1> QED
  BY <1>1, <1>3, <1>5, <1>6 DEF h, t

LEMMA PrefixOfMore ==
    ASSUME NEW S, NEW p \in Seq(S), NEW t \in Seq(S)
    PROVE  IsPrefix(p, p \o t)
<1>1. Len(p) \in Nat /\ Len(t) \in Nat /\ Len(p) <= Len(p \o t)
  <2>1. Len(p \o t) = Len(p) + Len(t)
    BY ConcatProperties
  <2> QED
    BY <2>1, LenProperties
<1>2. CASE Len(p) = 0
  <2>1. SubSeq(p, 1, 0) = <<>> /\ SubSeq(p \o t, 1, 0) = <<>>
    BY SubSeqEmpty
  <2> QED
    BY <1>1, <1>2, <2>1 DEF IsPrefix
<1>3. CASE Len(p) # 0
  <2>1. 1 \in 1 .. Len(p) /\ Len(p) \in 1 .. Len(p)
    BY <1>1, <1>3
  <2>2. SubSeq(p \o t, 1, Len(p)) = SubSeq(p, 1, Len(p))
    BY <2>1, SubSeqOfConcat1
  <2> QED
    BY <1>1, <2>2 DEF IsPrefix
<1> QED
  BY <1>2, <1>3

\* An alive container: all events are somewhere, in their order.
LEMMA InOrder ==
    ASSUME TypeOK', NEW c \in Containers, NEW s \in Seq(Events),
           queue'[c] = IF status'[c] = "flushing" THEN Append(s, Stop) ELSE s,
           status'[c] = "flushing" => handling'[c] = {}, status'[c] # "gone",
           PutEvents(c)' \o buf'[c] \o s = wrote'[c]
    PROVE  Ordered(c)'
<1>1. queue'[c] \in Seq(Events \cup {Stop})
  BY DEF TypeOK
<1>2. Queued(c)' = s
  BY <1>1, QueuedIs DEF Queued
<1> QED
  BY <1>2 DEF Ordered

\* One that is gone.
LEMMA CutShort ==
    ASSUME NEW c \in Containers, Ordered(c), status'[c] = "gone", queue'[c] = <<>>,
           wrote'[c] = wrote[c], NEW s \in Seq(Events), PutEvents(c)' \in Seq(Events),
           PutEvents(c)' \o s = wrote[c]
    PROVE  Ordered(c)'
<1>1. Queued(c)' = <<>>
  BY RangeEmpty DEF Queued
<1>2. IsPrefix(PutEvents(c)', wrote'[c])
  BY PrefixOfMore
<1>3. queue'[c] = <<>> /\ <<>> \in Seq(Events)
  OBVIOUS
<1> QED
  BY <1>1, <1>2, <1>3 DEF Ordered

LEMMA TakeOrdered ==
    ASSUME TypeOK, TypeOK', NEW c \in Containers, Apart(c), Ordered(c), Take(c)
    PROVE  Ordered(c)'
<1> DEFINE h == Head(queue[c])
           more == Append(buf[c], h)
<1>1. Typed(c) /\ queue[c] \in Seq(Events \cup {Stop}) /\ buf[c] \in Seq(Events)
  BY Container DEF Typed
<1>2. /\ Alive(c) /\ queue[c] # <<>> /\ h # Stop
      /\ queue' = [queue EXCEPT ![c] = Tail(queue[c])]
      /\ \/ Len(more) >= FlushEvery /\ Put(c, more) /\ buf' = [buf EXCEPT ![c] = <<>>]
         \/ ~(Len(more) >= FlushEvery) /\ buf' = [buf EXCEPT ![c] = more] /\ UNCHANGED <<put, faults>>
      /\ UNCHANGED <<status, handling, wrote>>
  BY DEF Take, Received, Shift, life
<1>3. /\ Queued(c) \in Seq(Events)
      /\ queue[c] = IF status[c] = "flushing" THEN Append(Queued(c), Stop) ELSE Queued(c)
      /\ status[c] = "flushing" => handling[c] = {}
      /\ PutEvents(c) \o buf[c] \o Queued(c) = wrote[c] /\ status[c] # "gone"
  BY <1>2 DEF Ordered, Alive
<1>4. /\ Queued(c) # <<>> /\ h = Head(Queued(c))
      /\ Tail(queue[c]) = IF status[c] = "flushing" THEN Append(Tail(Queued(c)), Stop)
                          ELSE Tail(Queued(c))
  <2>1. CASE status[c] = "flushing"
    <3>1. /\ h = IF Queued(c) = <<>> THEN Stop ELSE Head(Queued(c))
          /\ Tail(queue[c]) = IF Queued(c) = <<>> THEN <<>> ELSE Append(Tail(Queued(c)), Stop)
      BY <1>3, <2>1, HeadTailAppend
    <3> QED
      BY <1>2, <2>1, <3>1
  <2>2. CASE status[c] # "flushing"
    BY <1>2, <1>3, <2>2
  <2> QED
    BY <2>1, <2>2
<1>5. PutEvents(c) \in Seq(Events)
  BY PutsMore
<1>6. /\ h \in Events /\ Tail(Queued(c)) \in Seq(Events) /\ more \in Seq(Events)
      /\ PutEvents(c) \o more \o Tail(Queued(c)) = wrote[c]
  <2> DEFINE q == Queued(c)
  <2>1. q \in Seq(Events) /\ q # <<>> /\ PutEvents(c) \o buf[c] \o q = wrote[c] /\ h = Head(q)
    BY <1>3, <1>4
  <2> HIDE DEF q, h
  <2>2. /\ Head(q) \in Events /\ Tail(q) \in Seq(Events) /\ Append(buf[c], Head(q)) \in Seq(Events)
        /\ PutEvents(c) \o buf[c] \o q = PutEvents(c) \o Append(buf[c], Head(q)) \o Tail(q)
    BY <1>1, <1>5, <2>1, Passes
  <2> QED
    BY <2>1, <2>2 DEF q
<1>7. /\ queue'[c] = IF status'[c] = "flushing" THEN Append(Tail(Queued(c)), Stop)
                     ELSE Tail(Queued(c))
      /\ status'[c] = "flushing" => handling'[c] = {}
      /\ status'[c] # "gone" /\ wrote'[c] = wrote[c]
  BY <1>2, <1>3, <1>4, AllOn DEF OnAll
<1>8. PutEvents(c)' \o buf'[c] \o Tail(Queued(c)) = wrote[c]
  <2>1. CASE Len(more) >= FlushEvery /\ Put(c, more) /\ buf' = [buf EXCEPT ![c] = <<>>]
    <3>1. Len(more) \in 1 .. FlushEvery
      BY <1>1, <1>6, <2>1, AppendProperties, LenProperties, Limits DEF Typed
    <3>2. \E b \in Batches : put'[c] = Append(put[c], b) /\ b.events = more
      BY <1>6, <2>1, <3>1, PutStep
    <3>3. PutEvents(c)' = PutEvents(c) \o more
      BY <3>2, PutsMore
    <3>4. buf'[c] = <<>>
      BY <2>1, AllOn DEF OnAll
    <3>5. PutEvents(c) \o more \in Seq(Events)
      BY <1>5, <1>6, ConcatProperties
    <3>6. (PutEvents(c) \o more) \o <<>> = PutEvents(c) \o more
      BY <3>5, ConcatEmptySeq
    <3> QED
      BY <1>6, <3>3, <3>4, <3>6
  <2>2. CASE buf' = [buf EXCEPT ![c] = more] /\ UNCHANGED <<put, faults>>
    <3>1. buf'[c] = more
      BY <2>2, AllOn DEF OnAll
    <3>2. PutEvents(c)' = PutEvents(c)
      BY <2>2, PutsMore
    <3> QED
      BY <1>6, <3>1, <3>2
  <2> QED
    BY <1>2, <2>1, <2>2
<1> QED
  BY <1>6, <1>7, <1>8, InOrder

LEMMA AnswerOrdered ==
    ASSUME TypeOK, TypeOK', NEW c \in Containers, Ordered(c), Answer(c)
    PROVE  Ordered(c)'
<1>1. Answers(c) /\ Alive(c)
  BY AnswersStep DEF Answer
<1>2. PICK e \in handling[c] :
         wrote'[c] = Append(wrote[c], e) /\ queue'[c] = Append(queue[c], e)
  BY <1>1 DEF Answers
<1>3. UNCHANGED <<status[c], buf[c], put[c]>>
  BY <1>1 DEF Answers
<1>4. /\ Queued(c) \in Seq(Events) /\ status[c] # "flushing" /\ status[c] # "gone"
      /\ queue[c] = Queued(c) /\ PutEvents(c) \o buf[c] \o Queued(c) = wrote[c]
  BY <1>1, <1>2 DEF Ordered, Alive
<1>5. /\ e \in Events /\ buf[c] \in Seq(Events) /\ PutEvents(c) \in Seq(Events)
      /\ wrote[c] \in Seq(Events) /\ PutEvents(c)' = PutEvents(c)
  BY <1>3, Container, PutsMore DEF Typed
<1>6. Append(Queued(c), e) \in Seq(Events)
  BY <1>4, <1>5, AppendProperties
<1>7. PutEvents(c) \o buf[c] \o Append(Queued(c), e) = Append(wrote[c], e)
  <2>1. PutEvents(c) \o buf[c] \in Seq(Events) /\ <<e>> \in Seq(Events)
    BY <1>5, ConcatProperties
  <2>2. Append(Queued(c), e) = Queued(c) \o <<e>> /\ Append(wrote[c], e) = wrote[c] \o <<e>>
    BY <1>4, <1>5, AppendIsConcat
  <2>3. ((PutEvents(c) \o buf[c]) \o Queued(c)) \o <<e>> = (PutEvents(c) \o buf[c]) \o (Queued(c) \o <<e>>)
    BY <1>4, <2>1, Joined
  <2> QED
    BY <1>4, <2>2, <2>3
<1> QED
  BY <1>2, <1>3, <1>4, <1>5, <1>6, <1>7, InOrder

LEMMA IdleOrdered ==
    ASSUME TypeOK, TypeOK', NEW c \in Containers, Ordered(c), Idle(c)
    PROVE  Ordered(c)'
<1>1. /\ Alive(c) /\ queue[c] = <<>> /\ buf[c] # <<>> /\ Put(c, buf[c])
      /\ buf' = [buf EXCEPT ![c] = <<>>]
      /\ UNCHANGED <<status, handling, wrote, queue>>
  BY DEF Idle, life
<1>2. Typed(c) /\ buf[c] \in Seq(Events) /\ PutEvents(c) \in Seq(Events)
  BY Container, PutsMore DEF Typed
<1>3. Len(buf[c]) \in 1 .. FlushEvery
  BY <1>1, <1>2, EmptySeq, LenProperties, Limits DEF Typed
<1>4. \E b \in Batches : put'[c] = Append(put[c], b) /\ b.events = buf[c]
  BY <1>1, <1>2, <1>3, PutStep
<1>5. PutEvents(c)' = PutEvents(c) \o buf[c]
  BY <1>4, PutsMore
<1>6. /\ status[c] # "gone" /\ PutEvents(c) \o buf[c] \o Queued(c) = wrote[c]
      /\ status[c] = "flushing" => handling[c] = {}
      /\ Queued(c) = <<>>
      /\ queue[c] = IF status[c] = "flushing" THEN Append(Queued(c), Stop) ELSE Queued(c)
  BY <1>1, RangeEmpty DEF Ordered, Alive, Queued
<1>7. buf'[c] = <<>>
  BY <1>1, AllOn DEF OnAll
<1>8. (PutEvents(c) \o buf[c]) \o <<>> = PutEvents(c) \o buf[c]
  <2>1. PutEvents(c) \o buf[c] \in Seq(Events)
    BY <1>2, ConcatProperties
  <2> QED
    BY <2>1, ConcatEmptySeq
<1>9. PutEvents(c)' \o buf'[c] \o <<>> = wrote'[c]
  BY <1>1, <1>5, <1>6, <1>7, <1>8
<1>10. /\ queue'[c] = IF status'[c] = "flushing" THEN Append(<<>>, Stop) ELSE <<>>
       /\ status'[c] = "flushing" => handling'[c] = {}
       /\ status'[c] # "gone" /\ <<>> \in Seq(Events)
  BY <1>1, <1>6
<1> QED
  BY <1>9, <1>10, InOrder

LEMMA ExitOrdered ==
    ASSUME TypeOK, NEW c \in Containers, Ordered(c), Flushed(c) \/ Die(c)
    PROVE  Ordered(c)'
<1>1. Exit(c) /\ Alive(c)
  BY DEF Flushed, Die, Stopped
<1>2. status'[c] = "gone" /\ queue'[c] = <<>> /\ wrote'[c] = wrote[c]
  BY <1>1, ExitLeaves
<1>3. /\ Queued(c) \in Seq(Events) /\ PutEvents(c) \o buf[c] \o Queued(c) = wrote[c]
      /\ queue[c] = IF status[c] = "flushing" THEN Append(Queued(c), Stop) ELSE Queued(c)
  BY <1>1 DEF Ordered, Alive
<1>4. Typed(c) /\ buf[c] \in Seq(Events) /\ PutEvents(c) \in Seq(Events)
  BY Container, PutsMore DEF Typed
<1>5. CASE put'[c] = put[c]
  <2>1. PutEvents(c)' = PutEvents(c)
    BY <1>5, PutsMore
  <2>2. buf[c] \o Queued(c) \in Seq(Events)
    BY <1>3, <1>4, ConcatProperties
  <2>3. PutEvents(c) \o (buf[c] \o Queued(c)) = wrote[c]
    <3>1. (PutEvents(c) \o buf[c]) \o Queued(c) = PutEvents(c) \o (buf[c] \o Queued(c))
      BY <1>3, <1>4, Joined
    <3> QED
      BY <1>3, <3>1
  <2> QED
    BY <1>2, <1>4, <2>1, <2>2, <2>3, CutShort
<1>6. CASE Flushed(c) /\ buf[c] # <<>>
  <2>1. Put(c, buf[c])
    BY <1>6 DEF Flushed
  <2>2. Len(buf[c]) \in 1 .. FlushEvery
    BY <1>4, <1>6, EmptySeq, LenProperties, Limits DEF Typed
  <2>3. \E b \in Batches : put'[c] = Append(put[c], b) /\ b.events = buf[c]
    BY <1>4, <2>1, <2>2, PutStep
  <2>4. PutEvents(c)' = PutEvents(c) \o buf[c]
    BY <2>3, PutsMore
  <2>5. PutEvents(c) \o buf[c] \in Seq(Events)
    BY <1>4, ConcatProperties
  <2> QED
    BY <1>2, <1>3, <2>4, <2>5, CutShort
<1> QED
  BY <1>5, <1>6 DEF Flushed, Die

LEMMA FlushOrdered ==
    ASSUME TypeOK, TypeOK', NEW c \in Containers, Ordered(c), Flush(c)
    PROVE  Ordered(c)'
<1>1. /\ status[c] = "draining" /\ handling[c] = {}
      /\ status' = [status EXCEPT ![c] = "flushing"]
      /\ queue' = [queue EXCEPT ![c] = Append(queue[c], Stop)]
      /\ UNCHANGED <<handling, wrote, buf, put>>
  BY DEF Flush
<1>2. status'[c] = "flushing" /\ queue'[c] = Append(queue[c], Stop)
  BY <1>1, AllOn DEF OnAll
<1>3. /\ Queued(c) \in Seq(Events) /\ queue[c] = Queued(c)
      /\ PutEvents(c) \o buf[c] \o Queued(c) = wrote[c]
  BY <1>1 DEF Ordered
<1>4. PutEvents(c)' = PutEvents(c)
  BY <1>1 DEF PutEvents
<1> QED
  BY <1>1, <1>2, <1>3, <1>4, InOrder

\* The other steps of a container do not move an event.
LEMMA RestOrdered ==
    ASSUME TypeOK, NEW c \in Containers, Ordered(c),
           Send(c) \/ Raise(c) \/ Launch(c) \/ Retire(c)
    PROVE  Ordered(c)'
<1>1. UNCHANGED <<queue, buf, put, wrote>>
  BY DEF Send, Raise, Launch, Retire, writer
<1>2. Queued(c)' = Queued(c) /\ PutEvents(c)' = PutEvents(c)
  BY <1>1 DEF Queued, PutEvents
<1>3. /\ status'[c] = "flushing" <=> status[c] = "flushing"
      /\ status'[c] = "gone" <=> status[c] = "gone"
  BY AllOn DEF OnAll, Send, Raise, Launch, Retire, Up, life
<1>4. status[c] = "flushing" => handling'[c] \subseteq handling[c]
  BY AllOn DEF OnAll, Send, Raise, Launch, Retire, Up
<1> QED
  BY <1>1, <1>2, <1>3, <1>4 DEF Ordered

LEMMA NextOrdered ==
    ASSUME IInv, IInv', [Next]_vars, NEW c \in Containers, Ordered(c)
    PROVE  Ordered(c)'
<1>1. TypeOK /\ TypeOK' /\ \A d \in Containers : Apart(d)
  BY DEF IInv
<1>2. CASE UNCHANGED <<status[c], handling[c], queue[c], buf[c], put[c], wrote[c]>>
  BY <1>2 DEF Ordered, Queued, PutEvents
<1>3. CASE UNCHANGED vars \/ RunnerStep
  BY <1>2, <1>3, RunnerSteps DEF vars, service, life, writer
<1>4. ASSUME NEW d \in Containers, ContainerStep(d) PROVE Ordered(c)'
  <2>1. CASE d # c
    <3>1. Touches(d)
      BY <1>1, <1>4, FourSorts
    <3> QED
      BY <1>2, <2>1, <3>1 DEF Touches
  <2>2. CASE d = c
    BY <1>1, <1>4, <2>2, TakeOrdered, AnswerOrdered, IdleOrdered, ExitOrdered, FlushOrdered,
       RestOrdered DEF ContainerStep, Work
  <2> QED
    BY <2>1, <2>2
<1> QED
  BY <1>3, <1>4 DEF Next, RunnerStep, ContainerStep

LEMMA InitOrdered ==
    ASSUME Init, NEW c \in Containers
    PROVE  Ordered(c)
<1>1. /\ status[c] = "unborn" /\ wrote[c] = <<>> /\ queue[c] = <<>> /\ buf[c] = <<>>
      /\ put[c] = <<>>
  BY DEF Init
<1>2. Queued(c) = <<>>
  BY <1>1, RangeEmpty DEF Queued
<1>3. PutEvents(c) = <<>>
  <2>1. [n \in DOMAIN put[c] |-> put[c][n].events] = <<>>
    BY <1>1
  <2> QED
    BY <2>1 DEF PutEvents, FlattenSeq
<1>4. <<>> \o <<>> \o <<>> = <<>> /\ <<>> \in Seq(Events)
  BY ConcatEmptySeq
<1> QED
  BY <1>1, <1>2, <1>3, <1>4 DEF Ordered

\* The writer neither drops, repeats nor reorders events, up to the end of its
\* container, where it has put a first part of them.
THEOREM OrderStays == Spec => []OrderKept
<1> DEFINE Inv == \A c \in Containers : Ordered(c)
<1>1. Init => Inv
  BY InitOrdered
<1>2. IInv /\ IInv' /\ Inv /\ [Next]_vars => Inv'
  BY NextOrdered
<1>3. Inv => OrderKept
  BY DEF Ordered, OrderKept
<1> HIDE DEF Inv
<1> QED
  BY <1>1, <1>2, <1>3, AlwaysInv, PTL DEF Spec

-----------------------------------------------------------------------------
(***************************************************************************)
(* Nothing is lost where nothing fails.                                    *)
(***************************************************************************)

\* What leaves the writer is in a batch, and that is in S3.
Lands(c) ==
    \/ faults' > 0
    \/ put'[c] = put[c] /\ Held(c) \subseteq Held(c)'
    \/ \E b \in Batches : /\ put'[c] = Append(put[c], b) /\ b.stored
                          /\ Held(c) \subseteq Held(c)' \cup Range(b.events)

LEMMA TakeLands ==
    ASSUME TypeOK, NEW c \in Containers, Take(c)
    PROVE  Lands(c)
<1> DEFINE h == Head(queue[c])
           more == Append(buf[c], h)
<1>1. Typed(c) /\ queue[c] \in Seq(Events \cup {Stop}) /\ buf[c] \in Seq(Events)
  BY Container DEF Typed
<1>2. /\ queue[c] # <<>> /\ h # Stop
      /\ queue' = [queue EXCEPT ![c] = Tail(queue[c])]
      /\ \/ Len(more) >= FlushEvery /\ Put(c, more) /\ buf' = [buf EXCEPT ![c] = <<>>]
         \/ ~(Len(more) >= FlushEvery) /\ buf' = [buf EXCEPT ![c] = more] /\ UNCHANGED <<put, faults>>
  BY DEF Take, Received, Shift
<1>3. h \in Events /\ Range(queue[c]) = {h} \cup Range(Tail(queue[c]))
  BY <1>1, <1>2, RangeTail
<1>4. /\ more \in Seq(Events) /\ Range(more) = Range(buf[c]) \cup {h}
      /\ Len(more) \in 1 .. FlushEvery
  BY <1>1, <1>3, RangeAppend, AppendProperties, LenProperties, Limits DEF Typed
<1>5. queue'[c] = Tail(queue[c])
  BY <1>2, AllOn DEF OnAll
<1>6. Held(c) \subseteq Items(queue'[c]) \cup Range(more)
  BY <1>3, <1>4, <1>5 DEF Held, Items
<1>7. CASE Put(c, more) /\ buf' = [buf EXCEPT ![c] = <<>>]
  <2>1. \E b \in Batches : /\ put'[c] = Append(put[c], b) /\ b.events = more
                           /\ b.stored \/ faults' > 0
    BY <1>4, <1>7, PutStep
  <2>2. Held(c) \subseteq Held(c)' \cup Range(more)
    BY <1>6 DEF Held
  <2> QED
    BY <2>1, <2>2 DEF Lands
<1>8. CASE buf' = [buf EXCEPT ![c] = more] /\ UNCHANGED <<put, faults>>
  <2>1. buf'[c] = more
    BY <1>8, AllOn DEF OnAll
  <2> QED
    BY <1>6, <1>8, <2>1 DEF Lands, Held
<1> QED
  BY <1>2, <1>7, <1>8

LEMMA IdleLands ==
    ASSUME TypeOK, NEW c \in Containers, Idle(c)
    PROVE  Lands(c)
<1>1. /\ buf[c] # <<>> /\ Put(c, buf[c]) /\ UNCHANGED queue
      /\ Typed(c) /\ buf[c] \in Seq(Events)
  BY Container DEF Idle, Typed
<1>2. Len(buf[c]) \in 1 .. FlushEvery
  BY <1>1, EmptySeq, LenProperties, Limits DEF Typed
<1>3. \E b \in Batches : /\ put'[c] = Append(put[c], b) /\ b.events = buf[c]
                         /\ b.stored \/ faults' > 0
  BY <1>1, <1>2, PutStep
<1>4. Held(c) \subseteq Held(c)' \cup Range(buf[c])
  BY <1>1 DEF Held
<1> QED
  BY <1>3, <1>4 DEF Lands

\* The None is the last, so there is nothing but the buffer when it is found.
LEMMA FlushedLands ==
    ASSUME TypeOK, NEW c \in Containers, Ordered(c), Flushed(c)
    PROVE  Lands(c)
<1>1. /\ Alive(c) /\ queue[c] # <<>> /\ Head(queue[c]) = Stop
      /\ IF buf[c] # <<>> THEN Put(c, buf[c]) ELSE UNCHANGED <<put, faults>>
      /\ Typed(c) /\ buf[c] \in Seq(Events) /\ queue[c] \in Seq(Events \cup {Stop})
  BY Container DEF Flushed, Stopped, Typed
<1>2. Items(queue[c]) = {}
  <2> DEFINE q == Queued(c)
  <2>1. q \in Seq(Events) /\ queue[c] = IF status[c] = "flushing" THEN Append(q, Stop) ELSE q
    BY DEF Ordered
  <2> HIDE DEF q
  <2>2. q = <<>>
    <3> SUFFICES ASSUME q # <<>> PROVE FALSE
      OBVIOUS
    <3>1. Head(q) \in Events
      BY <2>1, RangeTail
    <3>2. Head(queue[c]) = Head(q)
      BY <2>1, HeadTailAppend
    <3> QED
      BY <1>1, <3>1, <3>2, StopNoEvent
  <2>3. queue[c] = Append(<<>>, Stop)
    BY <1>1, <2>1, <2>2
  <2>4. Range(queue[c]) = {} \cup {Stop}
    <3> DEFINE S == Events \cup {Stop}
               s == Append(<<>>, Stop)
    <3>1. <<>> \in Seq(S) /\ Stop \in S /\ Len(<<>>) = 0
      BY EmptySeq
    <3> HIDE DEF S
    <3>2. \A t \in Seq(S) : Range(Append(t, Stop)) = Range(t) \cup {Stop}
      BY <3>1, RangeAppend
    <3> QED
      BY <2>3, <3>1, <3>2, RangeEmpty
  <2> QED
    BY <2>4 DEF Items
<1>3. CASE buf[c] = <<>>
  <2>1. Held(c) = {}
    BY <1>2, <1>3, RangeEmpty DEF Held
  <2> QED
    BY <1>1, <1>3, <2>1 DEF Lands
<1>4. CASE buf[c] # <<>>
  <2>1. Len(buf[c]) \in 1 .. FlushEvery
    BY <1>1, <1>4, EmptySeq, LenProperties, Limits DEF Typed
  <2>2. \E b \in Batches : /\ put'[c] = Append(put[c], b) /\ b.events = buf[c]
                           /\ b.stored \/ faults' > 0
    BY <1>1, <1>4, <2>1, PutStep
  <2>3. Held(c) = Range(buf[c])
    BY <1>2 DEF Held
  <2> QED
    BY <2>2, <2>3 DEF Lands
<1> QED
  BY <1>3, <1>4

LEMMA AllLand ==
    ASSUME TypeOK, NEW c \in Containers, Ordered(c), Raise(c) \/ Work(c) \/ Retire(c) \/ Flush(c) \/ Die(c)
    PROVE  Lands(c) /\ (faults' = 0 => handling' = handling)
<1>1. CASE Raise(c) \/ Die(c)
  <2>1. faults' > 0
    BY <1>1, Limits DEF Raise, Die, Fault
  <2> QED
    BY <2>1 DEF Lands
<1>2. CASE Work(c)
  BY <1>2, TakeLands, IdleLands, FlushedLands DEF Work, Take, Idle, Flushed
<1>3. CASE Retire(c)
  BY <1>3 DEF Retire, writer, Lands, Held
<1>4. CASE Flush(c)
  <2>1. UNCHANGED <<handling, buf, put>> /\ queue' = [queue EXCEPT ![c] = Append(queue[c], Stop)]
    BY <1>4 DEF Flush
  <2>2. queue'[c] = Append(queue[c], Stop)
    BY <2>1, AllOn DEF OnAll
  <2>3. Range(queue'[c]) = Range(queue[c]) \cup {Stop}
    BY <2>2, Container, RangeAppend DEF Typed
  <2> QED
    BY <2>1, <2>3 DEF Lands, Held, Items
<1> QED
  BY <1>1, <1>2, <1>3, <1>4

\* What is written is held or in a batch, and the batches are in S3.
Landing(c) ==
    faults = 0 =>
        /\ \A n \in DOMAIN put[c] : put[c][n].stored
        /\ \A e \in Range(wrote[c]) : e \in Held(c) \/ \E n \in DOMAIN put[c] : e \in Batch(c, n)

\* While there is no later run, the events of a clean run are in batches of it.
Pure(c) ==
    stage \in {"load", "fetch"} /\ run \in clean =>
        \A n \in DOMAIN put[c] : \A e \in Batch(c, n) : RunOf(e) = run => put[c][n].run = run

\* Each request of the run has come to a container, which has it or wrote it.
AllReceived ==
    faults = 0 /\ stage \in {"load", "fetch"} =>
        \A i \in 1 .. sent : \E c \in Containers : <<run, i>> \in Requests(c)

Unsummed == stage \in {"settle", "load", "fetch"} => run \notin DOMAIN summary

QuietInv == AllReceived /\ Unsummed /\ \A c \in Containers : Ordered(c) /\ Landing(c) /\ Pure(c)

LEMMA LandingStays ==
    ASSUME TypeOK, TypeOK', NEW c \in Containers, Ordered(c), Landing(c), ContainerStep(c),
           faults <= faults'
    PROVE  Landing(c)' /\ (faults' = 0 => Requests(c) \subseteq Requests(c)')
<1> SUFFICES ASSUME faults' = 0
             PROVE  Landing(c)' /\ Requests(c) \subseteq Requests(c)'
  BY DEF Landing
<1>1. /\ \A n \in DOMAIN put[c] : put[c][n].stored
      /\ \A e \in Range(wrote[c]) : e \in Held(c) \/ \E n \in DOMAIN put[c] : e \in Batch(c, n)
  BY Limits DEF Landing
<1>2. CASE Send(c) \/ Launch(c)
  <2>1. UNCHANGED <<wrote, queue, buf, put>> /\ handling[c] \subseteq handling'[c]
    BY <1>2, AllOn DEF Send, Launch, writer, OnAll
  <2> QED
    BY <1>1, <2>1 DEF Landing, Held, Batch, Requests
<1>3. CASE Answer(c)
  <2>1. PICK e \in handling[c] : /\ handling'[c] = handling[c] \ {e}
                                 /\ wrote'[c] = Append(wrote[c], e)
                                 /\ queue'[c] = Append(queue[c], e)
    BY <1>3, AnswersStep DEF Answers
  <2>2. UNCHANGED <<buf, put>>
    BY <1>3 DEF Answer
  <2>3. /\ handling[c] \subseteq Events /\ wrote[c] \in Seq(Events)
        /\ queue[c] \in Seq(Events \cup {Stop})
    BY Container DEF Typed
  <2>4. e \in Events /\ e # Stop
    BY <2>3, StopNoEvent
  <2>5. Range(wrote'[c]) = Range(wrote[c]) \cup {e}
    BY <2>1, <2>3, <2>4, RangeAppend
  <2>6. Range(queue'[c]) = Range(queue[c]) \cup {e}
    BY <2>1, <2>3, <2>4, RangeAppend
  <2> QED
    BY <1>1, <2>1, <2>2, <2>4, <2>5, <2>6 DEF Landing, Held, Items, Batch, Requests
<1>4. CASE Raise(c) \/ Work(c) \/ Retire(c) \/ Flush(c) \/ Die(c)
  <2>1. Lands(c) /\ handling' = handling
    BY <1>4, AllLand
  <2>2. wrote' = wrote
    BY <1>4 DEF Raise, Work, Take, Idle, Flushed, Exit, Retire, Flush, Die
  <2>3. CASE put'[c] = put[c] /\ Held(c) \subseteq Held(c)'
    BY <1>1, <2>1, <2>2, <2>3 DEF Landing, Batch, Requests
  <2>4. ASSUME NEW b \in Batches, put'[c] = Append(put[c], b), b.stored,
               Held(c) \subseteq Held(c)' \cup Range(b.events)
        PROVE  Landing(c)'
    <3>1. put[c] \in Seq(Batches)
      BY Container DEF Typed
    <3>2. PICK k \in Nat : /\ DOMAIN put'[c] = DOMAIN put[c] \cup {k}
                           /\ \A n \in DOMAIN put[c] : put'[c][n] = put[c][n]
                           /\ put'[c][k] = b
      BY <2>4, <3>1, AppendProperties, LenProperties
    <3>3. Batch(c, k)' = Range(b.events)
          /\ \A n \in DOMAIN put[c] : Batch(c, n)' = Batch(c, n)
      BY <3>2 DEF Batch
    <3>4. \A n \in DOMAIN put'[c] : put'[c][n].stored
      BY <1>1, <2>4, <3>2
    <3>5. \A e \in Range(wrote'[c]) : e \in Held(c)' \/ \E n \in DOMAIN put'[c] : e \in Batch(c, n)'
      BY <1>1, <2>2, <2>4, <3>2, <3>3
    <3> QED
      BY <3>4, <3>5 DEF Landing
  <2>5. Landing(c)'
    BY <2>1, <2>3, <2>4 DEF Lands
  <2> QED
    BY <2>1, <2>2, <2>5 DEF Requests
<1> QED
  BY <1>2, <1>3, <1>4 DEF ContainerStep

LEMMA PureStays ==
    ASSUME IInv, NEW c \in Containers, Pure(c), ContainerStep(c)
    PROVE  Pure(c)'
<1>1. TypeOK /\ Apart(c) /\ Served(c) /\ Unmixed(c)
  BY DEF IInv
<1>2. /\ Touches(c)
      /\ \/ Receives(c) \/ Starts(c) \/ Proceeds(c)
         \/ Answers(c) /\ status[c] # "unborn"
  BY <1>1, FourSorts
<1>3. UNCHANGED <<stage, clean, run>>
  BY <1>2 DEF Touches, campaign, run
<1>4. CASE put'[c] = put[c]
  BY <1>3, <1>4 DEF Pure, Batch
<1>5. CASE Puts(c)
  <2> SUFFICES ASSUME stage \in {"load", "fetch"}, run \in clean,
                      NEW n \in DOMAIN put'[c], NEW e \in Batch(c, n)', RunOf(e) = run
               PROVE  put'[c][n].run = run
    BY <1>3 DEF Pure
  <2>1. PICK b \in Batches, k \in Nat :
           /\ k \notin DOMAIN put[c]
           /\ DOMAIN put'[c] = DOMAIN put[c] \cup {k} /\ put'[c][k] = b
           /\ \A m \in DOMAIN put[c] : put'[c][m] = put[c][m]
           /\ b.run = RunOf(Head(b.events)) /\ Len(b.events) \in 1 .. FlushEvery
           /\ Range(b.events) \subseteq Held(c) \ Held(c)'
    BY <1>1, <1>5, PutsAdds
  <2>2. CASE n \in DOMAIN put[c]
    BY <2>1, <2>2 DEF Pure, Batch
  <2>3. CASE n = k
    <3>1. b.events \in Seq(Events) /\ b.events # <<>>
      <4>1. b.events \in Seq(Events)
        BY DEF Batches
      <4> QED
        BY <2>1, <4>1, EmptySeq
    <3>2. Head(b.events) \in Range(b.events) /\ e \in Range(b.events) /\ Head(b.events) \in Events
      BY <2>1, <2>3, <3>1, RangeTail DEF Batch
    <3>3. Head(b.events) \in Held(c) /\ e \in Held(c) /\ Held(c) \subseteq Requests(c)
      BY <1>1, <2>1, <3>2 DEF Apart, Requests
    <3>4. RunOf(Head(b.events)) >= run
      BY <1>1, <3>3 DEF Unmixed, Pending
    <3>5. RunOf(Head(b.events)) <= run
      BY <1>1, <3>3 DEF Served
    <3>6. RunOf(Head(b.events)) \in Nat /\ run \in Nat
      BY <1>1, <3>2, StopNoEvent, Plan, Limits
    <3> QED
      BY <2>1, <2>3, <3>4, <3>5, <3>6
  <2> QED
    BY <2>1, <2>2, <2>3
<1> QED
  BY <1>2, <1>4, <1>5 DEF Receives, Answers, Starts, Proceeds

LEMMA ContainerQuiet ==
    ASSUME IInv, IInv', QuietInv, NEW c \in Containers, ContainerStep(c)
    PROVE  AllReceived' /\ Unsummed' /\ \A d \in Containers : Landing(d)' /\ Pure(d)'
<1>1. /\ TypeOK /\ TypeOK' /\ \A d \in Containers : Apart(d)
      /\ \A d \in Containers : Ordered(d) /\ Landing(d) /\ Pure(d)
  BY DEF IInv, QuietInv
<1>2. /\ Touches(c)
      /\ \/ Receives(c) \/ Starts(c) \/ Proceeds(c)
         \/ Answers(c) /\ status[c] # "unborn"
  BY <1>1, FourSorts
<1>3. /\ UNCHANGED <<stage, clean, run, summary>> /\ faults <= faults'
      /\ faults \in Nat /\ sent \in Nat /\ faults' \in 0 .. MaxFaults
  BY <1>1, <1>2, Limits DEF Touches, campaign, run
<1>4. Landing(c)' /\ Pure(c)' /\ (faults' = 0 => Requests(c) \subseteq Requests(c)')
  BY <1>1, <1>3, LandingStays, PureStays
<1>5. ASSUME NEW d \in Containers \ {c}
      PROVE  Landing(d)' /\ Pure(d)' /\ Requests(d)' = Requests(d)
  <2>1. UNCHANGED <<handling[d], wrote[d], queue[d], buf[d], put[d]>>
    BY <1>2 DEF Touches
  <2>2. Requests(d)' = Requests(d) /\ Held(d)' = Held(d)
    BY <2>1 DEF Requests, Held
  <2>3. faults' = 0 => faults = 0
    BY <1>3
  <2>4. Landing(d)'
    BY <1>1, <2>1, <2>2, <2>3 DEF Landing, Batch
  <2>5. Pure(d)'
    BY <1>1, <1>3, <2>1 DEF Pure, Batch
  <2> QED
    BY <2>2, <2>4, <2>5
<1>6. AllReceived'
  <2> SUFFICES ASSUME faults' = 0, stage \in {"load", "fetch"}, NEW i \in 1 .. sent'
               PROVE  \E d \in Containers : <<run, i>> \in Requests(d)'
    BY <1>3 DEF AllReceived
  <2>1. CASE i \in 1 .. sent
    <3>1. PICK d \in Containers : <<run, i>> \in Requests(d)
      BY <1>3, <2>1 DEF QuietInv, AllReceived
    <3> QED
      BY <1>4, <1>5, <3>1
  <2>2. CASE i \notin 1 .. sent
    <3>1. Receives(c) /\ i = sent + 1
      BY <1>2, <1>3, <2>2 DEF Receives, Answers, Starts, Proceeds
    <3> QED
      BY <3>1 DEF Receives, Requests
  <2> QED
    BY <2>1, <2>2
<1>7. Unsummed'
  BY <1>3 DEF QuietInv, Unsummed
<1> QED
  BY <1>4, <1>5, <1>6, <1>7

LEMMA StageQuiet ==
    ASSUME IInv, QuietInv, RunnerStep, ~(run' = run /\ UNCHANGED <<stage, sent, clean>>)
    PROVE  AllReceived' /\ Unsummed' /\ \A c \in Containers : Landing(c)' /\ Pure(c)'
<1>1. /\ TypeOK /\ Counted /\ Settings
      /\ \A c \in Containers : Apart(c) /\ Served(c) /\ Landing(c) /\ Pure(c)
      /\ AllReceived /\ Unsummed
  BY DEF IInv, QuietInv
<1>2. /\ UNCHANGED service
      /\ stage' \in {"settle", "load", "fetch"} =>
            \/ run' = run + 1 /\ stage = "deploy"
            \/ /\ run' = run /\ UNCHANGED sent
               /\ <<stage, stage'>> \in {<<"settle", "load">>, <<"load", "fetch">>}
      /\ clean' = clean \/ stage' = "load"
  BY <1>1, RunnerMoves
<1>3. UNCHANGED <<handling, wrote, queue, buf, put>>
  BY <1>2 DEF service, writer
<1>4. /\ faults' = 0 => faults = 0
      /\ stage' \in {"settle", "load", "fetch"} => summary' = summary /\ sent' = sent
  BY <1>1, Limits DEF RunnerStep, Start, Seed, Deploy, Settle, EndLoad, Abort, Fetch, Fault,
     campaign
<1>5. run \in Nat
  BY <1>1, Limits
<1>6. ASSUME stage' \in {"load", "fetch"}, stage # "load"
      PROVE  /\ sent' = 0
             /\ \A c \in Containers : \A e \in Requests(c) : RunOf(e) # run'
  <2>1. /\ sent = 0 /\ sent' = sent
        /\ run' = run + 1 \/ (run' = run /\ stage = "settle")
    BY <1>1, <1>2, <1>4, <1>6 DEF Counted
  <2>2. ASSUME NEW c \in Containers, NEW e \in Requests(c) PROVE RunOf(e) # run'
    <3>1. RunOf(e) <= run /\ (RunOf(e) = run /\ stage = "settle" => e[2] <= sent)
      BY <1>1 DEF Served
    <3>2. e \in Events
      <4>1. handling[c] \subseteq Events /\ wrote[c] \in Seq(Events)
        BY <1>1, Container DEF Typed
      <4> QED
        BY <4>1, RangeOfSeq DEF Requests
    <3>3. e[2] \in Nat \ {0} /\ RunOf(e) \in Nat
      BY <1>1, <3>2, Limits, Plan DEF Events, RunOf
    <3> QED
      BY <1>5, <2>1, <3>1, <3>3
  <2> QED
    BY <2>1, <2>2
<1>7. AllReceived'
  <2>1. CASE stage = "load"
    BY <1>1, <1>2, <1>3, <1>4, <2>1 DEF AllReceived, Requests
  <2>2. CASE stage # "load"
    BY <1>6, <2>2 DEF AllReceived
  <2> QED
    BY <2>1, <2>2
<1>8. Unsummed'
  <2> SUFFICES ASSUME stage' \in {"settle", "load", "fetch"} PROVE run' \notin DOMAIN summary
    BY <1>4 DEF Unsummed
  <2>1. DOMAIN summary \subseteq 1 .. run
    BY <1>1 DEF TypeOK
  <2> QED
    BY <1>1, <1>2, <1>5, <2>1 DEF Unsummed
<1>9. ASSUME NEW c \in Containers PROVE Landing(c)' /\ Pure(c)'
  <2>0. Held(c)' = Held(c) /\ \A n : Batch(c, n)' = Batch(c, n)
    BY <1>3 DEF Held, Batch
  <2>1. Landing(c)'
    BY <1>1, <1>3, <1>4, <2>0 DEF Landing
  <2>2. CASE stage = "load"
    <3>1. stage' \in {"load", "fetch"} => stage' = "fetch" /\ run' = run /\ clean' = clean
      BY <1>2, <2>2
    <3> QED
      BY <1>1, <1>3, <2>0, <2>1, <2>2, <3>1 DEF Pure
  <2>3. CASE stage # "load"
    <3>1. ASSUME stage' \in {"load", "fetch"}, NEW n \in DOMAIN put[c], NEW e \in Batch(c, n)
          PROVE  RunOf(e) # run'
      <4>1. e \in Requests(c)
        BY <1>1, <3>1, BatchEvents DEF Requests
      <4> QED
        BY <1>6, <2>3, <3>1, <4>1
    <3> QED
      BY <1>3, <2>0, <2>1, <3>1 DEF Pure
  <2> QED
    BY <2>2, <2>3
<1> QED
  BY <1>7, <1>8, <1>9

LEMMA RunnerQuiet ==
    ASSUME IInv, QuietInv, RunnerStep
    PROVE  AllReceived' /\ Unsummed' /\ \A c \in Containers : Landing(c)' /\ Pure(c)'
<1>1. CASE ~(run' = run /\ UNCHANGED <<stage, sent, clean>>)
  BY <1>1, StageQuiet
<1>2. CASE run' = run /\ UNCHANGED <<stage, sent, clean>>
  <2>1. /\ \A c \in Containers : Landing(c) /\ Pure(c)
        /\ AllReceived /\ Unsummed /\ TypeOK
    BY DEF IInv, QuietInv
  <2>2. UNCHANGED <<handling, wrote, queue, buf, put>>
    BY RunnerSteps DEF service, writer
  <2>3. /\ faults' = 0 => faults = 0
        /\ stage' \in {"settle", "load", "fetch"} => summary' = summary
    BY <1>2, <2>1, Limits DEF RunnerStep, Start, Seed, Deploy, Settle, EndLoad, Abort, Fetch,
       Fault, campaign
  <2>4. \A c : /\ Requests(c)' = Requests(c) /\ Held(c)' = Held(c)
               /\ \A n : Batch(c, n)' = Batch(c, n)
    BY <2>2 DEF Requests, Held, Batch
  <2>5. AllReceived' /\ Unsummed'
    BY <1>2, <2>1, <2>3, <2>4 DEF AllReceived, Unsummed
  <2>6. ASSUME NEW c \in Containers PROVE Landing(c)' /\ Pure(c)'
    BY <1>2, <2>1, <2>2, <2>3, <2>4 DEF Landing, Pure
  <2> QED
    BY <2>5, <2>6
<1> QED
  BY <1>1, <1>2

LEMMA NextQuiet ==
    ASSUME IInv, IInv', [Next]_vars, QuietInv
    PROVE  QuietInv'
<1>1. \A c \in Containers : Ordered(c)'
  BY NextOrdered DEF QuietInv
<1>2. CASE RunnerStep
  BY <1>1, <1>2, RunnerQuiet DEF QuietInv
<1>3. CASE \E c \in Containers : ContainerStep(c)
  BY <1>1, <1>3, ContainerQuiet DEF QuietInv
<1>4. CASE UNCHANGED vars
  <2>1. /\ UNCHANGED <<stage, sent, clean, summary, faults>> /\ run' = run
        /\ UNCHANGED <<handling, wrote, queue, buf, put>>
    BY <1>4 DEF vars, runner, campaign, service, writer, run
  <2>2. \A c : Requests(c)' = Requests(c) /\ Held(c)' = Held(c) /\ \A n : Batch(c, n)' = Batch(c, n)
    BY <2>1 DEF Requests, Held, Batch
  <2>3. \A c \in Containers : Landing(c)' /\ Pure(c)'
    BY <2>1, <2>2 DEF QuietInv, Landing, Pure
  <2> QED
    BY <1>1, <2>1, <2>2, <2>3 DEF QuietInv, AllReceived, Unsummed
<1> QED
  BY <1>2, <1>3, <1>4 DEF Next, RunnerStep, ContainerStep

\* What is summed up quietly are the requests of the run, no more and no less.
LEMMA QuietStep ==
    ASSUME IInv, IInv', QuietInv, Next, SummedUpQuietly
    PROVE  summary'[run] = {run} \X (1 .. sent)
<1>1. /\ TypeOK /\ TypeOK'
      /\ \A c \in Containers : Apart(c) /\ Served(c) /\ Unmixed(c) /\ Landing(c) /\ Pure(c)
  BY DEF IInv, QuietInv
<1>2. /\ stage = "fetch" /\ run \in DOMAIN summary' /\ run \in clean /\ faults' = 0
      /\ \A c \in Containers :
            run \notin {RunOf(e) : e \in handling[c] \cup Range(queue[c] \o buf[c])}
  BY DEF SummedUpQuietly
<1>3. Fetch
  <2>1. run \notin DOMAIN summary
    BY <1>2 DEF QuietInv, Unsummed
  <2>2. summary' # summary
    BY <1>2, <2>1
  <2> QED
    BY <2>2 DEF Next, Start, Seed, Deploy, Settle, EndLoad, Abort, Send, Answer, Raise, Work,
       Take, Idle, Flushed, Exit, Launch, Retire, Flush, Die, runner, campaign
<1>4. faults = 0 /\ summary'[run] = Filed(run)
  BY <1>1, <1>2, <1>3, Limits DEF Fetch, Fault
<1>5. ASSUME NEW i \in 1 .. sent PROVE <<run, i>> \in Filed(run)
  <2> DEFINE e == <<run, i>>
  <2>1. PICK c \in Containers : e \in Requests(c)
    BY <1>2, <1>4 DEF QuietInv, AllReceived
  <2>2. RunOf(e) = run
    BY DEF RunOf
  <2> HIDE DEF e
  <2>3. e \notin handling[c] /\ e \notin Held(c)
    <3>1. queue[c] \in Seq(Events \cup {Stop}) /\ buf[c] \in Seq(Events \cup {Stop})
      <4>1. Typed(c)
        BY <1>1, Container
      <4> QED
        BY <4>1 DEF Typed
    <3>2. Range(queue[c] \o buf[c]) = Range(queue[c]) \cup Range(buf[c])
      BY <3>1, RangeConcatenation
    <3> QED
      BY <1>2, <2>2, <3>2 DEF Held, Items
  <2>4. PICK n \in DOMAIN put[c] : e \in Batch(c, n) /\ put[c][n].stored
    BY <1>1, <1>4, <2>1, <2>3 DEF Requests, Landing
  <2>5. put[c][n].run = run
    BY <1>1, <1>2, <2>2, <2>4 DEF Pure
  <2>6. put[c][n] \in Stored
    BY <2>4 DEF Stored, Range
  <2>7. e \in Filed(run)
    BY <2>4, <2>5, <2>6 DEF Filed, EventsIn, Batch
  <2> QED
    BY <2>7 DEF e
<1>6. ASSUME NEW e \in Filed(run) PROVE e \in {run} \X (1 .. sent)
  <2>1. PICK c \in Containers : \E n \in DOMAIN put[c] : put[c][n].run = run /\ e \in Batch(c, n)
    BY FiledIn
  <2>2. PICK n \in DOMAIN put[c] : put[c][n].run = run /\ e \in Batch(c, n)
    BY <2>1
  <2>3. /\ e \in Requests(c) /\ Head(put[c][n].events) \in Requests(c)
        /\ run = RunOf(Head(put[c][n].events)) /\ put[c][n] \in Batches
    BY <1>1, <2>2, BatchEvents DEF Requests
  <2>4. RunOf(e) >= run
    BY <1>1, <1>2, <2>2, <2>3 DEF Unmixed
  <2>5. RunOf(e) <= run /\ (RunOf(e) = run => e[2] <= sent)
    BY <1>1, <1>2, <2>3 DEF Served
  <2>6. e \in Events
    BY <1>1, FiledEvents
  <2>7. e[1] = run /\ e[2] \in 1 .. sent /\ e = <<e[1], e[2]>>
    BY <1>1, <2>4, <2>5, <2>6, Limits, Plan DEF Events, RunOf
  <2> QED
    BY <2>7
<1> QED
  BY <1>4, <1>5, <1>6

\* A run that met idle containers, and whose last event is put when the copy is
\* made, is summed up from all of its requests, if nothing fails.
THEOREM QuietComplete == Spec => QuietRunComplete
<1>1. Init => QuietInv
  <2> SUFFICES ASSUME Init PROVE QuietInv
    OBVIOUS
  <2>1. stage = "down"
    BY DEF Init
  <2>2. ASSUME NEW c \in Containers PROVE Ordered(c) /\ Landing(c) /\ Pure(c)
    <3>1. wrote[c] = <<>> /\ put[c] = <<>>
      BY DEF Init
    <3>2. Landing(c)
      BY <3>1, RangeEmpty DEF Landing
    <3> QED
      BY <2>1, <3>2, InitOrdered DEF Pure
  <2> QED
    BY <2>1, <2>2 DEF QuietInv, AllReceived, Unsummed
<1>2. IInv /\ IInv' /\ QuietInv /\ [Next]_vars => QuietInv'
  BY NextQuiet
<1>3. IInv /\ IInv' /\ QuietInv /\ [Next]_vars
         => [SummedUpQuietly => summary'[run] = {run} \X (1 .. sent)]_vars
  BY QuietStep
<1> QED
  BY <1>1, <1>2, <1>3, AlwaysInv, PTL DEF Spec, QuietRunComplete

-----------------------------------------------------------------------------
(***************************************************************************)
(* The choice of runs.                                                     *)
(***************************************************************************)

\* What the scripts that compare budgets take for granted of a campaign: its
\* repetitions are among those they look at, and a policy with a budget is
\* measured under one load, as their key leaves the load out.
Comparable ==
    /\ \A i \in DOMAIN Campaign : Campaign[i].rep \in RepMin .. RepMax
    /\ \A i, j \in DOMAIN Campaign :
          Key(Campaign[i], ByCell) = Key(Campaign[j], ByCell)
              => Campaign[i].load = Campaign[j].load

CellFields == {"policy", "load", "budget", "rep"}

LEMMA NameOfRun ==
    ASSUME TypeOK, NEW r \in DOMAIN summary
    PROVE  /\ r \in 1 .. run /\ run \in Nat
           /\ \E i \in DOMAIN Campaign : runs[r].cell = Campaign[i]
           /\ DOMAIN Named(r) = CellFields \cup {"stamp"} /\ Named(r).stamp = r
           /\ \A f \in CellFields : Named(r)[f] = runs[r].cell[f]
<1>1. /\ r \in 1 .. run /\ run \in Nat /\ r \in DOMAIN runs
      /\ runs[r].cell \in Range(Campaign)
  <2>1. DOMAIN summary \subseteq 1 .. run
    BY DEF TypeOK
  <2>2. run \in Nat /\ DOMAIN runs = 1 .. run /\ \A i \in 1 .. run : runs[i] \in Runs
    BY Cells
  <2> QED
    BY <2>1, <2>2 DEF Runs
<1>2. PICK i \in DOMAIN Campaign : runs[r].cell = Campaign[i]
  BY <1>1 DEF Range
<1>3. DOMAIN runs[r].cell = CellFields
  BY <1>2, CampaignAssumption DEF CellFields
<1>4. /\ DOMAIN Named(r) = CellFields \cup {"stamp"} /\ Named(r).stamp = r
      /\ \A f \in CellFields : Named(r)[f] = runs[r].cell[f]
  BY <1>3 DEF Named, CellFields
<1> QED
  BY <1>1, <1>2, <1>4

LEMMA RankOfRun ==
    ASSUME TypeOK, NEW r \in DOMAIN summary
    PROVE  Rank(Named(r)) \in Nat
<1>1. PICK i \in DOMAIN Campaign : runs[r].cell = Campaign[i]
  BY NameOfRun
<1>2. Named(r).load = Campaign[i].load /\ Named(r).budget = Campaign[i].budget
  BY <1>1, NameOfRun DEF CellFields
<1>3. \E n \in DOMAIN TagOrder : TagOrder[n] = <<Named(r).load, Named(r).budget>>
  BY <1>2, CampaignAssumption
<1> QED
  BY <1>3, TagAssumption DEF Rank

LEMMA KeysAgree ==
    ASSUME NEW a, NEW b, NEW fields, NEW f \in fields, Key(a, fields) = Key(b, fields)
    PROVE  a[f] = b[f]
<1>1. Key(a, fields)[f] = a[f] /\ Key(b, fields)[f] = b[f]
  BY DEF Key
<1> QED
  BY <1>1

\* The last stamp of some finished runs.
LEMMA Latest ==
    ASSUME TypeOK, NEW B \in SUBSET (DOMAIN summary), B # {}
    PROVE  \E m \in B : \A k \in B : k <= m
<1>1. B \subseteq 1 .. run /\ run \in Nat
  BY NameOfRun
<1> DEFINE Below == {run + 1 - k : k \in B}
<1>2. Below \in SUBSET (1 .. run) /\ Below # {}
  BY <1>1
<1>3. PICK least \in Below : \A k \in Below : least <= k
  <2> HIDE DEF Below
  <2> QED
    BY <1>1, <1>2, Least
<1>4. PICK m \in B : least = run + 1 - m
  OBVIOUS
<1>5. ASSUME NEW k \in B PROVE k <= m
  <2>1. run + 1 - m <= run + 1 - k
    BY <1>3, <1>4
  <2> QED
    BY <1>1, <2>1
<1> QED
  BY <1>5

\* No later run of the same cell is finished.
NewestOf(row) ==
    \A other \in Finished :
        Key(other, DOMAIN row \ {"stamp"}) = Key(row, DOMAIN row \ {"stamp"})
            => other.stamp <= row.stamp

\* A key made of fields of the cell selects no run that has a later twin.
LEMMA SelectedNewest ==
    ASSUME TypeOK, NEW rows \in SUBSET Finished, NEW fields \in SUBSET CellFields,
           NEW row \in SelectLatest(rows, fields),
           \A other \in Finished : other.policy = row.policy => other \in rows
    PROVE  NewestOf(row)
<1>1. /\ row \in rows /\ row.rep \in RepMin .. RepMax
      /\ ~ \E other \in rows : /\ other.rep \in RepMin .. RepMax
                              /\ Key(other, fields) = Key(row, fields)
                              /\ Before(row, other)
  BY DEF SelectLatest
<1>2. PICK r \in DOMAIN summary : row = Named(r)
  BY <1>1 DEF Finished
<1> SUFFICES ASSUME NEW other \in Finished,
                    Key(other, DOMAIN row \ {"stamp"}) = Key(row, DOMAIN row \ {"stamp"})
             PROVE  other.stamp <= row.stamp
  BY DEF NewestOf
<1>3. PICK o \in DOMAIN summary : other = Named(o)
  BY DEF Finished
<1>4. DOMAIN row \ {"stamp"} = CellFields
  BY <1>2, NameOfRun DEF CellFields
<1>5. \A f \in CellFields : other[f] = row[f]
  BY <1>4, KeysAgree
<1>6. Rank(other) = Rank(row)
  BY <1>5 DEF Rank, CellFields
<1>7. Key(other, fields) = Key(row, fields)
  BY <1>5 DEF Key
<1>8. other \in rows /\ other.rep \in RepMin .. RepMax
  BY <1>1, <1>5 DEF CellFields
<1>9. ~ (row.stamp < other.stamp)
  BY <1>1, <1>6, <1>7, <1>8 DEF Before
<1>10. row.stamp = r /\ other.stamp = o /\ r \in 1 .. run /\ o \in 1 .. run /\ run \in Nat
  BY <1>2, <1>3, NameOfRun
<1> QED
  BY <1>9, <1>10

\* The last run of a cell is there whatever run of the cell the script starts at.
LEMMA CellFound ==
    ASSUME TypeOK, Comparable, NEW own \in Finished
    PROVE  \E row \in Cell(Finished, own.policy, own.budget, own.stamp) :
               row.rep = own.rep /\ NewestOf(row)
<1>1. PICK r \in DOMAIN summary : own = Named(r)
  BY DEF Finished
<1> DEFINE Same == {k \in DOMAIN summary : Key(Named(k), ByCell) = Key(own, ByCell)}
<1>2. PICK m \in Same : \A k \in Same : k <= m
  <2>1. Same \in SUBSET (DOMAIN summary) /\ r \in Same
    BY <1>1
  <2> HIDE DEF Same
  <2> QED
    BY <2>1, Latest
<1>3. /\ Named(m) \in Finished /\ r <= m /\ Named(m).stamp = m /\ own.stamp = r
      /\ Named(m).policy = own.policy /\ Named(m).budget = own.budget
      /\ Named(m).rep = own.rep
  <2>1. \A f \in ByCell : Named(m)[f] = own[f]
    BY KeysAgree
  <2>2. r \in Same
    BY <1>1
  <2> QED
    BY <1>1, <1>2, <2>1, <2>2, NameOfRun DEF Finished, ByCell
<1>4. ASSUME NEW k \in DOMAIN summary
      PROVE  /\ Named(k).rep \in RepMin .. RepMax
             /\ k \in Same => Named(k).load = own.load
  <2>1. PICK i \in DOMAIN Campaign : runs[k].cell = Campaign[i]
    BY NameOfRun
  <2>2. PICK j \in DOMAIN Campaign : runs[r].cell = Campaign[j]
    BY <1>1, NameOfRun
  <2>3. /\ \A f \in CellFields : Named(k)[f] = Campaign[i][f] /\ own[f] = Campaign[j][f]
    BY <1>1, <2>1, <2>2, NameOfRun
  <2>4. ASSUME k \in Same PROVE Named(k).load = own.load
    <3>1. \A f \in ByCell : Named(k)[f] = own[f]
      BY <2>4, KeysAgree
    <3>2. Key(Campaign[i], ByCell) = Key(Campaign[j], ByCell)
      BY <2>3, <3>1 DEF Key, ByCell, CellFields
    <3> QED
      BY <2>3, <3>2 DEF Comparable, CellFields
  <2> QED
    BY <2>3, <2>4 DEF Comparable, CellFields
<1>5. ASSUME NEW other \in Finished, Key(other, ByCell) = Key(Named(m), ByCell)
      PROVE  ~ Before(Named(m), other)
  <2>1. PICK o \in DOMAIN summary : other = Named(o)
    BY DEF Finished
  <2>2. o \in Same /\ m \in Same
    BY <1>5, <2>1
  <2>3. o <= m /\ other.stamp = o /\ o \in 1 .. run /\ m \in 1 .. run /\ run \in Nat
    BY <1>2, <2>1, <2>2, NameOfRun
  <2>4. other.load = own.load /\ Named(m).load = own.load
    BY <1>4, <2>1, <2>2
  <2>5. other.budget = Named(m).budget
    BY <1>5, KeysAgree DEF ByCell
  <2>6. Rank(other) = Rank(Named(m))
    BY <2>4, <2>5 DEF Rank
  <2>7. Rank(Named(m)) \in Nat
    BY RankOfRun
  <2> QED
    BY <1>3, <2>3, <2>6, <2>7 DEF Before
<1>6. Named(m) \in SelectLatest(Finished, ByCell)
  BY <1>3, <1>4, <1>5 DEF SelectLatest
<1>7. Named(m) \in Cell(Finished, own.policy, own.budget, own.stamp)
  <2>1. r \in Nat /\ m \in Nat
    BY <1>1, NameOfRun
  <2> QED
    BY <1>3, <1>6, <2>1 DEF Cell
<1>8. NewestOf(Named(m))
  <2>1. ByCell \in SUBSET CellFields
    BY DEF ByCell, CellFields
  <2> QED
    BY <1>6, <2>1, SelectedNewest
<1> QED
  BY <1>3, <1>7, <1>8

LEMMA Shown ==
    ASSUME TypeOK, Comparable
    PROVE  NoneSuperseded
<1>1. ASSUME NEW row \in SelectLatest(Finished, ByPolicyAndLoad) PROVE NewestOf(row)
  <2>1. ByPolicyAndLoad \in SUBSET CellFields
    BY DEF ByPolicyAndLoad, CellFields
  <2> QED
    BY <2>1, SelectedNewest
<1>2. ASSUME NEW own \in Finished,
             NEW row \in OfPolicy(Finished, own.policy) \cup LoadSweep(Finished, own.policy)
      PROVE  NewestOf(row)
  <2> DEFINE rows == {other \in Finished : other.policy = own.policy}
  <2>1. ByPolicy \in SUBSET CellFields /\ ByLoad \in SUBSET CellFields
    BY DEF ByPolicy, ByLoad, CellFields
  <2>2. row \in SelectLatest(rows, ByPolicy) \/ row \in SelectLatest(rows, ByLoad)
    BY DEF OfPolicy, LoadSweep
  <2>3. row \in rows
    BY <2>2 DEF SelectLatest
  <2>4. \A other \in Finished : other.policy = row.policy => other \in rows
    BY <2>3
  <2>5. rows \in SUBSET Finished
    OBVIOUS
  <2> HIDE DEF rows
  <2> QED
    BY <2>1, <2>2, <2>4, <2>5, SelectedNewest
<1> QED
  BY <1>1, <1>2, CellFound DEF NoneSuperseded, NewestOf

\* Whatever runs were aborted, repeated or superseded, the scripts under
\* analysis/ show no run of which a later one of the same cell is finished, and
\* a comparison of budgets that starts at any run of a cell shows its last one.
THEOREM NewestShown == Comparable => (Spec => []NoneSuperseded)
<1>1. CASE Comparable
  <2>1. TypeOK => NoneSuperseded
    BY <1>1, Shown
  <2> QED
    BY <2>1, CampaignTypes, PTL
<1>2. CASE ~Comparable
  BY <1>2
<1> QED
  BY <1>1, <1>2

-----------------------------------------------------------------------------
(***************************************************************************)
(* The summary of any log.                                                 *)
(***************************************************************************)

\* What infer() leaves of a request.
LEMMA LogKinds ==
    ASSUME NEW log \in Logs
    PROVE  /\ IsFiniteSet(DOMAIN log)
           /\ \A i \in DOMAIN log :
                 /\ log[i].tier \in Tiers /\ log[i].ttft \in Int
                 /\ log[i].decision \in {"ADMIT", "REJECT"}
                 /\ log[i].decision = "REJECT" => ~log[i].met /\ ~log[i].e429
<1>1. IsFiniteSet(DOMAIN log) /\ Range(log) \subseteq Refused \cup Streamed /\ MaxTtft \in Nat
  BY SummaryAssumption
<1>2. ASSUME NEW i \in DOMAIN log
      PROVE  /\ log[i].tier \in Tiers /\ log[i].ttft \in Int
             /\ log[i].decision \in {"ADMIT", "REJECT"}
             /\ log[i].decision = "REJECT" => ~log[i].met /\ ~log[i].e429
  <2>1. log[i] \in Refused \/ log[i] \in Streamed
    BY <1>1 DEF Range
  <2>2. CASE log[i] \in Refused
    <3>1. /\ log[i].tier \in Tiers /\ log[i].ttft = 0 /\ log[i].decision = "REJECT"
          /\ log[i].met = FALSE /\ log[i].e429 = FALSE
      BY <2>2 DEF Refused
    <3>2. ~log[i].met /\ ~log[i].e429
      BY <3>1, Zenon
    <3> QED
      BY <3>1, <3>2
  <2>3. CASE log[i] \in Streamed
    BY <1>1, <2>3 DEF Streamed
  <2> QED
    BY <2>1, <2>2, <2>3
<1> QED
  BY <1>1, <1>2

\* Each request was admitted or turned away, and none is throttled twice.
LEMMA Parted ==
    ASSUME NEW log \in Logs
    PROVE  /\ Counts(log).n = Counts(log).admitted + Counts(log).rejected
           /\ Counts(log).throttled = Counts(log).rejected + Counts(log).e429
<1> DEFINE D == DOMAIN log
<1>1. /\ Admitted(log) \in SUBSET D /\ Rejected(log) \in SUBSET D /\ Limited(log) \in SUBSET D
      /\ Admitted(log) \cap Rejected(log) = {} /\ Rejected(log) \cap Limited(log) = {}
      /\ Admitted(log) \cup Rejected(log) = D
  BY LogKinds DEF Admitted, Rejected, Limited
<1>2. IsFiniteSet(D)
  BY LogKinds
<1> HIDE DEF D
<1>3. Cardinality(D) = Cardinality(Admitted(log)) + Cardinality(Rejected(log))
  BY <1>1, <1>2, DisjointParts
<1>4. Cardinality(Throttled(log)) = Cardinality(Rejected(log)) + Cardinality(Limited(log))
  BY <1>1, <1>2, DisjointParts DEF Throttled
<1> QED
  BY <1>3, <1>4 DEF Counts, D

\* What is good and throttled: an answer cut off after it began in time.
LEMMA CutOff ==
    ASSUME NEW log \in Logs, NEW i \in Good(log) \cap Throttled(log)
    PROVE  log[i].e429 /\ log[i].ttft \in 1 .. Slo[log[i].tier]
<1>1. i \in DOMAIN log /\ log[i].decision = "ADMIT" /\ log[i].met
  BY DEF Good, Admitted
<1>2. log[i].e429
  BY <1>1 DEF Throttled, Rejected, Limited
<1>3. log[i] \in Refused \/ log[i] \in Streamed
  BY <1>1, SummaryAssumption DEF Range
<1>4. log[i] \notin Refused
  BY <1>1 DEF Refused
<1>5. log[i].ttft \in 1 .. Slo[log[i].tier]
  BY <1>1, <1>3, <1>4 DEF Streamed
<1> QED
  BY <1>2, <1>5

\* The members of a part, counted by tier.
LEMMA TierParts ==
    ASSUME NEW log \in Logs, NEW A \in SUBSET DOMAIN log, NEW f,
           \A t \in Tiers : f[t] = Cardinality({i \in A : log[i].tier = t}),
           DOMAIN f = Tiers
    PROVE  SumFunction(f) = Cardinality(A)
<1> DEFINE group == [i \in A |-> log[i].tier]
           v == [t \in Tiers |-> Cardinality({i \in A : group[i] = t})]
<1>1. IsFiniteSet(A) /\ IsFiniteSet(Tiers)
  <2>1. IsFiniteSet(DOMAIN log)
    BY LogKinds
  <2> QED
    BY <2>1, FS_Subset, SummaryAssumption
<1>2. \A i \in A : group[i] \in Tiers
  BY LogKinds
<1>3. Total(v, Tiers) = Cardinality(A)
  <2> HIDE DEF group
  <2> QED
    BY <1>1, <1>2, CountByGroup
<1>4. \A t \in Tiers : f[t] = v[t] /\ v[t] \in Int
  <2>1. ASSUME NEW t \in Tiers PROVE f[t] = v[t] /\ v[t] \in Int
    <3> DEFINE part == {i \in A : group[i] = t}
    <3>1. part = {i \in A : log[i].tier = t}
      OBVIOUS
    <3>2. v[t] = Cardinality(part)
      OBVIOUS
    <3>3. IsFiniteSet(part)
      BY <1>1, FS_Subset
    <3>4. f[t] = Cardinality(part)
      BY <3>1
    <3> HIDE DEF part, v
    <3> QED
      BY <3>2, <3>3, <3>4, FS_CardinalityType
  <2> QED
    BY <2>1
<1>5. Total(f, Tiers) = Total(v, Tiers)
  <2> HIDE DEF v
  <2> QED
    BY <1>1, <1>4, TotalSame
<1> QED
  BY <1>3, <1>5, SumIsTotal

\* What is counted of a tier's log is what of the whole log is of this tier.
LEMMA OfTierIs ==
    ASSUME NEW log \in Logs, NEW t
    PROVE  LET of == OfTier(log, t) IN
           /\ DOMAIN of = {i \in DOMAIN log : log[i].tier = t}
           /\ Admitted(of) = {i \in Admitted(log) : log[i].tier = t}
           /\ Rejected(of) = {i \in Rejected(log) : log[i].tier = t}
           /\ Good(of) = {i \in Good(log) : log[i].tier = t}
           /\ Limited(of) = {i \in Limited(log) : log[i].tier = t}
           /\ Throttled(of) = {i \in Throttled(log) : log[i].tier = t}
<1> DEFINE of == OfTier(log, t)
<1>1. DOMAIN of = {i \in DOMAIN log : log[i].tier = t}
  BY DEF OfTier, Restrict
<1>2. \A i \in DOMAIN of : of[i] = log[i]
  BY DEF OfTier, Restrict
<1> HIDE DEF of
<1>3. Admitted(of) = {i \in Admitted(log) : log[i].tier = t}
  BY <1>1, <1>2 DEF Admitted
<1>4. Rejected(of) = {i \in Rejected(log) : log[i].tier = t}
  BY <1>1, <1>2 DEF Rejected
<1>5. Limited(of) = {i \in Limited(log) : log[i].tier = t}
  BY <1>1, <1>2 DEF Limited
<1>6. Good(of) = {i \in Good(log) : log[i].tier = t}
  BY <1>1, <1>2, <1>3 DEF Good, Admitted
<1>7. Throttled(of) = {i \in Throttled(log) : log[i].tier = t}
  BY <1>4, <1>5 DEF Throttled
<1> QED
  BY <1>1, <1>3, <1>4, <1>5, <1>6, <1>7 DEF of

\* Each number is the sum of those of the tiers.
LEMMA TiersAdd ==
    ASSUME NEW log \in Logs
    PROVE  \A f \in DOMAIN Counts(log) :
              Counts(log)[f] = SumFunction([t \in Tiers |-> Counts(OfTier(log, t))[f]])
<1> DEFINE sum(f) == SumFunction([t \in Tiers |-> Counts(OfTier(log, t))[f]])
<1>1. /\ Admitted(log) \in SUBSET DOMAIN log /\ Rejected(log) \in SUBSET DOMAIN log
      /\ Good(log) \in SUBSET DOMAIN log /\ Limited(log) \in SUBSET DOMAIN log
      /\ Throttled(log) \in SUBSET DOMAIN log
  BY DEF Admitted, Rejected, Good, Limited, Throttled
<1>2. Counts(log).n = sum("n")
  <2> DEFINE v == [t \in Tiers |-> Counts(OfTier(log, t)).n]
  <2>1. \A t \in Tiers : v[t] = Cardinality({i \in DOMAIN log : log[i].tier = t})
    BY OfTierIs DEF Counts
  <2>2. DOMAIN v = Tiers
    OBVIOUS
  <2> HIDE DEF v
  <2>3. SumFunction(v) = Cardinality(DOMAIN log)
    BY <1>1, <2>1, <2>2, TierParts
  <2> QED
    BY <2>3 DEF v, Counts
<1>3. Counts(log).admitted = sum("admitted")
  <2> DEFINE v == [t \in Tiers |-> Counts(OfTier(log, t)).admitted]
  <2>1. \A t \in Tiers : v[t] = Cardinality({i \in Admitted(log) : log[i].tier = t})
    BY OfTierIs DEF Counts
  <2>2. DOMAIN v = Tiers
    OBVIOUS
  <2> HIDE DEF v
  <2>3. SumFunction(v) = Cardinality(Admitted(log))
    BY <1>1, <2>1, <2>2, TierParts
  <2> QED
    BY <2>3 DEF v, Counts
<1>4. Counts(log).rejected = sum("rejected")
  <2> DEFINE v == [t \in Tiers |-> Counts(OfTier(log, t)).rejected]
  <2>1. \A t \in Tiers : v[t] = Cardinality({i \in Rejected(log) : log[i].tier = t})
    BY OfTierIs DEF Counts
  <2>2. DOMAIN v = Tiers
    OBVIOUS
  <2> HIDE DEF v
  <2>3. SumFunction(v) = Cardinality(Rejected(log))
    BY <1>1, <2>1, <2>2, TierParts
  <2> QED
    BY <2>3 DEF v, Counts
<1>5. Counts(log).good = sum("good")
  <2> DEFINE v == [t \in Tiers |-> Counts(OfTier(log, t)).good]
  <2>1. \A t \in Tiers : v[t] = Cardinality({i \in Good(log) : log[i].tier = t})
    BY OfTierIs DEF Counts
  <2>2. DOMAIN v = Tiers
    OBVIOUS
  <2> HIDE DEF v
  <2>3. SumFunction(v) = Cardinality(Good(log))
    BY <1>1, <2>1, <2>2, TierParts
  <2> QED
    BY <2>3 DEF v, Counts
<1>6. Counts(log).throttled = sum("throttled")
  <2> DEFINE v == [t \in Tiers |-> Counts(OfTier(log, t)).throttled]
  <2>1. \A t \in Tiers : v[t] = Cardinality({i \in Throttled(log) : log[i].tier = t})
    BY OfTierIs DEF Counts
  <2>2. DOMAIN v = Tiers
    OBVIOUS
  <2> HIDE DEF v
  <2>3. SumFunction(v) = Cardinality(Throttled(log))
    BY <1>1, <2>1, <2>2, TierParts
  <2> QED
    BY <2>3 DEF v, Counts
<1>7. Counts(log).e429 = sum("e429")
  <2> DEFINE v == [t \in Tiers |-> Counts(OfTier(log, t)).e429]
  <2>1. \A t \in Tiers : v[t] = Cardinality({i \in Limited(log) : log[i].tier = t})
    BY OfTierIs DEF Counts
  <2>2. DOMAIN v = Tiers
    OBVIOUS
  <2> HIDE DEF v
  <2>3. SumFunction(v) = Cardinality(Limited(log))
    BY <1>1, <2>1, <2>2, TierParts
  <2> QED
    BY <2>3 DEF v, Counts
<1>8. DOMAIN Counts(log) = {"n", "admitted", "rejected", "good", "throttled", "e429"}
  BY DEF Counts
<1> HIDE DEF sum
<1>9. \A f \in DOMAIN Counts(log) : Counts(log)[f] = sum(f)
  BY <1>2, <1>3, <1>4, <1>5, <1>6, <1>7, <1>8
<1> QED
  BY <1>9 DEF sum

\* There is a value at each place.
LEMMA PlaceTaken ==
    ASSUME NEW values, IsFiniteSet(DOMAIN values), \A i \in DOMAIN values : values[i] \in Int,
           NEW k \in 1 .. Cardinality(DOMAIN values)
    PROVE  /\ AtPlace(values, k) \in Range(values)
           /\ Cardinality(Faster(values, AtPlace(values, k))) < k
           /\ k <= Cardinality(DOMAIN values \ Slower(values, AtPlace(values, k)))
<1> DEFINE D == DOMAIN values
           upTo(v) == D \ Slower(values, v)
           B == {s \in SUBSET D : /\ k <= Cardinality(s)
                                 /\ \E i \in D : s = upTo(values[i])}
<1>1. D # {} /\ Cardinality(D) \in Nat /\ k <= Cardinality(D)
  BY FS_EmptySet, FS_CardinalityType
<1>2. B # {}
  <2>1. PICK j \in D : \A i \in D : values[i] <= values[j]
    BY <1>1, Greatest
  <2>2. upTo(values[j]) = D
    BY <2>1 DEF Slower
  <2> HIDE DEF upTo
  <2> QED
    BY <1>1, <2>2
<1>3. PICK m \in B : \A s \in B : s \subseteq m => s = m
  <2>1. B \in SUBSET (SUBSET D)
    OBVIOUS
  <2> HIDE DEF B
  <2> QED
    BY <1>2, <2>1, Smallest
<1>4. PICK i \in D : m = upTo(values[i])
  OBVIOUS
<1>5. Cardinality(Faster(values, values[i])) < k
  <2> DEFINE F == Faster(values, values[i])
  <2>1. F \in SUBSET D /\ IsFiniteSet(F) /\ Cardinality(F) \in Nat
    <3>1. F \in SUBSET D
      BY DEF Faster
    <3> HIDE DEF F
    <3> QED
      BY <3>1, FS_Subset, FS_CardinalityType
  <2>2. ASSUME k <= Cardinality(F) PROVE FALSE
    <3>1. F # {}
      <4> HIDE DEF F
      <4> QED
        BY <2>2, FS_EmptySet
    <3>2. PICK j \in F : \A l \in F : values[l] <= values[j]
      <4>1. \A l \in F : values[l] \in Int
        BY <2>1
      <4> HIDE DEF F
      <4> QED
        BY <2>1, <3>1, <4>1, Greatest
    <3>3. F \subseteq upTo(values[j]) /\ upTo(values[j]) \in SUBSET D
      BY <3>2 DEF Slower, Faster
    <3>4. upTo(values[j]) \subseteq upTo(values[i]) /\ i \notin upTo(values[j])
             /\ i \in upTo(values[i])
      BY <3>2 DEF Slower, Faster
    <3>5. j \in D
      BY <2>1
    <3> DEFINE u == upTo(values[j])
    <3>6. /\ F \subseteq u /\ u \in SUBSET D /\ u \subseteq m /\ u # m
          /\ \E l \in D : u = upTo(values[l])
      BY <1>4, <3>3, <3>4, <3>5
    <3> HIDE DEF F, u
    <3>7. Cardinality(F) <= Cardinality(u) /\ Cardinality(u) \in Nat
      BY <3>6, FS_Subset, FS_CardinalityType
    <3>8. k <= Cardinality(u)
      BY <2>1, <2>2, <3>7
    <3>9. u \in B
      BY <3>6, <3>8
    <3> QED
      BY <1>3, <3>6, <3>9
  <2> HIDE DEF F
  <2>3. Cardinality(F) < k
    BY <2>1, <2>2
  <2> QED
    BY <2>3 DEF F
<1>6. k <= Cardinality(D \ Slower(values, values[i]))
  BY <1>4
<1>7. values[i] \in Range(values)
  BY DEF Range
<1> QED
  BY <1>5, <1>6, <1>7 DEF AtPlace

\* The part q of the values at most were faster, the rest and one slower.
LEMMA PercentileParts ==
    ASSUME NEW values, IsFiniteSet(DOMAIN values), \A i \in DOMAIN values : values[i] \in Int,
           NEW q \in 0 .. 100, Cardinality(DOMAIN values) > 0
    PROVE  LET v == Percentile(values, q)
               n == Cardinality(DOMAIN values)
           IN  /\ 100 * Cardinality(Faster(values, v)) <= q * (n - 1)
               /\ 100 * (Cardinality(Slower(values, v)) - 1) <= (100 - q) * n
<1> DEFINE n == Cardinality(DOMAIN values)
           v == Percentile(values, q)
           p == q * (n - 1)
           k == p \div 100 + 1
           faster == Cardinality(Faster(values, v))
           slower == Cardinality(Slower(values, v))
<1>1. n \in Nat /\ n > 0
  BY FS_CardinalityType
<1>2. p \in Nat /\ p <= 100 * (n - 1)
  BY <1>1
<1>3. k \in 1 .. n /\ 100 * (k - 1) <= p /\ p <= 100 * (k - 1) + 99
  <2> HIDE DEF p, n
  <2> QED
    BY <1>1, <1>2
<1>4. v = AtPlace(values, k)
  BY DEF Percentile
<1>5. faster < k /\ k <= Cardinality(DOMAIN values \ Slower(values, v))
  <2> HIDE DEF k, v
  <2> QED
    BY <1>3, <1>4, PlaceTaken DEF n
<1>6. faster \in Nat /\ slower \in Nat
  <2>1. Faster(values, v) \in SUBSET DOMAIN values /\ Slower(values, v) \in SUBSET DOMAIN values
    BY DEF Faster, Slower
  <2>2. IsFiniteSet(Faster(values, v)) /\ IsFiniteSet(Slower(values, v))
    BY <2>1, FS_Subset
  <2> HIDE DEF v
  <2> QED
    BY <2>2, FS_CardinalityType
<1>7. Cardinality(DOMAIN values \ Slower(values, v)) = n - slower
  <2>1. DOMAIN values \cap Slower(values, v) = Slower(values, v)
    BY DEF Slower
  <2> HIDE DEF v
  <2> QED
    BY <2>1, FS_Difference
<1>8. p = q * n - q /\ q * n \in Int /\ (100 - q) * n = 100 * n - q * n
  BY <1>1
<1> DEFINE qn == q * n
<1> HIDE DEF n, v, p, k, faster, slower, qn
<1>9. 100 * faster <= p
  BY <1>2, <1>3, <1>5, <1>6
<1>10. 100 * (slower - 1) <= 100 * n - qn
  <2>1. p = qn - q /\ qn \in Int
    BY <1>8 DEF qn
  <2> QED
    BY <1>1, <1>3, <1>5, <1>6, <1>7, <2>1
<1>11. 100 * (slower - 1) <= (100 - q) * n
  BY <1>8, <1>10 DEF qn
<1> QED
  BY <1>9, <1>11 DEF n, v, p, faster, slower

\* All of it.
LEMMA SummaryRight == \A log \in Logs : SummaryAddsUp(log)
<1>1. ASSUME NEW log \in Logs PROVE SummaryAddsUp(log)
  <2> DEFINE first == Ttfts(log)
  <2>1. IsFiniteSet(DOMAIN first) /\ \A i \in DOMAIN first : first[i] \in Int
    <3>1. DOMAIN first \in SUBSET DOMAIN log
      BY DEF Ttfts, Admitted
    <3>2. \A i \in DOMAIN first : first[i] \in Int
      BY LogKinds DEF Ttfts, Admitted
    <3> HIDE DEF first
    <3> QED
      BY <3>1, <3>2, LogKinds, FS_Subset
  <2> HIDE DEF first
  <2>2. \A q \in 0 .. 100 : Cardinality(DOMAIN first) > 0 =>
              /\ 100 * Cardinality(Faster(first, Percentile(first, q)))
                    <= q * (Cardinality(DOMAIN first) - 1)
              /\ 100 * (Cardinality(Slower(first, Percentile(first, q))) - 1)
                    <= (100 - q) * Cardinality(DOMAIN first)
    BY <2>1, PercentileParts
  <2>3. \A f \in DOMAIN Counts(log) :
           Counts(log)[f]
              = SumFunction([t \in Tiers |-> [u \in Tiers |-> Counts(OfTier(log, u))][t][f]])
    <3>1. \A f : [t \in Tiers |-> [u \in Tiers |-> Counts(OfTier(log, u))][t][f]]
                    = [t \in Tiers |-> Counts(OfTier(log, t))[f]]
      OBVIOUS
    <3> QED
      BY <3>1, TiersAdd
  <2> QED
    BY <2>2, <2>3, Parted, CutOff DEF SummaryAddsUp, first
<1> QED
  BY <1>1

\* In what a run is summed up to, the requests admitted and turned away are all
\* requests, the tiers add up to the whole, no request is throttled twice, only
\* one cut off by a 429 after a first token in time is good and throttled, and
\* the percentiles of the first tokens are those of their values: whatever the
\* log holds, in any number of lines and tiers.
THEOREM SummariesSound == Spec => []SummariesAddUp
<1>1. SummariesAddUp
  BY SummaryRight DEF SummariesAddUp, AllSummaries
<1> QED
  BY <1>1, PTL
=============================================================================
