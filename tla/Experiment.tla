------------------------------- MODULE Experiment -------------------------------
(***************************************************************************)
(* A campaign of run_experiment.py: a runner that is started with --deploy *)
(* and without --skip-deploy deploys the settings of each run unless it    *)
(* just did; any runner lets Locust send requests for a while, copies what *)
(* lies under the name of the run in S3, and sums it up for the scripts of *)
(* Results.  A campaign takes several runners: one has one budget, and one *)
(* that ends with an error is started again, from the run that failed.     *)
(*                                                                         *)
(* The events come from the containers: infer() looks up the tenant and    *)
(* hands each answered request to the ResultWriter, whose thread takes     *)
(* them from a queue and puts batches into S3, each under the run of its   *)
(* first event.                                                            *)
(*                                                                         *)
(* Nothing ties the two together but time: Locust stops with requests in   *)
(* flight, and the copy is made once.  A container that is replaced gets   *)
(* SIGTERM and some time, then SIGKILL.                                    *)
(***************************************************************************)
EXTENDS Results, Summaries, Sequences, SequencesExt, FiniteSets

CONSTANTS
    MaxContainers, \* bound on the containers the service starts
    Desired,       \* desired_count
    Campaign,      \* the cells [policy, load, budget, rep] run one by one
    PerRun,        \* bound on the requests Locust sends in a run
    FlushEvery,    \* flush_every
    MaxSeeds,      \* bound on the times the tenants table is written
    MaxFaults,     \* bound on what fails: puts, requests, containers, copies
                   \* and the runner
    None

Containers == 1 .. MaxContainers
MaxRuns == Len(Campaign) + MaxFaults

\* An event is named by the run_id in its payload and a number.
Events == (1 .. MaxRuns) \X (1 .. PerRun)
RunOf(e) == e[1]
Stop == <<0, 0>>        \* the None that flush() puts into the queue

ASSUME CampaignAssumption ==
    /\ Desired \in Nat \ {0} /\ FlushEvery \in Nat \ {0}
    /\ Campaign \in Seq(Range(Campaign)) /\ Campaign # <<>>
    /\ \A i \in DOMAIN Campaign :
          /\ DOMAIN Campaign[i] = {"policy", "load", "budget", "rep"}
          /\ <<Campaign[i].policy, Campaign[i].budget>> # None
          /\ \E n \in DOMAIN TagOrder :
                TagOrder[n] = <<Campaign[i].load, Campaign[i].budget>>
    /\ None \notin Nat
    /\ {MaxContainers, PerRun, MaxSeeds, MaxFaults} \subseteq Nat

VARIABLES
    stage, next,  \* where the runner is, and in which cell
    runs,         \* each run so far: its cell, whether its runner deploys, the
                  \* run whose deployment was the last when its load began, and
                  \* the table when it got its name
    deploying,    \* args.deploy and not args.skip_deploy of this runner
    key,          \* last_deploy of this runner
    deployed,     \* the run the last deployment was made for, 0 for the one the
                  \* service had before the campaign
    sent,         \* how many requests Locust has sent in the run
    clean,        \* history: the runs whose load met idle containers
    summary,      \* the events each finished run was summed up from
    table,        \* how often the tenants table was written again
    status,       \* the life of each container
    deployment,   \* the run it was started for
    record,       \* what it keeps of the tenants table in _CACHE
    handling,     \* the requests it has in hand
    wrote,        \* history: the events handed to its ResultWriter
    queue, buf,   \* _q, and the local buf of the thread
    put,          \* the batches it has tried to put, in order
    faults

campaign == <<next, runs, deploying, key, deployed, clean, summary, table>>
runner == <<stage, sent, campaign>>
life == <<status, deployment, record>>
writer == <<queue, buf, put>>
service == <<life, handling, wrote, writer>>
vars == <<runner, service, faults>>

Init ==
    /\ stage = "down" /\ next = 1 /\ runs = <<>> /\ deploying = FALSE
    /\ key = None /\ deployed = 0 /\ sent = 0
    /\ clean = {} /\ summary = <<>> /\ table = 0
    /\ status = [c \in Containers |-> "unborn"]
    /\ deployment = [c \in Containers |-> 0]
    /\ record = [c \in Containers |-> None]
    /\ handling = [c \in Containers |-> {}]
    /\ wrote = [c \in Containers |-> <<>>]
    /\ queue = [c \in Containers |-> <<>>]
    /\ buf = [c \in Containers |-> <<>>]
    /\ put = [c \in Containers |-> <<>>]
    /\ faults = 0

Fault == faults < MaxFaults /\ faults' = faults + 1

run == Len(runs)
Up == {c \in Containers : status[c] = "up"}
Serving == {c \in Up : deployment[c] = deployed}

\* Mutant: a key of what an option of the runner sets.
KeyOfOptions(cell) == <<cell.budget>>

\* deploy_key: the load and the repetition are not in it.
KeyOf(cell) == <<cell.policy, cell.budget>>

\* The name of a finished run, for the scripts that look for it.
Named(r) ==
    LET cell == runs[r].cell
    IN  [policy |-> cell.policy, load |-> cell.load, budget |-> cell.budget,
         rep |-> cell.rep, stamp |-> r]
Finished == {Named(r) : r \in DOMAIN summary}

-----------------------------------------------------------------------------
(***************************************************************************)
(* The runner.                                                             *)
(***************************************************************************)

\* A container of the service still has events of earlier runs.
Backlog == \E c \in Up : handling[c] # {} \/ queue[c] # <<>> \/ buf[c] # <<>>

StartLoad(r) ==
    /\ stage' = "load"
    /\ clean' = IF Backlog THEN clean ELSE clean \cup {r}

\* A runner is started for what is left of the campaign, by hand.
Start ==
    /\ stage = "down" /\ stage' = "deploy"
    /\ key' = None /\ deploying' \in BOOLEAN
    /\ UNCHANGED <<sent, next, runs, deployed, clean, summary, table, service, faults>>

\* seed_tenants.py writes all items of the table, whatever else goes on.
Seed ==
    /\ table < MaxSeeds
    /\ table' = table + 1
    /\ UNCHANGED <<stage, sent, next, runs, deploying, key, deployed, clean, summary,
                   service, faults>>

\* The run gets its name; terraform apply, if the runner deploys and its last
\* deployment had another key.
Deploy ==
    /\ stage = "deploy"
    /\ LET cell == Campaign[next]
           again == deploying /\ key # KeyOf(cell)
           by == IF again THEN run + 1 ELSE deployed
       IN  /\ runs' = Append(runs, [cell |-> cell, deploy |-> deploying,
                                    by |-> by, table |-> table])
           /\ deployed' = by /\ key' = IF again THEN KeyOf(cell) ELSE key
           /\ IF again THEN stage' = "settle" /\ UNCHANGED clean
              ELSE StartLoad(run + 1)
    /\ UNCHANGED <<sent, next, deploying, summary, table, service, faults>>

\* Mutant: a service that has as many containers as wanted, of any deployment.
StableInNumber == Cardinality(Up) >= Desired

\* aws ecs wait services-stable: the containers in service are as many as
\* wanted, and all of the last deployment.
Stable == Cardinality(Up) = Desired /\ Up = Serving

Settle ==
    /\ stage = "settle" /\ Stable
    /\ StartLoad(run)
    /\ UNCHANGED <<sent, next, runs, deploying, key, deployed, summary, table, service,
                   faults>>

\* The time of the run is over; Locust does not wait for answers.
EndLoad ==
    /\ stage = "load" /\ stage' = "fetch"
    /\ UNCHANGED <<sent, campaign, service, faults>>

\* The runner ends with an error, in a wait, a reset of the estimate that is not
\* confirmed, or by hand.
Abort ==
    /\ stage \in {"settle", "load", "fetch"} /\ Fault
    /\ stage' = "down" /\ sent' = 0
    /\ UNCHANGED <<campaign, service>>

\* The batches in S3, and the events in some of them.
Stored == {b \in UNION {Range(put[c]) : c \in Containers} : b.stored}
EventsIn(batches) == UNION {Range(b.events) : b \in batches}

\* Mutant: names without their stamp.
FiledByCell(r) == EventsIn({b \in Stored : runs[b.run].cell = runs[r].cell})

\* The events that lie in S3 under results/<run_id>.
Filed(r) == EventsIn({b \in Stored : b.run = r})

\* aws s3 sync of the run, whose exit code nobody looks at; summarize, and on
\* to the next run, of this runner or of another one with options of its own.
Fetch ==
    /\ stage = "fetch"
    /\ \E got \in SUBSET Filed(run) :
          /\ IF got = Filed(run) THEN UNCHANGED faults ELSE Fault
          /\ summary' = [r \in DOMAIN summary \cup {run} |->
                            IF r = run THEN got ELSE summary[r]]
    /\ sent' = 0
    /\ IF next = Len(Campaign)
       THEN stage' = "over" /\ UNCHANGED next
       ELSE /\ next' = next + 1
            /\ \/ Campaign[next'].budget = Campaign[next].budget /\ stage' = "deploy"
               \/ stage' = "down"
    /\ UNCHANGED <<runs, deploying, key, deployed, clean, table, service>>

-----------------------------------------------------------------------------
(***************************************************************************)
(* A container and its ResultWriter.                                       *)
(***************************************************************************)

Alive(c) == status[c] \in {"up", "draining", "flushing"}

\* Mutant: a cache that the containers share.
LookupShared(c) ==
    LET known == {record[d] : d \in Containers} \ {None}
    IN  record' = [record EXCEPT ![c] = IF known = {} THEN table
                                        ELSE CHOOSE v \in known : TRUE]

\* get_tenant: the table is read once in the life of a process.
Lookup(c) ==
    record' = [record EXCEPT ![c] = IF @ = None THEN table ELSE @]

\* Locust posts a request of the run to a container in service, which looks up
\* the tenant before anything else.
Send(c) ==
    /\ stage = "load" /\ sent < PerRun /\ status[c] = "up"
    /\ sent' = sent + 1
    /\ handling' = [handling EXCEPT ![c] = @ \cup {<<run, sent + 1>>}]
    /\ Lookup(c)
    /\ UNCHANGED <<stage, campaign, status, deployment, wrote, writer, faults>>

\* infer() ends, and the event is written.
Answer(c) ==
    \E e \in handling[c] :
        /\ Alive(c)
        /\ handling' = [handling EXCEPT ![c] = @ \ {e}]
        /\ wrote' = [wrote EXCEPT ![c] = Append(@, e)]
        /\ queue' = [queue EXCEPT ![c] = Append(@, e)]
        /\ UNCHANGED <<runner, life, buf, put, faults>>

\* infer() raises: there is no event.
Raise(c) ==
    \E e \in handling[c] :
        /\ Alive(c) /\ Fault
        /\ handling' = [handling EXCEPT ![c] = @ \ {e}]
        /\ UNCHANGED <<runner, life, wrote, writer>>

PutAs(c, events, name) ==
    \E ok \in BOOLEAN :
        /\ IF ok THEN UNCHANGED faults ELSE Fault
        /\ put' = [put EXCEPT ![c] =
                      Append(@, [run |-> name, events |-> events, stored |-> ok])]

\* Mutant: the run_id the container was started with.
PutUnderDeployment(c, events) == PutAs(c, events, deployment[c])

\* _put: an exception is logged and the batch is gone.
Put(c, events) == PutAs(c, events, RunOf(Head(events)))

Received(c) == Alive(c) /\ queue[c] # <<>> /\ Head(queue[c]) # Stop
Shift(c) == queue' = [queue EXCEPT ![c] = Tail(@)]

\* Mutant: a thread that buffers without an end.
TakeUnbounded(c) ==
    /\ Received(c) /\ Shift(c)
    /\ buf' = [buf EXCEPT ![c] = Append(@, Head(queue[c]))]
    /\ UNCHANGED <<runner, life, handling, wrote, put, faults>>

\* The thread takes an event and puts a full buffer.
Take(c) ==
    /\ Received(c) /\ Shift(c)
    /\ LET more == Append(buf[c], Head(queue[c]))
       IN  IF Len(more) >= FlushEvery
           THEN Put(c, more) /\ buf' = [buf EXCEPT ![c] = <<>>]
           ELSE buf' = [buf EXCEPT ![c] = more] /\ UNCHANGED <<put, faults>>
    /\ UNCHANGED <<runner, life, handling, wrote>>

\* Mutant: a thread that keeps what it has put.
IdleKeeping(c) ==
    /\ Alive(c) /\ queue[c] = <<>> /\ buf[c] # <<>>
    /\ Put(c, buf[c])
    /\ UNCHANGED <<runner, life, handling, wrote, queue, buf>>

\* Nothing came for a second.
Idle(c) ==
    /\ Alive(c) /\ queue[c] = <<>> /\ buf[c] # <<>>
    /\ Put(c, buf[c])
    /\ buf' = [buf EXCEPT ![c] = <<>>]
    /\ UNCHANGED <<runner, life, handling, wrote, queue>>

\* The process is gone, and with it what the thread had in memory.
Exit(c) ==
    /\ status' = [status EXCEPT ![c] = "gone"]
    /\ queue' = [queue EXCEPT ![c] = <<>>]
    /\ buf' = [buf EXCEPT ![c] = <<>>]
    /\ UNCHANGED <<runner, deployment, record, wrote>>

Stopped(c) == Alive(c) /\ queue[c] # <<>> /\ Head(queue[c]) = Stop

\* Mutant: a thread that returns without a look at its buffer.
FlushedEmpty(c) == Stopped(c) /\ Exit(c) /\ UNCHANGED <<handling, put, faults>>

\* The thread finds the None, puts what it has and returns; join() is over and
\* the process exits.
Flushed(c) ==
    /\ Stopped(c) /\ Exit(c)
    /\ IF buf[c] # <<>> THEN Put(c, buf[c]) ELSE UNCHANGED <<put, faults>>
    /\ UNCHANGED handling

-----------------------------------------------------------------------------
(***************************************************************************)
(* The service replaces its containers.                                    *)
(***************************************************************************)

Launch(c) ==
    /\ status[c] = "unborn" /\ \A d \in 1 .. c - 1 : status[d] # "unborn"
    /\ Cardinality(Serving) < Desired
    /\ status' = [status EXCEPT ![c] = "up"]
    /\ deployment' = [deployment EXCEPT ![c] = deployed]
    /\ UNCHANGED <<runner, record, handling, wrote, writer, faults>>

\* A container of an earlier deployment leaves the load balancer once its
\* successors are in service.
Retire(c) ==
    /\ c \in Up \ Serving /\ Cardinality(Serving) = Desired
    /\ status' = [status EXCEPT ![c] = "draining"]
    /\ UNCHANGED <<runner, deployment, record, handling, wrote, writer, faults>>

\* SIGTERM: uvicorn waits for the requests in hand, then atexit runs flush.
Flush(c) ==
    /\ status[c] = "draining" /\ handling[c] = {}
    /\ status' = [status EXCEPT ![c] = "flushing"]
    /\ queue' = [queue EXCEPT ![c] = Append(@, Stop)]
    /\ UNCHANGED <<runner, deployment, record, handling, wrote, buf, put, faults>>

\* The container is killed, or the join of flush() times out.
Die(c) ==
    /\ Alive(c) /\ Fault /\ Exit(c)
    /\ handling' = [handling EXCEPT ![c] = {}]
    /\ UNCHANGED put

Work(c) == Take(c) \/ Idle(c) \/ Flushed(c)

Next ==
    \/ Start \/ Seed \/ Deploy \/ Settle \/ EndLoad \/ Abort \/ Fetch
    \/ \E c \in Containers :
          \/ Send(c) \/ Answer(c) \/ Raise(c) \/ Work(c)
          \/ Launch(c) \/ Retire(c) \/ Flush(c) \/ Die(c)

Spec == Init /\ [][Next]_vars

\* The thread runs, its get() returns or times out, and S3 answers.
FairSpec == Spec /\ \A c \in Containers : WF_vars(Work(c))

-----------------------------------------------------------------------------
Batches == [run : 1 .. MaxRuns, events : Seq(Events), stored : BOOLEAN]
Statuses == {"unborn", "up", "draining", "flushing", "gone"}

TypeOK ==
    /\ stage \in {"deploy", "settle", "load", "fetch", "down", "over"}
    /\ next \in DOMAIN Campaign
    /\ runs \in Seq([cell : Range(Campaign), deploy : BOOLEAN, by : 0 .. MaxRuns,
                     table : 0 .. MaxSeeds])
    /\ deploying \in BOOLEAN
    /\ key \in {KeyOf(cell) : cell \in Range(Campaign)} \cup {None}
    /\ deployed \in 0 .. run /\ run <= MaxRuns
    /\ sent \in 0 .. PerRun /\ table \in 0 .. MaxSeeds /\ faults \in 0 .. MaxFaults
    /\ clean \subseteq 1 .. run /\ DOMAIN summary \subseteq 1 .. run
    /\ UNION Range(summary) \subseteq Events
    /\ status \in [Containers -> Statuses]
    /\ deployment \in [Containers -> 0 .. run]
    /\ record \in [Containers -> (0 .. MaxSeeds) \cup {None}]
    /\ handling \in [Containers -> SUBSET Events]
    /\ wrote \in [Containers -> Seq(Events)]
    /\ queue \in [Containers -> Seq(Events \cup {Stop})]
    /\ buf \in [Containers -> Seq(Events)]
    /\ put \in [Containers -> Seq(Batches)]
    /\ \A c \in Containers :
          /\ Len(buf[c]) < FlushEvery
          /\ \A n \in DOMAIN put[c] : Len(put[c][n].events) \in 1 .. FlushEvery

PutEvents(c) == FlattenSeq([n \in DOMAIN put[c] |-> put[c][n].events])
\* The events in the queue; flush() puts its None behind the last of them.
Queued(c) == IF Stop \in Range(queue[c]) THEN Front(queue[c]) ELSE queue[c]

\* The writer neither drops, repeats nor reorders: what it has put, has in its
\* buffer and has queued is what infer handed to it, in this order; a
\* container that is gone has put a first part of it.
OrderKept ==
    \A c \in Containers :
        IF status[c] = "gone" THEN IsPrefix(PutEvents(c), wrote[c])
        ELSE PutEvents(c) \o buf[c] \o Queued(c) = wrote[c]

\* The requests a container has or had.
Requests(c) == handling[c] \cup Range(wrote[c])

\* A request of a run is decided under the policy and the budget the run is named
\* for, if its runner was told to deploy: also when it left out a deployment
\* because the last one will do, and whatever containers of earlier deployments,
\* or of earlier runners, are still at work on earlier requests.  Without --deploy
\* the name says nothing (run_experiment.py 93-99).
RightSettings ==
    \A c \in Containers : \A e \in Requests(c) :
        LET named == runs[RunOf(e)].cell
            applied == runs[deployment[c]].cell
        IN  runs[RunOf(e)].deploy =>
               /\ deployment[c] # 0
               /\ applied.policy = named.policy /\ applied.budget = named.budget

\* The table when a deployment was made, and when a run was over.
TableAt(d) == IF d = 0 THEN 0 ELSE runs[d].table
TableBy(r) == IF r = run THEN table ELSE runs[r + 1].table

\* However often the tenants table is written, before, while or after requests are
\* sent: a request is decided on a table no newer than the end of its run, and no
\* older than the deployment its container was started for.  A run whose
\* deployment is no older than the last writing thus is decided on what was
\* written; one that reuses a deployment may be decided on an older table, and on
\* different ones, for a container keeps what it has read for as long as it lives
\* (tenants.py 21-43).
FreshRecord ==
    \A c \in Containers : \A e \in Requests(c) :
        record[c] \in TableAt(deployment[c]) .. TableBy(RunOf(e))

\* An event is summed up in one run at most, although batches are filed under
\* the run of their first event and the copy of a run is made while containers
\* still put events of it.  And "requests are not pooled across repetitions": an
\* event of an earlier run gets into a summary (where it also is the first
\* arrival, from which a burst window is counted) only if the load met
\* containers that were still at work on that run, and in a run of a runner that
\* deploys only if both runs were measured on one deployment.
CountedOnce ==
    /\ \A q, r \in DOMAIN summary : q # r => summary[q] \cap summary[r] = {}
    /\ \A r \in DOMAIN summary : \A e \in summary[r] :
          RunOf(e) # r =>
             /\ r \notin clean
             /\ runs[r].deploy => runs[RunOf(e)].by = runs[r].by

\* Of the runs of one cell, no script shows another than the last that was
\* finished, and a comparison of budgets shows each cell that has one; an
\* aborted run or a repetition of the campaign is never shown beside it.
NoneSuperseded ==
    LET Newest(row) == \A other \in Finished :
            Key(other, DOMAIN row \ {"stamp"}) = Key(row, DOMAIN row \ {"stamp"})
                => other.stamp <= row.stamp
    IN  /\ \A row \in SelectLatest(Finished, ByPolicyAndLoad) : Newest(row)
        /\ \A own \in Finished :
              /\ \A row \in OfPolicy(Finished, own.policy)
                            \cup LoadSweep(Finished, own.policy) : Newest(row)
              /\ \E row \in Cell(Finished, own.policy, own.budget, own.stamp) :
                    row.rep = own.rep /\ Newest(row)

AllSummaries == \A log \in Logs : SummaryAddsUp(log)

\* SummaryAddsUp of all logs, looked at when the campaign begins: what summarize
\* makes of the events of a run adds up, in all and by tier.
SummariesAddUp == run = 0 /\ stage = "down" /\ table = 0 /\ Up = {} => AllSummaries

\* The runner sums up a run that met idle containers and has no event left in
\* one, and nothing has failed.
SummedUpQuietly ==
    /\ stage = "fetch" /\ run \in DOMAIN summary' /\ run \in clean /\ faults' = 0
    /\ \A c \in Containers :
          run \notin {RunOf(e) : e \in handling[c] \cup Range(queue[c] \o buf[c])}

\* A run that met idle containers, and whose last event is put when the copy is
\* made, is summed up from all of its requests, if nothing fails.
QuietRunComplete ==
    [][SummedUpQuietly => summary'[run] = {run} \X (1 .. sent)]_vars

\* Without a failure no event is lost: each one a request wrote comes into S3,
\* also from a container that is replaced meanwhile.
Landed(e) == e \in EventsIn(Stored)

EventsLand ==
    \A e \in Events :
        (\E c \in Containers : e \in Range(wrote[c])) ~> (Landed(e) \/ faults > 0)
=============================================================================
