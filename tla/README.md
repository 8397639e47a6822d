# Formal models of adaptive-LLM-gateway

TLA+ modules for the parts of this repository whose correctness depends on more
than one request at a time: the admission path of the gateway and the counters
it shares in Redis, the adaptive capacity controller, the token buckets, the
quota of the production path, the load of an experiment, the way events travel
from a request into its summary, and what the analysis scripts make of it. TLC checks every module on small instances; TLAPS
proves the most important properties for all of them.

To run one check, here: `tlc -config GatewayRaces.cfg MCGateway`. To check the
proofs of a module: `tlapm GatewayProofs.tla`. `PROJECT.json` lists the runs, the
source lines behind every definition, the hazards and the theorems.

## 1. The system

The service is one FastAPI process per Fargate task, several tasks behind a
load balancer, with all shared state in Redis (ElastiCache), DynamoDB and S3. A
runner on a laptop deploys it, drives it with Locust and reads the events back.

| Component | State it keeps | Operations | Module |
|---|---|---|---|
| Admission policies (`gateway/app/admission/*.py`) | none: a function of the context of a request | `decide` of seven policies | `AdmissionPolicy`, walked by `PolicyWalk` |
| Experiment path (`gateway/app/main.py`, `/v1/infer`) | per request: where it is, how long it waited, whether it is counted in the queue | `infer`, `_admit` | `Gateway`, promising `RequestService` |
| Shared counters (`counters.py`) | tokens and requests of the minute, concurrency, queue depth, tallies | `snapshot`, `record_admit`, `release_concurrency`, `record_reject`, `record_slo_violation`, `adjust_queue` | `Gateway` |
| Token buckets (`counters.py`, Lua) | tokens and time of each bucket | a look (cost 0) and a charge, on two buckets each | `TokenBuckets`, followed by `BucketOvershoot` |
| Adaptive capacity (`adaptive_capacity.py`) | shared estimate, time of its update, window counters; per process a lock and local copies | `observe`, `current_budget`, `snapshot`, `reset` | `AdaptiveCapacity`, promising `AimdEstimate` |
| Production path (`main.py` `/v1/converse`, `store.py`, `auth.py`) | a DynamoDB item per app and minute | `get_app_by_principal`, `assert_model_allowed`, `consume_quota`, Bedrock | `ConverseQuota` |
| Result writer (`metrics.py`) | a queue, the batch of its thread | `write`, `_run`, `_put`, `flush` | `Experiment` |
| Runner (`scripts/run_experiment.py`) | the run it is at, the last deployment | start with or without `--deploy`; deploy, wait, load, fetch, summarize; fail and be started again; start and stop of the background | `Experiment`, `LoadRun` |
| Load (`loadgen/scenario.py`, `traffic.py`, `locustfile.py`) | the plan; users with a tenant, a wait, a request each | `load_scenario`, `assign_traffic`, `scale_to_budget`, `on_start`, `wait_time`, `infer` | `LoadRun`, `TrafficPlan`, `OfferedLoad` |
| Background pressure (`loadgen/bedrock_background.py`) | worker threads, a stop event, a log | call, log, stop, join | `LoadRun` |
| Bedrock client (`bedrock.py`) | none | `converse_stream` | an outcome in `Gateway` |
| Tenant records (`tenants.py`, `seed_tenants.py`) | a table; a cache per process | `get_tenant`, writing the table | `Experiment`; constants of `Gateway` |
| Analysis (`analysis/*.py`) | none: functions of the files of finished runs | which runs a script shows, what a summary counts, when an estimate fell and came back | `Results`, `Summaries`, `Contraction` |
| Configuration, Terraform, CI | - | - | not modelled (section 7) |

How they interact:

* `infer` asks the tenant cache, then polls in `_admit`: read the budget
  (`settings` or `adaptive.current_budget()`), read five counters in one
  pipeline, `decide`; admit, reject, or sleep and poll again until the
  tenant's TTFT objective has passed. An admitted request charges the counters
  with one pipeline, streams from Bedrock, releases its slot and is accounted; every
  answered request is handed to the result writer.
* Tasks meet only in Redis. There is no transaction over a read of the
  counters and the charge that follows it.
* `observe` and `current_budget` both end in `_maybe_update`, which at most once
  per window moves the estimate that *all* tasks divide their load by.
* The runner starts the background process, then Locust; it waits for Locust
  and stops the background. The two loads share a plan and no clock: the
  window of the background counts from its own start.
* The runner talks to the service by HTTP for the load, and by S3 for the
  events. Only time connects the end of a load and the copy of its events.
* The analysis finds runs by the names of their directories, which the runner made
  from policy, load, budget, repetition and the second of the start.

What is hard in it: check-then-charge across tasks; pipelines that stop
half-way; tasks that die between two calls; a lock of one process around state
of all; clocks sampled before the call that carries them; attempts that are
repeated after a lost answer; batches in memory when a container is replaced;
records cached for the life of a process; copies made while events are still
under way; names compared as strings; boundaries of minutes, windows and bands. `PROJECT.json` lists these hazards at
their lines, each with the properties that would catch it or with the reason
why none does.

## 2. Modules

`Gateway.tla`. The variable `pc` of a request is the Redis call it makes next
(`poll`, `enqueue`, `leave`, `record`, `stream`, `release`, `account`), `asleep`,
or how it ended. The only `await` of `infer` is the sleep of the polling loop, and
the Redis and Bedrock clients block: from its start or a wake-up to its next
sleep or its answer a request has the event loop of its task for itself. Hence
one action per call with the local code up to the next one, and `LoopFree` in
the guards of `Start` and `Wake` only. `Poll` is the snapshot and the decision on it;
`RecordAdmit` the pipeline of `record_admit`; `StreamEnd` any outcome of
`converse_stream`; the actions whose names end in `Fails` are calls that raise
before or after Redis executed them (a pipeline: any prefix), with the `finally`
clauses they run through; `Crash` kills a task with its requests. The decision is
`Decide` of `AdmissionPolicy.tla` on the context the snapshot gives.

`RequestService.tla` is what the gateway is to its clients: requests wait, at most
one per task is served at a time, each is served or refused once, and any may
be dropped with its task. `ImplementsService` says that `Gateway` implements it.

`PolicyWalk.tla` moves the context of one request (its wait, the load of others,
its tenant's own load, the minute) within bounds, and compares what `decide`
answers before and after a change, and between tiers. It walks every policy but
`token-bucket`, which looks at the state of `TokenBuckets` only.

`AdaptiveCapacity.tla`. A step of a caller is one Redis call. `Sample` reads the
clock, `Check` takes the lock and reads `updated_at`, `ReadPrevious` and
`ReadCurrent` read the two windows, `Claim` writes `updated_at`, `ReadCapacity` and
`WriteCapacity` do the AIMD step; `ResetDelete`, `ResetCapacity` and `ResetUpdated` are
`reset()`, which takes no lock. `cap` and `updated` are the shared keys (`None`
when absent), `localCap` and `localUpdated` the copies of each process. `overtaken` is history:
the callers that a reset has written since they last read the time of the last update. A product
that has no exact binary representation may fall one below its floor
(`Scaled`). `AimdEstimate.tla` is the promise: an estimate in its range that moves
at most once per window by one multiplicative step, until a reset; from then on the range is all it promises.

`TokenBuckets.tla`. A turn of a task is a look at the tenant's and the platform's
bucket, the decision, and a charge of both; `at` is the time sampled for each
call, up to `MaxDelay` ticks old when Redis executes it. `Eval` is the Lua
script. `used` is Redis's own time of the last call, which the expiry counts
from. `since` and `paid` are history: what charges took from a moment on that `Watch`
chooses.

`ConverseQuota.tla`. One action per call of a request; the table keeps a count of
requests and tokens per app and minute. `ConsumeLost` is an attempt whose answer
is lost: executed or not, tried again until `MaxTries` attempts are used up, then
an error. A 429 and a charge are distinguished from a charge that nobody
confirmed.

`BucketOvershoot.tla` is `TokenBuckets` with a history: which turns were robbed or
overtaken between their look and their charge. It adds no step.

`Experiment.tla`. `stage` and `next` are the runner's loop over the cells of a
campaign; `runs` has every run that got a name, with whether its runner deploys, the deployment
it is measured on and the state of the tenants table when it got its name. `Start` is a runner
started for what is left of the campaign; `deploying` is its `args.deploy and not
args.skip_deploy`, which it keeps for all its runs. `Deploy` names a run and applies its settings
if the runner deploys and its last deployment had another key; `Abort` is any exception or a
Ctrl-C; `Fetch` copies what lies under the run in S3, or a part of it when
`aws s3 sync` fails, and sums it up. A runner has one budget; the next cell is its own or that of
another one. `Seed` writes the tenants table again, at any moment. Before the first deployment the service
runs containers of deployment 0, of unknown settings. Containers are launched
and retired by the service, each with its cache of records (`Lookup`), a request set
in hand and a `ResultWriter`: `Take`, `Idle` and `Flushed` are the thread's three ways
out of `get`, `Flush` is the `atexit` handler.

`Results.tla` is `select_latest` with the keys each script calls it with. Names are compared
as strings: within a policy and repetition that order is given by the tags of load and budget
(`TagOrder`) and then by the stamp. `Experiment` extends it, so that the rows
are those a campaign can leave behind.

`Summaries.tla` (`summarize`, `_pct`), `TrafficPlan.tla` (`_apply_skew`), `OfferedLoad.tla`
(`load_scenario`, `scale_to_budget`, the choice of a prompt, the victim's burst and the least rate
of `wait_time`) and `Contraction.tla` (`bin_trace`,
`contraction_metrics`) are functions: no state of their own. Their inputs are constants
(`Logs`; `TenantCounts`; `Scenarios`, `Fleets`, `LoadPcts`, `Moments`; `Traces`), of which an
assumption says what they look like. A property is stated for one input; `Experiment` extends the
first and `LoadRun` the others, and `SummariesAddUp`, `PlansAsNamed` and `TracesDated` ask it of
all inputs when a campaign or a run begins. For TLC the inputs are small ones, for the proofs any. A trace gives the estimate at each moment, and
for each request when it came and when its event got the estimate (`stamp`): at the decision of a refused
one, after the stream of an admitted one (`main.py:204` and `261`). `LogOf` is the log that leaves behind.

`LoadRun.tla`. One run: the plan (`EndOf`, `PhaseAt`, `Scaled`, for a full or a
smoke run), the users of Locust and the background process. Users are greenlets:
`Assume` ends at the answer of STS and `Register` is the rest of `on_start`, which
gives way to nobody. A user goes `ready`, `calling`, `waiting`; the wait is that of the phase
in which the answer came, and never longer than at the least rate of 0.05 requests a minute (`Floored`). Workers are threads: `Begin`, `Reply` and `Log` are cut
at the call and at the lock. `Terminate`, `Kill` and `Waited` are
`_stop_background`; `Terminated` and `Killed` are the operating system. `EndLoad` may
come before `--run-time`, as the runner goes on after a failed Locust too.

The modules whose names end in `Proofs` hold the theorems (section 5): `GatewayProofs`,
`AdaptiveProofs`, `ConverseProofs`, `BucketProofs`, `PolicyProofs`, `ExperimentProofs` and
`LoadProofs`, each about the module it extends, and `SumProofs` with the lemmas on sums and
finite sets. Each theorem of the first seven
stands next to the invariant and the lemmas it rests on.

Every `MC` module only names the constants and inputs of the small instances. Operators whose
comment describes a defect (`PollReturnsQueue`, `RefilledUncapped`, ...) are mutants:
a mapped definition is replaced by one of them to see that a property notices,
and no specification uses them.

## 3. Runs

| Run | Properties | Shows |
|---|---|---|
| `PolicyBands` | `TierOrder`, `PatienceHelps`, `LoadOnlyTightens` | over every load a budget of 10 tokens allows: a better tier never fares worse, waiting longer never makes a decision worse, more load never makes it better except within the reserved share, and a tenant that uses more itself is never admitted for it |
| `GatewayRaces` | `TypeOK`, `QuotaOvershootBound`, `RpmOvershootBound`, `ChargedUpward`, `ConcurrencyLedger`, `QueueLedger`, `OutcomeLedger`, `ImplementsService` | two tasks, three requests, one fault, `tpm`, `rpm`, `slo-aware` and `adaptive-slo` with a moving budget: a tenant's limits are overshot by at most one request or estimate per *other* task; half-executed charges are never undercharges; the three ledgers in Redis exceed the truth only by requests that died |
| `GatewayPlatform` | `PlatformOvershootBound` | two tasks, two requests of each of two tenants, each estimate as large as the budget, `tpm` and `slo-aware`: `tpm` exceeds the platform's budget by at most one estimate per other task and reaches it (12 of 6), `slo-aware`, which ignores the estimate, its hard ceiling by less than one estimate per task and comes as close as whole requests can (18, below 18.6); all four together would be 24 |
| `GatewayLive` | `EveryRequestEnds` | one task, fairness: no request polls for ever |
| `AdaptiveOneTask` | `EstimateInRange`, `ClaimStillDue`, `ImplementsEstimate` | two threads of one task, a reset, a restart, an idle day, inexact products: until the reset one step per window, each a transaction; with it the estimate keeps its range, and only an update that the reset overtook is claimed when it is not due |
| `AdaptiveTwoTasks` | `ClaimStillDue` *violated* | two tasks claim the same window |
| `AdaptiveHealthy` | `IncreaseOnlyWhenHealthy` *violated* | a busier window hides a 429 |
| `ConverseCalls` | `QuotaHolds`, `PaidBeforeInvoked`, `RefusedOnlyWhenFull`, `EveryCallEnds` | four requests of two apps (one with limits of zero), two attempts each, two minutes |
| `BucketTurns` | `PaidWithinRate`, `NeverOverdrawn`, `PaidUnlessSpoilt` | two tasks, calls up to a minute late, failures, expiry: no token is created, and a request is streamed unpaid only when another task took the tokens or came in with a later time |
| `LoadAndPressure` | `TypeOK`, `OneUserPerTenant`, `OfferedWithinPlan`, `PlanFits`, `BackgroundAccounted`, `PlansAsNamed`, `TracesDated`, `RunEnds` | two tenants, a burst in the second of three phases, a victim below the least rate but for its burst, two workers, a full and a smoke run: no tenant is offered twice, nobody offers more than its plan or the least rate, the shortened plan has no gap, and the run ends with the pressure gone and logged but for one call a worker. The skew is the planned one for 10 to 100 tenants; what a run offers is the load it is named for, or the rate its file gives, with the victim's burst and what the least rate adds on top; the dates of a contraction are early by at most a bin and the latency of an answer, and late by less than a bin |
| `CampaignRuns` | `TypeOK`, `OrderKept`, `CountedOnce`, `NoneSuperseded`, `SummariesAddUp`, `QuietRunComplete`, `EventsLand` | a cell, the same cell again and another cell, two containers, one fault (of a put, a request, a container, a copy or the runner): events are counted once, are pooled only from containers that were still busy, and all arrive; a run met by idle containers is summed up completely; no script shows a superseded run; what is good and throttled at once was cut off by a 429 after it had begun in time |
| `CampaignDeploys` | `RightSettings`, `FreshRecord` | two policies under one budget and a third cell, three containers, one fault, a table written at any moment, runners with and without `--deploy`: a run of a runner that deploys is decided under the settings of its name; no request is decided on a table older than the deployment or newer than the run |

The types of `AdaptiveCapacity`, `ConverseQuota` and `TokenBuckets` are proved (section 5) and not
checked again.

The two violations are disagreements between a sentence of the repository and
its code; `PROJECT.json` quotes them under `findings`. In short:

* `_maybe_update` says "Claim this window update", but reads and writes the time of
  the update under a lock of the process. Two Fargate tasks step twice per window:
  at a 429 the estimate is multiplied by beta squared.
* The docstring raises the estimate "when recent traffic is healthy"; only the
  busier of two windows is asked.

Other disagreements have no run; what is left of the sentence is checked instead.

* `reset` is to "force C-hat(0) = C0" before a repetition, but takes no lock: an update that has read
  the estimate writes its step from the old one over C0. The runner checks `/health` once after the reset
  and cannot see a step that is written later, or by a task that is just answering a late request.
  `ClaimStillDue` says which updates a reset may disturb.
* The token bucket "refills at tenant/platform quota per minute" (`token_bucket.py:5`),
  but a charge that the tokens no longer cover is refused by the script, ignored by the
  caller and streamed. `PaidWithinRate` is about what charges took, not about what
  was admitted; `PaidUnlessSpoilt` says when the two part. One way is unexpected: a
  mere look (cost 0) that carries a later time caps the bucket at its brim, so that a charge with
  an earlier time finds less than it saw, although nobody took anything.
* At a pressure of 1.1 and more `slo_aware.py` promises a hard shed, but looks at the tenant's own
  quota and concurrency first and queues a tenant over them. `LoadOnlyTightens` shows that
  nobody is *admitted* for having used more.
* "Requests are not pooled across repetitions" (`compare_matched_windows.py`), but a batch that
  spans two runs is filed under the first, and `aws s3 sync` may leave any part of a run
  behind without a word. `CountedOnce` and `QuietRunComplete` say when
  a summary is what it seems. A pooled event also is the first arrival of its run, and shifts
  the window that is counted from it.
* "Latest run per (policy, repetition) (based on timestamp in run folder name)" (`visualize.py`): whole
  names are compared, in which the tags of load and budget come before the stamp. With runs of
  several budgets the one shown is that of the greater tag ("-c2M" over "-c100k", no tag over any),
  newer or not. `visualize.py` also keeps one run per load and averages them in one row. `NoneSuperseded`
  is about runs of one cell. Runs with adaptive tags ("-a0.15-b0.7-w15") do not match
  the pattern and are never shown.
* The estimate of a run that never contracted still gets a recovery date: the first bin after the
  pressure that holds 90 percent.
* Without `--deploy`, or with `--skip-deploy`, the policy and the budget in the name of a run are
  taken from the arguments, whatever is deployed. `RightSettings` is about runners that deploy.
* Limits that `seed_tenants.py` writes during a campaign reach a container when it next looks up the tenant
  for the first time: requests of one run may be decided on several versions of the table. `FreshRecord` says which.
* "Offered TPM is about load_frac x C" (`traffic.py:117`) is for the rates the file plans. Token phases choose other prompts
  than those that were scaled for, and the least rate lifts tenants that a low percentage takes below 0.05 requests a
  minute. `PlansAsNamed` bounds both.
* The estimate of an event is that of the end of its stream, its bin that of its arrival: a contraction may be dated
  before it happened, by the longest answer.
* 14 or 24 tenants leave one over, which is given a twentieth on top: the shares sum up to 105 percent. The scenarios
  have 10 and 100.
* A scenario with `rpm`, or a smoke run with `smoke.rpm`, offers this rate whatever `load_pct` its name
  carries; a smoke run of `load_sweep.yaml` is the same load five times. `mix` in `priority.yaml` changes the rates
  of the tiers, not how many tenants are in each.
* `compare_static_cmax.py:89` counts the P99 of a run without an admitted request as 0, the other scripts leave it out.

### Bounds, and why they are enough

* Two tasks show every race of a read and a write by another; the bounds that
  grow with the number of tasks are proved for every number (section 5) or
  stated with it. Three requests are one more than the tasks, so that
  one is queued while both are busy and runs after either. The platform's counter needs two tenants, so that no
  quota stands in front of it, and estimates with which the bounds are passed if one request more were admitted.
* Limits are a few tokens and an estimate between 1 and 6: every limit is undercut,
  met exactly and exceeded by one race.
* `MaxFaults` is 1: one failed call, half pipeline or dead task at any point.
  The ledgers count one leak per dead request, so that a second fault adds a
  second term and no new case. `GatewayLive` runs with the fault too.
* `TickMs` is a whole objective, or half of one where the slack of a request decides (`GatewayPlatform`): before, at and after the timeout. `MaxTicks`
  is the last tick at which something is still compared.
* The clock: `MaxTime` is three windows and a half of AIMD, in which an update, a reset, a restart and the update
  after it have their place; three minutes of buckets, as an expiry takes three; `MaxMinute` is one change
  of the minute in `ConverseQuota`.
* `MaxObservations`: two or three outcomes fill two windows with each combination of
  good and bad. `MaxResets`, `MaxRestarts`: one each.
  That the estimate keeps its range with several tasks is proved, not run.
* The load: a wait of two ticks, and of the victim one of four that its burst halves in a phase of three, under
  a longest wait of three, so that a wait that began in one phase ends in the next, and the least rate binds
  outside the burst and not in it; one tick until Locust is
  up; four of six ticks for the smoke run, which no width divides. Three calls
  of two workers: one worker calls twice.
* Campaigns: in `CampaignRuns` a cell, the same cell again (no deployment between them), then one of
  another load and budget, whose tags order against their stamps; batches of two, one
  event per run, so that a batch may hold two runs; two containers, so that one is replaced. In `CampaignDeploys`
  two policies under one budget, which one runner measures, then another budget; three containers, so that two are replaced;
  the table is written once, at any moment. One fault is also one restart of the runner.
* Skews: every number of tenants from 10 (below, there is none) to 100. Scenarios: each
  combination of a rate, a smoke rate, a prompt class, token phases, a victim and burst phases, with one tenant of each
  tier, at 0, 50 and 150 percent; a rate may be below the least one, and be lifted above it by its burst. Traces: one event
  per second but for a gap, in nine bins of two seconds, some stamped two seconds late, an estimate that falls by 30 percent
  twice at any time around the pressure and returns in two steps around its end or never. Summaries: all logs of up to three events of two tiers,
  which have different objectives. These bounds are for TLC only, as the proofs have none.

`CHECK_DEADLOCK FALSE` where behaviours end: all requests answered, all runs
done, the clock at its bound, a request's walk at its bounds.

### Symmetry

Tasks are interchangeable, and so are `r2` and `r3` (same tenant, same estimate); in `GatewayPlatform`, where all estimates
are equal, so are the two requests of each tenant.
Runs with liveness use none.

## 4. Fairness

* `Gateway!FairSpec`: weak fairness of the calls of a request (Redis and Bedrock
  answer or time out) and of time; strong fairness of `Start` and `Wake`, as the loop
  is taken and freed all the time and asyncio runs callbacks in the order they
  became ready. No fairness of faults, minutes, budgets or expiry.
* `ConverseQuota!FairSpec`: weak fairness of the steps of each request: the SDK
  gives up after a bounded number of attempts.
* `LoadRun!Spec`: time passes, Locust starts and keeps `--run-time`, the runner
  goes on, its wait of 45 s runs out and SIGKILL works. Nothing of users, workers, Bedrock
  or SIGTERM.
* `Experiment!FairSpec`: weak fairness of the writer's thread alone. That Locust, the runner or the
  service go on is not assumed.

## 5. What is proved

For any number of tasks, requests, tenants, apps, containers and users, any limits and
campaigns, and any length of a behaviour, from the named assumptions on the constants only
(`SystemAssumption`, `LimitAssumption`, `CallerAssumption`, `RangeAssumption`,
`AppAssumption`, `BucketAssumption`, `CampaignAssumption`, `TagAssumption`,
`ScenarioAssumption`, `BoundsAssumption`, `SummaryAssumption`, `CountAssumption`, `LoadAssumption`,
`ContractionAssumption`, `TraceAssumption`; TLC evaluates them in the runs). Every safety and action property of
the runs that pass is proved, `ClaimStillDue` and `ImplementsEstimate` for one task
(`OneTask`) and `NoneSuperseded` for campaigns of one load per cell (`Comparable`).

* `SumProofs` has what the others share: a non-empty set of subsets of a finite set has a
  smallest member, so that the recursion of `MapThenSumSet` has a solution (otherwise there
  would be a smallest set without one) and a sum grows with its terms. No induction
  rule is needed, and none of the installed provers could use one. The recursion picks the terms in
  an order of its own; a smallest set with another sum shows that any member may come first (`TotalPick`),
  and from that follow the sums of scaled, of equal and of the same terms, and that
  counting a set group by group counts all of it (`CountByGroup`).
* `GatewayProofs`:
  * `OneRequestPerLoop` (a task has at most one request between two sleeps) carries the
    bounds. None of them is inductive: each is strengthened to count what is
    charged together with what admitted requests are about to charge. A request is admitted only
    below the limit, and every request admitted before and charging later holds
    the loop of a task of its own. `QuotaOvershoot` counts tokens per tenant,
    `RpmOvershoot` requests per tenant, `PlatformOvershoot` tokens of all tenants, where a request
    of any tenant competes and the ceiling of `slo-aware` leaves room for one estimate more.
  * `ConcurrencyAgrees`, `QueueAgrees`, `OutcomesAgree`: `LocalInv` says which program points go
    with which flags of a request; over it every step moves each counter and the set of
    requests it counts by the same request, or makes a request dead (`Recount`). One
    lemma about cardinalities then keeps all ledgers.
  * `NeverUndercharged`: a charge that stops half-way has written the platform's key first, so that the
    sum over the tenants follows it.
  * `ServesCallers`: `Gateway` implements `RequestService`. `Advance` lists how the program
    point of one request may move; each such move is a step of the service or a stutter,
    and the pool has a server free because of `OneRequestPerLoop`.
* `AdaptiveProofs`: types; the estimate every task divides by is in `CMin .. CMax`
  (`BudgetInRange`: a step is bounded before it is truncated, and truncation of a
  value of at least an integer bound does not cross it). With one task (`OneTask`):
  `ClaimsAreDue`, as whoever is between check and claim holds the lock, so that the time of the last
  update is the one it checked, unless a reset wrote it since (`overtaken`; a restart does not, as it ends the update with
  its task); and
  `OneTaskEstimates`, as, until a reset, a claim promises what it will write (`Promise`) and the copies of the
  process agree with the shared keys or were made anew (`Copies`). With two tasks both fail, as
  `AdaptiveTwoTasks` shows, and after a reset a step need not start from the estimate.
* `ConverseProofs`: types; `QuotaBound` (the condition is evaluated with the
  update, so that requests stay within `rpm_limit` and tokens within one estimate of
  `token_limit`, but for the first request of a minute); `NoFreeInvocation` (the
  charges of a minute are at least the requests that may call Bedrock on them,
  by cardinality); `RefusalsTrue`.
* `BucketProofs`: types; `NoDebt`; `PaidBound`. The inductive invariant is `Timely`
  (a call is at most `MaxDelay` late), `Solvent` (a bucket was not in debt, by Redis's
  time, when it was last used, so that it is full when it expires) and
  `Sold` (the bound holds at every time that a call still to come may carry).
  `PaidUnlessSpoiltHolds`: what a look found stays in both buckets until the charge
  (`Stands`), through the calls and half-pipelines of the others that do not spoil it.
* `PolicyProofs`: `TiersOrdered`, `WaitingHelps`, `LoadTightens`. A context with more load passes
  fewer of the tests the policies are made of (`HeavierTests`), and each policy is
  ordered in its tests. The products of limits, shares and pressures are monotone for all numbers.
* `ExperimentProofs`: `SettingsRight` and `RecordFresh`. `Settings` says what the runner may believe: its key is that of the
  last deployment; once there is load, containers in service are of this deployment; and each run of a runner that
  deploys is founded on a deployment of its own key, no run on a younger one or a newer table than a later run (`Founded`). A request in hand or
  answered is of a run founded on the deployment of its container (`ServedRuns`), and a container's record was
  read between that deployment and now;
  `OnceCounted` (an event is in one place of the writer at a time, and in one batch in the end;
  a container that was idle when the load began puts no older event in front); `OrderStays` (the
  concatenation of the batches, the buffer and the queue is what was handed over); `QuietComplete`
  (nothing that was written is anywhere but in a batch in S3); `NewestShown`, for a campaign that measures a
  policy with a budget under one load (`Comparable`): the keys the scripts use to compare budgets
  leave the load out, and without it the statement is false; `SummariesSound`: each number of a summary counts a set of
  lines, of which the tiers are groups; and among the values with enough others at or below them the one with the fewest
  has too few below it, so that there is a value at each place of the sorted list (`PlaceTaken`), and the
  two sides of a percentile follow from its place.
* `LoadProofs`: `PlanAlwaysFits` (a cut plan is monotone as the quotient is); `TenantsShared` (the
  index is the number of users registered); `PlanIsKept` (`Due`: by the time a waiting user wakes, the plan
  has allowed it one more request, either in the phase it fell asleep in or, past the end of that,
  as the first of a later phase; the longest wait is never above that of the plan with it); `CallsAccounted` (what was issued
  and is not logged is in the hands of a worker). `PlansKept`: three roundings of tenths, halves to the even neighbour, miss
  the number of tenants by one at most, and where they exceed it the last group is the one that was rounded up
  (`SizesAre`), so that no group is empty; the factor of a scenario cancels in the sum over its tenants where the
  prompts scaled for are the prompts posted, and where they are not the planned load is a mean of ratios, which one of the tenants is not above
  and one not below (`Mean`, `PlannedRight`); tenant by tenant the posted rate is the planned one, its burst on top, or the least one (`PostedRight`).
  `TracesRight`: a bin passes only if the estimate did at the stamp of one of its events, and passes if it did at all of them
  (`Extremes`, `Tests`); stamps are at most `Latency` after the bin, and as no bin is empty the first that begins after the change is there (`NextBin`).

The attempts corrected the models. `AimdEstimate!Abandon` allows the fall back to `C0`:
a task replaced between a claim and its step, whose shared key has expired meanwhile, starts from `C0`.
`AdaptiveOneTask` now has a `C0` and a `CMax` that show this. The arms of `EndOf` in `LoadRun` overlapped
for the start of a full run. The assumptions on the constants of `Experiment` and `LoadRun` were too weak for their types,
and say now what the scenario files and the runner give: a first phase, a window within
the run, a tag for each cell. A load of 0 percent, which `scale_to_budget` returns on at once (`traffic.py:120`), leaves the
rates as they were: `BudgetFactor` has this, and `OfferedAsNamed` promises nothing of it. A return is dated only if a bin
fits between the end of the pressure, not only the return, and the last request. Each tier has an
objective of its own in `Summaries`, and a first token within it may still come too late, as the time in the queue counts too.

Only model-checked, because the prover cannot do it:

* Liveness (`EveryRequestEnds`, `EveryCallEnds`, `RunEnds`, `EventsLand`): fairness and ENABLED.
* The two violations, whose behaviours are TLC's counterexamples.

## 6. Abstractions

* A pipeline that succeeds is one step: five short commands of one client on one
  slot; one that fails applies any prefix. The window counters of AIMD are
  written one by one, as the code does.
* The minute of a read or a charge is the one at which it reaches Redis. Between
  decision and charge it may change.
* `waited` counts ticks; `wait_ms` is read before the counters in the code and
  together with them here.
* `StreamEnd` chooses whether the objective was met, if the time spent queued
  allows it. Tokens Bedrock reports are data of the event only.
* Probabilities, token counts of real prompts and wall-clock times are not
  modelled; nor is skew between the clocks of tasks, except as lateness of bucket calls.
* The fraction that the local copy of the estimate keeps is dropped; it is used
  only when the shared key is gone.
* `IdleDay` stands for a day without a request: it deletes the shared keys at once.
* An item of DynamoDB is kept to the end: its expiry is two minutes and more after
  its minute, when it is not read again.
* Nothing is known of the deployment 0 the service may have before a campaign; containers of it serve the runs of
  runners that do not deploy. The adaptive options of `deploy_key` are those of a runner, like its budget, which
  stands for them. A runner that ends gives way to another one that starts at the next run, or at the run that failed; `Abort` stands
  for every exception that ends the runner. The stamp of a run is its number: the runner is
  one process, and two runs never start in one second.
* The tenants table has a version, not limits: which limits changed does not matter to who sees them.
* A bin's average is compared by cross-multiplication. Every request of a trace has an estimate, as under `adaptive-slo`. No bin
  within the time of the requests is empty (`Legible`), which gives the dates a bound. Estimates are integers, whose means the code computes exactly here. The products
  `n * frac` of `traffic.py:82` and `q * (n - 1)` of `metrics.py:59` are exact in the models; in floats they round and
  truncate to the same integers for every `n` up to 100 000, which was tried by computing both. A run of `aws s3 sync` that fails leaves any part of the files.
* In `LoadRun` the rates are constants (`BaseWait`, `MaxWait` for the least one), waits are whole and divided exactly by a burst, and the prompt of a request is left out;
  `TrafficPlan` and `OfferedLoad` have both, with rates as fractions of integers. Random draws are any choice within
  their bounds. The two readings of the clock for the class and the tokens of a prompt are one:
  a request sent at the edge of a phase may carry the class of one and the tokens of the next. The fractions of a smoke run are exact in `Smoked`;
  in floats the last of seven phases may end a second early, and a time after
  the last phase counts as of the last. `wait(timeout=10)` after a kill does not run out.
* The order of the events of different containers in S3 is not modelled, as
  `summarize` does not depend on it.

## 7. Not modelled

`usage.py` (output only), `MemoryCounters` (one critical section per operation), the
means, deviations, tables and figures of the analysis (floating point and layout over files), the
counting of tokens and single calls by hand, Terraform and CI (declarative).
Within modelled parts, the parsing of payloads, SigV4 and the formatting of
run names are left out.

## 8. Plan

Done, in this order: policies; gateway; AIMD; production path; buckets; campaign; load;
tenant records and the runner's restarts; the choice of runs, summaries, traffic and
contraction; the proofs of section 5, at last those about the functions of `Summaries`, `TrafficPlan`,
`OfferedLoad` and `Contraction`.
Next:

1. What `AimdEstimate` may promise again once a reset and the updates it overtook are over.
2. Composition of `AdaptiveCapacity` and `Gateway`: the budget that a request was
   decided on against the one its bucket is charged with, and the estimate moving
   because of what the gateway observes.
3. The prompt of a request at the edge of a phase (`locustfile.py:127` and `129`).
