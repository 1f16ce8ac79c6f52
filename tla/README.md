# Verification of the chaos-experiment platform

TLA+ models of the Rust workspace under `src/crates` (`chaos`, `metastable`, `demos`), checked with
TLC on small instances and, for the theorems listed below, proved with TLAPS for every value of the
constants. The repository is a port of a JavaScript research platform: micro-services that call each
other through resilience strategies, faults injected into their network, an experiment runner that
drives them seed by seed, and a discrete-event simulator of retry storms.

## Inventory of the system

| Part (source) | State | Operations | Hard behaviour |
|---|---|---|---|
| Resilience pipeline (`resilience.rs`, `strategy/mod.rs`, `strategy/pipeline.rs`) | per downstream: breaker state, failure count, time of last change; limiter counter; retry parameters | `call_pipelined`, `before_call`, `on_success`, `on_failure`, `acquire`, `release`, `update_params`, `apply`, `clear` | many calls share one mutex and take it many times each; results arrive after the breaker changed; parameters change in mid-call; permits are not released on drop |
| MAS and static strategies (`strategy/mas.rs`, `mas_strategy.rs`, `static.rs`) | parameters, the last percentile, neighbours' gossip, map of pipelines, inbound reports | decision tick every 2 s, gossip every 3 s, soft reset | the tick takes its snapshot before the agent's mutex and races with lookups and resets; gossip ages and overtakes; integer rounding of limits |
| Central strategy (`strategy/central.rs`) | parameters, map of pipelines (two mutexes); the controller keeps one observation per service | `POST /control`, soft reset, controller decision | gaps between the two mutexes |
| Backpressure strategy (`strategy/backpressure.rs`) | last gossip and failure record of each downstream | `should_throttle`, `record_local_failure`, `record_local_success`, `receive_gossip`, `reset` | decision and outcome are separate critical sections; window, probe and gossip age interact |
| Retry-only and none (`strategy/retry_only.rs`, `none.rs`) | none | fetch with or without retry | - |
| Fault injector (`faults/`) | active faults, blocked addresses, handle of the ramp task, and the kernel's `tc`/`iptables` state | inject (seven profiles), recover, recover one | handlers await commands between their bookkeeping steps; abort stops a task, not its command |
| Service and metrics (`service.rs`, `metrics.rs`) | ring of ten one-second buckets, requests in flight, PRNG | `/data`, `/metrics`, `/health`, `/experiment/reset`, `/faults/*` | soft reset with requests in flight and in two halves; slots of the ring taken over; handlers dropped before they are recorded |
| Coordinator (`coordinator.rs`) | seed under way, controller task, kill timer and its note | per seed: reset, start, schedule faults, run k6, collect | detached fault timers, failed resets are logged only, controller rounds overlap; the kill timer races with the end of k6 and with the interval it aborts |
| Experiment runner (`experiment/`) | queue of cells and list of failures (a mutex each), results directory, clusters | worker pool, `run_cluster`, tagging, resume | parallel workers share a directory; actions race with the end; the runner is killed and clusters stay up |
| Retry-storm simulator (`metastable/src/sim.rs`) | event heap, jobs, attempts, slots, queue, tick counters | fresh, retry, depart, timeout, telemetry tick | order of equal times, canceled attempts in the queue, forks of retries |
| Early-warning statistics (`ews.rs`), sweeps | rows | floating-point statistics | - |
| Demos (`demos/src`) | orders, payments, a breaker per service | order gateways with and without a saga, combine gateways, test clients with a scorecard | partial failure, retries that are not idempotent, calls that are given up and go on, lists read one after the other |
| Schema, validation, generation, topology | none | parsing, YAML text | - |

Interactions: the coordinator drives services over HTTP (`/experiment/reset`, `/start`,
`/faults/*`, `/metrics`, `/control`); services call each other (`/data`) and gossip (`/gossip`);
`chaos-run` starts clusters through the docker backends and waits for the coordinator's result file;
inside a service, request handlers, the strategy's tasks and the control endpoints share mutexes.
`PROJECT.json` lists each component with its status and every hazard with its line.

What makes each part correct: the limiter never leaks or exceeds its limit and the breaker keeps its
promises under concurrency; parameters of a decision are in force everywhere; throttling rests on
evidence and ends; kernel rules match the injector's books and recovery removes all of them; no fault
or parameter of one seed reaches the next; every answer is counted once and decisions stay within
their bounds; every cell is run once and gets its own result; a job has one chain of retries, slots
and telemetry are conserved; an order is paid once or not at all, or the scorecard says otherwise.

## Modules

| Module | Models | Specification |
|---|---|---|
| `Pipeline` | calls of `call_pipelined` over the pipelines of one downstream, any source of parameters | `PipelineSpec` (abstract) |
| `TunedPipeline` | the parameters in force, whoever sets them | |
| `AgentPipeline`, `CentralPipeline` | lookups, decisions and resets around the pipelines: under the agent's one mutex, and with the central strategy's two | |
| `Strategies` | a node with the static, the MAS or the central strategy | `Spec`, implements `PipelineSpec` |
| `Service` | the handler of `/data`, the window of metrics, soft reset of the metrics | |
| `Adaptive` | the decision rules of agent and controller on top of `Service`: snapshots, gossip, rounds, soft reset | `Spec` |
| `Backpressure` | the backpressure agent towards one downstream, concurrent handlers | `Spec` |
| `RetryStorm` | `run_trial`, one step per event | `Spec` |
| `FaultInjector` | concurrent handlers of inject, recover and soft reset on one node, the ramp task, the kernel's rules | `Spec` |
| `Coordinator` | one cell: seeds, resets, fault timers, controller rounds, the kill, late and lost posts | `Spec` |
| `CellBoard` | what a run of `chaos-run` promises | `BoardSpec` (abstract) |
| `ChaosRun` | worker threads, clusters, polling, actions, result files and labels, kill and resume | `Spec`, implements `BoardSpec` |
| `Orders` | the order demos: services, plain and saga gateway, client and scorecard | |
| `Combine` | the circuit-breaker demos: three gateways, the demo breaker, concurrent requests | |
| `Demos` | the scenarios: either family, in each of its configurations | `Spec` |
| `MC*` | instances for TLC | |
| `*Proofs` | theorems | |

### State and actions

**Pipeline.** A pipeline is a *generation*: a lookup creates one when the map has none, a soft reset
unmaps it, and calls that looked it up keep it (`Arc`). Its parameters are `config[g]` (the values
copied into retry, breaker and limiter by `update_params`), `state/failures/since[g]` are the
breaker's, `current[g]` the limiter's. A call goes through `pc`: `idle -> acquire -> check -> gate ->
fetch -> decide -> sleep -> check ... -> release -> done`, one step per acquisition of the pipeline's
mutex. `check` and `decide` are the loop condition and the retry decision of `execute`, each of which
reads `max_retries` anew. `Drop` is the cancellation of a handler at one of its awaits (the client
closed its connection); the code has no guard for the permit, so a dropped call keeps it.
Left out: totals and state history (only reported), the length of delays (a sleeping call wakes at
any time), the choice of fresh parameters. A breaker's change of state and its test are one step each, as both
happen under the lock.

**Strategies.** `strategy` is chosen when the service starts. Under MAS and static, lookup, decision
and reset each hold the one mutex throughout (`AgentPipeline`; static never decides). Under central
(`CentralPipeline`) there are `read` (the copy a call makes of the parameters before it locks the
map), `pushing` (`apply_update` is between its two locks, holding the first) and `resetting` (`reset`
is between its two locks). The parameters themselves are any of `Configs` here; how they come about
is `Adaptive`.

**Service and Adaptive.** `req[r]` is where a handler of `/data` stands; `slots` is the ring of
buckets, which a second takes over when its turn comes, and `inFlight` the counter a soft reset sets
to zero while handlers go on. What goes on inside a call is `Pipeline`'s matter; here the breakers of a
handler's calls may open and close while it is under way (`Trip`, where the pipeline records an outcome), it ends with a
set of downstreams that failed, and each strategy turns that into an answer of its own. `Observe` takes the snapshot of a decision task, `Decide` is the decision under the agent's
mutex: between the two a reset may come. `Hear` stores gossip in the order of arrival. `Round` is a
round of the controller with what it polled and whether its post arrived. The soft reset is cut where
the code awaits (`ResetBegins`, `ResetEnds`) and may be abandoned there. The rules are translated
operator by operator, in the order of the code, with floor and clamp. Timeouts are in half seconds
and multipliers in halves, so that they are integers. `young`, `leaked`, `strays`, `answered` and
`excused` are history: which handlers began since the reset, and what was answered when.
Left out: the open timeout (no rule changes it) and latencies, of which a snapshot has any percentile.

**Backpressure.** `record` is the `LocalFailures` entry; `pc[c]` of a handler is `fetch` or `probing`
while its call is out, otherwise it names the last answer. `should_throttle` is split by its outcome
into `ThrottleByGossip`, `Pass`, `PassAsProbe` and `ThrottleLocally`; each is one critical section.
`recent` and `shutSince` are history variables. Milliseconds are ticks; a tick does not pass while a
call is as old as its timeout, so a call is recorded at most `RequestTimeout` after it began: the delay between
the timer and the recording task is left out.

**RetryStorm.** `events` is the heap as a set, `Pops(e)` its minimum by `(time, seq)`; handlers are
actions with the telemetry advance included. Random draws are choices from `ServiceTimes` and `Gaps`.
Time is integral and in one unit. The latency samples of a tick are left out.

**FaultInjector.** A handler is a request with a program counter whose steps are the commands of
`Commands(request)` in the order the code awaits them; between two of them any other handler may
run. `rules` and `qdisc` are the kernel's, `blocked` and `handle` the injector's books, `ramp` the ramp tasks. A command may fail, a client
may hang up (`Drop`), and a command whose task was dropped or aborted runs on by itself (`stray`).
`tidy`, `rival` and `recovering` are history: whether a command was lost to the books or a peer partitioned twice,
whether two injections of a ramp overlapped, and which recoveries no injection disturbed.
Left out: the parameters of a fault; `cascade-crash` does nothing in a container.

**Coordinator.** `phase` is where `run_cell` stands and `wait` how long it may stay there. `timers`
are the sleeping fault tasks, `rounds` the controller's rounds that poll, `posts` the requests under
way; none of them is waited for, only the broadcast of a reset is. `Handle` is what a service does with a post:
it may happen at any time before the timeout, or never (`Lose`). A soft reset is two posts, one
after the other, since the handler awaits the recovery of its faults before it resets the strategy.
`active[s]` holds the faults in force with the seed that injected them, `params[s]` the seed whose
controller last set the parameters. The controller is an interval (`controller`) whose task, when due, is polled by some thread
(`RoundDue`) and spawns a round (`StartRound`). An abort reaches a task at its next await, so a controller that is stopped
in between still spawns that round (`spawning`). The kill timer has one await, its sleep: once that is over
(`KillFires`) it aborts the controller (`KillAborts`) and writes its note (`KillReports`) even if `LoadEnds`
aborts it meanwhile, and `Report` reads the note as it is by then. `sinceKill` (ticks since the kill) and `overtaken` (the
load test ended with the timer at work) are history. Nothing is assumed of the kill time, which no code checks.
After `Report` the rest of a timer still at work is left out, as it changes nothing: it aborts what is
stopped and notes what nobody reads. A tick is one second. The assumptions on times
(`InTimeAssumption`) are those of the shipped profiles: faults start at 35 s at the latest and a post
takes 30 s at most, while warm-up and measurement together take 75 s by default; ends
need not be in time, and the partition's (75 s) is not. `EndsAssumption`: no fault ends at 0.
`ControlAssumption`: a poll and a post together are shorter than a period of the controller and
the pause after a reset.

**ChaosRun.** A worker `w` goes through `pc[w]`: `take -> launch -> poll ... -> status -> list ->
rename ... -> teardown`, with `job[w]` its cell and `cluster[w]` the docker project of its number. The coordinator is
reduced to the files it writes (`Writes`) and how it ends. Files are records of maker, seed and label; the list
of files to rename is read first and each is renamed in a step of its own, with nothing to keep other workers out. `Killed` ends the program at any moment; its clusters stay up and go on writing. `Begins` is
the next run, with or without `--resume` and with any number of workers. Time is counted in polls. `Fate` reads the status of a cell from what the program
keeps and is the refinement mapping to `CellBoard`. `clean` is history.

**Orders, Combine, Demos.** A request is a handler in the gateway with `pc[r]`; a payment is named by
order and try, and its handler in the service (`paying`) goes on when the gateway has given the call
up (`GiveUp`), until it is done or dropped. `lost` and `unsure` are history: what got lost, and which calls were given up. The client reads the two
lists one after the other, each with or without success, and prints a verdict. In `Combine` a call of
the breaker takes the time (`Start`) before it takes the lock (`Enter`), and a failure counts its
period from that time, as the code does.

## Plan

1. Pipeline and the strategies that use it - done, proved.
2. RetryStorm - done, proved.
3. Backpressure - done, proved.
4. FaultInjector - done, proved.
5. Coordinator - done, safety proved.
6. Service and Adaptive (window, decision rules, gossip, controller, soft reset) - done, proved.
7. CellBoard and ChaosRun (workers, labels, kill, resume) - done, safety and the safety half of the
   refinement proved.
8. Orders, Combine, Demos - done, proved.

What could still be added: the binary heap of the simulator, refined into the set of events of
`RetryStorm`; SWIM's choice of gossip targets. None of the modules
with proofs uses a recursive operator; the sums in them are a recursive function (`SumTo`) and the
library's `SumFunctionOnSet`.

## Runs

| Run | Question | Bounds | Answer |
|---|---|---|---|
| `strategies` | do the promises of the pipelines survive every interleaving under each strategy? | 2 calls, 2 configurations that differ in every parameter, 2 generations, clock to 1 | `StrategyTypeOK`, `PermitsAccounted`, `NoFetchBegunWhileOpen`, `ClosedBelowThreshold`, `AttemptsBounded`, `ParamsInForce`, `OpenUntilTimeout`, `EveryCallReturns`, `ImplementsPipeline` hold |
| `central_stale` | does an update reach the pipeline? | as `strategies` | not always: `ControlReachesPipeline` is violated |
| `retrystorm` | the simulator in every order of events | 1 slot, 2 places, 3 attempts, 8 time units, service 1 or 3, patience 2, gaps 1, 2 or 7 | `OneRetryChain`, `AttemptsBounded`, `SlotsAccounted`, `WorkConserving`, `QueueConsistent`, `TelemetryConserved` hold |
| `backpressure` | does throttling rest on evidence, and end? | 3 handlers reused for ever, threshold 2, window 3, probe 2, timeout 1, clock to 6 | `OneProbeAtATime`, `ThrottledOnEvidence`, `ShutOutBounded` hold |
| `backpressure_probe` | is a probe let through every period? | as `backpressure` | not under steady traffic: `ProbesPeriodically` is violated |
| `faults` | do the books match the kernel? | 3 requests of any kind, 2 peers, a ramp of 2 steps, failing commands | `RulesAccounted`, `RampHeld` hold |
| `faults_recovery` | does recovery stop a ramp? | as `faults` | not always: `RecoveryStopsRamp` is violated |
| `cell` | do seeds stay apart, and does the cell end? | 2 services, 2 seeds, three profiles, load of 3 to 4 ticks, kill never, at 2 or at 3 | `FaultsOfOwnSeed`, `LastsUntilRecovery`, `KillReported`, `ParamsMoveForward`, `KillIsFinal`, `CellEnds` hold |
| `cell_permanent` | does a permanent fault last until the reset? | as `cell` | not if an overlay hits its service: `PermanentUntilReset` is violated |
| `adaptive` | is the window exact, and what do decisions rest on? | 2 handlers, 3 downstreams, a window of 2 s, clock to 3, 1 soft reset, limit 8 at first, percentiles 100 and 3500 ms | `AdaptiveTypeOK`, `SnapshotExact`, `QueueDepthWithin`, `OnlyOpenBreakersTighten`, `CrushedLimitStays` hold |
| `chaosrun` | is every cell run once, with the right results and verdict? | 2 variants of one prefix, one with an action, 1 seed, 1 or 2 workers, a patience of 1 poll, 2 runs | `ChaosRunTypeOK`, `OkMeansResults`, `LabelsRight`, `ImplementsBoard` hold |
| `demos` | what do the demos promise when calls fail, get lost or go on? | 2 orders in each of four scenarios; 4 requests to one service, threshold 2, open for 1, clock to 3, in each of three gateways | `DemosTypeOK`, `OrphanExplained`, `ChargeExplained`, `VerdictSound`, `RestsAfterOpening` hold |

Why the bounds suffice. In `strategies` two calls are enough for one that trips the breaker and one
admitted before it, or that holds a permit while the limit falls; two generations for a call that
outlives a reset; two configurations for a limit or threshold lowered below the current count; the
theorems of `StrategiesProofs` cover any number of each. In `retrystorm` service may outlast patience,
so attempts are served late, wait, are shed, are canceled and are thrown out; two slots change only
how many departures are pending, and the theorems cover any number; a gap of 7 lets one event close
several telemetry ticks. In `backpressure` the constants
keep the code's order timeout < probe < window, and the clock runs past `Window + RequestTimeout`. In
`faults` three requests are enough for an injection, a recovery in the midst of it and a second
injection of the same peer. In `cell` two seeds are enough, as nothing outlives more than one reset; the
constants keep what the code's have: post timeouts shorter than the load test, a controller period of
a poll and a control timeout together, and a partition that ends with the load test. A kill at 2 falls
into the load test and leaves time for what the controller began to run out, a kill at 3 is due as the
load test ends; both races of the kill timer occur, and reports of a kill that are wrong either way are among the states that
`KillReported` exempts. In `adaptive` the ring
of two seconds comes round once, one open breaker of three and two of three fall on either side of
the cap of 40 %, and two decisions are enough to come down from 8 to 6 and to try to rise; `MinRequests` is
0 instead of 5, so that one answer makes a window count. In `chaosrun`
two variants are enough for one that takes over what the other has left, two runs for one that finds
the files and clusters of another. In `demos` two orders let one order's payment stand in for
another's in the counts of the scorecard; four requests are two that open the breaker and two that are late or let in afterwards. Every property
has a mutant in `PROJECT.json`: a plausible mistake (`X_Y` beside `X`) that the same run detects.

`CHECK_DEADLOCK FALSE` is set where the bounded clock and one-shot calls let a behaviour end.

## Fairness

`Strategies` assumes weak fairness of the steps of a call that has its pipeline. The code
justifies it: no mutex is held across an await, each fetch has a timeout (`fetch_json`) and each sleep
is a timer; the mutexes protect short sections. Nothing is assumed of clients, decisions, resets
or the clock. The limiter rejects and never queues, so `EveryCallReturns` needs no more.

`Coordinator`'s `Spec` assumes weak fairness of `Proceed`: what `run_cell` and its tasks do by themselves,
each at the latest when its timeout is over, and the passing of time. Answers, healthy services
and handled posts are not assumed. Every request of the coordinator has a timeout (`post`,
`wait_for_healthy`, `collect_metrics`) and every other wait is a timer, but for k6, of
which it is assumed that it ends within `Slack`: `run_k6` waits without a limit.

`ChaosRun` assumes weak fairness of each worker's own steps and of the main thread that joins them: polls
are sleeps, a cell has a deadline, docker commands are awaited. Nothing is assumed of the
coordinators and clusters. It is what `ImplementsBoard` needs for the fairness of `BoardSpec`: every
cell that is begun ends, every waiting cell is begun, and the run concludes unless it is killed.
The other specifications state no fairness.

## Disagreements found

- **A `/control` update may miss a pipeline** (`central_stale`). A call copies the parameters, then
  locks the map. An update or a reset in between finds no pipeline to update, and the call creates
  one with the old parameters. `central.rs:100` and `pipeline.rs:64` say that existing pipelines get
  the update; this one keeps the old values until the next one.
- **No probe under steady traffic** (`backpressure_probe`). `backpressure.rs:115` lets "one probe
  through periodically", and `data-model.md:88` gives the period. Each refused call restarts it
  (`backpressure.rs:122`), so traffic faster than the period never probes; the failure window's
  expiry ends the lock-out instead, at most `Window + RequestTimeout` after its start.
- **A recovery may leave a delay behind** (`faults_recovery`). `abort()` stops the ramp task at its
  await, not the `tc` process it started, which may replace the qdisc after recovery deleted it.
  `spec.md:122` demands that a reset or recovery stops the ramp.
- **A permanent fault ends with the next `tc` fault** (`cell_permanent`). A node has one root qdisc, so
  an overlay fault replaces the base fault of its service, and recovery clears the layer. `data-model.md:32`
  calls a fault without an end permanent until the reset, and `wan-baseline.json` recommends the combination.

Met while modelling, and stated by the properties as they are in the code:

- A kill that is due as k6 ends may have stopped the controller and yet be reported as `null`, or be noted
  although the controller was stopped as after every load test (`coordinator.rs:451-468`). `KillReported` exempts
  seeds whose load test ended between the end of the timer's sleep and its note, and no others.
- A variant that fails half-way leaves files without a label, and the next variant of the same
  prefix labels them as its own; so do parallel workers. `LabelsRight` holds for a single worker
  of a run in which nothing has gone wrong.
- An action due in the last polling interval may be executed after the coordinator has exited, and
  counts (`runner.rs:167-194`).
- The rules of the decision that look at error rates never fire: services answer 200 with degraded
  results under every strategy that has these rules (`OnlyOpenBreakersTighten`). A limit of 6
  or less is never raised, since 15 % of it is rounded away (`CrushedLimitStays`).
- A soft reset forgets the handlers under way; as they end, the queue depth is too small by
  their number, until it is cut off at zero (`QueueDepthWithin`).
- The demo breaker announces one retry after its period and lets every concurrent call in; the period
  counts from before the call that failed (`RestsAfterOpening`).
- The saga gateway tells the client that an order was rolled back even if its cancellation failed; payments
  are repeated with an `Idempotency-Key` that no service reads (`OrphanExplained`, `ChargeExplained` say what can come of it).
- The scorecard counts a list it could not read as empty, and may say "consistent" of it
  (`clients.rs:265`; `VerdictSound` is about lists that were read).

Some properties are true because they leave out the very case in which the code goes wrong. What they leave
out, each by a named condition and with a note at its hazard in `PROJECT.json`: a peer that is partitioned twice
(`tidy`), and rules that an injection adds after a recovery, which count as accounted for (`RulesAccounted`); two
injections of a ramp at once (`rival`); seeds that begin with a recovery of the last one to come (`spilled`) and
faults that share service and layer (`Alone`); services whose soft reset was lost; the kill at the end of the load
test (`overtaken`); parallel workers and failed variants (`LabelsRight`); result files of an earlier run
(`OkMeansResults`); lists that were not read (`VerdictSound`). That equal times are served in the order of their numbers
is in the simulator's model, and no property depends on it.

## Proofs

`StrategiesProofs` (any finite set of calls, any configurations, any number of generations) begins with `PipelineSpec`:

- `PipelineTypes` from `Placed`: types, and "a call past its lookup has a created pipeline" (`CallsPlaced`). The
  second part is needed because a lookup resets the parts of the generation it creates: no call may
  be in there already.
- `PermitsExact`: `PermitsAccounted` is inductive together with `Placed`; the argument is about one
  element entering or leaving a finite set of holders.
- `LimitHolds`: from `PermitsExact`, as `Running` is a subset of `Holders`: only `Acquire` can enlarge it, and it compares the
  exact counter with the limit of that moment; lowering the limit removes nobody and needs the
  existential over configurations.
- `OpenMeansNoNewFetch`, `ClosedMeansBelow`: from `BreakerInv`, which adds to the two that `since` and `begun` do not
  lie in the future (`Past`): `Gate` leaves the open state in the step that begins the fetch.
- `OpenLasts`: an action property; `NotYetOpen` says that generations not yet created are closed.
- `AttemptsStayBounded`: from `LoopInv`, by which a call at its gate or fetch has not used up the
  retries of some configuration.

Then a step simulation. Each action of a node maps to one of `PipelineNext` or to a
stutter (`NodeRefines`), so the theorems above hold for nodes. The strengthening is `Known`: parameters, and those
copied by calls, are always members of `Configs`. `StrategyTypes` follows, and `InForce`:
under one mutex every mapped pipeline has the parameters in force. It fails for the central strategy.

`RetryStormProofs`: `Shape` is types, and "every event refers to something that exists, and so do the
attempts and the queue". `ChainInv` is `OneRetryChain` and `AttemptsBounded` together with "a pending retry has
attempts left"; from it `OneChain` and `AttemptsStayBounded`. `Busy`, the slots' bound with `WorkConserving`, gives
`NobodyWaitsIdly`; `SlotInv` counts the departures among the events, whose numbers lie below `seq`, and
gives `SlotsExact`. `QueueInOrder`: with `Shape`, the queue is increasing, complete and within its places;
`HandOn` is what a departure does to it, throwing out the canceled attempts in front.
`TelemetryBalances`: `Metered` says that the rows are the ticks over before the next event, `Balanced` that
the totals are what the jobs, attempts, queue and slots show. For each handler `Booked` gives the kinds it
counts and what it does to those sets: a departure that hands on discards as many canceled attempts as it takes
out of the queue. Closing ticks moves counters into rows and leaves the totals (`SumAdvances`).

`BackpressureProofs` (any calls, any threshold, window and probe period, timeout at most the probe period):

- `RefusedWithEvidence`: `Evidence` says that the last `count` failures, at most `Threshold` of them, are in the history
  and not older than the record's window. It is stronger than the property because the record may
  be full long before anyone is refused.
- `OneProbe`: `Flights` says that a fetch is younger than its timeout and that whoever was refused
  during a probe was refused after it began. `RequestTimeout <= Probe` does the rest, and is needed: a probe slower than the period would overlap the next.
- `LockOutEnds`: `ShutOut` says that during a lock-out all calls under way are older than the first
  refusal, hence no window begins later than a timeout after it.

`FaultInjectorProofs` (any finite set of requests, any peers, any length of a ramp): `FaultTypes` with
`Placed`, "a handler between two commands about a peer has that peer in hand". `RulesExact`: `RulesAccounted` is
inductive with it; the sets of handlers about to record or to delete a rule gain or lose one element
in the step that changes the rule. `RampReachable`: `RampInv`, while no two injections
of a ramp overlapped, the only ramp task is the one the handle names and none runs while another is being started.

`CoordinatorProofs` (any services, seeds, profiles and times that meet the four assumptions):

- `CoordinatorTypes`: each
  part of the state has its own lemma, and lemmas such as `TimersKept` say which actions touch it.
- `SeedsSeparate`: `SeedInv` says that a timer or post that is to inject belongs to the seed under
  way and is over before the load test ends (`BeforeLoadEnds`, where `InTimeAssumption` enters), that soft resets
  are gone when the seed starts, and that no service was reset for a later seed. The property alone is not
  inductive: it does not exclude an injection on its way through the soft reset.
- `KillIsReported`: `KillOnTime` says how timer, note and kill go together in each phase. During the load test the
  controller is there as long as the timer has not stopped it (`LoadEnds` comes before `StopController`), so
  firing, kill and note come in this order; when the load test ends with the timer asleep or
  through, note and kill agree and stay so.
- `KilledRunsOut`: `RunsOut` says that what the killed controller began has as much less time left as has passed since the
  kill. `KillIsFinal` alone is not inductive: it says nothing of a round before its time is over. A round that was being
  spawned is counted as one begun at the kill, since no time passes while a task is polled.
- `ParamsOnlyForward`: `ControlInv` bounds the life of what an earlier controller began (`Within`): a round has a
  poll and a post before it, a post its timeout, one that is being spawned (`OldSpawningEnds`) all of these, and all are over
  before the first round of this controller. `ControlAssumption` says that the pause and a period are longer. Hence from the moment
  anything belongs to the controller of this seed (`Begun`) nothing older is left.
- `FaultsLast`: `LastInv` says which recoveries are planned (one for each fault that ends, not before the load
  test: `EndsAssumption`), that one under way belongs to a fault not due any more, and that what is
  due is in force; `Aimed` and `AloneKept` that no other post touches it.

`AdaptiveProofs` (any handlers, downstreams, window, percentiles and times):

- `AdaptiveTypes`: each rule keeps the parameters integers and the final clamp brings them into the
  table (`ClampParams`, `Decided`, `Advised`); `Inv` adds `QueueDepthWithin`.
- `QueueDepths`: the difference of the counter and the handlers under way is what resets forgot and
  drops leaked; the sets of handlers gain or lose one element in the step that counts.
- `CrushedLimits`: an action property of the rules alone: of the factors, only 1.15 raises a limit,
  and `Lowers` says that floor takes it back at 5 and 6.
- `SnapshotsAreExact`: `Ring` says that a stamped bucket holds the answers of its second (`Mirrors`), and that a
  second of the window whose bucket is not stamped with it has no answers, as has one to come. A snapshot then
  has the same terms as the window, paired by the stamps, and what is left over is zero (`PairedSums`). The property
  alone is not inductive: a sum does not say which bucket an answer is in.
- `OnlyBreakersTighten`: `Calm` says that a service which hides failures has no error in any bucket, hears of none, and
  that the controller's advice is not below what the service has, as long as it missed nothing. Both decisions then take
  their loosening branches, none of which lowers a limit (`AgentLoosens`, `ControllerLoosens`).

`ChaosRunProofs` (any cells with labels of their own, any number of workers, seeds, runs, and any times):

- `ChaosRunTypes`: `Sound` adds to the types who holds a cell (`Held`: the queue, or one busy worker,
  or nobody), that only a worker that renames has a list, of its own prefix (`Listing`), and that a cluster that is
  up runs a cell. So no two workers have the same cell.
- `OkHasResults`: `Finished` adds that a worker which tears down without an error has seen all results; from there
  on the files of a label can only be renamed by a variant of the same prefix, which labels what is unlabelled.
- `LabelsNameMakers`: `AloneTidy` says that, with one worker and nothing gone wrong, what has no label yet was made by the
  cell at hand and is in its list when it renames.
- `RunnerRefinesBoard`: the safety half of `ImplementsBoard`. `Fates` reads a cell's fate off queue, jobs and failures
  (which `Held` keeps apart); each action then changes the fate of one cell (`OneMoves`) or of none (`UnmovedStutters`), or is the
  beginning, end or kill of a run. That busy workers and running cells are equally many is an injection.

Sums and order are inductions over data. The library's induction theorems take an operator, so each is by a least
counterexample: `WFMin` of the natural numbers (`Least`) gives a smallest number, or with cardinalities a smallest set
(`Smallest`), of which the claim fails, and the step excludes it. For `SumFunctionOnSet`, whose definition picks
elements by `CHOOSE`, this also shows that the recursive function exists (`PartialExists`) and that the order does not
matter (`SumAny`).

`DemosProofs` (any number of orders, requests and services, any thresholds and periods):

- `OrphansExplained`, `ChargesExplained`: `OInv` says who owns an order (`Owners`), where a request with an
  order stands (`Standing`), that payments and calls under way are numbered by the tries made
  (`Numbered`), and that what was given up is known to be unsure (`Heard`).
- `VerdictsSound`: `VInv` says that whoever was told "ok" has paid, and what the client knew when it read each list. The
  verdict compares counts; in `VerdictCounts` the client's successes are injected into the orders listed and into their payments,
  and as both lists are no longer than the successes, nothing else is in them.
- `DemosTypes`, `OpeningsRest`: `CInv` adds to the types that a half-open breaker's period is over (`Overdue`)
  and that nobody's `now` lies in the future (`Begun`).

Assumptions: those on constants only, each evaluated by TLC in every run.

Proved and in no run, since they are stronger or plainer than what the runs check: `LimitHolds`,
`PipelineTypes`, `BackpressureTypes`, `FaultTypes`, `CoordinatorTypes`, `RunnerRefinesBoard`.

Model-checked only, as they are about liveness: `EveryCallReturns`, `CellEnds`, and the half of `ImplementsBoard` that
says that runs conclude. Model-checked by their nature: the violations.

## Not modelled

- Inbound reports and the SWIM fan-out: over HTTP an inbound report is always dropped
  (`strategy/mod.rs:178-188`; `research.md:82` and `data-model.md:85` describe it as a quirk that is
  kept), so it reaches no decision; SWIM changes which neighbours get gossip, not what they do with it.
- The order of gossip by its timestamp: the code stores the last to arrive and promises no order; both
  models with gossip let older reports overtake newer ones.
- Schema, validation and compose generation (parsing and text, no state), PRNG and JavaScript number
  formatting (floating point, covered by golden files), early-warning statistics and sweeps (floating
  point), the demo clients that only print (`monitor`, `compare`), k6 and docker (external: their
  outcomes are choices), the archived JavaScript.
