------------------------------ MODULE Pipeline ------------------------------
(***************************************************************************)
(* The resilience pipeline towards one downstream: concurrency limiter,    *)
(* retry loop, circuit breaker and fetch, shared by the static, central    *)
(* and MAS strategies.                                                     *)
(*                                                                         *)
(* Many request handlers run call_pipelined at once.  They share one       *)
(* Arc<Mutex<Pipeline>>; each lock acquisition is one step, everything     *)
(* between two acquisitions is not.  A soft reset clears the map of        *)
(* pipelines, but a call keeps the pipeline it looked up, so pipelines of  *)
(* several generations live side by side.                                  *)
(*                                                                         *)
(* This module leaves open where the parameters come from: a lookup may    *)
(* create a pipeline from any configuration, and any configuration may be  *)
(* pushed into the mapped one at any time.  AgentPipeline and              *)
(* CentralPipeline say what the two adaptive strategies do, and implement  *)
(* this specification.                                                     *)
(*                                                                         *)
(* An operator named X_Y is X with a plausible mistake Y; no specification *)
(* uses it.  It is there to show that the properties would notice.         *)
(***************************************************************************)
EXTENDS Integers, FiniteSets

CONSTANTS
  Calls,           \* executions of call_pipelined, one element per call
  Configs,         \* the parameter sets a strategy can choose
  Default,         \* the one it starts with and returns to at a soft reset
  MaxTime,         \* bound: the clock stops here
  MaxGenerations   \* bound: pipelines created by lookups

\* What a PipelineConfig says.  The delays of the retry loop are abstracted to
\* "some time later" and the request timeout to "some time later, as a failure".
ConfigType == [retries: Int, threshold: Int, openTimeout: Int, limit: Int]

ASSUME ConfigsAssumption == Configs \subseteq ConfigType /\ Default \in Configs
ASSUME CallsAssumption == IsFiniteSet(Calls)
ASSUME BoundsAssumption == MaxTime \in Nat /\ MaxGenerations \in Nat \ {0}

Generations == 1..MaxGenerations

\* The value of `mapped` when the map has no entry for the downstream.
Unmapped == 0

VARIABLES
  now,       \* now_ms(), in ticks
  created,   \* pipelines created so far
  mapped,    \* the pipeline the map holds, or Unmapped
  config,    \* generation -> the parameters its three parts run with
  state,     \* generation -> CircuitBreaker.state
  failures,  \* generation -> CircuitBreaker.failure_count
  since,     \* generation -> CircuitBreaker.last_state_change
  current,   \* generation -> ConcurrencyLimiter.current
  pc,        \* call -> where it stands in call_pipelined
  pipeline,  \* call -> the pipeline it looked up
  attempt,   \* call -> the loop variable of execute
  begun      \* call -> when its fetch began, 0 outside one (only properties read it)

breakerVars == <<state, failures, since>>
callVars == <<pc, pipeline, attempt, begun>>
pipelineVars == <<now, created, mapped, config, breakerVars, current, callVars>>

\* "dropped": the handler's future was dropped at an await because the client
\* went away (its own fetch_json timed out and closed the connection).
Steps == {"idle", "acquire", "check", "gate", "fetch", "decide", "sleep",
          "release", "done", "dropped"}

PipelineTypeOK ==
  /\ now \in 0..MaxTime
  /\ created \in 0..MaxGenerations
  /\ mapped \in Generations \cup {Unmapped}
  /\ mapped <= created
  /\ config \in [Generations -> Configs]
  /\ state \in [Generations -> {"closed", "open", "half-open"}]
  /\ failures \in [Generations -> Nat]
  /\ since \in [Generations -> Nat]
  /\ current \in [Generations -> Nat]
  /\ pc \in [Calls -> Steps]
  /\ pipeline \in [Calls -> Generations \cup {Unmapped}]
  /\ attempt \in [Calls -> Nat]
  /\ begun \in [Calls -> Nat]

-----------------------------------------------------------------------------
(* Circuit breaker.  Each operator is the primed effect of one method.       *)

\* transition(to): a transition to the present state changes nothing, so a
\* failure recorded by an open breaker does not extend the open period.
Transition(p, to, count) ==
  /\ state' = [state EXCEPT ![p] = to]
  /\ since' = [since EXCEPT ![p] = IF state[p] = to THEN @ ELSE now]
  /\ failures' = [failures EXCEPT
       ![p] = IF to = "closed" /\ state[p] # "closed" THEN 0 ELSE count]

TimeoutElapsed(p) == now - since[p] >= config[p].openTimeout

\* before_call lets the call through.
Admits(p) == state[p] = "open" => TimeoutElapsed(p)

BeforeCall_StaysOpen(p) == UNCHANGED breakerVars

BeforeCall(p) ==
  IF state[p] = "open" THEN Transition(p, "half-open", failures[p])
                       ELSE UNCHANGED breakerVars

OnSuccess_ClosesAnyState(p) == Transition(p, "closed", 0)

OnSuccess(p) ==
  Transition(p, IF state[p] = "half-open" THEN "closed" ELSE state[p], 0)

Trips_AboveThreshold(p) == state[p] = "half-open" \/ failures[p] + 1 > config[p].threshold

Trips(p) == state[p] = "half-open" \/ failures[p] + 1 >= config[p].threshold

OnFailure(p) ==
  Transition(p, IF Trips(p) THEN "open" ELSE state[p], failures[p] + 1)

-----------------------------------------------------------------------------
(* Concurrency limiter.                                                      *)

CanAcquire(p) == current[p] < config[p].limit

\* saturating_sub(1)
Released(p) == IF current[p] > 0 THEN current[p] - 1 ELSE 0

-----------------------------------------------------------------------------
(* The steps of one call.                                                    *)

Moves(c, from, to) == pc[c] = from /\ pc' = [pc EXCEPT ![c] = to]

\* Pipelines::get_or_create with the caller's configuration cfg.
Lookup(c, cfg) ==
  /\ Moves(c, "idle", "acquire")
  /\ \/ /\ mapped # Unmapped
        /\ pipeline' = [pipeline EXCEPT ![c] = mapped]
        /\ UNCHANGED <<created, mapped, config, breakerVars, current>>
     \/ /\ mapped = Unmapped
        /\ created < MaxGenerations
        /\ created' = created + 1
        /\ mapped' = created + 1
        /\ pipeline' = [pipeline EXCEPT ![c] = created + 1]
        /\ config' = [config EXCEPT ![created + 1] = cfg]
        /\ state' = [state EXCEPT ![created + 1] = "closed"]
        /\ failures' = [failures EXCEPT ![created + 1] = 0]
        /\ since' = [since EXCEPT ![created + 1] = now]
        /\ current' = [current EXCEPT ![created + 1] = 0]
  /\ UNCHANGED <<now, attempt, begun>>

Acquire_RejectedReleases(c) ==
  LET p == pipeline[c] IN
  /\ Moves(c, "acquire", IF CanAcquire(p) THEN "check" ELSE "release")
  /\ current' = [current EXCEPT ![p] = IF CanAcquire(p) THEN @ + 1 ELSE @]
  /\ UNCHANGED <<now, created, mapped, config, breakerVars, pipeline, attempt, begun>>

Acquire_Waits(c) ==
  LET p == pipeline[c] IN
  /\ Moves(c, "acquire", "check")
  /\ CanAcquire(p)
  /\ current' = [current EXCEPT ![p] = @ + 1]
  /\ UNCHANGED <<now, created, mapped, config, breakerVars, pipeline, attempt, begun>>

\* limiter.acquire(): a rejected call ends here, untouched by retry and breaker.
Acquire(c) ==
  LET p == pipeline[c] IN
  /\ pc[c] = "acquire"
  /\ \/ /\ CanAcquire(p)
        /\ Moves(c, "acquire", "check")
        /\ current' = [current EXCEPT ![p] = @ + 1]
     \/ /\ ~CanAcquire(p)
        /\ Moves(c, "acquire", "done")
        /\ UNCHANGED current
  /\ UNCHANGED <<now, created, mapped, config, breakerVars, pipeline, attempt, begun>>

Check_OneMore(c) ==
  /\ Moves(c, "check",
           IF attempt[c] <= config[pipeline[c]].retries + 1 THEN "gate" ELSE "release")
  /\ UNCHANGED <<now, created, mapped, config, breakerVars, current, pipeline, attempt, begun>>

\* The loop condition of execute, with max_retries read anew.
Check(c) ==
  /\ Moves(c, "check",
           IF attempt[c] <= config[pipeline[c]].retries THEN "gate" ELSE "release")
  /\ UNCHANGED <<now, created, mapped, config, breakerVars, current, pipeline, attempt, begun>>

\* breaker.before_call(now): a rejection ends the retry loop at once.
Gate(c) ==
  LET p == pipeline[c] IN
  /\ pc[c] = "gate"
  /\ \/ /\ Admits(p)
        /\ Moves(c, "gate", "fetch")
        /\ BeforeCall(p)
        /\ begun' = [begun EXCEPT ![c] = now]
     \/ /\ ~Admits(p)
        /\ Moves(c, "gate", "release")
        /\ UNCHANGED <<breakerVars, begun>>
  /\ UNCHANGED <<now, created, mapped, config, current, pipeline, attempt>>

\* The fetch answers, fails or times out, and the breaker records it.
FetchSucceeds(c) ==
  /\ Moves(c, "fetch", "release")
  /\ OnSuccess(pipeline[c])
  /\ begun' = [begun EXCEPT ![c] = 0]
  /\ UNCHANGED <<now, created, mapped, config, current, pipeline, attempt>>

FetchFails(c) ==
  /\ Moves(c, "fetch", "decide")
  /\ OnFailure(pipeline[c])
  /\ begun' = [begun EXCEPT ![c] = 0]
  /\ UNCHANGED <<now, created, mapped, config, current, pipeline, attempt>>

\* After a failure: sleep if a retry is left under the parameters of this moment.
Decide(c) ==
  /\ pc[c] = "decide"
  /\ \/ /\ attempt[c] < config[pipeline[c]].retries
        /\ Moves(c, "decide", "sleep")
        /\ UNCHANGED attempt
     \/ /\ attempt[c] >= config[pipeline[c]].retries
        /\ Moves(c, "decide", "check")
        /\ attempt' = [attempt EXCEPT ![c] = @ + 1]
  /\ UNCHANGED <<now, created, mapped, config, breakerVars, current, pipeline, begun>>

Wake_CountsDown(c) ==
  /\ Moves(c, "sleep", "check")
  /\ attempt' = [attempt EXCEPT ![c] = @ - 1]
  /\ UNCHANGED <<now, created, mapped, config, breakerVars, current, pipeline, begun>>

Wake(c) ==
  /\ Moves(c, "sleep", "check")
  /\ attempt' = [attempt EXCEPT ![c] = @ + 1]
  /\ UNCHANGED <<now, created, mapped, config, breakerVars, current, pipeline, begun>>

Release(c) ==
  /\ Moves(c, "release", "done")
  /\ current' = [current EXCEPT ![pipeline[c]] = Released(pipeline[c])]
  /\ UNCHANGED <<now, created, mapped, config, breakerVars, pipeline, attempt, begun>>

\* Nothing releases the permit of a dropped call.
Drop(c) ==
  /\ pc[c] \in {"fetch", "sleep"}
  /\ pc' = [pc EXCEPT ![c] = "dropped"]
  /\ begun' = [begun EXCEPT ![c] = 0]
  /\ UNCHANGED <<now, created, mapped, config, breakerVars, current, pipeline, attempt>>

\* What the task running call c does by itself, once it has its pipeline.
CallStep(c) ==
  \/ Acquire(c)
  \/ Check(c)
  \/ Gate(c)
  \/ FetchSucceeds(c)
  \/ FetchFails(c)
  \/ Decide(c)
  \/ Wake(c)
  \/ Release(c)

-----------------------------------------------------------------------------
(* What happens around the calls.                                            *)

\* Pipelines::apply: new parameters for the pipeline in the map.  Pipelines
\* that an earlier reset took out of the map keep what they have.
ApplyParams(cfg) ==
  /\ mapped # Unmapped
  /\ config' = [config EXCEPT ![mapped] = cfg]
  /\ UNCHANGED <<now, created, mapped, breakerVars, current, callVars>>

\* Pipelines::clear.  The guard on created is the bound on generations: it keeps
\* a fresh one for the next lookup.
Clear ==
  /\ mapped # Unmapped
  /\ created < MaxGenerations
  /\ mapped' = Unmapped
  /\ UNCHANGED <<now, created, config, breakerVars, current, callVars>>

Tick ==
  /\ now < MaxTime
  /\ now' = now + 1
  /\ UNCHANGED <<created, mapped, config, breakerVars, current, callVars>>

PipelineInit ==
  /\ now = 0
  /\ created = 0
  /\ mapped = Unmapped
  /\ config = [p \in Generations |-> Default]
  /\ state = [p \in Generations |-> "closed"]
  /\ failures = [p \in Generations |-> 0]
  /\ since = [p \in Generations |-> 0]
  /\ current = [p \in Generations |-> 0]
  /\ pc = [c \in Calls |-> "idle"]
  /\ pipeline = [c \in Calls |-> Unmapped]
  /\ attempt = [c \in Calls |-> 0]
  /\ begun = [c \in Calls |-> 0]

PipelineNext ==
  \/ \E c \in Calls : CallStep(c) \/ Drop(c)
  \/ \E c \in Calls, cfg \in Configs : Lookup(c, cfg)
  \/ \E cfg \in Configs : ApplyParams(cfg)
  \/ Clear
  \/ Tick

PipelineSpec == PipelineInit /\ [][PipelineNext]_pipelineVars

-----------------------------------------------------------------------------
(* Properties.                                                               *)

\* Calls of pipeline p that still run, and those that hold one of its permits.
Running(p) ==
  {c \in Calls : /\ pipeline[c] = p
                 /\ pc[c] \in {"check", "gate", "fetch", "decide", "sleep", "release"}}

Holders(p) == Running(p) \cup {c \in Calls : pipeline[c] = p /\ pc[c] = "dropped"}

\* The limiter's counter is exact in every interleaving of acquire, release,
\* reset and cancellation: one permit per running call, plus one for every
\* dropped call, whose permit is never given back (strategy/mod.rs:141-157).
PermitsAccounted == \A p \in Generations : current[p] = Cardinality(Holders(p))

\* However often the limit is changed while calls are in flight, a pipeline never
\* runs more calls at once than the largest limit allows (resilience.rs:223-227).
LimitRespected ==
  \A p \in Generations :
    Running(p) # {} => \E cfg \in Configs : Cardinality(Running(p)) <= cfg.limit

\* While a breaker is open, every fetch still under way was let through before
\* it opened: no interleaving of late results with the open period starts one
\* (resilience.rs:59-68, strategy/mod.rs:146-147).
NoFetchBegunWhileOpen ==
  \A c \in Calls :
    pc[c] = "fetch" /\ state[pipeline[c]] = "open" => begun[c] <= since[pipeline[c]]

\* A closed breaker has counted fewer consecutive failures than the largest
\* threshold: the failure that reaches it opens the breaker, even when the
\* threshold was lowered below the count meanwhile (resilience.rs:78-84).
ClosedBelowThreshold ==
  \A p \in Generations :
    state[p] = "closed" /\ failures[p] > 0 =>
      \E cfg \in Configs : failures[p] < cfg.threshold

\* An open breaker leaves that state only for half-open and only after the open
\* timeout: a success of a call admitted earlier does not close it
\* (resilience.rs:59-76).
OpenUntilTimeout ==
  [][\A p \in Generations :
       state[p] = "open" /\ state'[p] # "open" =>
         state'[p] = "half-open" /\ TimeoutElapsed(p)]_pipelineVars

\* Parameters that shrink and grow while a call sleeps between attempts never
\* make it fetch more often than the largest retry count allows
\* (resilience.rs:180-206, re-read on every attempt).
AttemptsBounded ==
  \A c \in Calls :
    pc[c] = "fetch" => \E cfg \in Configs : attempt[c] <= cfg.retries
=============================================================================
