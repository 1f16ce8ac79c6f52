-------------------------- MODULE StrategiesProofs --------------------------
(***************************************************************************)
(* Proofs about Pipeline, for any number of calls, parameter sets,         *)
(* generations and clock values, and that every strategy with pipelines    *)
(* implements it: a step of the node is a step of Pipeline or leaves the   *)
(* pipelines alone.  With it the theorems of Pipeline hold for the node.   *)
(***************************************************************************)
EXTENDS Strategies, FiniteSetTheorems, TLAPS

-----------------------------------------------------------------------------
(* Types, and where a call stands.                                           *)

\* A call has a pipeline exactly when it has left "idle".
CallsPlaced ==
  \A c \in Calls : IF pc[c] = "idle" THEN pipeline[c] = Unmapped
                                     ELSE pipeline[c] \in 1..created

Placed == PipelineTypeOK /\ CallsPlaced

BreakerTypeOK ==
  /\ state \in [Generations -> {"closed", "open", "half-open"}]
  /\ failures \in [Generations -> Nat]
  /\ since \in [Generations -> Nat]

LEMMA TransitionTypes ==
  ASSUME PipelineTypeOK, NEW p \in Generations,
         NEW to \in {"closed", "open", "half-open"}, NEW count \in Nat,
         Transition(p, to, count)
  PROVE  BreakerTypeOK'
  BY BoundsAssumption DEF BoundsAssumption, BreakerTypeOK, PipelineTypeOK, Transition, Generations

\* What the steps of a call have in common.
LEMMA CallFrame ==
  ASSUME Placed, NEW c \in Calls, CallStep(c) \/ Drop(c)
  PROVE  /\ pipeline[c] \in Generations
         /\ pipeline[c] \in 1..created
         /\ pc[c] # "idle"
         /\ \E s \in Steps \ {"idle"} : pc' = [pc EXCEPT ![c] = s]
         /\ UNCHANGED <<now, created, mapped, config, pipeline>>
<1>1. pc[c] # "idle"
  BY DEF CallStep, Acquire, Check, Gate, FetchSucceeds, FetchFails, Decide, Wake, Release, Drop, Moves
<1>2. pipeline[c] \in 1..created /\ pipeline[c] \in Generations
  BY <1>1, BoundsAssumption DEF BoundsAssumption, Placed, PipelineTypeOK, CallsPlaced, Generations
<1>3. \E s \in Steps \ {"idle"} : pc' = [pc EXCEPT ![c] = s]
  BY DEF CallStep, Acquire, Check, Gate, FetchSucceeds, FetchFails, Decide, Wake, Release, Drop, Moves, Steps
<1>4. UNCHANGED <<now, created, mapped, config, pipeline>>
  BY DEF CallStep, Acquire, Check, Gate, FetchSucceeds, FetchFails, Decide, Wake, Release, Drop
<1> QED
  BY <1>1, <1>2, <1>3, <1>4

LEMMA CallStepTypes ==
  ASSUME Placed, NEW c \in Calls, CallStep(c) \/ Drop(c)
  PROVE  Placed'
<1>1. PICK s \in Steps \ {"idle"} : pc' = [pc EXCEPT ![c] = s]
  BY CallFrame
<1>2. /\ pipeline[c] \in Generations
      /\ pc[c] # "idle"
      /\ UNCHANGED <<now, created, mapped, config, pipeline>>
  BY CallFrame
<1>3. pc' \in [Calls -> Steps]
  BY <1>1 DEF Placed, PipelineTypeOK
<1>4. CallsPlaced'
  BY <1>1, <1>2 DEF Placed, PipelineTypeOK, CallsPlaced
<1>5. BreakerTypeOK'
  <2>1. CASE UNCHANGED breakerVars
    BY <2>1 DEF breakerVars, BreakerTypeOK, Placed, PipelineTypeOK
  <2>2. CASE Gate(c)
    BY <1>2, <2>1, <2>2, TransitionTypes DEF Gate, BeforeCall, Placed, PipelineTypeOK
  <2>3. CASE FetchSucceeds(c)
    <3>1. state[pipeline[c]] \in {"closed", "open", "half-open"}
      BY <1>2 DEF Placed, PipelineTypeOK
    <3> QED
      BY <1>2, <2>3, <3>1, TransitionTypes DEF FetchSucceeds, OnSuccess, Placed
  <2>4. CASE FetchFails(c)
    <3>1. state[pipeline[c]] \in {"closed", "open", "half-open"} /\ failures[pipeline[c]] + 1 \in Nat
      BY <1>2 DEF Placed, PipelineTypeOK
    <3> QED
      BY <1>2, <2>4, <3>1, TransitionTypes DEF FetchFails, OnFailure, Placed
  <2> QED
    BY <2>1, <2>2, <2>3, <2>4 DEF CallStep, Acquire, Check, Decide, Wake, Release, Drop
<1>6. current' \in [Generations -> Nat]
  <2>1. current \in [Generations -> Nat] /\ current[pipeline[c]] \in Nat
    BY <1>2 DEF Placed, PipelineTypeOK
  <2> QED
    BY <1>2, <2>1 DEF CallStep, Acquire, Check, Gate, FetchSucceeds, FetchFails, Decide, Wake,
                      Release, Released, Drop
<1>7. attempt' \in [Calls -> Nat]
  BY DEF CallStep, Acquire, Check, Gate, FetchSucceeds, FetchFails, Decide, Wake, Release, Drop,
         Placed, PipelineTypeOK
<1>8. begun' \in [Calls -> Nat]
  <2>1. now \in Nat /\ begun \in [Calls -> Nat]
    BY BoundsAssumption DEF BoundsAssumption, Placed, PipelineTypeOK
  <2> QED
    BY <2>1 DEF CallStep, Acquire, Check, Gate, FetchSucceeds, FetchFails, Decide, Wake, Release, Drop
<1> QED
  BY <1>2, <1>3, <1>4, <1>5, <1>6, <1>7, <1>8 DEF Placed, PipelineTypeOK, BreakerTypeOK

\* A lookup returns the mapped pipeline or makes the next one, closed and idle.
Creates(c, cfg) ==
  LET p == created + 1 IN
  /\ p \in Generations
  /\ created' = p /\ mapped' = p
  /\ pipeline' = [pipeline EXCEPT ![c] = p]
  /\ config' = [config EXCEPT ![p] = cfg]
  /\ state' = [state EXCEPT ![p] = "closed"]
  /\ failures' = [failures EXCEPT ![p] = 0]
  /\ since' = [since EXCEPT ![p] = now]
  /\ current' = [current EXCEPT ![p] = 0]

Finds(c) ==
  /\ mapped \in Generations
  /\ mapped \in 1..created
  /\ pipeline' = [pipeline EXCEPT ![c] = mapped]
  /\ UNCHANGED <<created, mapped, config, state, failures, since, current>>

LEMMA LookupCases ==
  ASSUME Placed, NEW c \in Calls, NEW cfg \in Configs, Lookup(c, cfg)
  PROVE  /\ Finds(c) \/ Creates(c, cfg)
         /\ pc[c] = "idle"
         /\ pc' = [pc EXCEPT ![c] = "acquire"]
         /\ UNCHANGED <<now, attempt, begun>>
<1>1. CASE mapped # Unmapped
  <2>1. mapped \in 1..created /\ mapped \in Generations
    BY <1>1, BoundsAssumption
    DEF BoundsAssumption, Placed, PipelineTypeOK, Generations, Unmapped
  <2> QED
    BY <1>1, <2>1 DEF Lookup, Moves, Finds, breakerVars
<1>2. CASE mapped = Unmapped
  <2>1. created + 1 \in Generations
    BY <1>2, BoundsAssumption
    DEF BoundsAssumption, Lookup, Placed, PipelineTypeOK, Generations
  <2> QED
    BY <1>2, <2>1 DEF Lookup, Moves, Creates
<1> QED
  BY <1>1, <1>2

LEMMA LookupTypes ==
  ASSUME Placed, NEW c \in Calls, NEW cfg \in Configs, Lookup(c, cfg)
  PROVE  Placed'
<1>1. /\ pc[c] = "idle"
      /\ pc' = [pc EXCEPT ![c] = "acquire"]
      /\ UNCHANGED <<now, attempt, begun>>
  BY LookupCases
<1>2. pc' \in [Calls -> Steps]
  BY <1>1 DEF Placed, PipelineTypeOK, Steps
<1>3. CASE Finds(c)
  <2>1. PipelineTypeOK'
    BY <1>1, <1>2, <1>3 DEF Finds, Placed, PipelineTypeOK
  <2>2. CallsPlaced'
    BY <1>1, <1>3 DEF Finds, Placed, PipelineTypeOK, CallsPlaced
  <2> QED
    BY <2>1, <2>2 DEF Placed
<1>4. CASE Creates(c, cfg)
  <2> DEFINE p == created + 1
  <2>1. p \in Generations /\ p \in 0..MaxGenerations /\ p \in 1..p /\ now \in Nat /\ created \in Nat
    BY <1>4, BoundsAssumption DEF BoundsAssumption, Creates, Generations, Placed, PipelineTypeOK
  <2>2. 1..created \subseteq 1..p
    BY <2>1
  <2>3. PipelineTypeOK'
    BY <1>1, <1>2, <1>4, <2>1 DEF Creates, Placed, PipelineTypeOK
  <2>4. CallsPlaced'
    BY <1>1, <1>4, <2>1, <2>2 DEF Creates, Placed, PipelineTypeOK, CallsPlaced
  <2> QED
    BY <2>3, <2>4 DEF Placed
<1> QED
  BY <1>3, <1>4, LookupCases

LEMMA PlacedInit == PipelineInit => Placed
  BY ConfigsAssumption, BoundsAssumption
  DEF ConfigsAssumption, BoundsAssumption, PipelineInit, Placed, PipelineTypeOK, CallsPlaced,
      Steps, Generations, Unmapped

LEMMA PlacedStep == Placed /\ [PipelineNext]_pipelineVars => Placed'
<1> SUFFICES ASSUME Placed, [PipelineNext]_pipelineVars PROVE Placed'
  OBVIOUS
<1>1. CASE \E c \in Calls : CallStep(c) \/ Drop(c)
  BY <1>1, CallStepTypes
<1>2. CASE \E c \in Calls, cfg \in Configs : Lookup(c, cfg)
  BY <1>2, LookupTypes
<1>3. ASSUME NEW cfg \in Configs, ApplyParams(cfg) PROVE Placed'
  BY <1>3 DEF ApplyParams, breakerVars, callVars, Placed, PipelineTypeOK, CallsPlaced
<1>4. CASE Clear
  BY <1>4, BoundsAssumption
  DEF BoundsAssumption, Clear, breakerVars, callVars, Placed, PipelineTypeOK, CallsPlaced, Unmapped
<1>5. CASE Tick
  <2>1. now' \in 0..MaxTime
    BY <1>5, BoundsAssumption DEF BoundsAssumption, Tick, Placed, PipelineTypeOK
  <2> QED
    BY <1>5, <2>1 DEF Tick, breakerVars, callVars, Placed, PipelineTypeOK, CallsPlaced
<1>6. CASE UNCHANGED pipelineVars
  BY <1>6 DEF pipelineVars, breakerVars, callVars, Placed, PipelineTypeOK, CallsPlaced
<1> QED
  BY <1>1, <1>2, <1>3, <1>4, <1>5, <1>6 DEF PipelineNext

LEMMA PlacedAlways == PipelineSpec => []Placed
  BY PlacedInit, PlacedStep, PTL DEF PipelineSpec

\* Every variable keeps its type, whatever the calls, controllers and resets do.
THEOREM PipelineTypes == PipelineSpec => []PipelineTypeOK
<1>1. Placed => PipelineTypeOK
  BY DEF Placed
<1> QED
  BY <1>1, PlacedAlways, PTL

-----------------------------------------------------------------------------
(* The limiter's counter.                                                    *)

LEMMA HoldersFinite ==
  ASSUME NEW p
  PROVE  IsFiniteSet(Holders(p)) /\ IsFiniteSet(Running(p))
<1>1. Holders(p) \subseteq Calls /\ Running(p) \subseteq Calls
  BY DEF Holders, Running
<1> QED
  BY <1>1, CallsAssumption, FS_Subset DEF CallsAssumption

\* The pipeline a lookup would create has no call yet.
LEMMA NoHoldersYet ==
  ASSUME Placed
  PROVE  Holders(created + 1) = {} /\ Running(created + 1) = {}
<1>1. created \in Nat
  BY BoundsAssumption DEF BoundsAssumption, Placed, PipelineTypeOK
<1>2. \A c \in Calls : pc[c] # "idle" => pipeline[c] # created + 1
  BY <1>1 DEF Placed, CallsPlaced
<1> QED
  BY <1>2 DEF Holders, Running

LEMMA PermitsInit == PipelineInit => PermitsAccounted
<1> SUFFICES ASSUME PipelineInit, NEW p \in Generations
             PROVE  current[p] = Cardinality(Holders(p))
  BY DEF PermitsAccounted
<1>1. Holders(p) = {}
  BY DEF PipelineInit, Holders, Running
<1> QED
  BY <1>1, FS_EmptySet DEF PipelineInit

LEMMA PermitsCallStep ==
  ASSUME Placed, PermitsAccounted, NEW c \in Calls, CallStep(c) \/ Drop(c)
  PROVE  PermitsAccounted'
<1> DEFINE q == pipeline[c]
<1>1. q \in Generations /\ pipeline' = pipeline
  BY CallFrame
<1>2. pc \in [Calls -> Steps] /\ current \in [Generations -> Nat]
  BY DEF Placed, PipelineTypeOK
<1>3. CASE Acquire(c) /\ CanAcquire(q)
  <2>1. pc' = [pc EXCEPT ![c] = "check"] /\ current' = [current EXCEPT ![q] = @ + 1]
    BY <1>3 DEF Acquire, Moves
  <2>2. pc[c] = "acquire"
    BY <1>3 DEF Acquire
  <2>3. Holders(q)' = Holders(q) \cup {c} /\ c \notin Holders(q)
    BY <1>1, <1>2, <2>1, <2>2 DEF Holders, Running
  <2>4. \A p \in Generations \ {q} : Holders(p)' = Holders(p)
    BY <1>1, <1>2, <2>1 DEF Holders, Running
  <2>5. Cardinality(Holders(q)') = Cardinality(Holders(q)) + 1
    BY <2>3, HoldersFinite, FS_AddElement
  <2> QED
    BY <1>1, <1>2, <2>1, <2>4, <2>5 DEF PermitsAccounted
<1>4. CASE Release(c)
  <2>1. pc' = [pc EXCEPT ![c] = "done"] /\ current' = [current EXCEPT ![q] = Released(q)]
    BY <1>4 DEF Release, Moves
  <2>2. pc[c] = "release"
    BY <1>4 DEF Release, Moves
  <2>3. Holders(q)' = Holders(q) \ {c} /\ c \in Holders(q)
    BY <1>1, <1>2, <2>1, <2>2 DEF Holders, Running
  <2>4. \A p \in Generations \ {q} : Holders(p)' = Holders(p)
    BY <1>1, <1>2, <2>1 DEF Holders, Running
  <2>5. Cardinality(Holders(q)') = Cardinality(Holders(q)) - 1
    BY <2>3, HoldersFinite, FS_RemoveElement
  <2>6. Cardinality(Holders(q)') \in Nat /\ Cardinality(Holders(q)) \in Nat
    BY <2>3, HoldersFinite, FS_CardinalityType, FS_RemoveElement
  <2>7. Released(q) = Cardinality(Holders(q)')
    BY <1>1, <1>2, <2>5, <2>6 DEF Released, PermitsAccounted
  <2> QED
    BY <1>1, <1>2, <2>1, <2>4, <2>7 DEF PermitsAccounted
<1>5. CASE ~(Acquire(c) /\ CanAcquire(q)) /\ ~Release(c)
  <2>1. current' = current
    BY <1>5 DEF CallStep, Acquire, Check, Gate, FetchSucceeds, FetchFails, Decide, Wake, Drop
  <2>2. \A p : Holders(p)' = Holders(p)
    BY <1>1, <1>2, <1>5
    DEF Holders, Running, CallStep, Acquire, Check, Gate, FetchSucceeds, FetchFails, Decide,
        Wake, Drop, Moves
  <2> QED
    BY <2>1, <2>2 DEF PermitsAccounted
<1> QED
  BY <1>3, <1>4, <1>5

LEMMA PermitsLookup ==
  ASSUME Placed, PermitsAccounted, NEW c \in Calls, NEW cfg \in Configs, Lookup(c, cfg)
  PROVE  PermitsAccounted'
<1>1. pc[c] = "idle" /\ pc' = [pc EXCEPT ![c] = "acquire"]
  BY LookupCases
<1>2. \A p : Holders(p)' = Holders(p)
  <2>1. \A d \in Calls \ {c} : pc'[d] = pc[d] /\ pipeline'[d] = pipeline[d]
    BY <1>1, LookupCases DEF Finds, Creates, Placed, PipelineTypeOK
  <2>2. pc'[c] = "acquire"
    BY <1>1 DEF Placed, PipelineTypeOK
  <2> QED
    BY <1>1, <2>1, <2>2 DEF Holders, Running
<1>3. current' = current
  <2>1. CASE Creates(c, cfg)
    <3>1. created + 1 \in Generations /\ current' = [current EXCEPT ![created + 1] = 0]
      BY <2>1 DEF Creates
    <3>2. current[created + 1] = 0
      BY <3>1, NoHoldersYet, FS_EmptySet DEF PermitsAccounted
    <3> QED
      BY <3>1, <3>2 DEF Placed, PipelineTypeOK
  <2> QED
    BY <2>1, LookupCases DEF Finds
<1> QED
  BY <1>2, <1>3 DEF PermitsAccounted

LEMMA PermitsStep == Placed /\ PermitsAccounted /\ [PipelineNext]_pipelineVars => PermitsAccounted'
<1> SUFFICES ASSUME Placed, PermitsAccounted, [PipelineNext]_pipelineVars
             PROVE  PermitsAccounted'
  OBVIOUS
<1>1. CASE \E c \in Calls : CallStep(c) \/ Drop(c)
  BY <1>1, PermitsCallStep
<1>2. CASE \E c \in Calls, cfg \in Configs : Lookup(c, cfg)
  BY <1>2, PermitsLookup
<1>3. CASE UNCHANGED <<current, pc, pipeline>>
  BY <1>3 DEF PermitsAccounted, Holders, Running
<1> QED
  BY <1>1, <1>2, <1>3
  DEF PipelineNext, ApplyParams, Clear, Tick, pipelineVars, callVars

\* The counter equals the number of permits handed out and not given back: it
\* never drifts, and only dropped calls keep one for ever.
THEOREM PermitsExact == PipelineSpec => []PermitsAccounted
  BY PlacedAlways, PermitsInit, PermitsStep, PTL DEF PipelineSpec

-----------------------------------------------------------------------------
(* The limit, under a limit that changes.                                    *)

LEMMA LimitInit == PipelineInit => LimitRespected
  BY DEF PipelineInit, LimitRespected, Running

\* Steps after which no pipeline runs a call it did not run before keep the limit.
LEMMA LimitShrinks ==
  ASSUME LimitRespected, \A p \in Generations : Running(p)' \subseteq Running(p)
  PROVE  LimitRespected'
<1> SUFFICES ASSUME NEW p \in Generations, Running(p)' # {}
             PROVE  \E cfg \in Configs : Cardinality(Running(p)') <= cfg.limit
  BY DEF LimitRespected
<1>1. PICK cfg \in Configs : Cardinality(Running(p)) <= cfg.limit
  BY DEF LimitRespected
<1>2. IsFiniteSet(Running(p)) /\ Running(p)' \subseteq Running(p)
  BY HoldersFinite
<1>3. /\ Cardinality(Running(p)') <= Cardinality(Running(p))
      /\ Cardinality(Running(p)') \in Nat /\ Cardinality(Running(p)) \in Nat
  BY <1>2, FS_Subset, FS_CardinalityType
<1>4. cfg.limit \in Int
  BY ConfigsAssumption DEF ConfigsAssumption, ConfigType
<1> QED
  BY <1>1, <1>3, <1>4

LEMMA LimitAcquire ==
  ASSUME Placed, PermitsAccounted, LimitRespected, NEW c \in Calls,
         Acquire(c), CanAcquire(pipeline[c])
  PROVE  LimitRespected'
<1> DEFINE q == pipeline[c]
<1>1. q \in Generations /\ pipeline' = pipeline
  BY CallFrame DEF CallStep
<1>2. pc[c] = "acquire" /\ pc' = [pc EXCEPT ![c] = "check"]
  BY DEF Acquire, Moves
<1>3. pc \in [Calls -> Steps] /\ config[q] \in Configs /\ config[q].limit \in Int
  BY <1>1, ConfigsAssumption DEF ConfigsAssumption, ConfigType, Placed, PipelineTypeOK
<1>4. Running(q)' = Running(q) \cup {c} /\ c \notin Running(q)
  BY <1>1, <1>2, <1>3 DEF Running
<1>5. \A p \in Generations \ {q} : Running(p)' = Running(p)
  BY <1>1, <1>2, <1>3 DEF Running
<1>6. Cardinality(Running(q)) <= Cardinality(Holders(q))
  <2>1. Running(q) \subseteq Holders(q)
    BY DEF Holders
  <2> QED
    BY <2>1, HoldersFinite, FS_Subset
<1>7. /\ Cardinality(Running(q)) \in Nat /\ Cardinality(Holders(q)) \in Nat
      /\ Cardinality(Running(q)') = Cardinality(Running(q)) + 1
  BY <1>4, HoldersFinite, FS_AddElement, FS_CardinalityType
<1>8. Cardinality(Running(q)') <= config[q].limit
  BY <1>1, <1>3, <1>6, <1>7 DEF CanAcquire, PermitsAccounted
<1> QED
  BY <1>1, <1>3, <1>5, <1>8 DEF LimitRespected

LEMMA LimitStep ==
  Placed /\ PermitsAccounted /\ LimitRespected /\ [PipelineNext]_pipelineVars => LimitRespected'
<1> SUFFICES ASSUME Placed, PermitsAccounted, LimitRespected, [PipelineNext]_pipelineVars
             PROVE  LimitRespected'
  OBVIOUS
<1> USE DEF Placed, PipelineTypeOK
<1>1. ASSUME NEW c \in Calls, CallStep(c) \/ Drop(c) PROVE LimitRespected'
  <2>1. CASE Acquire(c) /\ CanAcquire(pipeline[c])
    BY <2>1, LimitAcquire
  <2>2. CASE ~(Acquire(c) /\ CanAcquire(pipeline[c]))
    <3>1. pipeline' = pipeline
      BY <1>1, CallFrame
    <3>2. \A p \in Generations : Running(p)' \subseteq Running(p)
      BY <1>1, <2>2, <3>1
      DEF Running, CallStep, Acquire, Check, Gate, FetchSucceeds, FetchFails, Decide, Wake,
          Release, Drop, Moves
    <3> QED
      BY <3>2, LimitShrinks
  <2> QED
    BY <2>1, <2>2
<1>2. ASSUME NEW c \in Calls, NEW cfg \in Configs, Lookup(c, cfg) PROVE LimitRespected'
  <2>1. \A d \in Calls \ {c} : pc'[d] = pc[d] /\ pipeline'[d] = pipeline[d]
    BY <1>2, LookupCases DEF Finds, Creates
  <2>2. pc'[c] = "acquire"
    BY <1>2, LookupCases
  <2>3. \A p \in Generations : Running(p)' \subseteq Running(p)
    BY <2>1, <2>2 DEF Running
  <2> QED
    BY <2>3, LimitShrinks
<1>3. CASE UNCHANGED <<pc, pipeline>>
  BY <1>3 DEF LimitRespected, Running
<1> QED
  BY <1>1, <1>2, <1>3
  DEF PipelineNext, ApplyParams, Clear, Tick, pipelineVars, callVars

\* No pipeline ever runs more calls at once than the largest limit in use allows.
THEOREM LimitHolds == PipelineSpec => []LimitRespected
  BY PlacedAlways, PermitsExact, LimitInit, LimitStep, PTL DEF PipelineSpec

-----------------------------------------------------------------------------
(* The circuit breaker.                                                      *)

\* No fetch began, and no breaker changed state, in the future.
Past ==
  /\ \A c \in Calls : begun[c] <= now
  /\ \A p \in Generations : since[p] <= now

\* What the breaker keeps, as one inductive invariant.
BreakerInv ==
  /\ Past
  /\ NoFetchBegunWhileOpen
  /\ ClosedBelowThreshold

LEMMA BreakerInit == PipelineInit => BreakerInv
  BY DEF PipelineInit, BreakerInv, Past, NoFetchBegunWhileOpen, ClosedBelowThreshold

LEMMA GateKeeps ==
  ASSUME Placed, BreakerInv, NEW c \in Calls, Gate(c)
  PROVE  BreakerInv'
<1> DEFINE q == pipeline[c]
<1> USE DEF Placed, PipelineTypeOK
<1>1. q \in Generations /\ UNCHANGED <<now, config, pipeline>> /\ now \in Nat
  BY CallFrame, BoundsAssumption DEF BoundsAssumption, CallStep
<1>2. CASE UNCHANGED <<state, failures, since>> /\ state[q] # "open"
  BY <1>1, <1>2 DEF Gate, Moves, BreakerInv, Past, NoFetchBegunWhileOpen, ClosedBelowThreshold
<1>3. CASE UNCHANGED <<state, failures, since, begun>> /\ pc' = [pc EXCEPT ![c] = "release"]
  BY <1>1, <1>3 DEF BreakerInv, Past, NoFetchBegunWhileOpen, ClosedBelowThreshold
<1>4. CASE /\ state' = [state EXCEPT ![q] = "half-open"]
           /\ since' = [since EXCEPT ![q] = now]
           /\ failures' = failures
           /\ begun' = [begun EXCEPT ![c] = now]
           /\ pc' = [pc EXCEPT ![c] = "fetch"]
  BY <1>1, <1>4 DEF BreakerInv, Past, NoFetchBegunWhileOpen, ClosedBelowThreshold
<1> QED
  BY <1>1, <1>2, <1>3, <1>4 DEF Gate, Moves, BeforeCall, Transition, breakerVars

LEMMA SuccessKeeps ==
  ASSUME Placed, BreakerInv, NEW c \in Calls, FetchSucceeds(c)
  PROVE  BreakerInv'
<1> DEFINE q == pipeline[c]
<1> USE DEF Placed, PipelineTypeOK
<1>1. q \in Generations /\ UNCHANGED <<now, config, pipeline>> /\ now \in Nat
  BY CallFrame, BoundsAssumption DEF BoundsAssumption, CallStep
<1>2. /\ failures' = [failures EXCEPT ![q] = 0]
      /\ begun' = [begun EXCEPT ![c] = 0]
      /\ pc' = [pc EXCEPT ![c] = "release"]
  BY <1>1 DEF FetchSucceeds, OnSuccess, Transition, Moves
<1>3. \/ UNCHANGED <<state, since>>
      \/ /\ state' = [state EXCEPT ![q] = "closed"]
         /\ since' = [since EXCEPT ![q] = now]
  BY <1>1 DEF FetchSucceeds, OnSuccess, Transition
<1>4. \A p \in Generations : state'[p] = "open" => state[p] = "open" /\ since'[p] = since[p]
  BY <1>1, <1>3
<1>5. \A d \in Calls : pc'[d] = "fetch" => pc[d] = "fetch" /\ begun'[d] = begun[d]
  BY <1>2
<1>6. \A d \in Calls : pc[d] = "fetch" => pipeline[d] \in Generations
  BY BoundsAssumption DEF BoundsAssumption, CallsPlaced, Generations
<1>7. Past'
  BY <1>1, <1>2, <1>3 DEF BreakerInv, Past
<1>8. NoFetchBegunWhileOpen'
  BY <1>1, <1>4, <1>5, <1>6 DEF BreakerInv, NoFetchBegunWhileOpen
<1>9. ClosedBelowThreshold'
  BY <1>1, <1>2, <1>3 DEF BreakerInv, ClosedBelowThreshold
<1> QED
  BY <1>7, <1>8, <1>9 DEF BreakerInv

LEMMA FailureKeeps ==
  ASSUME Placed, BreakerInv, NEW c \in Calls, FetchFails(c)
  PROVE  BreakerInv'
<1> DEFINE q == pipeline[c]
<1> USE DEF Placed, PipelineTypeOK
<1>1. q \in Generations /\ UNCHANGED <<now, config, pipeline>> /\ now \in Nat
  BY CallFrame, BoundsAssumption DEF BoundsAssumption, CallStep
<1>2. /\ failures' = [failures EXCEPT ![q] = @ + 1]
      /\ begun' = [begun EXCEPT ![c] = 0]
      /\ pc' = [pc EXCEPT ![c] = "decide"]
  BY <1>1 DEF FetchFails, OnFailure, Transition, Moves
<1>3. CASE Trips(q)
  <2>1. state' = [state EXCEPT ![q] = "open"]
    BY <1>3 DEF FetchFails, OnFailure, Transition
  <2>2. since' = since \/ since' = [since EXCEPT ![q] = now]
    BY <1>1, <1>3 DEF FetchFails, OnFailure, Transition
  <2>3. state[q] = "open" => since' = since
    BY <1>1, <1>3 DEF FetchFails, OnFailure, Transition
  <2>4. state[q] # "open" => since' = [since EXCEPT ![q] = now]
    BY <1>1, <1>3 DEF FetchFails, OnFailure, Transition
  <2>5. Past'
    BY <1>1, <1>2, <2>2 DEF BreakerInv, Past
  <2>6. NoFetchBegunWhileOpen'
    <3> SUFFICES ASSUME NEW d \in Calls, pc'[d] = "fetch", state'[pipeline[d]] = "open"
                 PROVE  begun'[d] <= since'[pipeline[d]]
      BY <1>1 DEF NoFetchBegunWhileOpen
    <3>1. pc[d] = "fetch" /\ begun'[d] = begun[d] /\ begun[d] \in Nat /\ begun[d] <= now
      BY <1>2 DEF BreakerInv, Past
    <3>2. pipeline[d] \in Generations
      BY <3>1, BoundsAssumption DEF BoundsAssumption, CallsPlaced, Generations
    <3>3. CASE pipeline[d] = q /\ state[q] # "open"
      BY <1>1, <2>4, <3>1, <3>3
    <3>4. CASE pipeline[d] = q /\ state[q] = "open"
      BY <1>1, <2>3, <3>1, <3>4 DEF BreakerInv, NoFetchBegunWhileOpen
    <3>5. CASE pipeline[d] # q
      BY <1>1, <2>1, <2>2, <3>1, <3>2, <3>5 DEF BreakerInv, NoFetchBegunWhileOpen
    <3> QED
      BY <3>3, <3>4, <3>5
  <2>7. ClosedBelowThreshold'
    BY <1>1, <1>2, <2>1 DEF BreakerInv, ClosedBelowThreshold
  <2> QED
    BY <2>5, <2>6, <2>7 DEF BreakerInv
<1>4. CASE ~Trips(q)
  <2>1. UNCHANGED <<state, since>>
    BY <1>1, <1>4 DEF FetchFails, OnFailure, Transition
  <2>2. \E cfg \in Configs : failures[q] + 1 < cfg.threshold
    <3>1. config[q] \in Configs /\ config[q].threshold \in Int /\ failures[q] \in Nat
      BY <1>1, ConfigsAssumption DEF ConfigsAssumption, ConfigType
    <3> QED
      BY <1>4, <3>1 DEF Trips
  <2> QED
    BY <1>1, <1>2, <2>1, <2>2 DEF BreakerInv, Past, NoFetchBegunWhileOpen, ClosedBelowThreshold
<1> QED
  BY <1>3, <1>4

LEMMA BreakerLookup ==
  ASSUME Placed, BreakerInv, NEW c \in Calls, NEW cfg \in Configs, Lookup(c, cfg)
  PROVE  BreakerInv'
<1> USE DEF Placed, PipelineTypeOK
<1>1. /\ pc[c] = "idle"
      /\ pc' = [pc EXCEPT ![c] = "acquire"]
      /\ UNCHANGED <<now, attempt, begun>>
      /\ now \in Nat
  BY LookupCases, BoundsAssumption DEF BoundsAssumption
<1>2. \A d \in Calls : pc'[d] = "fetch" => pc[d] = "fetch" /\ pipeline'[d] = pipeline[d]
  BY <1>1, LookupCases DEF Finds, Creates
<1>3. CASE Finds(c)
  BY <1>1, <1>2, <1>3 DEF Finds, BreakerInv, Past, NoFetchBegunWhileOpen, ClosedBelowThreshold
<1>4. CASE Creates(c, cfg)
  <2> DEFINE p == created + 1
  <2>1. /\ p \in Generations
        /\ state' = [state EXCEPT ![p] = "closed"]
        /\ failures' = [failures EXCEPT ![p] = 0]
        /\ since' = [since EXCEPT ![p] = now]
    BY <1>4 DEF Creates
  <2> HIDE DEF p
  <2>2. \A d \in Calls : pc[d] = "fetch" => pipeline[d] \in Generations
    BY BoundsAssumption DEF BoundsAssumption, CallsPlaced, Generations
  <2>3. Past'
    BY <1>1, <2>1 DEF BreakerInv, Past
  <2>4. NoFetchBegunWhileOpen'
    BY <1>1, <1>2, <2>1, <2>2 DEF BreakerInv, NoFetchBegunWhileOpen
  <2>5. ClosedBelowThreshold'
    BY <2>1 DEF BreakerInv, ClosedBelowThreshold
  <2> QED
    BY <2>3, <2>4, <2>5 DEF BreakerInv
<1> QED
  BY <1>3, <1>4, LookupCases

LEMMA BreakerStep == Placed /\ BreakerInv /\ [PipelineNext]_pipelineVars => BreakerInv'
<1> SUFFICES ASSUME Placed, BreakerInv, [PipelineNext]_pipelineVars
             PROVE  BreakerInv'
  OBVIOUS
<1> USE DEF Placed, PipelineTypeOK
<1>1. ASSUME NEW c \in Calls, CallStep(c) \/ Drop(c) PROVE BreakerInv'
  <2>1. CASE Gate(c)
    BY <2>1, GateKeeps
  <2>2. CASE FetchSucceeds(c)
    BY <2>2, SuccessKeeps
  <2>3. CASE FetchFails(c)
    BY <2>3, FailureKeeps
  <2>4. CASE ~Gate(c) /\ ~FetchSucceeds(c) /\ ~FetchFails(c)
    <3>1. UNCHANGED <<now, state, failures, since, pipeline>> /\ now \in Nat
      BY <1>1, <2>4, BoundsAssumption
      DEF BoundsAssumption, CallStep, Acquire, Check, Decide, Wake, Release, Drop, breakerVars
    <3>2. \A d \in Calls : begun'[d] = begun[d] \/ begun'[d] = 0
      BY <1>1, <2>4 DEF CallStep, Acquire, Check, Decide, Wake, Release, Drop
    <3>3. \A d \in Calls : pc'[d] = "fetch" => pc[d] = "fetch" /\ begun'[d] = begun[d]
      BY <1>1, <2>4 DEF CallStep, Acquire, Check, Decide, Wake, Release, Drop, Moves
    <3> QED
      BY <3>1, <3>2, <3>3 DEF BreakerInv, Past, NoFetchBegunWhileOpen, ClosedBelowThreshold
  <2> QED
    BY <2>1, <2>2, <2>3, <2>4
<1>2. CASE \E c \in Calls, cfg \in Configs : Lookup(c, cfg)
  BY <1>2, BreakerLookup
<1>3. CASE Tick
  <2>1. now' = now + 1 /\ now \in Nat
    BY <1>3, BoundsAssumption DEF BoundsAssumption, Tick
  <2>2. UNCHANGED <<state, failures, since, pc, pipeline, begun>>
    BY <1>3 DEF Tick, breakerVars, callVars
  <2>3. Past'
    BY <2>1, <2>2 DEF BreakerInv, Past
  <2> QED
    BY <2>2, <2>3 DEF BreakerInv, NoFetchBegunWhileOpen, ClosedBelowThreshold
<1>4. CASE UNCHANGED <<now, breakerVars, callVars>>
  BY <1>4
  DEF breakerVars, callVars, BreakerInv, Past, NoFetchBegunWhileOpen, ClosedBelowThreshold
<1> QED
  BY <1>1, <1>2, <1>3, <1>4 DEF PipelineNext, ApplyParams, Clear, pipelineVars

LEMMA BreakerAlways == PipelineSpec => []BreakerInv
  BY PlacedAlways, BreakerInit, BreakerStep, PTL DEF PipelineSpec

\* While a breaker is open, no fetch through it has begun since it opened.
THEOREM OpenMeansNoNewFetch == PipelineSpec => []NoFetchBegunWhileOpen
<1>1. BreakerInv => NoFetchBegunWhileOpen
  BY DEF BreakerInv
<1> QED
  BY <1>1, BreakerAlways, PTL

\* A closed breaker has not reached the largest threshold in use.
THEOREM ClosedMeansBelow == PipelineSpec => []ClosedBelowThreshold
<1>1. BreakerInv => ClosedBelowThreshold
  BY DEF BreakerInv
<1> QED
  BY <1>1, BreakerAlways, PTL

\* What one step of a call does to an open breaker.
LEMMA OpenStep ==
  ASSUME Placed, NEW c \in Calls, CallStep(c) \/ Drop(c),
         NEW p \in Generations, state[p] = "open", state'[p] # "open"
  PROVE  state'[p] = "half-open" /\ TimeoutElapsed(p)
<1> USE DEF Placed, PipelineTypeOK
<1>1. pipeline[c] \in Generations
  BY CallFrame
<1>2. CASE Gate(c)
  BY <1>1, <1>2 DEF Gate, BeforeCall, Transition, Admits, breakerVars
<1>3. CASE FetchSucceeds(c)
  BY <1>1, <1>3 DEF FetchSucceeds, OnSuccess, Transition
<1>4. CASE FetchFails(c)
  BY <1>1, <1>4 DEF FetchFails, OnFailure, Transition
<1>5. CASE state' = state
  BY <1>5
<1> QED
  BY <1>2, <1>3, <1>4, <1>5
  DEF CallStep, Acquire, Check, Decide, Wake, Release, Drop, breakerVars

\* Pipelines not made yet are as Init left them.
NotYetOpen == \A p \in Generations : p > created => state[p] = "closed"

LEMMA NotYetOpenStep == Placed /\ NotYetOpen /\ [PipelineNext]_pipelineVars => NotYetOpen'
<1> SUFFICES ASSUME Placed, NotYetOpen, [PipelineNext]_pipelineVars,
                    NEW p \in Generations, p > created'
             PROVE  state'[p] = "closed"
  BY DEF NotYetOpen
<1> USE BoundsAssumption DEF BoundsAssumption, Placed, PipelineTypeOK
<1>1. ASSUME NEW c \in Calls, CallStep(c) \/ Drop(c) PROVE state'[p] = "closed"
  <2>0. created \in Nat /\ p \in Nat
    BY DEF Generations
  <2>1. created' = created /\ pipeline[c] \in 1..created
    <3>1. CASE CallStep(c)
      BY <3>1, CallFrame
    <3>2. CASE Drop(c)
      BY <3>2, CallFrame
    <3> QED
      BY <1>1, <3>1, <3>2
  <2>2. p > created /\ p # pipeline[c]
    BY <2>0, <2>1
  <2>3. state'[p] = state[p]
    BY <1>1, <2>2
    DEF CallStep, Acquire, Check, Gate, FetchSucceeds, FetchFails, Decide, Wake, Release, Drop,
        BeforeCall, OnSuccess, OnFailure, Transition, breakerVars
  <2> QED
    BY <2>1, <2>2, <2>3 DEF NotYetOpen
<1>2. ASSUME NEW c \in Calls, NEW cfg \in Configs, Lookup(c, cfg) PROVE state'[p] = "closed"
  <2>1. CASE Finds(c)
    BY <2>1 DEF Finds, NotYetOpen
  <2>2. CASE Creates(c, cfg)
    <3>1. p > created + 1 /\ p # created + 1 /\ p > created
      BY <2>2 DEF Creates, Generations
    <3> QED
      BY <2>2, <3>1 DEF Creates, NotYetOpen
  <2> QED
    BY <1>2, <2>1, <2>2, LookupCases
<1>3. CASE UNCHANGED <<created, state>>
  BY <1>3 DEF NotYetOpen
<1> QED
  BY <1>1, <1>2, <1>3
  DEF PipelineNext, ApplyParams, Clear, Tick, pipelineVars, breakerVars

\* A breaker leaves "open" only for "half-open" and only when its time is up.
THEOREM OpenLasts == PipelineSpec => OpenUntilTimeout
<1>1. Placed /\ NotYetOpen /\ [PipelineNext]_pipelineVars =>
        [\A p \in Generations :
           state[p] = "open" /\ state'[p] # "open" =>
             state'[p] = "half-open" /\ TimeoutElapsed(p)]_pipelineVars
  <2> SUFFICES ASSUME Placed, NotYetOpen, PipelineNext, NEW p \in Generations,
                      state[p] = "open", state'[p] # "open"
               PROVE  state'[p] = "half-open" /\ TimeoutElapsed(p)
    OBVIOUS
  <2>1. CASE \E c \in Calls : CallStep(c) \/ Drop(c)
    BY <2>1, OpenStep
  <2>2. ASSUME NEW c \in Calls, NEW cfg \in Configs, Lookup(c, cfg) PROVE FALSE
    <3>1. CASE Finds(c)
      BY <3>1 DEF Finds
    <3>2. CASE Creates(c, cfg)
      <4>1. p = created + 1
        BY <3>2 DEF Creates, Placed, PipelineTypeOK
      <4>2. created \in Nat /\ p > created
        BY <4>1, BoundsAssumption DEF BoundsAssumption, Placed, PipelineTypeOK
      <4> QED
        BY <4>2 DEF NotYetOpen
    <3> QED
      BY <2>2, <3>1, <3>2, LookupCases
  <2>3. CASE UNCHANGED breakerVars
    BY <2>3 DEF breakerVars
  <2> QED
    BY <2>1, <2>2, <2>3 DEF PipelineNext, ApplyParams, Clear, Tick
<1>2. PipelineInit => NotYetOpen
  BY DEF PipelineInit, NotYetOpen
<1> QED
  BY <1>1, <1>2, PlacedAlways, NotYetOpenStep, PTL DEF PipelineSpec, OpenUntilTimeout

-----------------------------------------------------------------------------
(* The retry loop.                                                           *)

\* A call past the loop condition still has the attempt it was let through for.
LoopInv ==
  \A c \in Calls :
    pc[c] \in {"gate", "fetch"} => \E cfg \in Configs : attempt[c] <= cfg.retries

LEMMA LoopStep == Placed /\ LoopInv /\ [PipelineNext]_pipelineVars => LoopInv'
<1> SUFFICES ASSUME Placed, LoopInv, [PipelineNext]_pipelineVars,
                    NEW d \in Calls, pc'[d] \in {"gate", "fetch"}
             PROVE  \E cfg \in Configs : attempt'[d] <= cfg.retries
  BY DEF LoopInv
<1> USE DEF Placed, PipelineTypeOK
<1>1. ASSUME NEW c \in Calls, Check(c) PROVE \E cfg \in Configs : attempt'[d] <= cfg.retries
  <2>1. pipeline[c] \in Generations
    BY <1>1, CallFrame DEF CallStep
  <2>2. CASE c = d
    <3>1. config[pipeline[c]] \in Configs /\ attempt[c] <= config[pipeline[c]].retries
      BY <1>1, <2>1, <2>2 DEF Check, Moves
    <3> QED
      BY <1>1, <2>2, <3>1 DEF Check
  <2>3. CASE c # d
    BY <1>1, <2>3 DEF Check, Moves, LoopInv
  <2> QED
    BY <2>2, <2>3
<1>2. ASSUME NEW c \in Calls, CallStep(c) \/ Drop(c), ~Check(c)
      PROVE  \E cfg \in Configs : attempt'[d] <= cfg.retries
  <2>1. pc[d] \in {"gate", "fetch"} /\ attempt'[d] = attempt[d]
    BY <1>2
    DEF CallStep, Acquire, Gate, FetchSucceeds, FetchFails, Decide, Wake, Release, Drop, Moves
  <2> QED
    BY <2>1 DEF LoopInv
<1>3. ASSUME NEW c \in Calls, NEW cfg \in Configs, Lookup(c, cfg)
      PROVE  \E other \in Configs : attempt'[d] <= other.retries
  <2>1. pc[d] \in {"gate", "fetch"} /\ attempt'[d] = attempt[d]
    BY <1>3, LookupCases
  <2> QED
    BY <2>1 DEF LoopInv
<1>4. CASE UNCHANGED callVars
  BY <1>4 DEF callVars, LoopInv
<1> QED
  BY <1>1, <1>2, <1>3, <1>4 DEF PipelineNext, ApplyParams, Clear, Tick, pipelineVars

\* No call fetches more often than the largest retry count in use allows.
THEOREM AttemptsStayBounded == PipelineSpec => []AttemptsBounded
<1>1. PipelineInit => LoopInv
  BY DEF PipelineInit, LoopInv
<1>2. LoopInv => AttemptsBounded
  BY DEF LoopInv, AttemptsBounded
<1> QED
  BY <1>1, <1>2, PlacedAlways, LoopStep, PTL DEF PipelineSpec

-----------------------------------------------------------------------------
(* The strategies implement Pipeline.                                        *)


\* Nobody makes parameters up: those in force and those copied are known ones.
Known ==
  /\ params \in Configs
  /\ read \in [Calls -> {{}} \cup {{cfg} : cfg \in Configs}]
  /\ pushing \in BOOLEAN
  /\ resetting \in BOOLEAN
  /\ strategy \in {"static", "mas-agent", "central"}

LEMMA KnownInit == Init => Known
BY ConfigsAssumption DEF ConfigsAssumption, Init, CentralInit, Known

\* The strategies under one mutex: a lookup, decision or reset leaves a known set.
LEMMA KnownAgent == Known /\ AgentNext /\ NoGaps /\ UNCHANGED strategy => Known'
BY ConfigsAssumption
DEF ConfigsAssumption, Known, AgentNext, NoGaps, AgentLookup, AgentDecide, AgentReset,
    AgentCallStep, AgentDrop, AgentTick

LEMMA KnownCentral == Known /\ CentralNext /\ UNCHANGED strategy => Known'
<1> SUFFICES ASSUME Known, CentralNext, UNCHANGED strategy PROVE Known'
  OBVIOUS
<1>1. ASSUME NEW c \in Calls, ReadParams(c) \/ CentralLookup(c) PROVE Known'
  BY <1>1 DEF Known, ReadParams, CentralLookup
<1>2. CASE \E cfg \in Configs : ControlWrite(cfg)
  BY <1>2 DEF Known, ControlWrite
<1>3. CASE ControlPush \/ ResetClear
  BY <1>3 DEF Known, ControlPush, ResetClear
<1>4. CASE ResetParams
  BY <1>4, ConfigsAssumption DEF ConfigsAssumption, Known, ResetParams
<1>5. CASE UNCHANGED strategyVars
  BY <1>5 DEF Known, strategyVars
<1> QED
  BY <1>1, <1>2, <1>3, <1>4, <1>5 DEF CentralNext, CentralCallStep, CentralTick

\* What a static strategy does is what an agent does that never decides.
LEMMA StaticIsAgent == StaticNext => AgentNext
BY DEF StaticNext, AgentNext

LEMMA KnownAlways == Spec => []Known
<1>1. Known /\ [Next]_nodeVars => Known'
  <2>1. CASE Next
    BY <2>1, KnownAgent, KnownCentral, StaticIsAgent DEF Next
  <2>2. CASE UNCHANGED nodeVars
    BY <2>2 DEF nodeVars, centralVars, strategyVars, Known
  <2> QED
    BY <2>1, <2>2
<1> QED
  BY <1>1, KnownInit, PTL DEF Spec

LEMMA AgentStep == Known /\ AgentNext => PipelineNext \/ UNCHANGED pipelineVars
<1> SUFFICES ASSUME Known, AgentNext PROVE PipelineNext \/ UNCHANGED pipelineVars
  OBVIOUS
<1>1. CASE \E c \in Calls : AgentLookup(c)
  BY <1>1 DEF AgentLookup, Known, PipelineNext
<1>2. CASE \E c \in Calls : AgentCallStep(c) \/ AgentDrop(c)
  BY <1>2 DEF AgentCallStep, AgentDrop, PipelineNext
<1>3. CASE \E cfg \in Configs : AgentDecide(cfg)
  BY <1>3 DEF AgentDecide, PipelineNext
<1>4. CASE AgentReset \/ AgentTick
  BY <1>4 DEF AgentReset, AgentTick, PipelineNext
<1> QED
  BY <1>1, <1>2, <1>3, <1>4 DEF AgentNext

LEMMA CentralStep == Known /\ CentralNext => PipelineNext \/ UNCHANGED pipelineVars
<1> SUFFICES ASSUME Known, CentralNext PROVE PipelineNext \/ UNCHANGED pipelineVars
  OBVIOUS
<1>1. ASSUME NEW c \in Calls, CentralLookup(c) PROVE PipelineNext
  <2>1. PICK cfg \in read[c] : Lookup(c, cfg)
    BY <1>1 DEF CentralLookup
  <2>2. cfg \in Configs
    BY <2>1 DEF Known
  <2> QED
    BY <2>1, <2>2 DEF PipelineNext
<1>2. CASE \E c \in Calls : CentralCallStep(c)
  BY <1>2 DEF CentralCallStep, PipelineNext
<1>3. CASE ControlPush
  BY <1>3 DEF ControlPush, Known, PipelineNext
<1>4. CASE ResetClear \/ CentralTick
  BY <1>4 DEF ResetClear, CentralTick, PipelineNext
<1>5. CASE UNCHANGED pipelineVars
  BY <1>5
<1> QED
  BY <1>1, <1>2, <1>3, <1>4, <1>5 DEF CentralNext, ReadParams, ControlWrite, ResetParams

\* Every behaviour of a node is one of Pipeline: limit, breaker and retry bounds
\* hold for any decision rule, and survive the stale parameters a call of the
\* central strategy may create a pipeline from.
THEOREM NodeRefines == Spec => ImplementsPipeline
<1>1. Known /\ [Next]_nodeVars => [PipelineNext]_pipelineVars
  <2>1. CASE UNCHANGED nodeVars
    BY <2>1 DEF nodeVars, centralVars
  <2>2. ASSUME Known, Next PROVE PipelineNext \/ UNCHANGED pipelineVars
    BY <2>2, AgentStep, CentralStep, StaticIsAgent DEF Next
  <2> QED
    BY <2>1, <2>2
<1>2. Init => PipelineInit
  BY DEF Init, CentralInit
<1> QED
  BY <1>1, <1>2, KnownAlways, PTL DEF Spec, ImplementsPipeline, PipelineSpec

\* The types of the node's variables.
THEOREM StrategyTypes == Spec => []StrategyTypeOK
<1>1. PipelineTypeOK /\ Known => StrategyTypeOK
  BY DEF StrategyTypeOK, Known
<1> QED
  BY <1>1, NodeRefines, PipelineTypes, KnownAlways, PTL DEF ImplementsPipeline

LEMMA InForceStep ==
  Placed /\ strategy # "central" /\ ParamsInForce /\ AgentNext /\ UNCHANGED strategy
    => ParamsInForce'
<1> SUFFICES ASSUME Placed, strategy # "central", ParamsInForce, AgentNext, UNCHANGED strategy
             PROVE ParamsInForce'
  OBVIOUS
<1>1. ASSUME NEW c \in Calls, AgentLookup(c) PROVE ParamsInForce'
  <2>1. Lookup(c, params) /\ params' = params
    BY <1>1 DEF AgentLookup
  <2>2. CASE mapped # Unmapped
    BY <2>1, <2>2 DEF Lookup, ParamsInForce
  <2>3. CASE mapped = Unmapped
    <3>1. /\ mapped' = created + 1
          /\ created + 1 \in Generations
          /\ config' = [config EXCEPT ![created + 1] = params]
      BY <2>1, <2>3, BoundsAssumption
      DEF BoundsAssumption, Lookup, Placed, PipelineTypeOK, Generations
    <3> QED
      BY <2>1, <3>1 DEF Placed, PipelineTypeOK, ParamsInForce
  <2> QED
    BY <2>2, <2>3
<1>2. ASSUME NEW cfg \in Configs, AgentDecide(cfg) PROVE ParamsInForce'
  <2>1. CASE ApplyParams(cfg)
    <3>1. mapped \in Generations /\ mapped' = mapped /\ config' = [config EXCEPT ![mapped] = cfg]
      BY <2>1 DEF ApplyParams, Placed, PipelineTypeOK
    <3> QED
      BY <1>2, <3>1 DEF AgentDecide, Placed, PipelineTypeOK, ParamsInForce
  <2>2. CASE mapped = Unmapped /\ UNCHANGED pipelineVars
    BY <2>2 DEF pipelineVars, ParamsInForce
  <2> QED
    BY <1>2, <2>1, <2>2 DEF AgentDecide
<1>3. CASE AgentReset
  BY <1>3 DEF AgentReset, Clear, pipelineVars, ParamsInForce
<1>4. CASE UNCHANGED <<mapped, config, params>>
  BY <1>4 DEF ParamsInForce
<1>5. CASE \E c \in Calls : AgentCallStep(c) \/ AgentDrop(c)
  BY <1>4, <1>5, CallFrame DEF AgentCallStep, AgentDrop
<1> QED
  BY <1>1, <1>2, <1>3, <1>4, <1>5 DEF AgentNext, AgentTick, Tick

\* Under one mutex the mapped pipeline runs with the parameters in force, always.
THEOREM InForce == Spec => []ParamsInForce
<1>1. Init => ParamsInForce
  BY DEF Init, CentralInit, PipelineInit, ParamsInForce
<1>2. Placed /\ ParamsInForce /\ [Next]_nodeVars => ParamsInForce'
  <2>1. CASE UNCHANGED nodeVars
    BY <2>1 DEF nodeVars, centralVars, strategyVars, pipelineVars, ParamsInForce
  <2>2. CASE strategy = "central" /\ UNCHANGED strategy
    BY <2>2 DEF ParamsInForce
  <2>3. ASSUME Placed, ParamsInForce, Next, strategy # "central" PROVE ParamsInForce'
    BY <2>3, InForceStep, StaticIsAgent DEF Next
  <2> QED
    BY <2>1, <2>2, <2>3 DEF Next
<1> QED
  BY <1>1, <1>2, NodeRefines, PlacedAlways, PTL DEF Spec, ImplementsPipeline
=============================================================================
