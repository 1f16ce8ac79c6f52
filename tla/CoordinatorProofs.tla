--------------------------- MODULE CoordinatorProofs ---------------------------
(***************************************************************************)
(* What Coordinator promises for every set of services, every number of    *)
(* seeds and all fault profiles and times that meet its assumptions.       *)
(***************************************************************************)
EXTENDS Coordinator, FiniteSetTheorems, TLAPS

USE CoordinatorAssumption

(* The type invariant in parts: most actions leave most parts alone.         *)

RunTypes ==
  /\ phase \in Phases /\ seed \in SeedNumbers
  /\ wait \in Int /\ wait >= -Slack
  /\ profile \in 1..Len(Profiles) + 1

TaskTypes ==
  /\ timers \subseteq Timers /\ posts \subseteq Posts /\ rounds \subseteq Rounds
  /\ \A m \in posts : m.kind \in {"inject", "recover"} => m.fault \in Faults

ControlTypes ==
  /\ controller \in {Off} \cup 0..Period /\ spawning \subseteq SeedNumbers /\ killAt \in KillTimes
  /\ killTimer \in {Off, Firing, Aborting} \cup Nat

KillTypes ==
  /\ killedAt \in BOOLEAN /\ spof \in BOOLEAN /\ overtaken \in BOOLEAN
  /\ sinceKill \in {Off} \cup 0..Aftermath + 1

ServiceTypes ==
  /\ active \in [Services -> SUBSET [fault : Faults, seed : SeedNumbers]]
  /\ params \in [Services -> 0..Seeds] /\ resetFor \in [Services -> SeedNumbers]

HistoryTypes == due \subseteq Faults /\ spilled \in BOOLEAN

TypeInv == RunTypes /\ TaskTypes /\ ControlTypes /\ KillTypes /\ ServiceTypes /\ HistoryTypes

LEMMA TypeInvImpliesTypes == TypeInv => CoordinatorTypeOK
  BY DEF TypeInv, RunTypes, TaskTypes, ControlTypes, KillTypes, ServiceTypes, HistoryTypes,
         CoordinatorTypeOK

LEMMA InitTypes == Init => TypeInv
  <1>. SUFFICES ASSUME Init PROVE TypeInv
    OBVIOUS
  <1>1. RunTypes
    BY DEF Init, RunTypes, Phases, SeedNumbers
  <1>2. KillTypes
    BY DEF Init, KillTypes
  <1>3. TaskTypes
    BY DEF Init, TaskTypes
  <1>4. ControlTypes
    BY DEF Init, ControlTypes
  <1>5. ServiceTypes
    BY DEF Init, ServiceTypes, SeedNumbers
  <1>6. HistoryTypes
    BY DEF Init, HistoryTypes
  <1>. QED
    BY <1>1, <1>2, <1>3, <1>4, <1>5, <1>6 DEF TypeInv

-----------------------------------------------------------------------------
(* Which steps touch what.                                                   *)

\* Detached tasks and services do not move the coordinator.
Aside ==
  \/ \E t \in timers : FireTimer(t)
  \/ RoundDue \/ KillFires \/ KillAborts \/ KillReports
  \/ \E s \in spawning : StartRound(s)
  \/ \E r \in rounds : Decide(r)
  \/ \E m \in posts : Handle(m) \/ Lose(m)

Ends == HealthDeadline \/ LoadFails \/ WriteFails \/ CellComplete

\* Steps of run_cell that only move it on.
Moves == Healthy \/ ResetDone \/ Settled \/ Started \/ Scheduled \/ Collect

LEMMA Cases ==
  Next <=> \/ Aside \/ Ends \/ Moves
           \/ ApplyProfile \/ Launch \/ LoadEnds \/ StopController \/ Report \/ NextSeed \/ Tick
  BY DEF Next, Aside, Ends, Moves

LEMMA AsideKeeps == Aside => UNCHANGED coordinator
  BY DEF Aside, FireTimer, RoundDue, StartRound, KillFires, KillAborts, KillReports, Decide, Handle, Lose

LEMMA ServicesKept == Next => UNCHANGED services \/ \E m \in posts : Handle(m)
  BY DEF Next, Healthy, HealthDeadline, ResetDone, Settled, Started, ApplyProfile, Scheduled,
         Launch, LoadFails, LoadEnds, StopController, Report, Collect, WriteFails, NextSeed,
         CellComplete, Exits, FireTimer, RoundDue, StartRound, Decide, KillFires, KillAborts, KillReports, Lose, Tick

LEMMA TimersKept == Next => UNCHANGED timers \/ ApplyProfile \/ (\E t \in timers : FireTimer(t))
                              \/ timers' = {} \/ Tick
  BY DEF Next, Healthy, HealthDeadline, ResetDone, Settled, Started, ApplyProfile, Scheduled,
         Launch, LoadFails, LoadEnds, StopController, Report, Collect, WriteFails, NextSeed,
         CellComplete, Exits, FireTimer, RoundDue, StartRound, Decide, KillFires, KillAborts, KillReports, Handle, Lose,
         Tick, detached

LEMMA RoundsKept == Next => UNCHANGED rounds \/ (\E s \in spawning : StartRound(s)) \/ (\E r \in rounds : Decide(r))
                              \/ rounds' = {} \/ Tick
  BY DEF Next, Healthy, HealthDeadline, ResetDone, Settled, Started, ApplyProfile, Scheduled,
         Launch, LoadFails, LoadEnds, StopController, Report, Collect, WriteFails, NextSeed,
         CellComplete, Exits, FireTimer, RoundDue, KillFires, KillAborts, KillReports, Handle, Lose, Tick, detached

LEMMA PostsKept ==
  Next => \/ UNCHANGED posts \/ NextSeed \/ posts' = {} \/ Tick
          \/ \E t \in timers : FireTimer(t)
          \/ \E r \in rounds : Decide(r)
          \/ \E m \in posts : Handle(m) \/ Lose(m)
  BY DEF Next, Healthy, HealthDeadline, ResetDone, Settled, Started, ApplyProfile, Scheduled,
         Launch, LoadFails, LoadEnds, StopController, Report, Collect, WriteFails,
         CellComplete, Exits, RoundDue, StartRound, KillFires, KillAborts, KillReports, Tick, detached

-----------------------------------------------------------------------------
(* Types.                                                                    *)

LEMMA RunStep == ASSUME TypeInv, Next PROVE RunTypes'
  <1>. USE DEF TypeInv, RunTypes
  <1>1. CASE Aside
    BY <1>1, AsideKeeps DEF coordinator
  <1>2. CASE Ends
    BY <1>2 DEF Ends, HealthDeadline, LoadFails, WriteFails, CellComplete, Exits, Goes, Phases
  <1>3. CASE Healthy \/ ResetDone \/ Settled
    BY <1>3 DEF Healthy, ResetDone, Settled, Goes, Phases
  <1>4. CASE Started \/ Scheduled \/ Collect
    BY <1>4 DEF Started, Scheduled, Collect, Goes, Phases
  <1>5. CASE ApplyProfile
    BY <1>5 DEF ApplyProfile
  <1>6. CASE Launch \/ LoadEnds
    BY <1>6 DEF Launch, LoadEnds, Goes, Phases
  <1>7. CASE StopController \/ Report
    BY <1>7 DEF StopController, Report, Goes, Phases
  <1>8. CASE NextSeed
    BY <1>8 DEF NextSeed, Goes, Phases, SeedNumbers
  <1>9. CASE Tick
    BY <1>9 DEF Tick, Waiting
  <1>. QED
    BY <1>1, <1>2, <1>3, <1>4, <1>5, <1>6, <1>7, <1>8, <1>9, Cases DEF Moves

LEMMA ServiceStep == ASSUME TypeInv, Next PROVE ServiceTypes'
  <1>. USE DEF ServiceTypes
  <1>1. CASE UNCHANGED services
    BY <1>1 DEF services, TypeInv
  <1>2. ASSUME NEW m \in posts, Handle(m) PROVE ServiceTypes'
    <2>1. ServiceTypes /\ m \in Posts /\ (m.kind = "inject" => m.fault \in Faults)
      BY <1>2 DEF TypeInv, TaskTypes
    <2>2. m.svc \in Services /\ m.seed \in SeedNumbers /\ m.seed \in 0..Seeds
      BY <2>1 DEF Posts, SeedNumbers
    <2>3. CASE Inject(m)
      <3>. DEFINE added == IF m.fault.layer = "process" THEN {}
                           ELSE {[fault |-> m.fault, seed |-> m.seed]}
                  kept == active[m.svc] \ (IF m.fault.layer = "tc" THEN InLayers(m.svc, {"tc"})
                                           ELSE {})
      <3>1. active' = [active EXCEPT ![m.svc] = kept \cup added] /\ UNCHANGED <<params, resetFor>>
        BY <2>3 DEF Inject
      <3>2. added \subseteq [fault : Faults, seed : SeedNumbers]
        BY <2>1, <2>2, <2>3 DEF Inject
      <3>3. kept \cup added \subseteq [fault : Faults, seed : SeedNumbers]
        BY <2>1, <2>2, <3>2
      <3>. QED
        BY <2>1, <2>2, <3>1, <3>3
    <2>4. CASE Recover(m)
      BY <2>1, <2>2, <2>4 DEF Recover, InLayers
    <2>5. CASE ApplyUpdate(m)
      BY <2>1, <2>2, <2>5 DEF ApplyUpdate
    <2>6. CASE ResetFaults(m)
      BY <2>1, <2>2, <2>6 DEF ResetFaults
    <2>7. CASE ResetStrategy(m)
      BY <2>1, <2>2, <2>7 DEF ResetStrategy
    <2>. QED
      BY <1>2, <2>3, <2>4, <2>5, <2>6, <2>7 DEF Handle
  <1>. QED
    BY <1>1, <1>2, ServicesKept

\* A set of tasks that grows older keeps its tasks and their kinds.
LEMMA EarlierTimers ==
  ASSUME timers \subseteq Timers, InTime(timers)
  PROVE  Earlier(timers) \subseteq Timers
  BY DEF Earlier, InTime, Timers

LEMMA EarlierPosts ==
  ASSUME TaskTypes, InTime(posts)
  PROVE  /\ Earlier(posts) \subseteq Posts
         /\ \A m \in Earlier(posts) : \E n \in posts :
              /\ m = [n EXCEPT !.left = @ - 1] /\ m.left = n.left - 1
              /\ m.kind = n.kind /\ m.fault = n.fault /\ m.seed = n.seed /\ m.svc = n.svc
  BY DEF Earlier, InTime, Posts, TaskTypes

LEMMA EarlierRounds ==
  ASSUME rounds \subseteq Rounds, InTime(rounds)
  PROVE  Earlier(rounds) \subseteq Rounds
  BY DEF Earlier, InTime, Rounds

LEMMA TimersStep == ASSUME TypeInv, Next PROVE timers' \subseteq Timers
  <1>1. timers \subseteq Timers /\ seed \in SeedNumbers
    BY DEF TypeInv, TaskTypes, RunTypes
  <1>2. CASE ApplyProfile
    <2>1. profile \in DOMAIN Profiles
      BY <1>2 DEF ApplyProfile, TypeInv, RunTypes
    <2>2. Profiles[profile] \subseteq Faults
      BY <2>1 DEF Faults
    <2>3. \A t \in PlanFaults(Profiles[profile]) : At(t) \in Timers
      BY <1>1, <2>2 DEF PlanFaults, At, Timers
    <2>. QED
      BY <1>1, <1>2, <2>3 DEF ApplyProfile
  <1>3. CASE \E t \in timers : FireTimer(t)
    BY <1>1, <1>3 DEF FireTimer
  <1>4. CASE Tick
    BY <1>1, <1>4, EarlierTimers DEF Tick
  <1>. QED
    BY <1>1, <1>2, <1>3, <1>4, TimersKept

LEMMA RoundsStep == ASSUME TypeInv, Next PROVE rounds' \subseteq Rounds
  <1>1. rounds \subseteq Rounds /\ seed \in SeedNumbers
    BY DEF TypeInv, TaskTypes, RunTypes
  <1>2. CASE \E s \in spawning : StartRound(s)
    BY <1>1, <1>2 DEF StartRound, Rounds, TypeInv, ControlTypes
  <1>3. CASE \E r \in rounds : Decide(r)
    BY <1>1, <1>3 DEF Decide
  <1>4. CASE Tick
    BY <1>1, <1>4, EarlierRounds DEF Tick
  <1>. QED
    BY <1>1, <1>2, <1>3, <1>4, RoundsKept

LEMMA PostsStep ==
  ASSUME TypeInv, Next
  PROVE  /\ posts' \subseteq Posts
         /\ \A m \in posts' : m.kind \in {"inject", "recover"} => m.fault \in Faults
  <1>. DEFINE Fine(set) == set \subseteq Posts
                           /\ \A m \in set : m.kind \in {"inject", "recover"} => m.fault \in Faults
  <1>. SUFFICES Fine(posts')
    OBVIOUS
  <1>1. Fine(posts) /\ seed \in SeedNumbers
    BY DEF TypeInv, TaskTypes, RunTypes
  <1>2. CASE NextSeed
    BY <1>1, <1>2 DEF NextSeed, Posts, SeedNumbers
  <1>3. ASSUME NEW t \in timers, FireTimer(t) PROVE Fine(posts')
    <2>1. t \in Timers
      BY <1>3 DEF TypeInv, TaskTypes
    <2>2. t.fault \in Faults /\ t.fault.svc \in Services
      BY <2>1 DEF Timers
    <2>. QED
      BY <1>1, <1>3, <2>1, <2>2 DEF FireTimer, Posts, Timers
  <1>4. ASSUME NEW r \in rounds, Decide(r) PROVE Fine(posts')
    <2>1. r \in Rounds
      BY <1>4 DEF TypeInv, TaskTypes
    <2>. QED
      BY <1>1, <1>4, <2>1 DEF Decide, Posts, Rounds
  <1>5. ASSUME NEW m \in posts, Handle(m) PROVE Fine(posts')
    <2>1. CASE ResetFaults(m)
      BY <1>1, <1>5, <2>1 DEF ResetFaults, Posts
    <2>. QED
      BY <1>1, <1>5, <2>1 DEF Handle, Inject, Recover, ApplyUpdate, ResetStrategy
  <1>6. ASSUME NEW m \in posts, Lose(m) PROVE Fine(posts')
    BY <1>1, <1>6 DEF Lose
  <1>7. CASE Tick
    <2>1. TaskTypes /\ InTime(posts) /\ posts' = Earlier(posts)
      BY <1>7 DEF Tick, TypeInv
    <2>. QED
      BY <1>1, <2>1, EarlierPosts
  <1>. QED
    BY <1>1, <1>2, <1>3, <1>4, <1>5, <1>6, <1>7, PostsKept

LEMMA ControlKept ==
  Next => \/ UNCHANGED <<controller, spawning, killTimer>>
          \/ Ends \/ Launch \/ LoadEnds \/ StopController \/ Report \/ Tick
          \/ RoundDue \/ KillFires \/ KillAborts \/ KillReports
          \/ \E s \in spawning : StartRound(s)
  BY DEF Next, Healthy, ResetDone, Settled, Started, ApplyProfile, Scheduled, Ends, Collect,
         NextSeed, FireTimer, Decide, Handle, Lose, control

LEMMA KilledKept ==
  Next => /\ UNCHANGED killedAt \/ Launch \/ KillReports
          /\ UNCHANGED spof \/ Report \/ NextSeed
          /\ UNCHANGED overtaken \/ LoadEnds \/ NextSeed
          /\ UNCHANGED sinceKill \/ KillAborts \/ NextSeed \/ Tick
  BY DEF Next, Healthy, HealthDeadline, ResetDone, Settled, Started, ApplyProfile, Scheduled, Launch,
         LoadFails, LoadEnds, StopController, Report, Collect, WriteFails, NextSeed, CellComplete,
         Exits, FireTimer, RoundDue, StartRound, Decide, KillFires, KillAborts, KillReports, Handle,
         Lose, Tick, coordinator, control, kills

LEMMA KillAtKept == Next => UNCHANGED killAt
  BY DEF Next, Healthy, HealthDeadline, ResetDone, Settled, Started, ApplyProfile, Scheduled, Launch,
         LoadFails, LoadEnds, StopController, Report, Collect, WriteFails, NextSeed, CellComplete,
         Exits, FireTimer, RoundDue, StartRound, Decide, KillFires, KillAborts, KillReports, Handle, Lose, Tick, control

LEMMA ControlStep == ASSUME TypeInv, Next PROVE ControlTypes'
  <1>. USE DEF ControlTypes
  <1>1. ControlTypes /\ seed \in SeedNumbers
    BY DEF TypeInv, RunTypes
  <1>2. killAt' \in KillTimes
    BY <1>1, KillAtKept
  <1>3. controller' \in {Off} \cup 0..Period
    BY <1>1, ControlKept DEF Ends, HealthDeadline, LoadFails, WriteFails, CellComplete, Exits,
       Launch, LoadEnds, StopController, Report, RoundDue, StartRound, KillFires, KillAborts,
       KillReports, Tick, FirstRound, Off, Less
  <1>4. spawning' \subseteq SeedNumbers
    BY <1>1, ControlKept DEF Ends, HealthDeadline, LoadFails, WriteFails, CellComplete, Exits,
       Launch, LoadEnds, StopController, Report, RoundDue, StartRound, KillFires, KillAborts,
       KillReports, Tick
  <1>5. killTimer' \in {Off, Firing, Aborting} \cup Nat
    BY <1>1, ControlKept DEF Ends, HealthDeadline, LoadFails, WriteFails, CellComplete, Exits,
       Launch, LoadEnds, StopController, Report, RoundDue, StartRound, KillFires, KillAborts,
       KillReports, Tick, KillDelay, AtWork, Off, Firing, Aborting, Less
  <1>. QED
    BY <1>2, <1>3, <1>4, <1>5

LEMMA KillTypesStep == ASSUME TypeInv, Next PROVE KillTypes'
  <1>1. KillTypes
    BY DEF TypeInv
  <1>2. killedAt' \in BOOLEAN /\ spof' \in BOOLEAN
    BY <1>1, KilledKept DEF KillTypes, Launch, KillReports, Report, NextSeed
  <1>3. overtaken' \in BOOLEAN
    <2>1. overtaken' \in {overtaken, AtWork, FALSE}
      BY KilledKept DEF LoadEnds, NextSeed
    <2>2. AtWork \in BOOLEAN
      BY DEF AtWork
    <2>. QED
      BY <1>1, <2>1, <2>2 DEF KillTypes
  <1>4. sinceKill' \in {Off} \cup 0..Aftermath + 1
    <2>1. Aftermath \in Nat
      BY DEF Aftermath
    <2>2. CASE UNCHANGED sinceKill \/ KillAborts \/ NextSeed
      BY <1>1, <2>1, <2>2 DEF KillTypes, KillAborts, NextSeed
    <2>3. CASE Tick
      BY <1>1, <2>1, <2>3 DEF KillTypes, Tick
    <2>. QED
      BY <2>2, <2>3, KilledKept
  <1>. QED
    BY <1>2, <1>3, <1>4 DEF KillTypes

LEMMA HistoryKept ==
  Next => \/ UNCHANGED history \/ Started
          \/ \E t \in timers : FireTimer(t)
          \/ \E m \in posts : Handle(m)
  BY DEF Next, Healthy, HealthDeadline, ResetDone, Settled, ApplyProfile, Scheduled, Launch,
         LoadFails, LoadEnds, StopController, Report, Collect, WriteFails, NextSeed, CellComplete,
         Exits, RoundDue, StartRound, Decide, KillFires, KillAborts, KillReports, Lose, Tick

LEMMA HistoryStep == ASSUME TypeInv, Next PROVE HistoryTypes'
  <1>. USE DEF HistoryTypes
  <1>1. HistoryTypes
    BY DEF TypeInv
  <1>2. CASE Started
    BY <1>1, <1>2 DEF Started
  <1>3. CASE \E t \in timers : FireTimer(t)
    BY <1>1, <1>3 DEF FireTimer
  <1>4. ASSUME NEW m \in posts, Handle(m) PROVE HistoryTypes'
    <2>1. m.kind = "inject" => m.fault \in Faults
      BY DEF TypeInv, TaskTypes
    <2>. QED
      BY <1>1, <1>4, <2>1 DEF Handle, Inject, Recover, ApplyUpdate, ResetFaults, ResetStrategy
  <1>. QED
    BY <1>1, <1>2, <1>3, <1>4, HistoryKept DEF history

LEMMA StepTypes == TypeInv /\ [Next]_vars => TypeInv'
  <1>1. ASSUME TypeInv, Next PROVE TypeInv'
    BY <1>1, RunStep, TimersStep, RoundsStep, PostsStep, ControlStep, KillTypesStep, ServiceStep,
       HistoryStep DEF TypeInv, TaskTypes
  <1>2. ASSUME TypeInv, UNCHANGED vars PROVE TypeInv'
    BY <1>2 DEF vars, coordinator, detached, control, kills, services, history, TypeInv, RunTypes,
       TaskTypes, ControlTypes, KillTypes, ServiceTypes, HistoryTypes
  <1>. QED
    BY <1>1, <1>2

LEMMA Typed == Spec => []TypeInv
  BY InitTypes, StepTypes, PTL DEF Spec

\* Type correctness of a cell.
THEOREM CoordinatorTypes == Spec => []CoordinatorTypeOK
  BY Typed, TypeInvImpliesTypes, PTL

-----------------------------------------------------------------------------
(* The faults of a seed stay in it.                                          *)

\* An injection that is x ticks from its last moment comes before the load test ends.
BeforeLoadEnds(x) ==
  \/ phase \in {"schedule", "launch"} /\ x < Load
  \/ phase = "load" /\ x < wait

InjectionsInTime ==
  /\ \A t \in timers : t.act = "inject" => t.seed = seed /\ BeforeLoadEnds(t.left + FaultTimeout)
  /\ \A m \in posts : m.kind = "inject" => m.seed = seed /\ BeforeLoadEnds(m.left)

\* Soft resets are answered or given up before the seed starts.
ResetsInTime == \A m \in posts : m.kind = "reset" => m.seed = seed /\ phase = "reset"

OwnFaults ==
  \A s \in Services : /\ resetFor[s] <= seed
                      /\ resetFor[s] = seed => \A a \in active[s] : a.seed = seed

SeedInv == InjectionsInTime /\ ResetsInTime /\ OwnFaults

LEMMA InitSeed == Init => SeedInv
  BY DEF Init, SeedInv, InjectionsInTime, ResetsInTime, OwnFaults

LEMMA InjectionTimers ==
  ASSUME TypeInv, SeedInv, Next
  PROVE  \A t \in timers' : t.act = "inject" => t.seed = seed' /\ BeforeLoadEnds(t.left + FaultTimeout)'
  <1>. USE DEF BeforeLoadEnds
  <1>1. /\ timers \subseteq Timers
        /\ \A t \in timers : t.act = "inject" => t.seed = seed /\ BeforeLoadEnds(t.left + FaultTimeout)
        /\ wait \in Int /\ Load \in Nat /\ FaultTimeout \in Nat
    BY DEF SeedInv, InjectionsInTime, TypeInv, RunTypes, TaskTypes
  <1>2. CASE Aside
    BY <1>1, <1>2, AsideKeeps DEF Aside, FireTimer, RoundDue, StartRound, KillFires, KillAborts, KillReports, Decide,
       Handle, Lose, coordinator, detached
  <1>3. CASE Ends
    BY <1>3 DEF Ends, HealthDeadline, LoadFails, WriteFails, CellComplete, Exits
  <1>4. CASE Healthy \/ ResetDone \/ Settled
    BY <1>1, <1>4 DEF Healthy, ResetDone, Settled, Goes, detached
  <1>5. CASE Started \/ Scheduled \/ Collect
    BY <1>1, <1>5 DEF Started, Scheduled, Collect, Goes, detached
  <1>6. CASE ApplyProfile
    <2>1. Profiles[profile] \subseteq Faults
      BY <1>6 DEF ApplyProfile, TypeInv, RunTypes, Faults
    <2>2. \A t \in PlanFaults(Profiles[profile]) : At(t).act = "inject" =>
             At(t).seed = seed /\ At(t).left + FaultTimeout < Load
      BY <2>1, InTimeAssumption DEF PlanFaults, At
    <2>. QED
      BY <1>1, <1>6, <2>2 DEF ApplyProfile
  <1>7. CASE Launch
    BY <1>1, <1>7 DEF Launch, Goes, detached
  <1>8. CASE LoadEnds
    <2>1. \A t \in timers : t.act # "inject"
      BY <1>1, <1>8 DEF LoadEnds, Timers
    <2>. QED
      BY <1>8, <2>1 DEF LoadEnds, detached
  <1>9. CASE StopController \/ Report \/ NextSeed
    BY <1>1, <1>9 DEF StopController, Report, NextSeed, Goes, detached
  <1>10. CASE Tick
    <2>1. /\ timers' = Earlier(timers) /\ UNCHANGED <<phase, seed>>
          /\ phase \in Waiting /\ (phase = "load" => wait' = wait - 1)
      BY <1>10 DEF Tick
    <2>2. SUFFICES ASSUME NEW t \in timers, t.act = "inject"
                   PROVE  t.seed = seed' /\ BeforeLoadEnds(t.left - 1 + FaultTimeout)'
      BY <2>1, <1>1 DEF Earlier, Timers
    <2>. QED
      BY <1>1, <2>1, <2>2 DEF Waiting, Timers
  <1>. QED
    BY <1>2, <1>3, <1>4, <1>5, <1>6, <1>7, <1>8, <1>9, <1>10, Cases DEF Moves

\* Handling a post leaves at most the second half of a soft reset behind.
LEMMA HandledPosts ==
  ASSUME NEW m \in posts, m \in Posts, Handle(m) \/ Lose(m)
  PROVE  \A n \in posts' : n \in posts \/ n.kind = "resetStrategy"
  <1>1. m.kind = "reset" => [m EXCEPT !.kind = "resetStrategy"].kind = "resetStrategy"
    BY DEF Posts
  <1>2. CASE ResetFaults(m)
    BY <1>1, <1>2 DEF ResetFaults
  <1>3. CASE Inject(m) \/ Recover(m) \/ ApplyUpdate(m) \/ ResetStrategy(m) \/ Lose(m)
    BY <1>3 DEF Inject, Recover, ApplyUpdate, ResetStrategy, Lose
  <1>. QED
    BY <1>2, <1>3 DEF Handle

\* Which posts a detached task or a service adds.
LEMMA AsidePosts ==
  ASSUME TypeInv, Aside
  PROVE  \/ \E t \in timers : FireTimer(t)
         \/ \A n \in posts' : n \in posts \/ n.kind \in {"resetStrategy", "control"}
  <1>1. CASE RoundDue \/ KillFires \/ KillAborts \/ KillReports \/ \E s \in spawning : StartRound(s)
    BY <1>1 DEF RoundDue, StartRound, KillFires, KillAborts, KillReports, detached
  <1>2. CASE \E r \in rounds : Decide(r)
    BY <1>2 DEF Decide
  <1>3. CASE \E m \in posts : Handle(m) \/ Lose(m)
    BY <1>3, HandledPosts DEF TypeInv, TaskTypes
  <1>. QED
    BY <1>1, <1>2, <1>3 DEF Aside

LEMMA InjectionPosts ==
  ASSUME TypeInv, SeedInv, Next
  PROVE  \A m \in posts' : m.kind = "inject" => m.seed = seed' /\ BeforeLoadEnds(m.left)'
  <1>. USE DEF BeforeLoadEnds
  <1>1. /\ posts \subseteq Posts
        /\ \A m \in posts : m.kind = "inject" => m.seed = seed /\ BeforeLoadEnds(m.left)
        /\ wait \in Int /\ Load \in Nat /\ FaultTimeout \in Nat
    BY DEF SeedInv, InjectionsInTime, TypeInv, RunTypes, TaskTypes
  <1>2. ASSUME NEW t \in timers, FireTimer(t)
        PROVE  \A m \in posts' : m.kind = "inject" => m.seed = seed' /\ BeforeLoadEnds(m.left)'
    <2>1. t.act = "inject" => t.seed = seed /\ BeforeLoadEnds(FaultTimeout)
      BY <1>1, <1>2 DEF SeedInv, InjectionsInTime, FireTimer
    <2>. QED
      BY <1>1, <1>2, <2>1 DEF FireTimer, coordinator
  <1>3. CASE Aside /\ ~\E t \in timers : FireTimer(t)
    <2>1. UNCHANGED coordinator
      BY <1>3, AsideKeeps
    <2>2. \A m \in posts' : m.kind = "inject" => m \in posts
      BY <1>3, AsidePosts
    <2>. QED
      BY <1>1, <2>1, <2>2 DEF coordinator
  <1>4. CASE Ends
    BY <1>4 DEF Ends, HealthDeadline, LoadFails, WriteFails, CellComplete, Exits
  <1>5. CASE Healthy \/ ResetDone \/ Settled
    BY <1>1, <1>5 DEF Healthy, ResetDone, Settled, Goes, detached
  <1>6. CASE Started \/ Scheduled \/ Collect
    BY <1>1, <1>6 DEF Started, Scheduled, Collect, Goes, detached
  <1>7. CASE ApplyProfile \/ Launch
    BY <1>1, <1>7 DEF ApplyProfile, Launch, Goes, detached
  <1>8. CASE LoadEnds
    <2>1. \A m \in posts : m.kind # "inject"
      BY <1>1, <1>8 DEF LoadEnds, Posts
    <2>. QED
      BY <1>8, <2>1 DEF LoadEnds, detached
  <1>9. CASE StopController \/ Report \/ NextSeed
    BY <1>1, <1>9 DEF StopController, Report, NextSeed, Goes, detached
  <1>10. CASE Tick
    <2>1. /\ posts' = Earlier(posts) /\ InTime(posts) /\ UNCHANGED <<phase, seed>>
          /\ phase \in Waiting /\ (phase = "load" => wait' = wait - 1)
      BY <1>10 DEF Tick
    <2>2. SUFFICES ASSUME NEW m \in posts', m.kind = "inject"
                   PROVE  m.seed = seed' /\ BeforeLoadEnds(m.left)'
      OBVIOUS
    <2>3. PICK n \in posts : m.left = n.left - 1 /\ n.kind = "inject" /\ m.seed = n.seed
      BY <2>1, <2>2, EarlierPosts DEF TypeInv
    <2>4. n.left \in Nat
      BY <1>1 DEF Posts
    <2>. QED
      BY <1>1, <2>1, <2>3, <2>4 DEF Waiting
  <1>. QED
    BY <1>2, <1>3, <1>4, <1>5, <1>6, <1>7, <1>8, <1>9, <1>10, Cases DEF Moves

LEMMA ResetPosts == ASSUME TypeInv, SeedInv, Next PROVE ResetsInTime'
  <1>. USE DEF ResetsInTime
  <1>1. ResetsInTime /\ posts \subseteq Posts
    BY DEF SeedInv, TypeInv, TaskTypes
  <1>2. CASE Aside
    <2>1. UNCHANGED coordinator
      BY <1>2, AsideKeeps
    <2>2. ASSUME NEW t \in timers, FireTimer(t) PROVE \A m \in posts' : m.kind = "reset" => m \in posts
      <3>1. t.act \in {"inject", "recover"}
        BY DEF TypeInv, TaskTypes, Timers
      <3>. QED
        BY <2>2, <3>1 DEF FireTimer
    <2>3. \A m \in posts' : m.kind = "reset" => m \in posts
      BY <1>2, <2>2, AsidePosts
    <2>. QED
      BY <1>1, <2>1, <2>3 DEF coordinator
  <1>3. CASE Ends
    BY <1>3 DEF Ends, HealthDeadline, LoadFails, WriteFails, CellComplete, Exits
  <1>4. CASE Healthy \/ ResetDone \/ Settled
    BY <1>1, <1>4 DEF Healthy, ResetDone, Answered, Settled, Goes, detached
  <1>5. CASE Started \/ Scheduled \/ Collect
    BY <1>1, <1>5 DEF Started, Scheduled, Collect, Goes, detached
  <1>6. CASE ApplyProfile \/ Launch \/ LoadEnds
    BY <1>1, <1>6 DEF ApplyProfile, Launch, LoadEnds, Goes, detached
  <1>7. CASE StopController \/ Report
    BY <1>1, <1>7 DEF StopController, Report, Goes, detached
  <1>8. CASE NextSeed
    BY <1>1, <1>8 DEF NextSeed, Goes
  <1>9. CASE Tick
    <2>1. posts' = Earlier(posts) /\ InTime(posts) /\ UNCHANGED <<phase, seed>>
      BY <1>9 DEF Tick
    <2>2. \A m \in posts' : \E n \in posts : m.kind = n.kind /\ m.seed = n.seed
      BY <2>1, EarlierPosts DEF TypeInv
    <2>. QED
      BY <1>1, <2>1, <2>2
  <1>. QED
    BY <1>2, <1>3, <1>4, <1>5, <1>6, <1>7, <1>8, <1>9, Cases DEF Moves

LEMMA SeedKept == Next => UNCHANGED seed \/ NextSeed
  BY DEF Next, Healthy, HealthDeadline, ResetDone, Settled, Started, ApplyProfile, Scheduled, Launch,
         LoadFails, LoadEnds, StopController, Report, Collect, WriteFails, CellComplete,
         Exits, FireTimer, RoundDue, StartRound, Decide, KillFires, KillAborts, KillReports, Handle, Lose, Tick, coordinator

LEMMA OwnFaultsStep == ASSUME TypeInv, SeedInv, Next PROVE OwnFaults'
  <1>. USE DEF OwnFaults
  <1>1. /\ OwnFaults /\ seed \in Nat
        /\ active \in [Services -> SUBSET [fault : Faults, seed : SeedNumbers]]
        /\ resetFor \in [Services -> SeedNumbers]
    BY DEF SeedInv, TypeInv, RunTypes, ServiceTypes, SeedNumbers
  <1>2. CASE NextSeed
    <2>1. seed' = seed + 1 /\ UNCHANGED <<active, resetFor>>
      BY <1>2 DEF NextSeed, services
    <2>. QED
      BY <1>1, <2>1 DEF SeedNumbers
  <1>3. ASSUME NEW m \in posts, Handle(m) PROVE OwnFaults'
    <2>1. /\ UNCHANGED seed /\ m.svc \in Services
          /\ (m.kind \in {"inject", "reset"} => m.seed = seed)
      BY <1>3 DEF Handle, coordinator, SeedInv, InjectionsInTime, ResetsInTime, TypeInv, TaskTypes, Posts
    <2>2. CASE Inject(m)
      <3>1. \A s \in Services : \A a \in active'[s] : a \in active[s] \/ a.seed = seed
        BY <1>1, <2>1, <2>2 DEF Inject
      <3>. QED
        BY <1>1, <2>1, <2>2, <3>1 DEF Inject
    <2>3. CASE Recover(m)
      BY <1>1, <2>1, <2>3 DEF Recover
    <2>4. CASE ApplyUpdate(m) \/ ResetStrategy(m)
      BY <1>1, <2>1, <2>4 DEF ApplyUpdate, ResetStrategy
    <2>5. CASE ResetFaults(m)
      BY <1>1, <2>1, <2>5 DEF ResetFaults
    <2>. QED
      BY <1>3, <2>2, <2>3, <2>4, <2>5 DEF Handle
  <1>4. CASE UNCHANGED services /\ UNCHANGED seed
    BY <1>1, <1>4 DEF services
  <1>5. (\E m \in posts : Handle(m)) \/ NextSeed \/ (UNCHANGED services /\ UNCHANGED seed)
    BY ServicesKept, SeedKept
  <1>. QED
    BY <1>2, <1>3, <1>4, <1>5

LEMMA StepSeed == TypeInv /\ SeedInv /\ [Next]_vars => SeedInv'
  <1>1. ASSUME TypeInv, SeedInv, Next PROVE SeedInv'
    BY <1>1, InjectionTimers, InjectionPosts, ResetPosts, OwnFaultsStep DEF SeedInv, InjectionsInTime
  <1>2. ASSUME SeedInv, UNCHANGED vars PROVE SeedInv'
    BY <1>2 DEF vars, coordinator, detached, control, services, history, SeedInv, InjectionsInTime,
       BeforeLoadEnds, ResetsInTime, OwnFaults
  <1>. QED
    BY <1>1, <1>2

\* No fault of one seed is in force during the load test of the next, on any service
\* whose soft reset got as far as the faults, if every injection is over when its own
\* load test ends (InTimeAssumption).
THEOREM SeedsSeparate == Spec => []FaultsOfOwnSeed
  <1>1. SeedInv => FaultsOfOwnSeed
    BY DEF SeedInv, OwnFaults, FaultsOfOwnSeed
  <1>. QED
    BY <1>1, Typed, InitSeed, StepSeed, PTL DEF Spec

-----------------------------------------------------------------------------
(* The note of the kill.                                                     *)

Killed == sinceKill # Off

Loading == {"health", "reset", "settle", "start", "schedule", "launch"}

\* During the load test the timer, its note and the kill agree: the kill before the
\* note, and neither before the sleep is over.  After the load test they agree if the
\* timer was not at work when it ended.
KillOnTime ==
  /\ phase \in Loading => ~Killed
  /\ phase \notin {"load", "ended", "cancelled"} => killTimer = Off
  /\ phase = "load" =>
       \/ killTimer = Off /\ (killedAt <=> Killed)
       \/ killTimer = Aborting /\ Killed
       \/ killTimer \in {Firing} \cup Nat /\ ~killedAt /\ ~Killed /\ controller # Off
  /\ phase \in {"ended", "cancelled"} => overtaken \/ (killTimer = Off /\ (killedAt <=> Killed))

KillInv == KillOnTime /\ KillReported

LEMMA InitKill == Init => KillInv
  BY DEF Init, KillInv, KillOnTime, KillReported, Killed, Off

\* What is killed stays killed until the next seed.
LEMMA KilledStays ==
  ASSUME TypeInv, Next, ~NextSeed
  PROVE  Killed' <=> Killed \/ (KillAborts /\ controller # Off)
  <1>1. sinceKill \in {Off} \cup 0..Aftermath + 1
    BY DEF TypeInv, KillTypes
  <1>. QED
    BY <1>1, KilledKept DEF Killed, KillAborts, Tick, Off, Aftermath

LEMMA KillTimerStep == ASSUME TypeInv, KillOnTime, Next PROVE KillOnTime'
  <1>. USE DEF KillOnTime, Loading
  <1>1. /\ killTimer \in {Off, Firing, Aborting} \cup Nat /\ controller \in {Off} \cup 0..Period
        /\ killAt \in Nat /\ Central \in BOOLEAN /\ killedAt \in BOOLEAN
    BY DEF TypeInv, ControlTypes, KillTypes
  <1>2. CASE Ends
    BY <1>2, KilledStays DEF Ends, HealthDeadline, LoadFails, WriteFails, CellComplete, Exits, Goes
  <1>3. CASE Healthy \/ ResetDone \/ Settled \/ Started
    BY <1>3 DEF Healthy, ResetDone, Settled, Started, Goes, control, kills, Killed
  <1>4. CASE Scheduled \/ Collect \/ ApplyProfile
    BY <1>4 DEF Scheduled, Collect, ApplyProfile, Goes, control, kills, Killed
  <1>5. CASE NextSeed
    BY <1>5 DEF NextSeed, Goes, Killed
  <1>6. CASE Launch
    BY <1>1, <1>6 DEF Launch, KillDelay, FirstRound, Goes, kills, Killed, Off, Firing, Aborting
  <1>7. CASE LoadEnds
    BY <1>1, <1>7 DEF LoadEnds, AtWork, Goes, Killed, Off, Firing, Aborting
  <1>8. CASE StopController \/ Report
    BY <1>8 DEF StopController, Report, Goes, kills, Killed
  <1>9. CASE KillFires \/ KillReports
    BY <1>1, <1>9 DEF KillFires, KillReports, coordinator, kills, Killed, Off, Firing, Aborting
  <1>10. CASE KillAborts
    BY <1>1, <1>10 DEF KillAborts, coordinator, Killed, Off, Firing, Aborting
  <1>11. CASE RoundDue \/ \E s \in spawning : StartRound(s)
    BY <1>1, <1>11 DEF RoundDue, StartRound, coordinator, kills, Killed, Off
  <1>12. CASE (\E t \in timers : FireTimer(t)) \/ (\E r \in rounds : Decide(r))
    BY <1>12 DEF FireTimer, Decide, coordinator, control, kills, Killed
  <1>13. CASE \E m \in posts : Handle(m) \/ Lose(m)
    BY <1>13 DEF Handle, Lose, coordinator, control, kills, Killed
  <1>14. CASE Tick
    <2>1. Killed' <=> Killed
      BY <1>14, KilledStays DEF Tick, Waiting, NextSeed, KillAborts, AtWork
    <2>2. /\ UNCHANGED <<phase, killedAt, overtaken>>
          /\ controller' = Less(controller) /\ killTimer' = Less(killTimer)
          /\ controller # 0 /\ killTimer \notin {0, Firing, Aborting}
      BY <1>14 DEF Tick, AtWork
    <2>. QED
      BY <1>1, <2>1, <2>2 DEF Less, Off, Firing, Aborting
  <1>. QED
    BY <1>2, <1>3, <1>4, <1>5, <1>6, <1>7, <1>8, <1>9, <1>10, <1>11, <1>12, <1>13, <1>14, Cases
       DEF Moves, Aside

Reported == phase \in {"collect", "write", "done"}

LEMMA ReportedFrom ==
  ASSUME Next, Reported'
  PROVE  Reported \/ Report
  BY Cases, AsideKeeps DEF Reported, Ends, HealthDeadline, LoadFails, WriteFails, CellComplete, Exits,
     Moves, Healthy, ResetDone, Settled, Started, Scheduled, Collect, ApplyProfile, Launch, LoadEnds,
     StopController, NextSeed, Tick, Goes, coordinator

LEMMA ReportStep == ASSUME TypeInv, KillInv, Next PROVE KillReported'
  <1>. SUFFICES ASSUME Reported', ~overtaken' PROVE (spof <=> Killed)'
    BY DEF KillReported, Reported, Killed
  <1>1. CASE Report
    BY <1>1 DEF Report, KillInv, KillOnTime, kills, Killed
  <1>2. CASE Reported /\ ~Report
    <2>1. ~NextSeed /\ ~LoadEnds
      BY <1>2 DEF NextSeed, LoadEnds, Reported, Goes
    <2>2. ~KillAborts
      BY <1>2 DEF KillInv, KillOnTime, KillAborts, Reported, Off, Firing
    <2>3. UNCHANGED <<spof, overtaken>> /\ (Killed' <=> Killed)
      BY <1>2, <2>1, <2>2, KilledKept, KilledStays
    <2>. QED
      BY <1>2, <2>3 DEF KillInv, KillReported, Reported, Killed
  <1>. QED
    BY <1>1, <1>2, ReportedFrom

LEMMA StepKill == TypeInv /\ KillInv /\ [Next]_vars => KillInv'
  <1>1. ASSUME TypeInv, KillInv, Next PROVE KillInv'
    BY <1>1, KillTimerStep, ReportStep DEF KillInv
  <1>2. ASSUME KillInv, UNCHANGED vars PROVE KillInv'
    BY <1>2 DEF vars, coordinator, control, kills, KillInv, KillOnTime, KillReported, Killed
  <1>. QED
    BY <1>1, <1>2

LEMMA KillHolds == Spec => []KillInv
  BY Typed, InitKill, StepKill, PTL DEF Spec

\* A result reports a kill exactly if the kill timer stopped the controller of its seed,
\* at whatever time the kill is due, unless the load test ended while the timer was
\* between the end of its sleep and its note.
THEOREM KillIsReported == Spec => []KillReported
  BY KillHolds, PTL DEF KillInv

-----------------------------------------------------------------------------
(* The parameters of a seed come from its own controller.                    *)

Old(x) == x.seed < seed

\* What an earlier controller began is over in d ticks, before this one begins.
Within(d) ==
  \/ phase = "reset" /\ d <= PollTimeout + ControlTimeout
  \/ phase = "settle" /\ d + Settle - wait <= PollTimeout + ControlTimeout
  \/ phase \in {"start", "schedule", "launch"} /\ d + Settle <= PollTimeout + ControlTimeout
  \/ phase \in {"load", "ended"} /\ (controller = Off \/ d < controller)
  \/ phase \in {"cancelled", "collect", "write", "done", "failed"}

\* A round, a post or the parameters of a service belong to the controller of this seed.
Begun ==
  \/ seed \in spawning
  \/ \E r \in rounds : r.seed = seed
  \/ \E m \in posts : m.kind = "control" /\ m.seed = seed
  \/ \E s \in Services : params[s] = seed

NoneOld ==
  /\ \A s \in spawning : ~(s < seed)
  /\ \A r \in rounds : ~Old(r)
  /\ \A m \in posts : m.kind = "control" => ~Old(m)

\* Tasks and parameters of no later seed, and tasks that end in time.
SpawningOrdered == \A s \in spawning : s <= seed
RoundsOrdered == \A r \in rounds : r.seed <= seed /\ r.left <= PollTimeout
ControlOrdered == \A m \in posts : m.kind = "control" => m.seed <= seed /\ m.left <= ControlTimeout
ParamsOrdered == \A s \in Services : params[s] <= seed

OldSpawningEnds == \A s \in spawning : s < seed => Within(PollTimeout + ControlTimeout)
OldRoundsEnd == \A r \in rounds : Old(r) => Within(r.left + ControlTimeout)
OldPostsEnd == \A m \in posts : m.kind = "control" /\ Old(m) => Within(m.left)

ControlPhases ==
  /\ phase = "health" => seed = 1
  /\ controller # Off => phase \in {"load", "ended"}

ControlInv ==
  /\ ControlPhases
  /\ SpawningOrdered /\ RoundsOrdered /\ ControlOrdered /\ ParamsOrdered
  /\ OldSpawningEnds /\ OldRoundsEnd /\ OldPostsEnd
  /\ Begun => NoneOld

LEMMA InitControl == Init => ControlInv
  BY DEF Init, ControlInv, ControlPhases, SpawningOrdered, RoundsOrdered, ControlOrdered,
         ParamsOrdered, OldSpawningEnds, OldRoundsEnd, OldPostsEnd, Begun, NoneOld

LEMMA ControlPhasesStep == ASSUME TypeInv, ControlPhases, Next PROVE ControlPhases'
  <1>. USE DEF ControlPhases
  <1>1. CASE Ends
    BY <1>1 DEF Ends, HealthDeadline, LoadFails, WriteFails, CellComplete, Exits, Goes
  <1>2. CASE Healthy \/ ResetDone \/ Settled
    BY <1>2 DEF Healthy, ResetDone, Settled, Goes, control
  <1>3. CASE Started \/ Scheduled \/ Collect
    BY <1>3 DEF Started, Scheduled, Collect, Goes, control
  <1>4. CASE ApplyProfile \/ NextSeed
    BY <1>4 DEF ApplyProfile, NextSeed, Goes, control
  <1>5. CASE Launch \/ LoadEnds
    BY <1>5 DEF Launch, LoadEnds, Goes
  <1>6. CASE StopController \/ Report
    BY <1>6 DEF StopController, Report, Goes, control
  <1>7. CASE RoundDue \/ KillFires \/ KillAborts \/ KillReports \/ \E s \in spawning : StartRound(s)
    BY <1>7 DEF RoundDue, StartRound, KillFires, KillAborts, KillReports, coordinator, Off
  <1>8. CASE (\E t \in timers : FireTimer(t)) \/ (\E r \in rounds : Decide(r))
    BY <1>8 DEF FireTimer, Decide, coordinator, control
  <1>9. CASE \E m \in posts : Handle(m) \/ Lose(m)
    BY <1>9 DEF Handle, Lose, coordinator, control
  <1>10. CASE Tick
    BY <1>10 DEF Tick, Less, Off
  <1>. QED
    BY <1>1, <1>2, <1>3, <1>4, <1>5, <1>6, <1>7, <1>8, <1>9, <1>10, Cases DEF Moves, Aside

\* Every step leaves to what is old the time it has; a tick takes one of it.
LEMMA WithinKept ==
  ASSUME TypeInv, ControlPhases, Next, ~NextSeed, phase # "health", NEW d \in Int, Within(d)
  PROVE  IF Tick THEN Within(d - 1)' ELSE Within(d)'
  <1>. USE DEF Within
  <1>1. /\ wait \in Int /\ Period \in Nat /\ PollTimeout \in Nat /\ ControlTimeout \in Nat
        /\ Settle \in Nat /\ controller \in {Off} \cup 0..Period
        /\ PollTimeout + ControlTimeout < Period + Settle
    BY ControlAssumption DEF TypeInv, RunTypes, ControlTypes
  <1>2. CASE Tick
    BY <1>1, <1>2 DEF Tick, Waiting, Less, Off
  <1>3. ASSUME ~Tick PROVE Within(d)'
    <2>1. CASE Ends
      BY <2>1 DEF Ends, HealthDeadline, LoadFails, WriteFails, CellComplete, Exits, Goes
    <2>2. CASE Healthy \/ ResetDone \/ Settled
      BY <1>1, <2>2 DEF Healthy, ResetDone, Settled, Goes, control
    <2>3. CASE Started \/ Scheduled \/ Collect
      BY <2>3 DEF Started, Scheduled, Collect, Goes, control
    <2>4. CASE ApplyProfile
      BY <2>4 DEF ApplyProfile, control
    <2>5. CASE Launch
      BY <1>1, <2>5 DEF Launch, Goes, FirstRound
    <2>6. CASE LoadEnds
      BY <2>6 DEF LoadEnds, Goes
    <2>7. CASE StopController \/ Report
      BY <2>7 DEF StopController, Report, Goes, control
    <2>8. CASE RoundDue
      BY <1>1, <2>8 DEF RoundDue, coordinator, Off
    <2>9. CASE KillFires \/ KillAborts \/ KillReports \/ \E s \in spawning : StartRound(s)
      BY <2>9 DEF KillFires, KillAborts, KillReports, StartRound, coordinator
    <2>10. CASE (\E t \in timers : FireTimer(t)) \/ (\E r \in rounds : Decide(r))
      BY <2>10 DEF FireTimer, Decide, coordinator, control
    <2>11. CASE \E m \in posts : Handle(m) \/ Lose(m)
      BY <2>11 DEF Handle, Lose, coordinator, control
    <2>. QED
      BY <1>3, <2>1, <2>2, <2>3, <2>4, <2>5, <2>6, <2>7, <2>8, <2>9, <2>10, <2>11, Cases
         DEF Moves, Aside
  <1>. QED
    BY <1>2, <1>3

LEMMA WithinRoundKept ==
  ASSUME TypeInv, Tick, phase # "health", NEW q \in rounds, NEW r, r.left = q.left - 1,
         Within(q.left + ControlTimeout)
  PROVE  Within(r.left + ControlTimeout)'
  <1>1. /\ wait \in Int /\ PollTimeout \in Nat /\ ControlTimeout \in Nat /\ Settle \in Nat
        /\ controller \in {Off} \cup 0..Period /\ q.left \in Nat
    BY DEF TypeInv, RunTypes, ControlTypes, TaskTypes, Rounds
  <1>. QED
    BY <1>1 DEF Within, Tick, Waiting, Less, Off

\* Where the rounds after a step come from.
LEMMA RoundsFrom ==
  ASSUME TypeInv, Next, NEW r \in rounds'
  PROVE  /\ Tick => \E q \in rounds : r.seed = q.seed /\ r.left = q.left - 1
         /\ \/ Tick
            \/ r \in rounds
            \/ r.seed \in spawning /\ r.left = PollTimeout
  <1>1. rounds \subseteq Rounds
    BY DEF TypeInv, TaskTypes
  <1>2. ASSUME Tick PROVE \E q \in rounds : r.seed = q.seed /\ r.left = q.left - 1
    BY <1>1, <1>2 DEF Tick, Earlier, Rounds
  <1>3. ASSUME NEW s \in spawning, StartRound(s)
        PROVE  r \in rounds \/ (r.seed \in spawning /\ r.left = PollTimeout)
    BY <1>3 DEF StartRound
  <1>4. ASSUME NEW q \in rounds, Decide(q) PROVE r \in rounds
    BY <1>4 DEF Decide
  <1>. QED
    BY <1>2, <1>3, <1>4, RoundsKept

\* A controller is polled only while it is that of this seed, and not across a tick.
LEMMA SpawningFrom ==
  ASSUME Next, NEW s \in spawning'
  PROVE  ~Tick /\ (s \in spawning \/ (RoundDue /\ s = seed))
  BY ControlKept DEF Ends, HealthDeadline, LoadFails, WriteFails, CellComplete, Exits, Launch, LoadEnds,
     StopController, Report, RoundDue, StartRound, KillFires, KillAborts, KillReports, Tick

\* Where the posts of a controller come from.
LEMMA ControlFrom ==
  ASSUME TypeInv, Next, NEW m \in posts', m.kind = "control"
  PROVE  /\ Tick => \E n \in posts : n.kind = "control" /\ m.seed = n.seed /\ m.left = n.left - 1
         /\ \/ Tick
            \/ m \in posts
            \/ \E r \in rounds : m.seed = r.seed /\ m.left = ControlTimeout
  <1>1. ASSUME NextSeed PROVE m \in posts
    BY <1>1 DEF NextSeed
  <1>2. ASSUME NEW t \in timers, FireTimer(t) PROVE m \in posts
    <2>1. t.act # "control"
      BY DEF TypeInv, TaskTypes, Timers
    <2>. QED
      BY <1>2, <2>1 DEF FireTimer
  <1>3. ASSUME NEW r \in rounds, Decide(r)
        PROVE  m \in posts \/ (m.seed = r.seed /\ m.left = ControlTimeout)
    BY <1>3 DEF Decide
  <1>4. ASSUME NEW n \in posts, Handle(n) \/ Lose(n) PROVE m \in posts
    BY <1>4, HandledPosts DEF TypeInv, TaskTypes
  <1>5. ASSUME Tick PROVE \E n \in posts : n.kind = "control" /\ m.seed = n.seed /\ m.left = n.left - 1
    BY <1>5, EarlierPosts DEF Tick, TypeInv
  <1>. QED
    BY <1>1, <1>2, <1>3, <1>4, <1>5, PostsKept

LEMMA ParamsFrom ==
  ASSUME TypeInv, Next, NEW s \in Services
  PROVE  \/ params'[s] = params[s]
         \/ params'[s] = 0
         \/ \E m \in posts : m.kind = "control" /\ params'[s] = m.seed
  <1>1. params \in [Services -> 0..Seeds]
    BY DEF TypeInv, ServiceTypes
  <1>2. CASE UNCHANGED services
    BY <1>2 DEF services
  <1>3. ASSUME NEW m \in posts, Handle(m)
        PROVE  params'[s] = params[s] \/ params'[s] = 0 \/ (m.kind = "control" /\ params'[s] = m.seed)
    BY <1>1, <1>3 DEF Handle, Inject, Recover, ApplyUpdate, ResetFaults, ResetStrategy
  <1>. QED
    BY <1>2, <1>3, ServicesKept

\* The numbers the argument is about.
LEMMA ControlNumbers ==
  ASSUME TypeInv
  PROVE  /\ seed \in Nat \ {0} /\ wait \in Int
         /\ PollTimeout \in Nat /\ ControlTimeout \in Nat /\ Settle \in Nat
         /\ \A s \in spawning : s \in Nat \ {0}
         /\ \A r \in rounds : r.seed \in Nat \ {0} /\ r.left \in Nat
         /\ \A m \in posts : m.seed \in Nat \ {0} /\ m.left \in Nat
         /\ \A s \in Services : params[s] \in Nat
  <1>1. spawning \subseteq SeedNumbers
    BY DEF TypeInv, ControlTypes
  <1>2. \A s \in SeedNumbers : s \in Nat \ {0}
    BY DEF SeedNumbers
  <1>3. \A s \in spawning : s \in Nat \ {0}
    BY <1>1, <1>2
  <1>. QED
    BY <1>3 DEF TypeInv, RunTypes, TaskTypes, ServiceTypes, SeedNumbers, Rounds, Posts

LEMMA OrderedStep ==
  ASSUME TypeInv, ControlInv, Next
  PROVE  SpawningOrdered' /\ RoundsOrdered' /\ ControlOrdered' /\ ParamsOrdered'
  <1>. USE DEF SpawningOrdered, RoundsOrdered, ControlOrdered, ParamsOrdered
  <1>1. seed' = seed \/ seed' = seed + 1
    BY SeedKept DEF NextSeed
  <1>2. /\ \A s \in spawning : s <= seed
        /\ \A r \in rounds : r.seed <= seed /\ r.left <= PollTimeout
        /\ \A m \in posts : m.kind = "control" => m.seed <= seed /\ m.left <= ControlTimeout
        /\ \A s \in Services : params[s] <= seed
    BY DEF ControlInv
  <1>3. ASSUME NEW r \in rounds' PROVE r.seed <= seed' /\ r.left <= PollTimeout
    BY <1>1, <1>2, RoundsFrom, ControlNumbers
  <1>4. ASSUME NEW m \in posts', m.kind = "control" PROVE m.seed <= seed' /\ m.left <= ControlTimeout
    BY <1>1, <1>2, <1>4, ControlFrom, ControlNumbers
  <1>5. ASSUME NEW s \in Services PROVE params'[s] <= seed'
    BY <1>1, <1>2, ParamsFrom, ControlNumbers
  <1>6. ASSUME NEW s \in spawning' PROVE s <= seed'
    BY <1>1, <1>2, SpawningFrom, ControlNumbers
  <1>. QED
    BY <1>3, <1>4, <1>5, <1>6

\* A new seed makes all that is left of a controller old.
LEMMA NewSeedControl ==
  ASSUME TypeInv, ControlInv, NextSeed
  PROVE  OldSpawningEnds' /\ OldRoundsEnd' /\ OldPostsEnd' /\ ~Begun'
  <1>1. /\ phase' = "reset" /\ seed' = seed + 1 /\ UNCHANGED <<spawning, rounds, params>>
        /\ \A m \in posts' : m.kind = "control" => m \in posts
    BY DEF NextSeed, Goes, services
  <1>2. SpawningOrdered /\ RoundsOrdered /\ ControlOrdered /\ ParamsOrdered
    BY DEF ControlInv
  <1>3. OldSpawningEnds' /\ OldRoundsEnd' /\ OldPostsEnd'
    BY <1>1, <1>2, ControlNumbers DEF OldSpawningEnds, OldRoundsEnd, OldPostsEnd, Within,
       RoundsOrdered, ControlOrdered
  <1>4. ~Begun'
    BY <1>1, <1>2, ControlNumbers DEF Begun, SpawningOrdered, RoundsOrdered, ControlOrdered,
       ParamsOrdered
  <1>. QED
    BY <1>3, <1>4

LEMMA OldStep ==
  ASSUME TypeInv, ControlInv, Next, ~NextSeed
  PROVE  OldSpawningEnds' /\ OldRoundsEnd' /\ OldPostsEnd'
  <1>1. seed' = seed
    BY SeedKept
  <1>2. ControlPhases /\ OldSpawningEnds /\ OldRoundsEnd /\ OldPostsEnd
    BY DEF ControlInv
  <1>3. ASSUME NEW x, Old(x), x.seed \in Nat \ {0} PROVE phase # "health"
    BY <1>2, <1>3, ControlNumbers DEF ControlPhases, Old
  <1>5. ASSUME NEW s \in spawning, s < seed
        PROVE  phase # "health" /\ Within(PollTimeout + ControlTimeout)
    BY <1>2, <1>5, ControlNumbers DEF ControlPhases, OldSpawningEnds
  <1>4. ASSUME NEW d \in Int, Within(d), phase # "health", ~Tick PROVE Within(d)'
    BY <1>2, <1>4, WithinKept
  <1>6. ASSUME NEW r \in rounds', Old(r)' PROVE Within(r.left + ControlTimeout)'
    <2>1. CASE Tick
      <3>1. PICK q \in rounds : r.seed = q.seed /\ r.left = q.left - 1
        BY <1>6, <2>1, RoundsFrom
      <3>2. Old(q) /\ q.seed \in Nat \ {0} /\ q.left + ControlTimeout \in Int
        BY <1>1, <1>6, <3>1, ControlNumbers DEF Old
      <3>3. Within(q.left + ControlTimeout) /\ phase # "health"
        BY <1>2, <1>3, <3>2 DEF OldRoundsEnd
      <3>. QED
        BY <1>2, <2>1, <3>1, <3>2, <3>3, WithinRoundKept
    <2>2. CASE ~Tick /\ r \in rounds
      <3>1. r \in rounds
        BY <2>2
      <3>2. Old(r) /\ r.seed \in Nat \ {0} /\ r.left + ControlTimeout \in Int
        BY <1>1, <1>6, <3>1, ControlNumbers DEF Old
      <3>3. Within(r.left + ControlTimeout) /\ phase # "health"
        BY <1>2, <1>3, <3>1, <3>2 DEF OldRoundsEnd
      <3>. QED
        BY <1>4, <2>2, <3>2, <3>3
    <2>3. CASE ~Tick /\ r \notin rounds
      <3>1. r.seed \in spawning /\ r.left = PollTimeout
        BY <2>3, RoundsFrom
      <3>2. phase # "health" /\ Within(PollTimeout + ControlTimeout)
        BY <1>1, <1>5, <1>6, <3>1 DEF Old
      <3>. QED
        BY <1>4, <2>3, <3>1, <3>2, ControlNumbers
    <2>. QED
      BY <2>1, <2>2, <2>3
  <1>7. ASSUME NEW m \in posts', m.kind = "control", Old(m)' PROVE Within(m.left)'
    <2>1. CASE Tick
      <3>1. PICK n \in posts : n.kind = "control" /\ m.seed = n.seed /\ m.left = n.left - 1
        BY <1>7, <2>1, ControlFrom
      <3>2. Old(n) /\ n.seed \in Nat \ {0} /\ n.left \in Int
        BY <1>1, <1>7, <3>1, ControlNumbers DEF Old
      <3>3. Within(n.left) /\ phase # "health"
        BY <1>2, <1>3, <3>1, <3>2 DEF OldPostsEnd
      <3>. QED
        BY <1>2, <2>1, <3>1, <3>2, <3>3, WithinKept
    <2>2. CASE ~Tick /\ m \in posts
      <3>1. Old(m) /\ m.seed \in Nat \ {0} /\ m.left \in Int
        BY <1>1, <1>7, <2>2, ControlNumbers DEF Old
      <3>2. Within(m.left) /\ phase # "health"
        BY <1>2, <1>3, <1>7, <2>2, <3>1 DEF OldPostsEnd
      <3>. QED
        BY <1>4, <2>2, <3>1, <3>2
    <2>3. CASE ~Tick /\ m \notin posts
      <3>1. PICK r \in rounds : m.seed = r.seed /\ m.left = ControlTimeout
        BY <1>7, <2>3, ControlFrom
      <3>2. Old(r) /\ r.seed \in Nat \ {0}
        BY <1>1, <1>7, <3>1, ControlNumbers DEF Old
      <3>3. Within(r.left + ControlTimeout) /\ phase # "health"
        BY <1>2, <1>3, <3>1, <3>2 DEF OldRoundsEnd
      <3>4. r.left >= 0 /\ r.left \in Int /\ wait \in Int /\ Settle \in Int
            /\ PollTimeout \in Int /\ ControlTimeout \in Int /\ controller \in Int
        BY ControlNumbers DEF TypeInv, ControlTypes, Off
      <3>5. Within(ControlTimeout)
        BY <3>3, <3>4 DEF Within
      <3>. QED
        BY <1>4, <2>3, <3>1, <3>3, <3>4, <3>5
    <2>. QED
      BY <2>1, <2>2, <2>3
  <1>8. ASSUME NEW s \in spawning', s < seed' PROVE Within(PollTimeout + ControlTimeout)'
    <2>1. ~Tick /\ s \in spawning
      BY <1>1, <1>8, SpawningFrom, ControlNumbers
    <2>. QED
      BY <1>1, <1>4, <1>5, <1>8, <2>1, ControlNumbers
  <1>. QED
    BY <1>6, <1>7, <1>8 DEF OldSpawningEnds, OldRoundsEnd, OldPostsEnd

\* The first round of a seed finds nothing old.
LEMMA FirstFindsNone ==
  ASSUME TypeInv, ControlInv, RoundDue
  PROVE  NoneOld
  <1>1. controller = 0 /\ phase \in {"load", "ended"}
    BY DEF RoundDue, ControlInv, ControlPhases, Off
  <1>2. \A d \in Nat : ~Within(d)
    BY <1>1 DEF Within, Off
  <1>3. OldSpawningEnds /\ OldRoundsEnd /\ OldPostsEnd
    BY DEF ControlInv
  <1>. QED
    BY <1>2, <1>3, ControlNumbers DEF NoneOld, OldSpawningEnds, OldRoundsEnd, OldPostsEnd

LEMMA BegunStep ==
  ASSUME TypeInv, ControlInv, Next, ~NextSeed, Begun'
  PROVE  NoneOld'
  <1>1. seed' = seed /\ (Begun => NoneOld)
    BY SeedKept DEF ControlInv
  <1>2. Begun \/ RoundDue
    <2>1. CASE \E r \in rounds' : r.seed = seed
      BY <2>1, RoundsFrom DEF Begun
    <2>2. CASE \E m \in posts' : m.kind = "control" /\ m.seed = seed
      BY <2>2, ControlFrom DEF Begun
    <2>3. CASE \E s \in Services : params'[s] = seed
      BY <2>3, ParamsFrom, ControlNumbers DEF Begun
    <2>4. CASE seed \in spawning'
      BY <2>4, SpawningFrom DEF Begun
    <2>. QED
      BY <1>1, <2>1, <2>2, <2>3, <2>4 DEF Begun
  <1>3. NoneOld
    BY <1>1, <1>2, FirstFindsNone
  <1>4. ASSUME NEW r \in rounds' PROVE ~Old(r)'
    BY <1>1, <1>3, RoundsFrom, ControlNumbers DEF NoneOld, Old
  <1>5. ASSUME NEW m \in posts', m.kind = "control" PROVE ~Old(m)'
    BY <1>1, <1>3, <1>5, ControlFrom, ControlNumbers DEF NoneOld, Old
  <1>6. ASSUME NEW s \in spawning' PROVE ~(s < seed')
    BY <1>1, <1>3, SpawningFrom, ControlNumbers DEF NoneOld
  <1>. QED
    BY <1>4, <1>5, <1>6 DEF NoneOld

LEMMA StepControl == TypeInv /\ ControlInv /\ [Next]_vars => ControlInv'
  <1>1. ASSUME TypeInv, ControlInv, Next PROVE ControlInv'
    <2>1. ControlPhases' /\ SpawningOrdered' /\ RoundsOrdered' /\ ControlOrdered' /\ ParamsOrdered'
      BY <1>1, ControlPhasesStep, OrderedStep DEF ControlInv
    <2>2. CASE NextSeed
      BY <1>1, <2>1, <2>2, NewSeedControl DEF ControlInv
    <2>3. CASE ~NextSeed
      BY <1>1, <2>1, <2>3, OldStep, BegunStep DEF ControlInv
    <2>. QED
      BY <2>2, <2>3
  <1>2. ASSUME ControlInv, UNCHANGED vars PROVE ControlInv'
    BY <1>2 DEF vars, coordinator, detached, control, services, ControlInv, ControlPhases,
       SpawningOrdered, RoundsOrdered, ControlOrdered, ParamsOrdered, OldSpawningEnds, OldRoundsEnd,
       OldPostsEnd, Begun, NoneOld, Old, Within
  <1>. QED
    BY <1>1, <1>2

\* Once a controller has set the parameters of a service, no post of an earlier one
\* is handled there, if what a controller began is over before the next one begins
\* (ControlAssumption).
THEOREM ParamsOnlyForward == Spec => ParamsMoveForward
  <1>1. ASSUME TypeInv, ControlInv, Next, NEW s \in Services, params[s] = seed
        PROVE  params'[s] \in {seed, 0}
    <2>1. Begun /\ NoneOld /\ ControlOrdered
      BY <1>1 DEF Begun, ControlInv
    <2>2. \A m \in posts : m.kind = "control" => m.seed = seed
      BY <1>1, <2>1, ControlNumbers DEF NoneOld, ControlOrdered, Old
    <2>. QED
      BY <1>1, <2>2, ParamsFrom
  <1>2. TypeInv /\ ControlInv /\ [Next]_vars =>
          [\A s \in Services : params[s] = seed => params'[s] \in {seed, 0}]_vars
    BY <1>1
  <1>. QED
    BY <1>2, Typed, InitControl, StepControl, PTL DEF Spec, ParamsMoveForward

-----------------------------------------------------------------------------
(* The end of a controller that was killed.                                  *)

\* What it began has as much less time left as has passed since the kill.
RunsOut ==
  Killed =>
    /\ controller = Off
    /\ seed \in spawning => sinceKill = 0
    /\ \A r \in rounds : r.seed = seed => r.left + sinceKill <= PollTimeout
    /\ \A m \in posts : m.kind = "control" /\ m.seed = seed => m.left + sinceKill <= Aftermath

LEMMA InitRunsOut == Init => RunsOut
  BY DEF Init, RunsOut, Killed

\* No controller is started or due once it is killed.
LEMMA KilledIsOff ==
  ASSUME TypeInv, KillInv, RunsOut, Killed, Next
  PROVE  controller' = Off /\ ~RoundDue
  <1>1. controller = Off /\ ~Launch
    BY DEF RunsOut, KillInv, KillOnTime, Loading, Launch
  <1>. QED
    BY <1>1, ControlKept DEF Ends, HealthDeadline, LoadFails, WriteFails, CellComplete, Exits, LoadEnds,
       StopController, Report, RoundDue, StartRound, KillFires, KillAborts, KillReports, Tick, Less, Off

LEMMA RunsOutTick == ASSUME TypeInv, KillInv, RunsOut, Killed, Tick PROVE RunsOut'
  <1>1. /\ sinceKill \in 0..Aftermath + 1 /\ Aftermath \in Nat /\ PollTimeout \in Nat
        /\ PollTimeout <= Aftermath
    BY DEF TypeInv, KillTypes, Killed, Aftermath
  <1>2. /\ seed' = seed /\ spawning' = {}
        /\ sinceKill' = IF sinceKill \in 0..Aftermath THEN sinceKill + 1 ELSE sinceKill
    BY DEF Tick
  <1>3. Next /\ controller' = Off
    BY KilledIsOff DEF Next
  <1>4. ASSUME NEW r \in rounds', r.seed = seed PROVE r.left + sinceKill' <= PollTimeout
    <2>1. PICK q \in rounds : q.seed = seed /\ r.left = q.left - 1
      BY <1>3, <1>4, RoundsFrom
    <2>2. q.left \in Nat /\ q.left + sinceKill <= PollTimeout
      BY <2>1, ControlNumbers DEF RunsOut
    <2>. QED
      BY <1>1, <1>2, <2>1, <2>2
  <1>5. ASSUME NEW m \in posts', m.kind = "control", m.seed = seed
        PROVE  m.left + sinceKill' <= Aftermath
    <2>1. PICK n \in posts : n.kind = "control" /\ n.seed = seed /\ m.left = n.left - 1
      BY <1>3, <1>5, ControlFrom
    <2>2. n.left \in Nat /\ n.left + sinceKill <= Aftermath
      BY <2>1, ControlNumbers DEF RunsOut
    <2>. QED
      BY <1>1, <1>2, <2>1, <2>2
  <1>. QED
    BY <1>2, <1>3, <1>4, <1>5 DEF RunsOut

LEMMA StepRunsOut == TypeInv /\ KillInv /\ ControlInv /\ RunsOut /\ [Next]_vars => RunsOut'
  <1>1. ASSUME TypeInv, KillInv, ControlInv, RunsOut, Next, Killed' PROVE RunsOut'
    <2>1. ~NextSeed /\ seed' = seed
      BY <1>1, SeedKept DEF NextSeed, Killed
    <2>2. PollTimeout \in Nat /\ ControlTimeout \in Nat /\ Aftermath = PollTimeout + ControlTimeout
      BY DEF Aftermath
    <2>3. CASE ~Killed
      <3>1. KillAborts /\ controller # Off
        BY <1>1, <2>1, <2>3, KilledStays
      <3>2. /\ controller' = Off /\ sinceKill' = 0 /\ UNCHANGED <<rounds, posts>>
        BY <3>1 DEF KillAborts, detached
      <3>3. /\ \A r \in rounds : r.left \in Nat /\ r.left <= PollTimeout
            /\ \A m \in posts : m.kind = "control" => m.left \in Nat /\ m.left <= ControlTimeout
        BY <1>1, ControlNumbers DEF ControlInv, RoundsOrdered, ControlOrdered
      <3>. QED
        BY <2>1, <2>2, <3>2, <3>3 DEF RunsOut
    <2>4. CASE Killed /\ Tick
      BY <1>1, <2>4, RunsOutTick
    <2>5. CASE Killed /\ ~Tick
      <3>1. controller = Off /\ controller' = Off /\ ~RoundDue
        BY <1>1, <2>5, KilledIsOff DEF RunsOut
      <3>2. sinceKill' = sinceKill /\ sinceKill \in Nat
        BY <1>1, <2>1, <2>5, <3>1, KilledKept DEF KillAborts, Killed, TypeInv, KillTypes, Aftermath
      <3>3. seed \in spawning' => sinceKill = 0
        BY <1>1, <2>5, <3>1, SpawningFrom DEF RunsOut
      <3>4. ASSUME NEW r \in rounds', r.seed = seed PROVE r.left + sinceKill <= PollTimeout
        BY <1>1, <2>2, <2>5, <3>4, RoundsFrom DEF RunsOut
      <3>5. ASSUME NEW m \in posts', m.kind = "control", m.seed = seed
            PROVE  m.left + sinceKill <= Aftermath
        <4>1. CASE m \in posts
          BY <1>1, <2>5, <3>5, <4>1 DEF RunsOut
        <4>2. CASE m \notin posts
          <5>1. PICK r \in rounds : r.seed = seed /\ m.left = ControlTimeout
            BY <1>1, <2>5, <3>5, <4>2, ControlFrom
          <5>2. r.left \in Nat /\ r.left + sinceKill <= PollTimeout
            BY <1>1, <2>5, <5>1, ControlNumbers DEF RunsOut
          <5>. QED
            BY <2>2, <3>2, <5>1, <5>2
        <4>. QED
          BY <4>1, <4>2
      <3>. QED
        BY <2>1, <3>1, <3>2, <3>3, <3>4, <3>5 DEF RunsOut
    <2>. QED
      BY <2>3, <2>4, <2>5
  <1>2. ASSUME RunsOut, UNCHANGED vars PROVE RunsOut'
    BY <1>2 DEF vars, coordinator, detached, control, kills, RunsOut, Killed
  <1>3. ~Killed' => RunsOut'
    BY DEF RunsOut
  <1>. QED
    BY <1>1, <1>2, <1>3

\* A controller that was killed has no effect any more once a poll and a post could
\* have timed out since.
THEOREM KilledRunsOut == Spec => []KillIsFinal
  <1>1. ASSUME TypeInv, RunsOut PROVE KillIsFinal
    <2>. SUFFICES ASSUME sinceKill > Aftermath
                  PROVE  /\ seed \notin spawning
                         /\ \A r \in rounds : r.seed # seed
                         /\ \A m \in posts : m.kind = "control" => m.seed # seed
      BY DEF KillIsFinal
    <2>1. /\ PollTimeout \in Nat /\ ControlTimeout \in Nat /\ Aftermath = PollTimeout + ControlTimeout
          /\ sinceKill \in Nat /\ Killed
      BY <1>1 DEF TypeInv, KillTypes, Killed, Aftermath, Off
    <2>. QED
      BY <1>1, <2>1, ControlNumbers DEF RunsOut
  <1>. QED
    BY <1>1, Typed, KillHolds, InitControl, StepControl, InitRunsOut, StepRunsOut, PTL DEF Spec

-----------------------------------------------------------------------------
(* A fault stays until its own recovery is due.                              *)

RecoverTimers == {t \in timers : t.act = "recover"}
RecoverPosts == {m \in posts : m.kind = "recover"}

\* A fault is injected into and recovered on its own service.
Aimed == \A m \in posts : m.kind \in {"inject", "recover"} => m.svc = m.fault.svc

\* From the plan of the faults to the end of the load test, nothing left of the seed before.
UnderLoad == phase \in {"schedule", "launch", "load"} /\ ~spilled

\* The recoveries are those of this seed, one for each fault that ends, and wait for the load.
Planned ==
  /\ \A t \in RecoverTimers : /\ t.seed = seed /\ t.fault.end # None
                              /\ phase # "load" => t.left = t.fault.end
  /\ \A t, u \in RecoverTimers : t.fault = u.fault => t = u

\* A recovery under way is that of a fault that is not due any more and will not be.
Overdue ==
  \A m \in RecoverPosts : /\ phase = "load" /\ m.fault.end # None /\ m.fault \notin due
                          /\ \A t \in RecoverTimers : t.fault # m.fault

Lasting == \A f \in due : Alone(f) => [fault |-> f, seed |-> seed] \in active[f.svc]

LastInv == Aimed /\ (UnderLoad => Planned /\ Overdue /\ Lasting)

LEMMA InitLast == Init => LastInv
  BY DEF Init, LastInv, Aimed, UnderLoad

LEMMA AimedStep == ASSUME TypeInv, Aimed, Next PROVE Aimed'
  <1>. USE DEF Aimed
  <1>1. CASE NextSeed
    BY <1>1 DEF NextSeed
  <1>2. CASE \E t \in timers : FireTimer(t)
    BY <1>2 DEF FireTimer
  <1>3. CASE \E r \in rounds : Decide(r)
    BY <1>3 DEF Decide
  <1>4. CASE \E m \in posts : Handle(m) \/ Lose(m)
    BY <1>4, HandledPosts DEF TypeInv, TaskTypes
  <1>5. CASE Tick
    BY <1>5, EarlierPosts DEF Tick, TypeInv
  <1>. QED
    BY <1>1, <1>2, <1>3, <1>4, <1>5, PostsKept

\* Steps that leave timers, faults and the phases alone and add no recovery.
LEMMA LastKept ==
  ASSUME UnderLoad => Planned /\ Overdue /\ Lasting,
         UNCHANGED <<phase, seed, timers, active, due, spilled>>, RecoverPosts' \subseteq RecoverPosts
  PROVE  (UnderLoad => Planned /\ Overdue /\ Lasting)'
  BY DEF UnderLoad, Planned, Overdue, Lasting, RecoverTimers

LEMMA StartedLast == ASSUME Started PROVE (UnderLoad => Planned /\ Overdue /\ Lasting)'
  BY DEF Started, Recoveries, UnderLoad, Planned, Overdue, Lasting, RecoverTimers, RecoverPosts,
         detached

LEMMA ApplyLast ==
  ASSUME TypeInv, UnderLoad, Planned, Overdue, Lasting, ApplyProfile
  PROVE  Planned' /\ Overdue' /\ Lasting'
  <1>1. /\ phase = "schedule" /\ phase' = phase /\ seed' = seed
        /\ UNCHANGED <<posts, active, due>>
        /\ timers' = timers \cup {At(t) : t \in PlanFaults(Profiles[profile])}
    BY DEF ApplyProfile, services, history
  <1>2. timers \subseteq Timers /\ timers' \subseteq Timers
    BY TimersStep DEF TypeInv, TaskTypes, Next
  <1>3. \A t \in PlanFaults(Profiles[profile]) : At(t).act = "recover" =>
           At(t).seed = seed /\ At(t).fault.end # None /\ At(t).left = At(t).fault.end
    BY DEF PlanFaults, At
  <1>4. ASSUME NEW t \in RecoverTimers'
        PROVE  t.seed = seed /\ t.fault.end # None /\ t.left = t.fault.end
    BY <1>1, <1>3 DEF RecoverTimers, Planned
  <1>5. ASSUME NEW t \in RecoverTimers', NEW u \in RecoverTimers', t.fault = u.fault PROVE t = u
    <2>1. t.seed = u.seed /\ t.act = u.act /\ t.left = u.left
      BY <1>4, <1>5 DEF RecoverTimers
    <2>. QED
      BY <1>2, <1>5, <2>1 DEF RecoverTimers, Timers
  <1>6. Planned'
    BY <1>1, <1>4, <1>5 DEF Planned
  <1>7. RecoverPosts = {} /\ RecoverPosts' = {}
    BY <1>1 DEF Overdue, RecoverPosts
  <1>. QED
    BY <1>1, <1>6, <1>7 DEF Overdue, Lasting

LEMMA FireLast ==
  ASSUME TypeInv, UnderLoad, Planned, Overdue, Lasting, NEW t \in timers, FireTimer(t)
  PROVE  Planned' /\ Overdue' /\ Lasting'
  <1>1. /\ UNCHANGED <<phase, seed, active>>
        /\ RecoverTimers' = RecoverTimers \ {t}
        /\ due' \subseteq due
    BY DEF FireTimer, coordinator, services, RecoverTimers
  <1>2. Planned' /\ Lasting'
    BY <1>1 DEF Planned, Lasting
  <1>3. CASE t.act # "recover"
    <2>1. RecoverPosts' \subseteq RecoverPosts
      BY <1>3 DEF FireTimer, RecoverPosts
    <2>. QED
      BY <1>1, <1>2, <2>1 DEF Overdue
  <1>4. CASE t.act = "recover"
    <2>1. t \in RecoverTimers /\ t.left = 0 /\ t.fault \in Faults
      BY <1>4 DEF RecoverTimers, FireTimer, TypeInv, TaskTypes, Timers
    <2>2. phase = "load" /\ t.fault.end # None
      BY <2>1, EndsAssumption DEF Planned, UnderLoad
    <2>3. \A m \in RecoverPosts' : m \in RecoverPosts \/ m.fault = t.fault
      BY DEF FireTimer, RecoverPosts
    <2>4. t.fault \notin due' /\ \A u \in RecoverTimers' : u.fault # t.fault
      BY <1>1, <1>4, <2>1 DEF FireTimer, Planned
    <2>5. Overdue'
      BY <1>1, <2>2, <2>3, <2>4 DEF Overdue
    <2>. QED
      BY <1>2, <2>5
  <1>. QED
    BY <1>3, <1>4

\* What leaves a fault alone that shares its service and layer with no other.
LEMMA AloneKept ==
  ASSUME TypeInv, NEW f \in Faults, Alone(f), NEW a \in active[f.svc], a.fault = f,
         NEW m \in posts, m.fault \in Faults \ {f}, m.svc = m.fault.svc, Inject(m) \/ Recover(m)
  PROVE  a \in active'[f.svc]
  <1>1. /\ active \in [Services -> SUBSET [fault : Faults, seed : SeedNumbers]]
        /\ f.svc \in Services /\ m.svc \in Services /\ f.layer \in {"tc", "iptables"}
        /\ m.fault.layer \in {"tc", "iptables", "process"}
    BY DEF TypeInv, ServiceTypes, Alone, Layers
  <1>2. CASE m.svc # f.svc
    BY <1>1, <1>2 DEF Inject, Recover
  <1>3. CASE m.svc = f.svc
    <2>1. m.fault.layer # f.layer /\ m.fault.layer # "process"
      BY <1>1, <1>3 DEF Alone, Scope
    <2>2. a \notin InLayers(m.svc, {m.fault.layer})
      BY <2>1 DEF InLayers
    <2>3. CASE Inject(m)
      BY <1>1, <1>3, <2>1, <2>2, <2>3 DEF Inject
    <2>4. CASE Recover(m)
      BY <1>1, <1>3, <2>1, <2>2, <2>4 DEF Recover, Scope
    <2>. QED
      BY <2>3, <2>4
  <1>. QED
    BY <1>2, <1>3

LEMMA HandleLast ==
  ASSUME TypeInv, SeedInv, Aimed, UnderLoad, Planned, Overdue, Lasting,
         NEW m \in posts, Handle(m)
  PROVE  Planned' /\ Overdue' /\ Lasting'
  <1>1. /\ UNCHANGED <<phase, seed, timers>>
        /\ RecoverTimers' = RecoverTimers
        /\ m.kind # "reset" /\ (m.kind = "inject" => m.seed = seed)
    BY DEF Handle, coordinator, RecoverTimers, SeedInv, ResetsInTime, InjectionsInTime, UnderLoad
  <1>2. RecoverPosts' \subseteq RecoverPosts
    BY HandledPosts DEF RecoverPosts, TypeInv, TaskTypes
  <1>3. Planned'
    BY <1>1 DEF Planned
  <1>4. m.kind \in {"inject", "recover"} => m.svc = m.fault.svc /\ m.fault \in Faults
    BY DEF Aimed, TypeInv, TaskTypes
  <1>5. /\ due \subseteq Faults
        /\ active \in [Services -> SUBSET [fault : Faults, seed : SeedNumbers]]
    BY DEF TypeInv, HistoryTypes, ServiceTypes
  <1>6. CASE Inject(m)
    <2>1. m.kind = "inject" /\ m.seed = seed /\ due' \subseteq due \cup {m.fault}
          /\ (m.fault \in due' => m.fault \in due \/ ToRecover(m.fault))
      BY <1>1, <1>6 DEF Inject
    <2>2. ASSUME NEW n \in RecoverPosts PROVE n.fault \notin due'
      <3>1. n.fault \notin due /\ n.fault.end # None /\ \A t \in RecoverTimers : t.fault # n.fault
        BY DEF Overdue
      <3>. QED
        BY <2>1, <3>1 DEF ToRecover, RecoverTimers
    <2>3. Overdue'
      BY <1>1, <1>2, <2>2 DEF Overdue
    <2>4. ASSUME NEW f \in due', Alone(f) PROVE [fault |-> f, seed |-> seed] \in active'[f.svc]
      <3>1. CASE f = m.fault
        BY <1>4, <1>5, <1>6, <2>1, <2>4, <3>1 DEF Inject, Alone, Layers
      <3>2. CASE f # m.fault
        BY <1>4, <1>5, <1>6, <2>1, <2>4, <3>2, AloneKept DEF Lasting
      <3>. QED
        BY <3>1, <3>2
    <2>. QED
      BY <1>1, <1>3, <2>3, <2>4 DEF Lasting
  <1>7. CASE Recover(m)
    <2>1. m \in RecoverPosts /\ due' = due
      BY <1>7 DEF Recover, RecoverPosts
    <2>2. m.fault \notin due
      BY <2>1 DEF Overdue
    <2>3. ASSUME NEW f \in due, Alone(f) PROVE [fault |-> f, seed |-> seed] \in active'[f.svc]
      BY <1>4, <1>5, <1>7, <2>1, <2>2, <2>3, AloneKept DEF Lasting, Recover
    <2>. QED
      BY <1>1, <1>2, <1>3, <2>1, <2>3 DEF Overdue, Lasting
  <1>8. CASE ApplyUpdate(m) \/ ResetStrategy(m)
    <2>1. UNCHANGED <<active, due>>
      BY <1>8 DEF ApplyUpdate, ResetStrategy
    <2>. QED
      BY <1>1, <1>2, <1>3, <2>1 DEF Overdue, Lasting
  <1>. QED
    BY <1>1, <1>6, <1>7, <1>8 DEF Handle, ResetFaults

LEMMA TickLast ==
  ASSUME TypeInv, UnderLoad, Planned, Overdue, Lasting, Tick
  PROVE  Planned' /\ Overdue' /\ Lasting'
  <1>1. /\ phase = "load" /\ UNCHANGED <<phase, seed, active, due>>
        /\ timers' = Earlier(timers) /\ InTime(timers) /\ posts' = Earlier(posts) /\ InTime(posts)
    BY DEF Tick, Waiting, UnderLoad, services, history
  <1>2. timers \subseteq Timers
    BY DEF TypeInv, TaskTypes
  <1>3. \A t \in RecoverTimers' : \E u \in RecoverTimers :
           t = [u EXCEPT !.left = @ - 1] /\ t.fault = u.fault /\ t.seed = u.seed
    BY <1>1, <1>2 DEF RecoverTimers, Earlier, Timers
  <1>4. \A m \in RecoverPosts' : \E n \in RecoverPosts : m.fault = n.fault
    BY <1>1, EarlierPosts DEF RecoverPosts, TypeInv
  <1>5. Planned'
    BY <1>1, <1>3 DEF Planned
  <1>6. Overdue'
    BY <1>1, <1>3, <1>4 DEF Overdue
  <1>. QED
    BY <1>1, <1>5, <1>6 DEF Lasting

LEMMA StepLast == TypeInv /\ SeedInv /\ LastInv /\ [Next]_vars => LastInv'
  <1>1. ASSUME TypeInv, SeedInv, LastInv, Next
        PROVE  (UnderLoad => Planned /\ Overdue /\ Lasting)'
    <2>1. Aimed /\ (UnderLoad => Planned /\ Overdue /\ Lasting)
      BY <1>1 DEF LastInv
    <2>2. ASSUME NEW t \in timers, FireTimer(t) PROVE UnderLoad' => UnderLoad
      BY <2>2 DEF FireTimer, coordinator, UnderLoad
    <2>3. ASSUME NEW m \in posts, Handle(m) PROVE UnderLoad' => UnderLoad
      BY <2>3 DEF Handle, coordinator, UnderLoad
    <2>4. CASE \/ RoundDue \/ KillFires \/ KillAborts \/ KillReports
               \/ (\E s \in spawning : StartRound(s)) \/ \E r \in rounds : Decide(r)
      BY <2>1, <2>4, LastKept DEF RoundDue, StartRound, KillFires, KillAborts, KillReports, Decide, coordinator, detached,
         services, history, RecoverPosts
    <2>5. CASE \E m \in posts : Lose(m)
      BY <2>1, <2>5, LastKept DEF Lose, coordinator, services, history, RecoverPosts
    <2>6. CASE Aside
      BY <1>1, <2>1, <2>2, <2>3, <2>4, <2>5, <2>6, FireLast, HandleLast DEF Aside
    <2>7. CASE Ends \/ LoadEnds \/ StopController \/ Report \/ NextSeed
      BY <2>7 DEF Ends, HealthDeadline, LoadFails, WriteFails, CellComplete, Exits, LoadEnds,
         StopController, Report, NextSeed, Goes, UnderLoad
    <2>8. CASE Healthy \/ ResetDone \/ Settled \/ Collect
      BY <2>8 DEF Healthy, ResetDone, Settled, Collect, Goes, UnderLoad
    <2>9. CASE Scheduled \/ Launch
      BY <2>1, <2>9 DEF Scheduled, Launch, Goes, detached, services, history, UnderLoad, Planned,
         Overdue, Lasting, RecoverTimers, RecoverPosts
    <2>10. CASE ApplyProfile
      BY <1>1, <2>1, <2>10, ApplyLast DEF ApplyProfile, UnderLoad, history
    <2>11. CASE Tick
      BY <1>1, <2>1, <2>11, TickLast DEF Tick, UnderLoad, history
    <2>. QED
      BY <1>1, <2>6, <2>7, <2>8, <2>9, <2>10, <2>11, StartedLast, Cases DEF Moves
  <1>2. ASSUME LastInv, UNCHANGED vars PROVE LastInv'
    BY <1>2 DEF vars, coordinator, detached, services, history, LastInv, Aimed, UnderLoad, Planned,
       Overdue, Lasting, RecoverTimers, RecoverPosts
  <1>. QED
    BY <1>1, <1>2, AimedStep DEF LastInv

\* A fault that shares its service and layer with no other is in force from its
\* injection until its own recovery is due, unless a recovery of the previous seed was
\* still to come when this one began.
THEOREM FaultsLast == Spec => []LastsUntilRecovery
  <1>1. LastInv => LastsUntilRecovery
    BY DEF LastInv, UnderLoad, Lasting, LastsUntilRecovery
  <1>. QED
    BY <1>1, Typed, InitSeed, StepSeed, InitLast, StepLast, PTL DEF Spec
=============================================================================
