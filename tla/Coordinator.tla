------------------------------ MODULE Coordinator ------------------------------
(***************************************************************************)
(* One experiment cell (run_cell): wait for the services, then for each    *)
(* seed reset them, start, spawn the timers of the fault profiles, run the *)
(* load test next to the central controller, collect, write the result.    *)
(*                                                                         *)
(* Fault timers, rounds of the controller and the posts they send are      *)
(* detached tasks: nothing waits for them and nothing cancels them.        *)
(*                                                                         *)
(* A tick is one second.  Time passes in whole ticks, the same for all:    *)
(* a timer that is due fires, and a post whose timeout is over is gone,    *)
(* before the next tick; what falls into one tick happens in any order.    *)
(* Assumed: a request is handled before its timeout or not at all; looking *)
(* up the peers of a partition takes no time.                              *)
(*                                                                         *)
(* Left out: the contents of spof, and what the services do with        *)
(* /start (nothing but an answer).                                         *)
(*                                                                         *)
(* An operator named X_Y is X with a plausible mistake Y; no specification *)
(* uses it.  It is there to show that the properties would notice.         *)
(***************************************************************************)
EXTENDS Integers, FiniteSets, Sequences

CONSTANTS
  Services,
  Seeds,           \* how many
  Profiles,        \* sequence: base, overlay, partition, as far as there are any,
                   \* each a set of faults
  Load,            \* warm-up and measurement
  Slack,           \* how much longer the load test may take
  HealthTimeout, BroadcastTimeout, FaultTimeout, CollectTimeout,
  Settle,          \* pause after a soft reset
  Period, PollTimeout, ControlTimeout,   \* of the central controller
  Central,         \* whether there is one
  KillTimes,       \* when it may be killed, warm-up included, 0 for never
  None             \* end of a permanent fault (999 s or none); fault of other posts

Layers == {"tc", "iptables"}
Faults == UNION {Profiles[i] : i \in DOMAIN Profiles}
SeedNumbers == 1..Seeds

ASSUME CoordinatorAssumption ==
  /\ IsFiniteSet(Services)
  /\ Seeds \in Nat \ {0}
  /\ \A f \in Faults : /\ f.svc \in Services /\ f.layer \in Layers \cup {"process"}
                       /\ f.start \in Nat /\ f.end \in Nat \cup {None}
  /\ {Load, Period, PollTimeout, ControlTimeout, HealthTimeout, BroadcastTimeout,
      FaultTimeout, CollectTimeout} \subseteq Nat \ {0}
  /\ {Slack, Settle} \subseteq Nat /\ KillTimes \subseteq Nat
  /\ None \notin Nat
  /\ Central \in BOOLEAN

\* The profiles are chosen so that what they inject is injected when the load test
\* ends (faults start at 35 s at most, a post takes 30 s at most, a load test 70 s
\* at least).  The ends of faults are not: see the partition, which ends with the
\* load test.  Nothing is assumed of the kill time, which no code checks.
ASSUME InTimeAssumption == \A f \in Faults : f.start + FaultTimeout < Load

\* An endTimeSec of 0 is only the default of cascade-crash, which stands for 30 s.
ASSUME EndsAssumption == \A f \in Faults : f.end # 0

\* What a controller began is over when the first round of the next one begins
\* (a poll and a post take 1 s at most, a period 2 s, the pause 2 s by default).
ASSUME ControlAssumption == PollTimeout + ControlTimeout < Period + Settle

VARIABLES
  phase,      \* where run_cell stands
  seed,       \* seed under way
  wait,       \* ticks until the wait of this phase ends
  profile,    \* next profile to apply
  timers,     \* fault timers
  posts,      \* requests under way
  controller, \* ticks until its next round, Off without one
  spawning,   \* seeds whose controller is being polled and will spawn a round
  rounds,     \* rounds of the controller that are polling
  killAt,     \* when this cell kills its controller
  killTimer,  \* ticks until the kill; Off; Firing: its sleep is over; Aborting: it
              \* has aborted the controller too and not yet said so
  killedAt,   \* what the kill timer of this seed has written
  spof,       \* whether the result of this seed reports a kill
  active,     \* service -> faults in force, each with the seed of its injection
  params,     \* service -> the seed whose controller set its parameters, 0: defaults
  resetFor,   \* service -> the seed of its last soft reset
  due,        \* history: faults injected in this seed and not due to recover
  spilled,    \* history: a recovery of the previous seed may act in this one
  overtaken,  \* history: the load test of this seed ended with the kill timer at work
  sinceKill   \* history: ticks since the kill timer stopped the controller of this
              \* seed (a bounded count); Off: it has not

coordinator == <<phase, seed, wait, profile, spof>>
detached == <<timers, posts, rounds>>
kills == <<overtaken, sinceKill>>
control == <<controller, spawning, killAt, killTimer, killedAt, kills>>
services == <<active, params, resetFor>>
history == <<due, spilled>>
vars == <<coordinator, detached, control, services, history>>

Off == -1
Aborting == -2
Firing == -3

\* How long a controller that was stopped may still have an effect.
Aftermath == PollTimeout + ControlTimeout

Phases == {"health", "reset", "settle", "start", "schedule", "launch", "load",
           "ended", "cancelled", "collect", "write", "done", "failed"}
Waiting == {"health", "reset", "settle", "start", "load", "collect"}

Timers == [fault : Faults, seed : SeedNumbers, act : {"inject", "recover"}, left : Nat]
Posts == [kind : {"inject", "recover", "control", "reset", "resetStrategy"},
          svc : Services, seed : SeedNumbers, fault : Faults \cup {None}, left : Nat]
Rounds == [seed : SeedNumbers, left : Nat]

CoordinatorTypeOK ==
  /\ phase \in Phases
  /\ seed \in SeedNumbers
  /\ wait \in Int /\ wait >= -Slack
  /\ profile \in 1..Len(Profiles) + 1
  /\ timers \subseteq Timers
  /\ posts \subseteq Posts
  /\ controller \in {Off} \cup 0..Period
  /\ spawning \subseteq SeedNumbers
  /\ rounds \subseteq Rounds
  /\ killAt \in KillTimes
  /\ killTimer \in {Off, Firing, Aborting} \cup Nat
  /\ killedAt \in BOOLEAN
  /\ spof \in BOOLEAN
  /\ active \in [Services -> SUBSET [fault : Faults, seed : SeedNumbers]]
  /\ params \in [Services -> 0..Seeds]
  /\ resetFor \in [Services -> SeedNumbers]
  /\ due \subseteq Faults
  /\ spilled \in BOOLEAN
  /\ overtaken \in BOOLEAN
  /\ sinceKill \in {Off} \cup 0..Aftermath + 1

-----------------------------------------------------------------------------
(* The coordinator.                                                          *)

Goes(next, ticks) == phase' = next /\ wait' = ticks

\* The process exits, and with it all its tasks.
Exits(next) ==
  /\ Goes(next, 0)
  /\ timers' = {} /\ posts' = {} /\ rounds' = {}
  /\ controller' = Off /\ spawning' = {} /\ killTimer' = Off
  /\ UNCHANGED <<seed, profile, killAt, killedAt, kills, services, history>>

Healthy ==
  /\ phase = "health"
  /\ Goes("start", BroadcastTimeout)
  /\ UNCHANGED <<seed, profile, spof, detached, control, services, history>>

HealthDeadline_TooLate ==
  /\ phase = "health" /\ wait < 0
  /\ Exits("failed")
  /\ UNCHANGED spof

\* wait_for_healthy gives up.
HealthDeadline ==
  /\ phase = "health" /\ wait = 0
  /\ Exits("failed")
  /\ UNCHANGED spof

Answered == {m \in posts : m.kind \in {"reset", "resetStrategy"}} = {}

ResetDone_AtOnce ==
  /\ phase = "reset"
  /\ Goes("settle", Settle)
  /\ UNCHANGED <<seed, profile, spof, detached, control, services, history>>

\* broadcast returns when each service has answered or timed out; a failure is
\* only logged.
ResetDone ==
  /\ phase = "reset" /\ Answered
  /\ Goes("settle", Settle)
  /\ UNCHANGED <<seed, profile, spof, detached, control, services, history>>

Settled ==
  /\ phase = "settle" /\ wait = 0
  /\ Goes("start", BroadcastTimeout)
  /\ UNCHANGED <<seed, profile, spof, detached, control, services, history>>

Recoveries == {t \in timers : t.act = "recover"} \cup {m \in posts : m.kind = "recover"}

Started ==
  /\ phase = "start"
  /\ Goes("schedule", 0)
  /\ profile' = 1
  /\ due' = {} /\ spilled' = (Recoveries # {})
  /\ UNCHANGED <<seed, spof, detached, control, services>>

\* plan_faults: inject at its start, recover at its end unless permanent.
PlanFaults(faults) ==
  [fault : faults, seed : {seed}, act : {"inject"}, left : {0}]
    \cup [fault : {f \in faults : f.end # None}, seed : {seed}, act : {"recover"}, left : {0}]

At(t) == [t EXCEPT !.left = IF t.act = "inject" THEN t.fault.start ELSE t.fault.end]

ApplyProfile ==
  /\ phase = "schedule" /\ profile <= Len(Profiles)
  /\ timers' = timers \cup {At(t) : t \in PlanFaults(Profiles[profile])}
  /\ profile' = profile + 1
  /\ UNCHANGED <<phase, seed, wait, spof, posts, rounds, control, services, history>>

Scheduled ==
  /\ phase = "schedule" /\ profile = Len(Profiles) + 1
  /\ Goes("launch", 0)
  /\ UNCHANGED <<seed, profile, spof, detached, control, services, history>>

FirstRound_AtOnce == 0

\* The first tick of an interval comes at once and is skipped (spawn_every).
FirstRound == Period

KillDelay == IF Central /\ killAt > 0 THEN killAt ELSE Off

\* start_central, the kill timer with a note of its own, k6.
Launch ==
  /\ phase = "launch"
  /\ Goes("load", Load)
  /\ controller' = IF Central THEN FirstRound ELSE Off
  /\ killTimer' = KillDelay
  /\ killedAt' = FALSE
  /\ UNCHANGED <<seed, profile, spof, detached, spawning, killAt, kills, services, history>>

\* k6 fails, or its summary cannot be read: run_cell returns an error.
LoadFails ==
  /\ phase = "load"
  /\ Exits("failed")
  /\ UNCHANGED spof

AtWork == killTimer \in {Firing, Aborting}

LoadEnds_KeepsTimer ==
  /\ phase = "load" /\ wait <= 0
  /\ Goes("ended", 0)
  /\ overtaken' = AtWork
  /\ UNCHANGED <<seed, profile, spof, detached, controller, spawning, killAt, killTimer,
                 killedAt, sinceKill, services, history>>

\* k6 ends; then the kill timer is aborted, which comes too late when it is at work.
LoadEnds ==
  /\ phase = "load" /\ wait <= 0
  /\ Goes("ended", 0)
  /\ killTimer' = IF AtWork THEN killTimer ELSE Off
  /\ overtaken' = AtWork
  /\ UNCHANGED <<seed, profile, spof, detached, controller, spawning, killAt, killedAt,
                 sinceKill, services, history>>

\* An abort reaches the controller at its next await: a round it is about to spawn
\* it still spawns.
StopController ==
  /\ phase = "ended"
  /\ Goes("cancelled", 0)
  /\ controller' = Off
  /\ UNCHANGED <<seed, profile, spof, detached, spawning, killAt, killTimer, killedAt, kills,
                 services, history>>

\* The result reports the kill as noted by now.  What a kill timer still at work does
\* after this has no effect: it aborts what is stopped and notes what nobody reads.
Report ==
  /\ phase = "cancelled"
  /\ Goes("collect", CollectTimeout)
  /\ spof' = killedAt
  /\ killTimer' = Off
  /\ UNCHANGED <<seed, profile, detached, controller, spawning, killAt, killedAt, kills,
                 services, history>>

Collect ==
  /\ phase = "collect"
  /\ Goes("write", 0)
  /\ UNCHANGED <<seed, profile, spof, detached, control, services, history>>

WriteFails ==
  /\ phase = "write"
  /\ Exits("failed")
  /\ UNCHANGED spof

\* The file is written; the next seed begins with a soft reset of all services.
NextSeed ==
  /\ phase = "write" /\ seed < Seeds
  /\ Goes("reset", 0)
  /\ seed' = seed + 1
  /\ posts' = posts \cup [kind : {"reset"}, svc : Services, seed : {seed + 1},
                          fault : {None}, left : {BroadcastTimeout}]
  /\ spof' = FALSE /\ overtaken' = FALSE /\ sinceKill' = Off
  /\ UNCHANGED <<profile, timers, rounds, controller, spawning, killAt, killTimer, killedAt,
                 services, history>>

CellComplete ==
  /\ phase = "write" /\ seed = Seeds
  /\ Exits("done")
  /\ UNCHANGED spof

-----------------------------------------------------------------------------
(* Detached tasks.                                                           *)

FireTimer(t) ==
  /\ t \in timers /\ t.left = 0
  /\ timers' = timers \ {t}
  /\ posts' = posts \cup {[kind |-> t.act, svc |-> t.fault.svc, seed |-> t.seed,
                           fault |-> t.fault, left |-> FaultTimeout]}
  /\ due' = IF t.act = "recover" THEN due \ {t.fault} ELSE due
  /\ UNCHANGED <<coordinator, rounds, control, services, spilled>>

\* The interval of the controller is due: its task is polled by some thread.
RoundDue ==
  /\ controller = 0
  /\ controller' = Period
  /\ spawning' = spawning \cup {seed}
  /\ UNCHANGED <<coordinator, detached, killAt, killTimer, killedAt, kills, services, history>>

\* The interval does not wait for the round it spawns.
StartRound(s) ==
  /\ s \in spawning
  /\ spawning' = spawning \ {s}
  /\ rounds' = rounds \cup {[seed |-> s, left |-> PollTimeout]}
  /\ UNCHANGED <<coordinator, timers, posts, controller, killAt, killTimer, killedAt, kills,
                 services, history>>

\* All polls are answered or timed out: each service is posted its parameters.
Decide(r) ==
  /\ r \in rounds
  /\ rounds' = rounds \ {r}
  /\ posts' = posts \cup [kind : {"control"}, svc : Services, seed : {r.seed},
                          fault : {None}, left : {ControlTimeout}]
  /\ UNCHANGED <<coordinator, timers, control, services, history>>

\* The sleep of the kill timer is over.  It has no other await: what follows, the
\* abort and the note of it, is done although the coordinator may abort it meanwhile.
KillFires ==
  /\ killTimer = 0
  /\ killTimer' = Firing
  /\ UNCHANGED <<coordinator, detached, controller, spawning, killAt, killedAt, kills, services, history>>

KillAborts_KeepsController ==
  /\ killTimer = Firing
  /\ killTimer' = Aborting
  /\ sinceKill' = IF controller # Off THEN 0 ELSE sinceKill
  /\ UNCHANGED <<coordinator, detached, controller, spawning, killAt, killedAt, overtaken, services, history>>

KillAborts ==
  /\ killTimer = Firing
  /\ killTimer' = Aborting
  /\ controller' = Off
  /\ sinceKill' = IF controller # Off THEN 0 ELSE sinceKill
  /\ UNCHANGED <<coordinator, detached, spawning, killAt, killedAt, overtaken, services, history>>

KillReports ==
  /\ killTimer = Aborting
  /\ killTimer' = Off
  /\ killedAt' = TRUE
  /\ UNCHANGED <<coordinator, detached, controller, spawning, killAt, kills, services, history>>

-----------------------------------------------------------------------------
(* The services.                                                             *)

\* recover_scope: a fault of the process layer recovers everything.
Scope(layer) == IF layer = "process" THEN Layers ELSE {layer}

InLayers(svc, layers) == {a \in active[svc] : a.fault.layer \in layers}

\* The recovery of a fault of this seed is not due yet, or never.
ToRecover(f) ==
  f.end = None \/ \E t \in timers : t.fault = f /\ t.seed = seed /\ t.act = "recover"

\* A fault of the tc layer replaces the one before it; one of the process layer
\* does nothing in a container.
Inject(m) ==
  /\ m.kind = "inject"
  /\ active' = [active EXCEPT ![m.svc] =
                  (@ \ IF m.fault.layer = "tc" THEN InLayers(m.svc, {"tc"}) ELSE {})
                    \cup IF m.fault.layer = "process" THEN {}
                         ELSE {[fault |-> m.fault, seed |-> m.seed]}]
  /\ due' = IF m.seed = seed /\ ToRecover(m.fault) THEN due \cup {m.fault} ELSE due
  /\ posts' = posts \ {m}
  /\ UNCHANGED <<params, resetFor>>

Recover(m) ==
  /\ m.kind = "recover"
  /\ active' = [active EXCEPT ![m.svc] = @ \ InLayers(m.svc, Scope(m.fault.layer))]
  /\ posts' = posts \ {m}
  /\ UNCHANGED <<params, resetFor, due>>

\* /control; a strategy other than central ignores it.
ApplyUpdate(m) ==
  /\ m.kind = "control"
  /\ params' = [params EXCEPT ![m.svc] = m.seed]
  /\ posts' = posts \ {m}
  /\ UNCHANGED <<active, resetFor, due>>

ResetFaults_Forgotten(m) ==
  /\ m.kind = "reset"
  /\ resetFor' = [resetFor EXCEPT ![m.svc] = m.seed]
  /\ posts' = (posts \ {m}) \cup {[m EXCEPT !.kind = "resetStrategy"]}
  /\ UNCHANGED <<active, params, due>>

\* soft_reset awaits the recovery of its faults before it resets the strategy.
ResetFaults(m) ==
  /\ m.kind = "reset"
  /\ resetFor' = [resetFor EXCEPT ![m.svc] = m.seed]
  /\ active' = [active EXCEPT ![m.svc] = {}]
  /\ posts' = (posts \ {m}) \cup {[m EXCEPT !.kind = "resetStrategy"]}
  /\ UNCHANGED <<params, due>>

ResetStrategy(m) ==
  /\ m.kind = "resetStrategy"
  /\ params' = [params EXCEPT ![m.svc] = 0]
  /\ posts' = posts \ {m}
  /\ UNCHANGED <<active, resetFor, due>>

Handle(m) ==
  /\ Inject(m) \/ Recover(m) \/ ApplyUpdate(m) \/ ResetFaults(m) \/ ResetStrategy(m)
  /\ UNCHANGED <<coordinator, timers, rounds, control, spilled>>

\* The request fails or times out; a handler at its await is dropped.
Lose(m) ==
  /\ posts' = posts \ {m}
  /\ UNCHANGED <<coordinator, timers, rounds, control, services, history>>

-----------------------------------------------------------------------------

Earlier(set) == {[x EXCEPT !.left = @ - 1] : x \in set}
InTime(set) == \A x \in set : x.left > 0
Less(timer) == IF timer = Off THEN Off ELSE timer - 1

Tick ==
  /\ phase \in Waiting
  /\ phase \in {"health", "settle", "start", "collect"} => wait > 0
  /\ phase = "load" => wait > -Slack
  /\ phase = "reset" => ~Answered
  /\ InTime(timers) /\ InTime(posts) /\ InTime(rounds)
  /\ controller # 0 /\ spawning = {} /\ killTimer # 0 /\ ~AtWork
  /\ wait' = IF phase = "reset" THEN wait ELSE wait - 1
  /\ timers' = Earlier(timers) /\ posts' = Earlier(posts) /\ rounds' = Earlier(rounds)
  /\ controller' = Less(controller) /\ killTimer' = Less(killTimer)
  /\ sinceKill' = IF sinceKill \in 0..Aftermath THEN sinceKill + 1 ELSE sinceKill
  /\ UNCHANGED <<phase, seed, profile, spof, spawning, killAt, killedAt, overtaken,
                 services, history>>

Init ==
  /\ phase = "health" /\ seed = 1 /\ wait = HealthTimeout /\ profile = 1 /\ spof = FALSE
  /\ timers = {} /\ posts = {} /\ rounds = {}
  /\ controller = Off /\ spawning = {}
  /\ killAt \in KillTimes /\ killTimer = Off /\ killedAt = FALSE
  /\ active = [s \in Services |-> {}]
  /\ params = [s \in Services |-> 0]
  /\ resetFor = [s \in Services |-> 1]
  /\ due = {} /\ spilled = FALSE
  /\ overtaken = FALSE /\ sinceKill = Off

Next ==
  \/ Healthy \/ HealthDeadline \/ ResetDone \/ Settled \/ Started
  \/ ApplyProfile \/ Scheduled \/ Launch \/ LoadFails \/ LoadEnds
  \/ StopController \/ Report \/ Collect \/ WriteFails \/ NextSeed \/ CellComplete
  \/ RoundDue \/ KillFires \/ KillAborts \/ KillReports
  \/ \E s \in spawning : StartRound(s)
  \/ \E t \in timers : FireTimer(t)
  \/ \E r \in rounds : Decide(r)
  \/ \E m \in posts : Handle(m) \/ Lose(m)
  \/ Tick

\* What run_cell and its tasks do by themselves, at the latest when a timeout is over.
\* Nothing is assumed of the services and the network, of the load generator only
\* that it ends.
Proceed ==
  \/ HealthDeadline \/ ResetDone \/ Settled
  \/ ApplyProfile \/ Scheduled \/ Launch
  \/ StopController \/ Report \/ NextSeed \/ CellComplete
  \/ RoundDue \/ KillFires \/ KillAborts \/ KillReports
  \/ \E s \in spawning : StartRound(s)
  \/ \E t \in timers : FireTimer(t)
  \/ \E r \in rounds : r.left = 0 /\ Decide(r)
  \/ \E m \in posts : m.left = 0 /\ Lose(m)
  \/ wait = 0 /\ (Started \/ Collect)
  \/ wait = -Slack /\ LoadEnds
  \/ Tick

Spec == Init /\ [][Next]_vars /\ WF_vars(Proceed)

-----------------------------------------------------------------------------
(* Properties.                                                               *)

\* No fault of one seed is in force during the load test of the next, on any
\* service whose soft reset got as far as the faults: no injection is still to come
\* when the services are reset, and none arrives after it (coordinator.rs:314-335,
\* 426, service.rs:96).
FaultsOfOwnSeed ==
  phase = "load" => \A s \in Services : resetFor[s] = seed =>
                      \A a \in active[s] : a.seed = seed

Alone(f) ==
  /\ f.layer \in Layers
  /\ \A g \in Faults \ {f} : g.svc = f.svc => g.layer \notin Scope(f.layer) \cup {"process"}

\* A fault that shares its service and layer with no other (and is not of the process
\* layer, which does nothing in a container) is in force from its
\* injection until its own recovery is due, whatever resets, other faults and late
\* posts do, unless a recovery of the previous seed, due after the load test of that seed, was
\* still to come when this one began (coordinator.rs:99-119, 314-335).
LastsUntilRecovery ==
  phase = "load" /\ ~spilled =>
    \A f \in due : Alone(f) => [fault |-> f, seed |-> seed] \in active[f.svc]

\* "endTimeSec >= 999 or missing: permanent until reset" (data-model.md:32).
PermanentUntilReset ==
  phase = "load" =>
    \A f \in due : f.end = None => [fault |-> f, seed |-> seed] \in active[f.svc]

\* Parameters that a late post of the previous controller left behind after the soft
\* reset last until the first decision of this one: no post of an earlier controller
\* is handled after a post of a later one (coordinator.rs:339-375, 427, 464,
\* strategy/mod.rs:194-207).
ParamsMoveForward ==
  [][\A s \in Services : params[s] = seed => params'[s] \in {seed, 0}]_vars

\* Once a poll and a post could have timed out since the kill, the controller has no
\* effect any more: the round that its abort came too late to stop, the rounds that
\* were polling and the posts on their way, none of which the kill cancels, are over
\* (coordinator.rs:349-371, 451-456, strategy/mod.rs:199-207).
KillIsFinal ==
  sinceKill > Aftermath =>
    /\ seed \notin spawning
    /\ \A r \in rounds : r.seed # seed
    /\ \A m \in posts : m.kind = "control" => m.seed # seed

\* A result reports a kill exactly if the kill timer stopped the controller of its
\* seed, wherever the kill falls: before, with or after the end of the load test.
\* Only when the load test ends while the timer is at work (between the end of its
\* sleep and its note) can the two differ, and they do: the coordinator reads the
\* note before or after the timer writes it (coordinator.rs:428, 450-471).
KillReported ==
  phase \in {"collect", "write", "done"} /\ ~overtaken => (spof <=> sinceKill # Off)

\* The cell ends, whatever the services answer (coordinator.rs:209-248, 403-489).
CellEnds == <>(phase \in {"done", "failed"})
=============================================================================
