------------------------------ MODULE Adaptive ------------------------------
(***************************************************************************)
(* How a service comes to its parameters: the decision rules of the MAS    *)
(* agent and of the central controller, on what the metrics, the breakers  *)
(* and the neighbours' gossip tell them; and the soft reset that crosses   *)
(* both.                                                                   *)
(*                                                                         *)
(* Timeouts are in half seconds, the backoff multiplier in halves, so that *)
(* every parameter is an integer.  The open timeout of a breaker is never  *)
(* changed by a rule and left out.  All services of an experiment run one  *)
(* strategy: the neighbour is a service like this one, abstracted to       *)
(* whether more than 30 % of the answers in its window are errors.  A post *)
(* of the controller arrives at once or not at all; Coordinator has late   *)
(* ones.                                                                   *)
(***************************************************************************)
EXTENDS Service

CONSTANTS
  Default,           \* Params::default()
  MinRequests,       \* 5 in the code: answers a window must exceed
  P90s,              \* the percentiles a window with answers may have, in ms
  Interval,          \* between decisions, and between the controller's rounds: 2 s
  GossipStale,       \* 9 s in the code
  MaxResets          \* bound: soft resets

\* The table of bounds.
Params == [retries: 0..5, threshold: 2..10, limit: 5..100, timeout: 2..20, backoff: 2..8]

ASSUME AdaptiveAssumption ==
  /\ Default \in Params
  /\ P90s \subseteq Nat
  /\ {MinRequests, Interval, GossipStale, MaxResets} \subseteq Nat

Nothing == [count |-> -1, p90 |-> 0]

VARIABLES
  params,     \* MasAgent.params or CentralStrategy.params
  prev,       \* MasAgent.prev_p90
  heard,      \* the neighbour's last report: [bad, at], bad and 0 for none
  peerFails,  \* the neighbour's window shows failures
  seen,       \* the snapshot of a decision task that has not run yet, or Nothing
  nextTick,   \* when the decision timer, or the controller's, fires
  advice,     \* CentralDecider.per_service of this service
  resetting,  \* a soft reset has cleared the metrics and awaits the recovery
  resets,     \* soft resets begun
  excused     \* history: the controller missed an answer, or gave a reset up, since
              \* the last one that completed

rules == <<params, prev, heard, peerFails, seen, nextTick, advice>>
vars == <<serviceVars, rules, resetting, resets, excused>>

NoReport == [bad |-> FALSE, at |-> 0]

-----------------------------------------------------------------------------
(* Rules.                                                                    *)

AtLeast(low, v) == IF v < low THEN low ELSE v
AtMost(high, v) == IF v > high THEN high ELSE v

\* floor(limit * (1 - min(open/total, 0.4)))
Degraded(limit, open, total) ==
  IF 5 * open >= 2 * total THEN (limit * 3) \div 5
                           ELSE (limit * (total - open)) \div total

Tighter(p, limit) ==
  [p EXCEPT !.retries = AtLeast(0, @ - 1), !.threshold = AtLeast(2, @ - 1),
            !.limit = AtLeast(5, limit)]

Looser_RoundsUp(p, percent) ==
  [p EXCEPT !.retries = AtMost(5, @ + 1), !.threshold = AtMost(10, @ + 1),
            !.limit = AtMost(100, (@ * percent + 99) \div 100)]

Looser(p, percent) ==
  [p EXCEPT !.retries = AtMost(5, @ + 1), !.threshold = AtMost(10, @ + 1),
            !.limit = AtMost(100, (@ * percent) \div 100)]

Patience(p, timeout, backoff) ==
  [p EXCEPT !.timeout = AtLeast(2, AtMost(20, @ + timeout)),
            !.backoff = AtLeast(2, AtMost(8, @ + backoff))]

\* Params::clamp.
Clamp(p) ==
  [retries |-> AtLeast(0, AtMost(5, p.retries)),
   threshold |-> AtLeast(2, AtMost(10, p.threshold)),
   limit |-> AtLeast(5, AtMost(100, p.limit)),
   timeout |-> AtLeast(2, AtMost(20, p.timeout)),
   backoff |-> AtLeast(2, AtMost(8, p.backoff))]

\* A neighbour fails: less load, fewer retries.
Considerate(p, bad) ==
  IF bad THEN [p EXCEPT !.limit = AtLeast(5, (@ * 8) \div 10), !.retries = AtLeast(0, @ - 1)]
         ELSE p

ByBreakers(p, open, total, count) ==
  IF open > 0 THEN Tighter(p, Degraded(p.limit, open, total))
  ELSE IF total > 0 /\ count > MinRequests THEN Looser(p, 115)
  ELSE p

\* Rising latency without an open breaker is congestion, and calls for patience.
ByTrend(p, p90, open, count) ==
  IF p90 > 3000
  THEN IF p90 - prev > 150 /\ open = 0 THEN Patience(p, 2, -1) ELSE Patience(p, -1, 1)
  ELSE IF p90 < 500 /\ count > MinRequests THEN Patience(p, 1, -1)
  ELSE p

\* MasAgent::decide.
MasDecision(s, bad) ==
  LET open == Cardinality(opened)
      total == Cardinality(known)
      own == ByTrend(ByBreakers(params, open, total, s.count), s.p90, open, s.count)
  IN  Clamp(Considerate(own, bad))

ByLatency(p, p90) ==
  IF p90 > 3000 THEN Patience(p, -1, 1) ELSE IF p90 < 500 THEN Patience(p, 1, -1) ELSE p

ByErrors(p, errors, count) ==
  IF 2 * errors > count THEN Tighter(p, (p.limit * 7) \div 10)
  ELSE IF 10 * errors < count \/ count = 0 THEN Looser(p, 120)
  ELSE p

\* CentralDecider::decide.  A window without answers has the error rate 0, a
\* service that could not be polled the error rate 1 and no percentile.
CentralDecision(p90, polled, bad) ==
  LET own == IF polled THEN ByLatency(ByErrors(advice, Errors, Count), p90)
                       ELSE ByErrors(advice, 1, 1)
  IN  Clamp(Considerate(own, bad))

\* A percentile that the present window may have.
Percentiles == IF Count = 0 THEN {0} ELSE P90s

-----------------------------------------------------------------------------
(* The agent.                                                                *)

\* The decision timer: the snapshot is taken by the timer, the tick is a task of
\* its own (assumed to run before the timer fires again).
Observe(p90) ==
  /\ strategy = "mas-agent"
  /\ now >= nextTick /\ seen = Nothing
  /\ seen' = [count |-> Count, p90 |-> p90]
  /\ nextTick' = now + Interval
  /\ UNCHANGED <<serviceVars, params, prev, heard, peerFails, advice, resetting, resets, excused>>

\* MasAgent::tick: breakers and gossip are read under the agent's lock.
Decide ==
  /\ seen # Nothing
  /\ params' = MasDecision(seen, heard.bad /\ now - heard.at < GossipStale)
  /\ prev' = seen.p90
  /\ seen' = Nothing
  /\ UNCHANGED <<serviceVars, heard, peerFails, nextTick, advice, resetting, resets, excused>>

\* The neighbour answers requests as this service does.
PeerAnswers(failed) ==
  /\ peerFails' = Surfaces(failed)
  /\ UNCHANGED <<serviceVars, params, prev, heard, seen, nextTick, advice, resetting, resets, excused>>

\* receive_gossip: the last report to arrive counts, whenever it was sent (a
\* push takes a second at most).
Hear(sent) ==
  /\ strategy = "mas-agent"
  /\ sent > 0
  /\ heard' = [bad |-> peerFails, at |-> sent]
  /\ UNCHANGED <<serviceVars, params, prev, peerFails, seen, nextTick, advice, resetting, resets, excused>>

-----------------------------------------------------------------------------
(* The controller.                                                           *)

\* A round: poll this service and its peer, decide, post the parameters; each of
\* the three may fail.
Round(p90, polled, peerPolled, arrives) ==
  /\ strategy = "central"
  /\ now >= nextTick
  /\ nextTick' = now + Interval
  /\ advice' = CentralDecision(p90, polled, peerFails \/ ~peerPolled)
  /\ params' = IF arrives THEN advice' ELSE params
  /\ excused' = (excused \/ ~polled \/ ~peerPolled)
  /\ UNCHANGED <<serviceVars, prev, heard, peerFails, seen, resetting, resets>>

-----------------------------------------------------------------------------
(* The soft reset.                                                           *)

\* The metrics first; then it awaits the recovery of the faults.
ResetBegins ==
  /\ ~resetting /\ resets < MaxResets
  /\ ResetMetrics
  /\ resetting' = TRUE
  /\ resets' = resets + 1
  /\ UNCHANGED <<strategy, now, req, known, opened, rules, excused>>

\* Last the strategy.  A new seed also has a new controller.
ResetEnds ==
  /\ resetting
  /\ resetting' = FALSE
  /\ params' = IF strategy \in Piped THEN Default ELSE params
  /\ prev' = 0 /\ heard' = NoReport /\ advice' = Default
  /\ known' = {} /\ opened' = {}
  /\ excused' = FALSE
  /\ UNCHANGED <<strategy, now, metrics, req, history, peerFails, seen, nextTick, resets>>

\* The coordinator gave up: the handler is dropped, the strategy keeps all;
\* the new seed has a new controller nevertheless.
ResetAbandoned ==
  /\ resetting
  /\ resetting' = FALSE
  /\ advice' = Default
  /\ excused' = TRUE
  /\ UNCHANGED <<serviceVars, params, prev, heard, peerFails, seen, nextTick, resets>>

\* Timers that are due have fired, and their task has run, before time passes.
Tick ==
  /\ now < MaxTime
  /\ strategy \in Piped => now < nextTick
  /\ seen = Nothing
  /\ now' = now + 1
  /\ UNCHANGED <<strategy, metrics, req, known, opened, history, rules, resetting, resets, excused>>

Init ==
  /\ ServiceInit
  /\ params = Default /\ prev = 0 /\ heard = NoReport /\ peerFails = FALSE
  /\ seen = Nothing /\ advice = Default
  /\ nextTick = 1 + Interval
  /\ resetting = FALSE /\ resets = 0 /\ excused = FALSE

Next ==
  \/ Handle /\ UNCHANGED <<rules, resetting, resets, excused>>
  \/ \E p90 \in Percentiles : Observe(p90)
  \/ Decide
  \/ \E failed \in SUBSET Downstreams : PeerAnswers(failed)
  \/ \E sent \in {now - 1, now} : Hear(sent)
  \/ \E p90 \in Percentiles, polled, peerPolled, arrives \in BOOLEAN :
       Round(p90, polled, peerPolled, arrives)
  \/ ResetBegins
  \/ ResetEnds
  \/ ResetAbandoned
  \/ Tick

Spec == Init /\ [][Next]_vars

-----------------------------------------------------------------------------
(* Properties.                                                               *)

RuleTypes ==
  /\ params \in Params /\ advice \in Params
  /\ prev \in Nat
  /\ heard \in [bad: BOOLEAN, at: Nat]
  /\ peerFails \in BOOLEAN
  /\ seen.p90 \in Nat
  /\ nextTick \in Nat
  /\ resetting \in BOOLEAN /\ resets \in 0..MaxResets
  /\ excused \in BOOLEAN

ServiceTypes ==
  /\ strategy \in StrategyNames
  /\ now \in 1..MaxTime
  /\ slots \in [Slots -> [stamp: Nat, count: Nat, errors: Nat]]
  /\ inFlight \in Nat
  /\ req \in [Requests -> {"idle", "delayed", "calling", "done"}]
  /\ opened \subseteq known /\ known \subseteq Downstreams
  /\ young \subseteq {r \in Requests : req[r] \in {"delayed", "calling"}}
  /\ leaked \in Nat /\ strays \in Nat
  /\ answered \in [1..MaxTime -> [count: Nat, errors: Nat]]

\* Types: every decision stays within the table of bounds, the queue depth never
\* wraps below zero although a reset forgets handlers that still end, and a
\* breaker is only open where there is a pipeline (resilience.rs:293-317,
\* metrics.rs:65-67).
AdaptiveTypeOK == ServiceTypes /\ RuleTypes

\* Load is only ever reduced by an agent that sees an open breaker, by a soft
\* reset, or by a controller that could not poll a service (or whose reset was
\* given up and which starts from the defaults again).  Failures of downstreams
\* never do it: whichever strategy has the rules on error rates, its services
\* answer 200 with degraded results, so no window and no gossip ever shows an
\* error (service.rs:135-142, mod.rs:162-174, mas.rs:126, central.rs:34, 51).
OnlyOpenBreakersTighten ==
  [][params'.limit < params.limit =>
       \/ strategy = "mas-agent" /\ opened # {}
       \/ strategy = "central" /\ excused'
       \/ resetting /\ ~resetting']_vars

\* floor(6 * 1.15) = 6: an agent that has come down to a limit of 6 or less never
\* raises it again, however healthy its downstreams, until a soft reset
\* (mas.rs:103, 107).
CrushedLimitStays ==
  [][strategy = "mas-agent" /\ params.limit <= 6 /\ params'.limit > params.limit =>
       resetting /\ ~resetting']_vars
=============================================================================
