------------------------------- MODULE Service -------------------------------
(***************************************************************************)
(* An experiment service: the /data handler, the sliding window of metrics *)
(* it writes, and what a downstream failure does to the answer under each  *)
(* strategy.  Time is in seconds, the width of a bucket.                   *)
(*                                                                         *)
(* What happens inside a call (retries, limiter, breaker) is Pipeline; a   *)
(* call is abstracted here to the breakers that open and close while it    *)
(* lasts and the downstreams that failed in the end.  Latencies are left   *)
(* out of the window: a snapshot of a window with answers has any          *)
(* percentile.                                                             *)
(*                                                                         *)
(* An operator named X_Y is X with a plausible mistake Y; no specification *)
(* uses it.                                                                *)
(***************************************************************************)
EXTENDS Integers, FiniteSets, Functions

CONSTANTS
  Requests,      \* executions of the handler of /data, one element each
  Downstreams,
  Buckets,       \* of the window, 10 in the code
  MaxTime        \* bound: the clock stops here

ASSUME ServiceAssumption ==
  /\ IsFiniteSet(Requests) /\ IsFiniteSet(Downstreams)
  /\ Buckets \in Nat \ {0} /\ MaxTime \in Nat \ {0}

Slots == 0..Buckets - 1
Empty == [stamp |-> 0, count |-> 0, errors |-> 0]

VARIABLES
  strategy,   \* chosen when the service starts
  now,        \* seconds
  slots,      \* MetricsCollector.buckets
  inFlight,   \* MetricsCollector.in_flight
  req,        \* request -> where its handler stands
  known,      \* downstreams that have a pipeline
  opened,     \* those whose breaker is open
  young,      \* history: handlers begun since the last reset of the metrics
  leaked,     \* history: those of them dropped before they were recorded
  strays,     \* history: older ones recorded since
  answered    \* history: second -> answers recorded in it since that reset

metrics == <<slots, inFlight>>
history == <<young, leaked, strays, answered>>
serviceVars == <<strategy, now, metrics, req, known, opened, history>>

StrategyNames == {"none", "retry-only", "mas-agent", "central"}
Piped == {"mas-agent", "central"}

-----------------------------------------------------------------------------
(* MetricsCollector.                                                         *)

Less1_Wraps(n) == n - 1

\* saturating_sub(1)
Less1(n) == IF n > 0 THEN n - 1 ELSE 0

Tally(t, failed) == [count |-> t.count + 1, errors |-> t.errors + (IF failed THEN 1 ELSE 0)]

Stamped_Reused(failed, slot) ==
  [stamp |-> now, count |-> slot.count + 1, errors |-> slot.errors + (IF failed THEN 1 ELSE 0)]

\* A bucket last used in an earlier second starts afresh.
Stamped(failed, slot) ==
  LET t == Tally(IF slot.stamp = now THEN slot ELSE Empty, failed)
  IN  [stamp |-> now, count |-> t.count, errors |-> t.errors]

Record_NoEnd(r, failed) ==
  /\ inFlight' = inFlight
  /\ slots' = [slots EXCEPT ![now % Buckets] = Stamped(failed, @)]
  /\ answered' = [answered EXCEPT ![now] = Tally(@, failed)]
  /\ strays' = IF r \in young THEN strays ELSE strays + 1
  /\ young' = young \ {r}
  /\ UNCHANGED leaked

\* record_request: end_request saturates, then the bucket of this second counts.
Record(r, failed) ==
  /\ inFlight' = Less1(inFlight)
  /\ slots' = [slots EXCEPT ![now % Buckets] = Stamped(failed, @)]
  /\ answered' = [answered EXCEPT ![now] = Tally(@, failed)]
  /\ strays' = IF r \in young THEN strays ELSE strays + 1
  /\ young' = young \ {r}
  /\ UNCHANGED leaked

\* The buckets a snapshot adds up.
Active == {i \in Slots : slots[i].stamp > 0 /\ now - slots[i].stamp < Buckets}

Count == SumFunctionOnSet([i \in Slots |-> slots[i].count], Active)
Errors == SumFunctionOnSet([i \in Slots |-> slots[i].errors], Active)

\* MetricsCollector::reset: the handlers under way are forgotten, not ended.
ResetMetrics ==
  /\ inFlight' = 0
  /\ slots' = [i \in Slots |-> Empty]
  /\ young' = {} /\ leaked' = 0 /\ strays' = 0
  /\ answered' = [t \in 1..MaxTime |-> [count |-> 0, errors |-> 0]]

-----------------------------------------------------------------------------
(* The handler of /data.                                                     *)

\* start_request, then the processing delay.
Begin(r) ==
  /\ req[r] = "idle"
  /\ req' = [req EXCEPT ![r] = "delayed"]
  /\ inFlight' = inFlight + 1
  /\ young' = young \cup {r}
  /\ UNCHANGED <<strategy, now, slots, known, opened, leaked, strays, answered>>

\* call_downstreams: strategies with pipelines create those that are missing.
Call(r) ==
  /\ req[r] = "delayed"
  /\ req' = [req EXCEPT ![r] = "calling"]
  /\ known' = known \cup (IF strategy \in Piped THEN Downstreams ELSE {})
  /\ UNCHANGED <<strategy, now, metrics, opened, history>>

\* An attempt has succeeded or failed, or is admitted as a trial: the breaker of its
\* downstream has opened, or is open no more.  The call goes on.
Trip(r, d) ==
  /\ req[r] = "calling"
  /\ opened' = IF d \in opened THEN opened \ {d} ELSE opened \cup {d}
  /\ UNCHANGED <<strategy, now, metrics, req, known, history>>

Surfaces_Always(failed) == failed # {}

\* Only the none strategy passes a failure of a downstream on (as 502); all
\* others put a degraded result in its place and answer 200.
Surfaces(failed) == failed # {} /\ strategy = "none"

\* The strategy has its results.
Answer(r, failed) ==
  /\ req[r] = "calling"
  /\ req' = [req EXCEPT ![r] = "done"]
  /\ Record(r, Surfaces(failed))
  /\ UNCHANGED <<strategy, now, known, opened>>

\* The client went away: the handler's future is dropped at an await, and
\* nothing ends the request.
Drop(r) ==
  /\ req[r] \in {"delayed", "calling"}
  /\ req' = [req EXCEPT ![r] = "done"]
  /\ leaked' = IF r \in young THEN leaked + 1 ELSE leaked
  /\ young' = young \ {r}
  /\ UNCHANGED <<strategy, now, metrics, known, opened, strays, answered>>

\* AppState::new and create_strategy.
ServiceInit ==
  /\ strategy \in StrategyNames
  /\ now = 1
  /\ slots = [i \in Slots |-> Empty]
  /\ inFlight = 0
  /\ req = [r \in Requests |-> "idle"]
  /\ known = {} /\ opened = {}
  /\ young = {} /\ leaked = 0 /\ strays = 0
  /\ answered = [t \in 1..MaxTime |-> [count |-> 0, errors |-> 0]]

Handle ==
  \E r \in Requests :
    \/ Begin(r)
    \/ Call(r)
    \/ \E d \in known : Trip(r, d)
    \/ \E failed \in SUBSET Downstreams : Answer(r, failed)
    \/ Drop(r)

-----------------------------------------------------------------------------
(* Properties.                                                               *)

Window == {t \in 1..MaxTime : t <= now /\ now - t < Buckets}

\* The snapshot counts every answer of the window once, and no other: the ring
\* of buckets loses nothing when a slot comes round again, and a reset in the
\* middle of a second keeps nothing (metrics.rs:69-82, 84-96).
SnapshotExact ==
  /\ Count = SumFunctionOnSet([t \in Window |-> answered[t].count], Window)
  /\ Errors = SumFunctionOnSet([t \in Window |-> answered[t].errors], Window)

\* A reset forgets the handlers under way and a dropped handler is never ended.
\* The queue depth that gossip and the controller see is too high by at most
\* the handlers dropped, and too low by at most the older ones ended since the
\* reset (metrics.rs:56, 65-67, service.rs:125).
QueueDepthWithin ==
  /\ inFlight <= Cardinality(young) + leaked
  /\ Cardinality(young) + leaked - strays <= inFlight
=============================================================================
