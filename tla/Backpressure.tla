------------------------------ MODULE Backpressure ------------------------------
(***************************************************************************)
(* The backpressure strategy towards one downstream (strategy/             *)
(* backpressure.rs).  A call is refused before it is sent when fresh       *)
(* gossip says that the downstream is overloaded, or when too many of the  *)
(* own calls failed within a window.  Decision and outcome are separate    *)
(* critical sections of the agent's mutex with the fetch between them, so  *)
(* outcomes arrive late and in any order, after the window has expired,    *)
(* the record was renewed or the agent was reset.                          *)
(*                                                                         *)
(* Left out: the counters and the log of note_throttled and note_passed,   *)
(* which nothing reads but the statistics, and which of three measures     *)
(* made a report say "overloaded".                                         *)
(*                                                                         *)
(* An operator named X_Y is X with a plausible mistake Y; nothing uses it, *)
(* it shows that a property notices the mistake.                           *)
(***************************************************************************)
EXTENDS Integers, Sequences

CONSTANTS
  Calls,            \* handlers of requests; one is reused when it has answered
  Threshold,        \* LOCAL_FAILURE_THRESHOLD
  Window,           \* LOCAL_FAILURE_WINDOW_MS
  Probe,            \* LOCAL_RECOVERY_PROBE_MS
  RequestTimeout,   \* REQUEST_TIMEOUT_MS
  Stale,            \* GOSSIP_STALE_MS
  MaxTime           \* bound of the runs: the clock stops here

\* backpressure.rs:17-24: 3, 8000, 5000, 3000, 5000.
ASSUME LimitsAssumption ==
  /\ Threshold \in Nat \ {0}
  /\ Window \in Nat /\ Probe \in Nat /\ Stale \in Nat /\ MaxTime \in Nat
  /\ RequestTimeout \in Nat /\ RequestTimeout <= Probe

Never == -1
Time == Nat
Stamp == Time \cup {Never}

VARIABLES
  now,             \* now_ms()
  gossip,          \* neighbor_state of the downstream
  tracked,         \* local_failures has a record of the downstream
  count,           \* LocalFailures.count
  windowStart,     \* LocalFailures.window_start_ms
  lastThrottled,   \* LocalFailures.last_throttled_ms
  pc,              \* where each handler is; a free one keeps its last answer
  begun,           \* when its fetch was begun, 0 when there is none
  recent,          \* history: times of the last Threshold failures recorded
                   \* since a success or a reset
  shutSince        \* history: since when every call has been refused, the
                   \* first one locally

record == <<tracked, count, windowStart, lastThrottled>>
vars == <<now, gossip, record, pc, begun, recent, shutSince>>

Flying == {"fetch", "probing"}
Free(c) == pc[c] \notin Flying

BackpressureTypeOK ==
  /\ now \in Time
  /\ gossip \in [overloaded : BOOLEAN, at : Time]
  /\ tracked \in BOOLEAN
  /\ count \in Nat
  /\ windowStart \in Time
  /\ lastThrottled \in Stamp
  /\ pc \in [Calls -> {"idle", "gossip", "local"} \cup Flying]
  /\ begun \in [Calls -> Time]
  /\ recent \in Seq(Time)
  /\ shutSince \in Stamp

-----------------------------------------------------------------------------
(* The decision, should_throttle.                                            *)

\* Fresh gossip says overloaded.
Overloaded == gossip.overloaded /\ now - gossip.at <= Stale

\* The window is over: whoever comes first begins a new one.
Expired == tracked /\ now - windowStart > Window

CountNow_Kept == count
CountNow == IF Expired THEN 0 ELSE count
StartNow == IF Expired THEN now ELSE windowStart

Shut == CountNow >= Threshold

ProbeDue == lastThrottled # Never /\ now - lastThrottled > Probe

Answer(c, a) == pc' = [pc EXCEPT ![c] = a]

ThrottleByGossip(c) ==
  /\ Free(c)
  /\ Overloaded
  /\ Answer(c, "gossip")
  /\ UNCHANGED <<now, gossip, record, begun, recent, shutSince>>

\* A call that is let through, as a probe or not.
Depart(c, how) ==
  /\ Answer(c, how)
  /\ begun' = [begun EXCEPT ![c] = now]
  /\ shutSince' = Never
  /\ UNCHANGED <<now, gossip, recent>>

Pass(c) ==
  /\ Free(c)
  /\ ~Overloaded
  /\ ~Shut
  /\ count' = CountNow
  /\ windowStart' = StartNow
  /\ UNCHANGED <<tracked, lastThrottled>>
  /\ Depart(c, "fetch")

PassAsProbe_KeepsStamp(c) ==
  /\ Free(c)
  /\ ~Overloaded
  /\ Shut
  /\ ProbeDue
  /\ UNCHANGED record
  /\ Depart(c, "probing")

\* A full count means that the window has not expired (Threshold > 0).
PassAsProbe(c) ==
  /\ Free(c)
  /\ ~Overloaded
  /\ Shut
  /\ ProbeDue
  /\ lastThrottled' = Never
  /\ UNCHANGED <<tracked, count, windowStart>>
  /\ Depart(c, "probing")

StillShut == IF shutSince = Never THEN now ELSE shutSince

ThrottleLocally_SlidesWindow(c) ==
  /\ Free(c)
  /\ ~Overloaded
  /\ Shut
  /\ ~ProbeDue
  /\ lastThrottled' = now
  /\ windowStart' = now
  /\ Answer(c, "local")
  /\ shutSince' = StillShut
  /\ UNCHANGED <<now, gossip, tracked, count, begun, recent>>

ThrottleLocally(c) ==
  /\ Free(c)
  /\ ~Overloaded
  /\ Shut
  /\ ~ProbeDue
  /\ lastThrottled' = now
  /\ Answer(c, "local")
  /\ shutSince' = StillShut
  /\ UNCHANGED <<now, gossip, tracked, count, windowStart, begun, recent>>

-----------------------------------------------------------------------------
(* The outcome of a fetch, recorded under a lock of its own.                 *)

Return(c) ==
  /\ Answer(c, "idle")
  /\ begun' = [begun EXCEPT ![c] = 0]

\* record_local_success: nothing to do without a record.
FetchSucceeds(c) ==
  /\ pc[c] \in Flying
  /\ count' = 0
  /\ windowStart' = IF tracked THEN now ELSE windowStart
  /\ lastThrottled' = Never
  /\ Return(c)
  /\ recent' = <<>>
  /\ shutSince' = Never
  /\ UNCHANGED <<now, gossip, tracked>>

\* The last Threshold elements of recent with one more.
Remembered ==
  IF Len(recent) < Threshold THEN Append(recent, now) ELSE Append(Tail(recent), now)

\* record_local_failure, of an error or of the timeout.  The time of the last
\* throttle survives, even into a new window.
FetchFails(c) ==
  /\ pc[c] \in Flying
  /\ tracked' = TRUE
  /\ count' = CountNow + 1
  /\ windowStart' = IF tracked THEN StartNow ELSE now
  /\ Return(c)
  /\ recent' = Remembered
  /\ UNCHANGED <<now, gossip, lastThrottled, shutSince>>

\* The client hangs up and the handler is dropped at its await: no outcome.
Drop(c) ==
  /\ pc[c] \in Flying
  /\ Return(c)
  /\ UNCHANGED <<now, gossip, record, recent, shutSince>>

-----------------------------------------------------------------------------
(* Gossip, soft reset and time.                                              *)

\* receive_gossip stores whatever arrives last.  A report may be as old as it
\* likes: pushes are not ordered and carry the sender's time.
ReceiveGossip(overloaded, at) ==
  /\ gossip' = [overloaded |-> overloaded, at |-> at]
  /\ UNCHANGED <<now, record, pc, begun, recent, shutSince>>

NoGossip == [overloaded |-> FALSE, at |-> 0]

\* A fresh agent; the calls under way record their outcomes in it.
Reset ==
  /\ gossip' = NoGossip
  /\ tracked' = FALSE
  /\ count' = 0
  /\ windowStart' = 0
  /\ lastThrottled' = Never
  /\ recent' = <<>>
  /\ shutSince' = Never
  /\ UNCHANGED <<now, pc, begun>>

\* No fetch outlasts its timeout (fetch_json).
Tick ==
  /\ now < MaxTime
  /\ \A c \in Calls : pc[c] \in Flying => now - begun[c] < RequestTimeout
  /\ now' = now + 1
  /\ UNCHANGED <<gossip, record, pc, begun, recent, shutSince>>

Init ==
  /\ now = 0
  /\ gossip = NoGossip
  /\ tracked = FALSE
  /\ count = 0
  /\ windowStart = 0
  /\ lastThrottled = Never
  /\ pc = [c \in Calls |-> "idle"]
  /\ begun = [c \in Calls |-> 0]
  /\ recent = <<>>
  /\ shutSince = Never

Decide(c) == ThrottleByGossip(c) \/ Pass(c) \/ PassAsProbe(c) \/ ThrottleLocally(c)

Outcome(c) == FetchSucceeds(c) \/ FetchFails(c) \/ Drop(c)

Next ==
  \/ \E c \in Calls : Decide(c) \/ Outcome(c)
  \/ \E overloaded \in BOOLEAN, at \in 0..now : ReceiveGossip(overloaded, at)
  \/ Reset
  \/ Tick

Spec == Init /\ [][Next]_vars

-----------------------------------------------------------------------------
(* Properties.                                                               *)

\* A local refusal rests on Threshold failures that were recorded after the
\* last success and not longer than Window ago, however late outcomes arrive
\* and whoever renews the window (backpressure.rs:110-114, 133-149).
ThrottledOnEvidence ==
  [][\A c \in Calls :
       ThrottleLocally(c) =>
         Len(recent) = Threshold /\ now - recent[1] <= Window]_vars

\* Never two probes at a time, although a probe leaves the count full and the
\* time of an old refusal survives windows (backpressure.rs:116-122): "let one
\* probe through".
OneProbeAtATime ==
  \A c, d \in Calls : pc[c] = "probing" /\ pc[d] = "probing" => c = d

\* Refusals do not feed themselves: when nothing is let through, local
\* refusals end at most Window + RequestTimeout after the first.  The timeout
\* is there because a late failure may begin a new window
\* (backpressure.rs:110-113, 136-139).
ShutOutBounded ==
  [][\A c \in Calls :
       ThrottleLocally(c) /\ shutSince # Never =>
         now - shutSince <= Window + RequestTimeout]_vars

\* What backpressure.rs:115 announces, "let one probe through periodically to
\* detect recovery", with the period of data-model.md:88: a call that comes
\* when nothing was let through for longer than Probe is not refused.
ProbesPeriodically ==
  [][\A c \in Calls :
       ThrottleLocally(c) /\ shutSince # Never => now - shutSince <= Probe]_vars
=============================================================================
