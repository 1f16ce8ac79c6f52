----------------------------- MODULE RetryStorm -----------------------------
(***************************************************************************)
(* The retry-storm simulation: clients submit jobs to a server with        *)
(* `Capacity` slots and a bounded queue, time out, and retry.              *)
(*                                                                         *)
(* One step handles one event, the earliest by (time, seq), as the main    *)
(* loop of run_trial does.  Random service times and arrival gaps are a    *)
(* choice from small sets.  Every event handled reserves three sequence    *)
(* numbers for the events it schedules: only their order matters.          *)
(*                                                                         *)
(* An operator named X_Y is X with a plausible mistake Y; no specification *)
(* uses it.  It is there to show that the properties would notice.         *)
(***************************************************************************)
EXTENDS Integers, Sequences, FiniteSets

CONSTANTS
  Capacity, QueueMax,      \* TrialConfig, in the code's units
  AttemptTimeout, Backoff,
  MaxAttempts,
  CancelQueued,            \* cancel_queued_on_timeout
  TotalTime, TickTime,
  ServiceTimes, Gaps       \* what exp_rand may draw

ASSUME SizesAssumption == Capacity \in Nat \ {0} /\ QueueMax \in Nat /\ MaxAttempts \in Nat \ {0}
ASSUME DelaysAssumption ==
  /\ AttemptTimeout \in Nat /\ Backoff \in Nat
  /\ TotalTime \in Nat /\ TickTime \in Nat \ {0}
  /\ ServiceTimes \subseteq Nat /\ Gaps \subseteq Nat
ASSUME CancelAssumption == CancelQueued \in BOOLEAN

VARIABLES
  events,     \* the heap, as a set
  seq,        \* the next sequence number
  jobs,       \* job -> attempts made, succeeded
  attempts,   \* attempt -> its job, state and deadline
  inService,
  queue,      \* attempts waiting, canceled ones included until they are popped
  counters,   \* of the telemetry tick under way
  rows,       \* the ticks emitted so far
  done        \* the loop has ended

vars == <<events, seq, jobs, attempts, inService, queue, counters, rows, done>>

Event == [time: Nat, seq: Nat, kind: {"fresh", "retry", "depart", "timeout"}, of: Nat]
Counted == {"fresh", "retry", "offered", "success", "wasted", "shed", "timeout"}
Zero == [k \in Counted |-> 0]

-----------------------------------------------------------------------------
(* Events and telemetry.                                                     *)

At(time, n, kind, of) == [time |-> time, seq |-> n, kind |-> kind, of |-> of]

Precedes(e, f) == e.time < f.time \/ (e.time = f.time /\ e.seq <= f.seq)

Pops(e) == ~done /\ e \in events /\ \A f \in events : Precedes(e, f)

\* The tick under way ends at tick_end = (Len(rows) + 1) * TickTime.
TicksUpTo(t) == t \div TickTime - Len(rows)

\* advance_to(t) emits the ticks that end at t or before, the first with the
\* counters collected so far.
RowsAt(t) ==
  rows \o [i \in 1..TicksUpTo(t) |->
             [counters |-> IF i = 1 THEN counters ELSE Zero,
              queueLen |-> Len(queue), inService |-> inService]]

CountersAt_NotReset(t) == counters

CountersAt(t) == IF TicksUpTo(t) = 0 THEN counters ELSE Zero

Bump(count, kinds) == [k \in Counted |-> count[k] + IF k \in kinds THEN 1 ELSE 0]

-----------------------------------------------------------------------------
(* What the handlers share.                                                  *)

\* start_service: the departure of attempt a, drawn at time t.
Departures(t, a) == {At(t + d, seq + 1, "depart", a) : d \in ServiceTimes}

Retries_OffByOne(t, j, succeeded, tries) ==
  IF ~succeeded /\ tries <= MaxAttempts
    THEN {At(t + Backoff, seq + 1, "retry", j)} ELSE {}

\* maybe_retry, for a job with that many attempts.
Retries(t, j, succeeded, tries) ==
  IF ~succeeded /\ tries < MaxAttempts
    THEN {At(t + Backoff, seq + 1, "retry", j)} ELSE {}

HasSlot_OneMore == inService <= Capacity
HasSlot_OneLess == inService + 1 < Capacity

HasSlot == inService < Capacity

Enter(t, j, s) == Append(attempts, [job |-> j, state |-> s, timeoutAt |-> t + AttemptTimeout])

\* submit_attempt of job j at time t, its attempts already counted.  `rest` is
\* what else is scheduled, `kind` the counter of fresh or repeated attempts.
Submit(t, j, tries, rest, kind) ==
  LET a == Len(attempts) + 1
      timer == At(t + AttemptTimeout, seq, "timeout", a)
      Count(kinds) == Bump(CountersAt(t), kinds)
  IN
  \/ /\ HasSlot
     /\ attempts' = Enter(t, j, "serving")
     /\ inService' = inService + 1
     /\ \E departure \in Departures(t, a) : events' = rest \cup {timer, departure}
     /\ counters' = Count({"offered", kind})
     /\ UNCHANGED queue
  \/ /\ ~HasSlot
     /\ Len(queue) < QueueMax
     /\ attempts' = Enter(t, j, "queued")
     /\ queue' = Append(queue, a)
     /\ events' = rest \cup {timer}
     /\ counters' = Count({"offered", kind})
     /\ UNCHANGED inService
  \/ /\ ~HasSlot
     /\ Len(queue) >= QueueMax
     /\ attempts' = Enter(t, j, "rejected")
     /\ events' = rest \cup {timer} \cup Retries(t, j, FALSE, tries)
     /\ counters' = Count({"offered", kind, "shed"})
     /\ UNCHANGED <<inService, queue>>

\* Every handler first advances the telemetry to its event.
Handles(e) ==
  /\ e.time <= TotalTime
  /\ seq' = seq + 3
  /\ rows' = RowsAt(e.time)
  /\ UNCHANGED done

-----------------------------------------------------------------------------
(* The handlers.                                                             *)

Fresh(e) ==
  /\ Pops(e) /\ e.kind = "fresh"
  /\ Handles(e)
  /\ jobs' = Append(jobs, [attempts |-> 1, succeeded |-> FALSE])
  /\ \E gap \in Gaps :
       Submit(e.time, Len(jobs) + 1, 1,
              (events \ {e}) \cup {At(e.time + gap, seq + 2, "fresh", 0)}, "fresh")

Retry(e) ==
  /\ Pops(e) /\ e.kind = "retry"
  /\ Handles(e)
  /\ \/ /\ ~jobs[e.of].succeeded
        /\ jobs' = [jobs EXCEPT ![e.of].attempts = @ + 1]
        /\ Submit(e.time, e.of, jobs[e.of].attempts + 1, events \ {e}, "retry")
     \/ /\ jobs[e.of].succeeded
        /\ events' = events \ {e}
        /\ counters' = CountersAt(e.time)
        /\ UNCHANGED <<jobs, attempts, inService, queue>>

NextInLine_AnyWaiting(k) == attempts[queue[k]].state = "queued"

\* The slot of a departing attempt goes to the first attempt of the queue that
\* was not canceled; the canceled ones before it leave the queue.
NextInLine(k) ==
  /\ attempts[queue[k]].state = "queued"
  /\ \A i \in 1..(k - 1) : attempts[queue[i]].state # "queued"

Depart(e) ==
  LET a == attempts[e.of]
      inTime == e.time <= a.timeoutAt /\ ~jobs[a.job].succeeded
  IN
  /\ Pops(e) /\ e.kind = "depart"
  /\ Handles(e)
  /\ jobs' = IF inTime THEN [jobs EXCEPT ![a.job].succeeded = TRUE] ELSE jobs
  /\ counters' = Bump(CountersAt(e.time), {IF inTime THEN "success" ELSE "wasted"})
  /\ \/ \E k \in 1..Len(queue) :
          /\ NextInLine(k)
          /\ attempts' = [attempts EXCEPT ![queue[k]].state = "serving"]
          /\ queue' = SubSeq(queue, k + 1, Len(queue))
          /\ \E departure \in Departures(e.time, queue[k]) :
               events' = (events \ {e}) \cup {departure}
          /\ UNCHANGED inService
     \/ /\ \A k \in 1..Len(queue) : attempts[queue[k]].state # "queued"
        /\ events' = events \ {e}
        /\ queue' = <<>>
        /\ inService' = inService - 1
        /\ UNCHANGED attempts

Expires_Always(a) == TRUE

\* The timer of a shed attempt means nothing: its job retried at once.
Expires(a) == attempts[a].state # "rejected"

\* The client gives up waiting.  Attempts that departed are not told apart.
Timeout(e) ==
  LET a == attempts[e.of] IN
  /\ Pops(e) /\ e.kind = "timeout"
  /\ Handles(e)
  /\ \/ /\ ~Expires(e.of)
        /\ events' = events \ {e}
        /\ counters' = CountersAt(e.time)
        /\ UNCHANGED attempts
     \/ /\ Expires(e.of)
        /\ counters' = Bump(CountersAt(e.time), {"timeout"})
        /\ attempts' = IF a.state = "queued" /\ CancelQueued
                         THEN [attempts EXCEPT ![e.of].state = "canceled"] ELSE attempts
        /\ events' = (events \ {e}) \cup
             Retries(e.time, a.job, jobs[a.job].succeeded, jobs[a.job].attempts)
  /\ UNCHANGED <<jobs, inService, queue>>

\* The first event past the end stops the loop; the last ticks are emitted.
End(e) ==
  /\ Pops(e)
  /\ e.time > TotalTime
  /\ done' = TRUE
  /\ events' = events \ {e}
  /\ rows' = RowsAt(TotalTime)
  /\ counters' = CountersAt(TotalTime)
  /\ UNCHANGED <<seq, jobs, attempts, inService, queue>>

Ended == done /\ UNCHANGED vars

Init ==
  /\ events = {At(0, 0, "fresh", 0)}
  /\ seq = 1
  /\ jobs = <<>>
  /\ attempts = <<>>
  /\ inService = 0
  /\ queue = <<>>
  /\ counters = Zero
  /\ rows = <<>>
  /\ done = FALSE

Next ==
  \/ \E e \in events : Fresh(e) \/ Retry(e) \/ Depart(e) \/ Timeout(e) \/ End(e)
  \/ Ended

Spec == Init /\ [][Next]_vars

-----------------------------------------------------------------------------
(* Properties.                                                               *)

Jobs == 1..Len(jobs)
Attempts == 1..Len(attempts)

JobOf(e) == IF e.kind = "retry" THEN e.of ELSE attempts[e.of].job

\* The events that can lead to another attempt: a retry, and the timer of an
\* attempt that was not shed.
Live(e) ==
  \/ e.kind = "retry"
  \/ e.kind = "timeout" /\ attempts[e.of].state # "rejected"

\* Shed attempts retry at once and keep their timer, timed-out ones keep their
\* slot, finished ones keep their timer: in every order of these events a job
\* has at most one chain of retries, which the storm amplifies and never forks,
\* and exactly one while it may still retry (sim.rs:267-277, 330-367).
OneRetryChain ==
  ~done =>
    /\ \A e, f \in events : Live(e) /\ Live(f) /\ JobOf(e) = JobOf(f) => e = f
    /\ \A j \in Jobs : ~jobs[j].succeeded /\ jobs[j].attempts < MaxAttempts =>
         \E e \in events : Live(e) /\ JobOf(e) = j

\* No job is attempted more often than max_attempts, although the retry handler
\* does not look at the count again (sim.rs:246-250, 362-367).
AttemptsBounded == \A j \in Jobs : jobs[j].attempts <= MaxAttempts

\* A slot is taken exactly while a departure is scheduled, and never more than
\* `capacity` of them, whether it was taken on arrival or handed on by a
\* departure (sim.rs:251-266, 342-360).
SlotsAccounted ==
  /\ inService <= Capacity
  /\ ~done => inService = Cardinality({e \in events : e.kind = "depart"})

\* Nobody waits while a slot is free, not even behind canceled attempts that
\* still fill the queue (sim.rs:260-265).
WorkConserving == queue # <<>> => inService = Capacity

\* The queue is first come, first served, holds every attempt that waits and
\* none that was served or shed (sim.rs:260-265, 273-275, 342-352).
QueueConsistent ==
  /\ Len(queue) <= QueueMax
  /\ \A i \in 1..Len(queue), k \in 1..Len(queue) : i < k => queue[i] < queue[k]
  /\ \A i \in 1..Len(queue) : attempts[queue[i]].state \in {"queued", "canceled"}
  /\ \A a \in Attempts : attempts[a].state = "queued" => \E i \in 1..Len(queue) : queue[i] = a

\* f[1] + ... + f[n]
SumTo(f, n) ==
  LET upTo[i \in 0..n] == IF i = 0 THEN 0 ELSE upTo[i - 1] + f[i]
  IN  upTo[n]

\* What the emitted ticks and the one under way have counted.
Total(k) == SumTo([i \in 1..Len(rows) |-> rows[i].counters[k]], Len(rows)) + counters[k]

\* Canceled attempts that a departure has already thrown out of the queue.
Discarded ==
  {a \in Attempts : attempts[a].state = "canceled" /\ \A i \in 1..Len(queue) : queue[i] # a}

\* The telemetry loses and doubles nothing over the tick boundaries: goodput is
\* one per job that succeeded, however many of its attempts departed in time,
\* and every attempt offered was served, shed or canceled, or is still inside
\* (sim.rs:251-259, 305-328).  A trial reports every whole tick of its duration
\* once, quiet ticks and the one that ends with the trial included (sim.rs:231-236,
\* 280).
TelemetryConserved ==
  /\ Total("success") = Cardinality({j \in Jobs : jobs[j].succeeded})
  /\ Total("offered") = Total("success") + Total("wasted") + Total("shed")
                           + inService + Len(queue) + Cardinality(Discarded)
  /\ Total("fresh") = Len(jobs)
  /\ done => Len(rows) = TotalTime \div TickTime
=============================================================================
