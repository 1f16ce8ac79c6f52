-------------------------- MODULE RetryStormProofs --------------------------
(***************************************************************************)
(* Proofs about RetryStorm, for every capacity, queue bound, timeout,      *)
(* backoff and number of attempts, and any random draws.                   *)
(***************************************************************************)
EXTENDS RetryStorm, FiniteSetTheorems, SequenceTheorems, TLAPS

Job == [attempts: Nat, succeeded: BOOLEAN]
Attempt == [job: Nat, state: {"queued", "serving", "rejected", "canceled"}, timeoutAt: Nat]

\* An event refers to a job or an attempt that exists.
RefersTo(e) ==
  /\ e.kind = "retry" => e.of \in Jobs
  /\ e.kind \in {"timeout", "depart"} => e.of \in Attempts

\* The types of what the handlers work on, and that references lead somewhere.
Shape ==
  /\ events \subseteq Event
  /\ seq \in Nat
  /\ jobs \in Seq(Job)
  /\ attempts \in Seq(Attempt)
  /\ inService \in Int
  /\ queue \in Seq(Nat)
  /\ \A e \in events : RefersTo(e)
  /\ \A a \in Attempts : attempts[a].job \in Jobs
  /\ \A i \in 1..Len(queue) : queue[i] \in Attempts

-----------------------------------------------------------------------------
(* What the handlers do to jobs, attempts and events.                        *)

\* Attempt number Len(attempts) + 1 of job j enters in state s; its timer and
\* the events in `more` are scheduled.
Enters(t, j, s, rest, more) ==
  /\ attempts' = Append(attempts, [job |-> j, state |-> s, timeoutAt |-> t + AttemptTimeout])
  /\ events' = rest \cup {At(t + AttemptTimeout, seq, "timeout", Len(attempts) + 1)} \cup more

LEMMA SubmitCases ==
  ASSUME NEW t, NEW j, NEW tries, NEW rest, NEW kind, Submit(t, j, tries, rest, kind)
  PROVE  \/ /\ inService < Capacity
            /\ inService' = inService + 1
            /\ queue' = queue
            /\ \E d \in ServiceTimes :
                 Enters(t, j, "serving", rest, {At(t + d, seq + 1, "depart", Len(attempts) + 1)})
         \/ /\ ~(inService < Capacity)
            /\ inService' = inService
            /\ queue' = Append(queue, Len(attempts) + 1)
            /\ Enters(t, j, "queued", rest, {})
         \/ /\ ~(inService < Capacity)
            /\ inService' = inService
            /\ queue' = queue
            /\ Enters(t, j, "rejected", rest, Retries(t, j, FALSE, tries))
  BY DEF Submit, HasSlot, Enter, Departures, Enters

LEMMA EnterGrows ==
  ASSUME Shape, NEW t \in Nat, NEW j \in Nat, NEW s \in {"queued", "serving", "rejected"},
         NEW rest, NEW more, Enters(t, j, s, rest, more)
  PROVE  /\ attempts' \in Seq(Attempt)
         /\ Len(attempts') = Len(attempts) + 1
         /\ \A a \in Attempts : attempts'[a] = attempts[a]
         /\ attempts'[Len(attempts) + 1].job = j
         /\ attempts'[Len(attempts) + 1].state = s
         /\ Len(attempts) \in Nat
<1> DEFINE new == [job |-> j, state |-> s, timeoutAt |-> t + AttemptTimeout]
<1>1. new \in Attempt
  BY DelaysAssumption DEF DelaysAssumption, Attempt
<1>2. attempts' = Append(attempts, new) /\ attempts \in Seq(Attempt)
  BY DEF Enters, Shape
<1> QED
  BY <1>1, <1>2, AppendProperties DEF Attempts

LEMMA RetriesShape ==
  ASSUME NEW t \in Nat, NEW j \in Nat, seq \in Nat, NEW b \in BOOLEAN, NEW tries,
         NEW x \in Retries(t, j, b, tries)
  PROVE  /\ x \in Event
         /\ x.kind = "retry" /\ x.of = j /\ x.seq = seq + 1
         /\ ~b /\ tries < MaxAttempts
  BY DelaysAssumption DEF DelaysAssumption, Retries, At, Event

LEMMA EnterShape ==
  ASSUME Shape, NEW t \in Nat, NEW j \in 1..Len(jobs'),
         NEW s \in {"queued", "serving", "rejected"}, NEW rest, NEW more,
         Enters(t, j, s, rest, more),
         jobs' \in Seq(Job), Len(jobs) <= Len(jobs'), seq' = seq + 3, inService' \in Int,
         rest \subseteq Event, \A e \in rest : RefersTo(e),
         \A e \in more : /\ e \in Event
                         /\ e.kind = "retry" => e.of = j
                         /\ e.kind \in {"timeout", "depart"} => e.of = Len(attempts) + 1,
         queue' = queue \/ queue' = Append(queue, Len(attempts) + 1)
  PROVE  Shape'
<1> DEFINE a == Len(attempts) + 1
<1>1. Len(jobs) \in Nat /\ Len(jobs') \in Nat /\ j \in Nat /\ seq \in Nat
  BY DEF Shape
<1>2. /\ attempts' \in Seq(Attempt)
      /\ Len(attempts') = a
      /\ \A b \in Attempts : attempts'[b] = attempts[b]
      /\ attempts'[a].job = j
      /\ Len(attempts) \in Nat
  BY <1>1, EnterGrows
<1>3. At(t + AttemptTimeout, seq, "timeout", a) \in Event
  BY <1>1, <1>2, DelaysAssumption DEF DelaysAssumption, At, Event
<1>4. events' \subseteq Event
  BY <1>3 DEF Enters
<1>5. \A e \in events' : RefersTo(e)'
  <2> SUFFICES ASSUME NEW e \in events' PROVE RefersTo(e)'
    OBVIOUS
  <2>1. CASE e \in rest
    BY <1>1, <1>2, <2>1 DEF RefersTo, Jobs, Attempts
  <2>2. CASE e \in more
    BY <1>1, <1>2, <2>2 DEF RefersTo, Jobs, Attempts
  <2>3. CASE e = At(t + AttemptTimeout, seq, "timeout", a)
    BY <1>2, <2>3 DEF RefersTo, Jobs, Attempts, At
  <2> QED
    BY <2>1, <2>2, <2>3 DEF Enters
<1>6. \A b \in Attempts' : attempts'[b].job \in Jobs'
  <2> SUFFICES ASSUME NEW b \in 1..a PROVE attempts'[b].job \in 1..Len(jobs')
    BY <1>2 DEF Attempts, Jobs
  <2>1. CASE b = a
    BY <1>2, <2>1
  <2>2. CASE b # a
    <3>1. b \in Attempts
      BY <1>2, <2>2 DEF Attempts
    <3>2. attempts[b].job \in 1..Len(jobs) /\ attempts'[b] = attempts[b]
      BY <1>2, <3>1 DEF Shape, Jobs
    <3> QED
      BY <1>1, <3>2
  <2> QED
    BY <2>1, <2>2
<1>7. queue' \in Seq(Nat) /\ \A i \in 1..Len(queue') : queue'[i] \in Attempts'
  <2>1. queue \in Seq(Nat) /\ a \in Nat /\ a \in Attempts'
    BY <1>2 DEF Shape, Attempts
  <2>2. \A i \in 1..Len(queue) : queue[i] \in Attempts'
    BY <1>2 DEF Shape, Attempts
  <2>3. CASE queue' = Append(queue, a)
    <3>1. /\ queue' \in Seq(Nat)
          /\ Len(queue') = Len(queue) + 1
          /\ \A i \in 1..Len(queue) : queue'[i] = queue[i]
          /\ queue'[Len(queue) + 1] = a
          /\ Len(queue) \in Nat
      BY <2>1, <2>3, AppendProperties
    <3>2. \A i \in 1..(Len(queue) + 1) : i \in 1..Len(queue) \/ i = Len(queue) + 1
      BY <3>1
    <3> QED
      BY <2>1, <2>2, <3>1, <3>2
  <2> QED
    BY <2>1, <2>2, <2>3
<1> QED
  BY <1>1, <1>2, <1>4, <1>5, <1>6, <1>7 DEF Shape

LEMMA SubmitShape ==
  ASSUME Shape, NEW t \in Nat, NEW j \in 1..Len(jobs'), NEW tries, NEW rest, NEW kind,
         Submit(t, j, tries, rest, kind),
         jobs' \in Seq(Job), Len(jobs) <= Len(jobs'), seq' = seq + 3,
         rest \subseteq Event, \A e \in rest : RefersTo(e)
  PROVE  Shape'
<1> DEFINE a == Len(attempts) + 1
<1>1. a \in Nat /\ seq \in Nat /\ j \in Nat
  BY DEF Shape
<1>2. (queue' = queue \/ queue' = Append(queue, a)) /\ inService' \in Int
  <2>1. inService' = inService + 1 \/ inService' = inService
    BY DEF Submit
  <2>2. inService' \in Int
    BY <2>1 DEF Shape
  <2>3. queue' = queue \/ queue' = Append(queue, a)
    BY DEF Submit
  <2> QED
    BY <2>2, <2>3
<1>3. CASE \E d \in ServiceTimes :
             Enters(t, j, "serving", rest, {At(t + d, seq + 1, "depart", a)})
  <2>1. PICK d \in ServiceTimes : Enters(t, j, "serving", rest, {At(t + d, seq + 1, "depart", a)})
    BY <1>3
  <2>2. At(t + d, seq + 1, "depart", a) \in Event
    BY <1>1, DelaysAssumption DEF DelaysAssumption, At, Event
  <2>3. \A e \in {At(t + d, seq + 1, "depart", a)} :
          /\ e \in Event
          /\ e.kind = "retry" => e.of = j
          /\ e.kind \in {"timeout", "depart"} => e.of = a
    BY <2>2 DEF At
  <2> HIDE DEF a
  <2> QED
    BY <1>2, <2>1, <2>3, EnterShape DEF a
<1>4. CASE Enters(t, j, "queued", rest, {})
  BY <1>2, <1>4, EnterShape
<1>5. CASE Enters(t, j, "rejected", rest, Retries(t, j, FALSE, tries))
  <2>1. \A e \in Retries(t, j, FALSE, tries) :
          /\ e \in Event
          /\ e.kind = "retry" => e.of = j
          /\ e.kind \in {"timeout", "depart"} => e.of = a
    BY <1>1, DelaysAssumption DEF DelaysAssumption, Retries, At, Event
  <2> QED
    BY <1>2, <1>5, <2>1, EnterShape
<1> QED
  BY <1>3, <1>4, <1>5, SubmitCases
-----------------------------------------------------------------------------
(* Shape is an invariant.                                                    *)

LEMMA ShapeInit == Init => Shape
  BY EmptySeq DEF Init, Shape, At, Event, RefersTo, Jobs, Attempts

LEMMA FreshShape == ASSUME Shape, NEW e \in events, Fresh(e) PROVE Shape'
<1> DEFINE new == [attempts |-> 1, succeeded |-> FALSE]
<1>1. PICK gap \in Gaps :
        Submit(e.time, Len(jobs) + 1, 1,
               (events \ {e}) \cup {At(e.time + gap, seq + 2, "fresh", 0)}, "fresh")
  BY DEF Fresh
<1> DEFINE next == At(e.time + gap, seq + 2, "fresh", 0)
<1>2. e.time \in Nat /\ seq \in Nat /\ seq' = seq + 3
  BY DEF Shape, Event, Fresh, Handles
<1>3. next \in Event /\ next.kind = "fresh"
  BY <1>1, <1>2, DelaysAssumption DEF DelaysAssumption, At, Event
<1>4. new \in Job /\ jobs' = Append(jobs, new) /\ jobs \in Seq(Job)
  BY DEF Fresh, Job, Shape
<1>5. jobs' \in Seq(Job) /\ Len(jobs') = Len(jobs) + 1 /\ Len(jobs) \in Nat
  BY <1>4, AppendProperties
<1>6. (events \ {e}) \cup {next} \subseteq Event
  BY <1>3 DEF Shape
<1>7. \A f \in (events \ {e}) \cup {next} : RefersTo(f)
  BY <1>3 DEF Shape, RefersTo
<1>8. Len(jobs) + 1 \in 1..Len(jobs') /\ Len(jobs) <= Len(jobs')
  BY <1>5
<1> HIDE DEF next
<1> QED
  BY <1>1, <1>2, <1>5, <1>6, <1>7, <1>8, SubmitShape DEF next

LEMMA RetryShape == ASSUME Shape, NEW e \in events, Retry(e) PROVE Shape'
<1>1. e.time \in Nat /\ seq \in Nat /\ seq' = seq + 3 /\ e.of \in 1..Len(jobs)
  BY DEF Shape, Event, Retry, Handles, RefersTo, Jobs
<1>2. CASE UNCHANGED <<jobs, attempts, inService, queue>> /\ events' = events \ {e}
  BY <1>1, <1>2 DEF Shape, RefersTo, Jobs, Attempts
<1>3. CASE /\ jobs' = [jobs EXCEPT ![e.of].attempts = @ + 1]
           /\ Submit(e.time, e.of, jobs[e.of].attempts + 1, events \ {e}, "retry")
  <2> DEFINE more == [jobs[e.of] EXCEPT !.attempts = @ + 1]
  <2>1. jobs \in Seq(Job) /\ jobs[e.of] \in Job
    BY <1>1 DEF Shape
  <2>2. more \in Job
    BY <2>1 DEF Job
  <2>3. jobs' = [jobs EXCEPT ![e.of] = more]
    BY <1>3
  <2>4. jobs' \in Seq(Job) /\ Len(jobs') = Len(jobs) /\ Len(jobs) \in Nat
    BY <1>1, <2>1, <2>2, <2>3, ExceptSeq
  <2>5. events \ {e} \subseteq Event /\ \A f \in events \ {e} : RefersTo(f)
    BY DEF Shape
  <2>6. e.of \in 1..Len(jobs') /\ Len(jobs) <= Len(jobs')
    BY <1>1, <2>4
  <2> QED
    BY <1>1, <1>3, <2>4, <2>5, <2>6, SubmitShape
<1> QED
  BY <1>2, <1>3 DEF Retry

\* Changing the state of one attempt disturbs no reference.
LEMMA RestateAttempt ==
  ASSUME Shape, NEW a \in Attempts, NEW s \in {"queued", "serving", "rejected", "canceled"},
         attempts' = [attempts EXCEPT ![a].state = s]
  PROVE  /\ attempts' \in Seq(Attempt)
         /\ Len(attempts') = Len(attempts)
         /\ \A b \in Attempts : attempts'[b].job = attempts[b].job
         /\ \A b \in Attempts : b # a => attempts'[b] = attempts[b]
         /\ attempts'[a].state = s
<1> DEFINE new == [attempts[a] EXCEPT !.state = s]
<1>1. attempts \in Seq(Attempt) /\ attempts[a] \in Attempt
  BY DEF Shape, Attempts
<1>2. new \in Attempt /\ new.job = attempts[a].job /\ new.state = s
  BY <1>1 DEF Attempt
<1>3. attempts' = [attempts EXCEPT ![a] = new]
  OBVIOUS
<1> HIDE DEF new
<1> QED
  BY <1>1, <1>2, <1>3, ExceptSeq DEF Attempts

\* A departure changes no more of the jobs than whether one has succeeded.
LEMMA DepartJobs ==
  ASSUME Shape, NEW e \in events, Depart(e)
  PROVE  /\ jobs' \in Seq(Job)
         /\ Len(jobs') = Len(jobs)
         /\ \A j \in Jobs : jobs'[j].attempts = jobs[j].attempts
         /\ \A j \in Jobs : ~jobs'[j].succeeded => ~jobs[j].succeeded
<1> DEFINE j == attempts[e.of].job
           new == [jobs[j] EXCEPT !.succeeded = TRUE]
<1>1. j \in 1..Len(jobs) /\ jobs \in Seq(Job)
  BY DEF Shape, Depart, RefersTo, Attempts, Jobs
<1>2. jobs[j] \in Job
  BY <1>1
<1>3. new \in Job /\ new.attempts = jobs[j].attempts /\ new.succeeded
  BY <1>2 DEF Job
<1>4. jobs' = jobs \/ jobs' = [jobs EXCEPT ![j] = new]
  BY DEF Depart
<1> HIDE DEF j, new
<1>5. CASE jobs' = [jobs EXCEPT ![j] = new]
  BY <1>1, <1>3, <1>5, ExceptSeq DEF Jobs
<1> QED
  BY <1>1, <1>4, <1>5

LEMMA DepartShape == ASSUME Shape, NEW e \in events, Depart(e) PROVE Shape'
<1>1. jobs' \in Seq(Job) /\ Len(jobs') = Len(jobs)
  BY DepartJobs
<1>2. e.time \in Nat /\ seq \in Nat /\ seq' = seq + 3 /\ inService \in Int
  BY DEF Shape, Event, Depart, Handles
<1>3. CASE /\ events' = events \ {e}
           /\ queue' = <<>>
           /\ inService' = inService - 1
           /\ UNCHANGED attempts
  BY <1>1, <1>2, <1>3, EmptySeq DEF Shape, RefersTo, Jobs, Attempts
<1>4. ASSUME NEW k \in 1..Len(queue),
             attempts' = [attempts EXCEPT ![queue[k]].state = "serving"],
             queue' = SubSeq(queue, k + 1, Len(queue)),
             NEW d \in ServiceTimes,
             events' = (events \ {e}) \cup {At(e.time + d, seq + 1, "depart", queue[k])},
             inService' = inService
      PROVE  Shape'
  <2>1. queue[k] \in Attempts /\ queue[k] \in Nat /\ queue \in Seq(Nat) /\ Len(queue) \in Nat
    BY DEF Shape, Attempts
  <2>2. /\ attempts' \in Seq(Attempt)
        /\ Len(attempts') = Len(attempts)
        /\ \A b \in Attempts : attempts'[b].job = attempts[b].job
    BY <1>4, <2>1, RestateAttempt
  <2>3. At(e.time + d, seq + 1, "depart", queue[k]) \in Event
    BY <1>2, <2>1, DelaysAssumption DEF DelaysAssumption, At, Event
  <2>4. RefersTo(At(e.time + d, seq + 1, "depart", queue[k]))
    BY <2>1 DEF RefersTo, At
  <2>5. \A f \in events' : RefersTo(f)'
    BY <1>1, <1>4, <2>2, <2>4 DEF Shape, RefersTo, Jobs, Attempts
  <2>6. queue' \in Seq(Nat) /\ \A i \in 1..Len(queue') : queue'[i] \in Attempts
    <3>1. \A i \in (k + 1)..Len(queue) : queue[i] \in Nat /\ queue[i] \in Attempts
      BY <2>1 DEF Shape
    <3>2. /\ queue' \in Seq(Nat)
          /\ Len(queue') = IF k + 1 <= Len(queue) THEN Len(queue) - (k + 1) + 1 ELSE 0
          /\ \A i \in 1..(Len(queue) - (k + 1) + 1) : queue'[i] = queue[k + 1 + i - 1]
      BY <1>4, <2>1, <3>1, SubSeqProperties
    <3>3. k \in Nat /\ Len(queue) - (k + 1) + 1 = Len(queue) - k
      BY <2>1
    <3>4. Len(queue') = Len(queue) - k
      <4>1. CASE k + 1 <= Len(queue)
        BY <3>2, <3>3, <4>1
      <4>2. CASE ~(k + 1 <= Len(queue))
        <5>1. k = Len(queue)
          BY <2>1, <4>2
        <5> QED
          BY <2>1, <3>2, <4>2, <5>1
      <4> QED
        BY <4>1, <4>2
    <3>5. ASSUME NEW i \in 1..Len(queue') PROVE queue'[i] \in Attempts
      <4>1. i + k \in (k + 1)..Len(queue) /\ i \in 1..(Len(queue) - (k + 1) + 1) /\ k + 1 + i - 1 = i + k
        BY <2>1, <3>3, <3>4
      <4> QED
        BY <3>1, <3>2, <4>1
    <3> QED
      BY <3>2, <3>5
  <2>7. events' \subseteq Event
    BY <1>4, <2>3 DEF Shape
  <2>8. \A a \in Attempts' : attempts'[a].job \in Jobs'
    BY <1>1, <2>2 DEF Shape, Jobs, Attempts
  <2>9. \A i \in 1..Len(queue') : queue'[i] \in Attempts'
    BY <2>2, <2>6 DEF Attempts
  <2>10. seq' \in Nat /\ inService' \in Int
    BY <1>2, <1>4
  <2> QED
    BY <1>1, <2>2, <2>5, <2>6, <2>7, <2>8, <2>9, <2>10 DEF Shape
<1> QED
  BY <1>3, <1>4 DEF Depart, Departures

LEMMA TimeoutShape == ASSUME Shape, NEW e \in events, Timeout(e) PROVE Shape'
<1> DEFINE j == attempts[e.of].job
<1>1. /\ e.time \in Nat /\ seq \in Nat /\ seq' = seq + 3 /\ inService' \in Int
      /\ e.of \in Attempts /\ j \in Jobs /\ j \in Nat
      /\ UNCHANGED <<jobs, inService, queue>>
  BY DEF Shape, Event, Timeout, Handles, RefersTo, Jobs
<1>2. \A f \in events' : f \in events \/ (f \in Event /\ f.kind = "retry" /\ f.of = j)
  <2>1. \A f \in Retries(e.time, j, jobs[j].succeeded, jobs[j].attempts) :
          f \in Event /\ f.kind = "retry" /\ f.of = j
    BY <1>1, DelaysAssumption DEF DelaysAssumption, Retries, At, Event
  <2> QED
    BY <2>1 DEF Timeout
<1>3. /\ attempts' \in Seq(Attempt)
      /\ Len(attempts') = Len(attempts)
      /\ \A b \in Attempts : attempts'[b].job = attempts[b].job
  <2>1. attempts' = attempts \/ attempts' = [attempts EXCEPT ![e.of].state = "canceled"]
    BY DEF Timeout
  <2>2. CASE attempts' = attempts
    BY <2>2 DEF Shape
  <2>3. CASE attempts' = [attempts EXCEPT ![e.of].state = "canceled"]
    BY <1>1, <2>3, RestateAttempt
  <2> QED
    BY <2>1, <2>2, <2>3
<1>4. \A f \in events' : RefersTo(f)'
  BY <1>1, <1>2, <1>3 DEF Shape, RefersTo, Jobs, Attempts
<1>5. events' \subseteq Event
  BY <1>2 DEF Shape
<1>6. \A a \in Attempts' : attempts'[a].job \in Jobs'
  BY <1>1, <1>3 DEF Shape, Jobs, Attempts
<1>7. queue' \in Seq(Nat) /\ \A i \in 1..Len(queue') : queue'[i] \in Attempts'
  BY <1>1, <1>3 DEF Shape, Attempts
<1>8. jobs' \in Seq(Job) /\ seq' \in Nat
  BY <1>1 DEF Shape
<1> QED
  BY <1>1, <1>3, <1>4, <1>5, <1>6, <1>7, <1>8 DEF Shape

LEMMA ShapeStep == Shape /\ [Next]_vars => Shape'
<1> SUFFICES ASSUME Shape, [Next]_vars PROVE Shape'
  OBVIOUS
<1>1. CASE \E e \in events : End(e)
  BY <1>1 DEF End, Shape, RefersTo, Jobs, Attempts
<1>2. CASE UNCHANGED vars
  BY <1>2 DEF vars, Shape, RefersTo, Jobs, Attempts
<1> QED
  BY <1>1, <1>2, FreshShape, RetryShape, DepartShape, TimeoutShape DEF Next, Ended

-----------------------------------------------------------------------------
(* One chain of retries per job, and hence a bound on attempts.              *)

\* The invariant the chain needs beside itself: a scheduled retry is one the job
\* is still entitled to.
ChainInv ==
  /\ OneRetryChain
  /\ AttemptsBounded
  /\ ~done => \A e \in events : e.kind = "retry" => jobs[e.of].attempts < MaxAttempts

\* What an event is about does not change while other attempts enter.
LEMMA EnterKeepsEvents ==
  ASSUME Shape, NEW t \in Nat, NEW j \in Nat, NEW s \in {"queued", "serving", "rejected"},
         NEW rest, NEW more, Enters(t, j, s, rest, more),
         NEW f \in Event, RefersTo(f)
  PROVE  /\ Live(f)' <=> Live(f)
         /\ Live(f) => JobOf(f)' = JobOf(f) /\ JobOf(f) \in Jobs
  BY EnterGrows DEF Live, JobOf, RefersTo, Shape

\* `rest` is what was scheduled, without the event that led to job j's attempt.
OfOtherJobs(rest, j) ==
  /\ \A f \in rest : f \in Event /\ RefersTo(f) /\ (f \in events \/ f.kind = "fresh")
  /\ \A f \in rest : Live(f) => JobOf(f) # j
  /\ \A f \in events : Live(f) /\ f \notin rest => JobOf(f) = j

\* Only job j changes, or is new.
OthersKept(j) ==
  /\ \A i \in 1..Len(jobs') : i # j => i \in Jobs /\ jobs'[i] = jobs[i]
  /\ Jobs \subseteq 1..Len(jobs')

\* At most one event beside the timer: a departure, or for a shed attempt a retry,
\* which is missing only when the job has used up its attempts.
AtMostOne(more, j, s) ==
  /\ \A x, y \in more : x = y
  /\ \A x \in more : x.kind \in {"retry", "depart"}
  /\ \A x \in more : x.kind = "retry" => x.of = j /\ s = "rejected" /\ jobs'[j].attempts < MaxAttempts
  /\ s = "rejected" => jobs'[j].attempts >= MaxAttempts \/ \E x \in more : x.kind = "retry"

LEMMA EnterChain ==
  ASSUME Shape, Shape', ChainInv, ~done, ~done',
         NEW t \in Nat, NEW j \in 1..Len(jobs'), NEW s \in {"queued", "serving", "rejected"},
         NEW rest, NEW more, Enters(t, j, s, rest, more),
         OfOtherJobs(rest, j), AtMostOne(more, j, s), OthersKept(j),
         jobs'[j].attempts <= MaxAttempts
  PROVE  ChainInv'
<1> USE DEF OfOtherJobs, AtMostOne, OthersKept
<1>0. PICK timer : timer = At(t + AttemptTimeout, seq, "timeout", Len(attempts) + 1)
  OBVIOUS
<1>1. /\ attempts'[timer.of].job = j /\ attempts'[timer.of].state = s
      /\ events' = rest \cup {timer} \cup more
      /\ timer.kind = "timeout"
      /\ j \in Nat
  <2>1. j \in Nat
    BY DEF Shape
  <2>2. timer.of = Len(attempts) + 1 /\ timer.kind = "timeout"
    BY <1>0 DEF At
  <2> QED
    BY <1>0, <2>1, <2>2, EnterGrows DEF Enters
<1>2. JobOf(timer)' = j /\ (Live(timer)' <=> s # "rejected")
  BY <1>1 DEF JobOf, Live
<1>3. \A f \in rest : /\ Live(f)' <=> Live(f)
                      /\ Live(f) => JobOf(f)' = JobOf(f) /\ JobOf(f) # j /\ f \in events
  BY <1>1, EnterKeepsEvents DEF Live
<1>4. \A x \in more : /\ Live(x)' <=> x.kind = "retry"
                      /\ Live(x)' => JobOf(x)' = j /\ s = "rejected"
  BY DEF Live, JobOf
<1>5. ASSUME NEW f \in events', NEW g \in events', Live(f)', Live(g)', JobOf(f)' = JobOf(g)'
      PROVE  f = g
  <2>1. CASE f \in rest /\ g \in rest
    BY <1>3, <1>5, <2>1 DEF ChainInv, OneRetryChain
  <2>2. CASE f \in {timer} \cup more /\ g \in {timer} \cup more
    BY <1>2, <1>4, <1>5, <2>2
  <2>3. CASE f \in rest /\ g \in {timer} \cup more
    BY <1>2, <1>3, <1>4, <1>5, <2>3
  <2>4. CASE g \in rest /\ f \in {timer} \cup more
    BY <1>2, <1>3, <1>4, <1>5, <2>4
  <2> QED
    BY <1>1, <1>5, <2>1, <2>2, <2>3, <2>4
<1>6. ASSUME NEW i \in 1..Len(jobs'), ~jobs'[i].succeeded, jobs'[i].attempts < MaxAttempts
      PROVE  \E f \in events' : Live(f)' /\ JobOf(f)' = i
  <2>1. CASE i = j
    <3>1. jobs'[j].attempts \in Nat
      <4>1. jobs' \in Seq(Job)
        BY DEF Shape
      <4>2. jobs'[j] \in Job
        BY <4>1
      <4> QED
        BY <4>2 DEF Job
    <3>2. CASE s = "rejected"
      BY <1>1, <1>4, <1>6, <2>1, <3>1, <3>2, SizesAssumption DEF SizesAssumption
    <3>3. CASE s # "rejected"
      BY <1>1, <1>2, <2>1, <3>3
    <3> QED
      BY <3>2, <3>3
  <2>2. CASE i # j
    <3>1. PICK f \in events : Live(f) /\ JobOf(f) = i
      BY <1>6, <2>2 DEF ChainInv, OneRetryChain
    <3>2. f \in rest
      BY <2>2, <3>1
    <3> QED
      BY <1>1, <1>3, <3>1, <3>2
  <2> QED
    BY <2>1, <2>2
<1>7. OneRetryChain'
  BY <1>5, <1>6 DEF OneRetryChain, Jobs
<1>8. AttemptsBounded'
  BY DEF ChainInv, AttemptsBounded, Jobs
<1>9. ASSUME NEW f \in events', f.kind = "retry" PROVE jobs'[f.of].attempts < MaxAttempts
  <2>1. CASE f \in rest
    <3>1. f \in events /\ f.of # j /\ f.of \in Jobs
      BY <1>3, <1>9, <2>1 DEF Live, JobOf, RefersTo
    <3> QED
      BY <1>9, <3>1 DEF ChainInv
  <2>2. CASE f \in more
    BY <1>9, <2>2
  <2> QED
    BY <1>1, <1>9, <2>1, <2>2
<1> QED
  BY <1>7, <1>8, <1>9 DEF ChainInv

\* submit_attempt, of a job no remaining event will retry.
LEMMA SubmitChain ==
  ASSUME Shape, Shape', ChainInv, ~done, ~done',
         NEW t \in Nat, NEW j \in 1..Len(jobs'), NEW tries \in Nat, NEW rest, NEW kind,
         Submit(t, j, tries, rest, kind),
         OfOtherJobs(rest, j), OthersKept(j),
         jobs'[j].attempts = tries, tries <= MaxAttempts
  PROVE  ChainInv'
<1> DEFINE a == Len(attempts) + 1
<1>1. CASE \E d \in ServiceTimes :
             Enters(t, j, "serving", rest, {At(t + d, seq + 1, "depart", a)})
  <2>1. PICK d \in ServiceTimes : Enters(t, j, "serving", rest, {At(t + d, seq + 1, "depart", a)})
    BY <1>1
  <2>2. AtMostOne({At(t + d, seq + 1, "depart", a)}, j, "serving")
    BY DEF AtMostOne, At
  <2> QED
    BY <2>1, <2>2, EnterChain
<1>2. CASE Enters(t, j, "queued", rest, {})
  <2>1. AtMostOne({}, j, "queued")
    BY DEF AtMostOne
  <2> QED
    BY <1>2, <2>1, EnterChain
<1>3. CASE Enters(t, j, "rejected", rest, Retries(t, j, FALSE, tries))
  <2>1. AtMostOne(Retries(t, j, FALSE, tries), j, "rejected")
    <3>1. CASE tries < MaxAttempts
      <4>1. Retries(t, j, FALSE, tries) = {At(t + Backoff, seq + 1, "retry", j)}
        BY <3>1 DEF Retries
      <4>2. AtMostOne({At(t + Backoff, seq + 1, "retry", j)}, j, "rejected")
        BY <3>1 DEF AtMostOne, At
      <4> QED
        BY <4>1, <4>2
    <3>2. CASE ~(tries < MaxAttempts)
      <4>1. Retries(t, j, FALSE, tries) = {}
        BY <3>2 DEF Retries
      <4>2. AtMostOne({}, j, "rejected")
        BY <3>2, SizesAssumption DEF SizesAssumption, AtMostOne
      <4> QED
        BY <4>1, <4>2
    <3> QED
      BY <3>1, <3>2
  <2> QED
    BY <1>3, <2>1, EnterChain
<1> QED
  BY <1>1, <1>2, <1>3, SubmitCases

LEMMA FreshChain == ASSUME Shape, Shape', ChainInv, NEW e \in events, Fresh(e) PROVE ChainInv'
<1>1. PICK gap \in Gaps :
        Submit(e.time, Len(jobs) + 1, 1,
               (events \ {e}) \cup {At(e.time + gap, seq + 2, "fresh", 0)}, "fresh")
  BY DEF Fresh
<1>2. PICK next : next = At(e.time + gap, seq + 2, "fresh", 0)
  OBVIOUS
<1>3. /\ ~done /\ ~done' /\ e.kind = "fresh" /\ e.time \in Nat /\ seq \in Nat
      /\ next \in Event /\ next.kind = "fresh" /\ RefersTo(next)
  BY <1>1, <1>2, DelaysAssumption
  DEF DelaysAssumption, Shape, Event, Fresh, Pops, Handles, At, RefersTo
<1>4. /\ Len(jobs') = Len(jobs) + 1 /\ Len(jobs) \in Nat
      /\ jobs'[Len(jobs) + 1].attempts = 1
      /\ \A i \in Jobs : jobs'[i] = jobs[i]
  <2> DEFINE new == [attempts |-> 1, succeeded |-> FALSE]
  <2>1. new \in Job /\ jobs \in Seq(Job) /\ jobs' = Append(jobs, new)
    BY DEF Fresh, Job, Shape
  <2> QED
    BY <2>1, AppendProperties DEF Jobs
<1>5. \A f \in events : Live(f) => JobOf(f) \in Jobs
  BY DEF Shape, RefersTo, Live, JobOf
<1>6. Len(jobs) + 1 \notin Jobs
  BY <1>4 DEF Jobs
<1>7. PICK rest : rest = (events \ {e}) \cup {next}
  OBVIOUS
<1>8. OfOtherJobs(rest, Len(jobs) + 1)
  BY <1>3, <1>5, <1>6, <1>7 DEF Shape, Live, OfOtherJobs
<1>9. Len(jobs) + 1 \in 1..Len(jobs') /\ 1 <= MaxAttempts
  BY <1>4, SizesAssumption DEF SizesAssumption
<1>10. OthersKept(Len(jobs) + 1)
  BY <1>4 DEF OthersKept, Jobs
<1> QED
  BY <1>1, <1>2, <1>3, <1>4, <1>7, <1>8, <1>9, <1>10, SubmitChain

LEMMA RetryChain == ASSUME Shape, Shape', ChainInv, NEW e \in events, Retry(e) PROVE ChainInv'
<1>1. /\ ~done /\ ~done' /\ e.kind = "retry" /\ e.time \in Nat
      /\ e.of \in Jobs /\ Live(e) /\ JobOf(e) = e.of
      /\ jobs[e.of].attempts < MaxAttempts
  BY DEF Shape, Event, Retry, Pops, Handles, RefersTo, Live, JobOf, ChainInv
<1>2. \A f \in events \ {e} : Live(f) => JobOf(f) # e.of
  BY <1>1 DEF ChainInv, OneRetryChain
<1>3. CASE jobs[e.of].succeeded
  <2>1. UNCHANGED <<jobs, attempts>> /\ events' = events \ {e}
    BY <1>3 DEF Retry
  <2>2. OneRetryChain'
    BY <1>1, <1>2, <1>3, <2>1 DEF ChainInv, OneRetryChain, Live, JobOf, Jobs
  <2> QED
    BY <1>1, <2>1, <2>2 DEF ChainInv, AttemptsBounded, Jobs
<1>4. CASE ~jobs[e.of].succeeded
  <2>1. /\ jobs' = [jobs EXCEPT ![e.of].attempts = @ + 1]
        /\ Submit(e.time, e.of, jobs[e.of].attempts + 1, events \ {e}, "retry")
    BY <1>4 DEF Retry
  <2>2. jobs \in Seq(Job) /\ jobs[e.of] \in Job
    BY <1>1 DEF Shape, Jobs
  <2>3. PICK more : more = [jobs[e.of] EXCEPT !.attempts = @ + 1]
    OBVIOUS
  <2>4. more \in Job /\ more.attempts = jobs[e.of].attempts + 1
    BY <2>2, <2>3 DEF Job
  <2>5. /\ Len(jobs') = Len(jobs)
        /\ jobs'[e.of] = more
        /\ \A i \in Jobs : i # e.of => jobs'[i] = jobs[i]
    <3>1. jobs' = [jobs EXCEPT ![e.of] = more]
      BY <2>1, <2>3
    <3> QED
      BY <1>1, <2>2, <2>4, <3>1, ExceptSeq DEF Jobs
  <2>6. jobs[e.of].attempts + 1 <= MaxAttempts
    BY <1>1, <2>2, SizesAssumption DEF SizesAssumption, Job
  <2>7. PICK rest : rest = events \ {e}
    OBVIOUS
  <2>8. OfOtherJobs(rest, e.of)
    BY <1>1, <1>2, <2>7 DEF Shape, OfOtherJobs
  <2>9. OthersKept(e.of) /\ e.of \in 1..Len(jobs')
    BY <1>1, <2>5 DEF OthersKept, Jobs
  <2>10. jobs[e.of].attempts + 1 \in Nat
    BY <2>2 DEF Job
  <2> QED
    BY <1>1, <2>1, <2>4, <2>5, <2>6, <2>7, <2>8, <2>9, <2>10, SubmitChain
<1> QED
  BY <1>3, <1>4

\* Liveness of an event depends on no more than which attempts are rejected.
LEMMA SameRejections ==
  ASSUME Shape, NEW f \in events,
         \A b \in Attempts : /\ attempts'[b].job = attempts[b].job
                             /\ attempts'[b].state = "rejected" <=> attempts[b].state = "rejected"
  PROVE  /\ Live(f)' <=> Live(f)
         /\ Live(f) => JobOf(f)' = JobOf(f)
  BY DEF Shape, RefersTo, Live, JobOf

LEMMA DepartChain == ASSUME Shape, ChainInv, NEW e \in events, Depart(e) PROVE ChainInv'
<1>1. /\ Len(jobs') = Len(jobs)
      /\ \A j \in Jobs : jobs'[j].attempts = jobs[j].attempts
      /\ \A j \in Jobs : ~jobs'[j].succeeded => ~jobs[j].succeeded
  BY DepartJobs
<1>2. ~done /\ ~done' /\ e.kind = "depart"
  BY DEF Depart, Pops, Handles
<1>3. \A b \in Attempts : /\ attempts'[b].job = attempts[b].job
                          /\ attempts'[b].state = "rejected" <=> attempts[b].state = "rejected"
  <2>1. ASSUME NEW k \in 1..Len(queue), NextInLine(k),
               attempts' = [attempts EXCEPT ![queue[k]].state = "serving"]
        PROVE  \A b \in Attempts :
                 /\ attempts'[b].job = attempts[b].job
                 /\ attempts'[b].state = "rejected" <=> attempts[b].state = "rejected"
    <3>1. queue[k] \in Attempts /\ attempts[queue[k]].state = "queued"
      BY <2>1 DEF Shape, NextInLine
    <3> QED
      BY <2>1, <3>1, RestateAttempt
  <2> QED
    BY <2>1 DEF Depart
<1>4. \A f \in events : /\ Live(f)' <=> Live(f)
                        /\ Live(f) => JobOf(f)' = JobOf(f)
  BY <1>3, SameRejections
<1>5. /\ \A f \in events' : f \in events \/ f.kind = "depart"
      /\ \A f \in events : f \in events' \/ f.kind = "depart"
  <2>1. \A b : \A f \in Departures(e.time, b) : f.kind = "depart"
    BY DEF Departures, At
  <2> QED
    BY <1>2, <2>1 DEF Depart
<1>6. \A f \in events' : Live(f)' => f \in events /\ Live(f) /\ JobOf(f)' = JobOf(f)
  BY <1>4, <1>5 DEF Live
<1>7. \A f \in events : Live(f) => f \in events' /\ Live(f)'
  BY <1>4, <1>5 DEF Live
<1>8. OneRetryChain'
  BY <1>1, <1>2, <1>6, <1>7 DEF ChainInv, OneRetryChain, Jobs
<1>9. AttemptsBounded'
  BY <1>1 DEF ChainInv, AttemptsBounded, Jobs
<1>10. \A f \in events' : f.kind = "retry" => jobs'[f.of].attempts < MaxAttempts
  BY <1>1, <1>2, <1>5 DEF ChainInv, Shape, RefersTo
<1> QED
  BY <1>8, <1>9, <1>10 DEF ChainInv

LEMMA TimeoutChain ==
  ASSUME Shape, Shape', ChainInv, NEW e \in events, Timeout(e)
  PROVE  ChainInv'
<1> DEFINE j == attempts[e.of].job
<1>1. /\ ~done /\ ~done' /\ e.kind = "timeout" /\ jobs' = jobs
      /\ e.of \in Attempts /\ j \in Jobs /\ JobOf(e) = j
  BY DEF Timeout, Pops, Handles, Shape, RefersTo, JobOf
<1>2. \A b \in Attempts : /\ attempts'[b].job = attempts[b].job
                          /\ attempts'[b].state = "rejected" <=> attempts[b].state = "rejected"
  <2>1. attempts' = attempts \/ (/\ attempts[e.of].state = "queued"
                                 /\ attempts' = [attempts EXCEPT ![e.of].state = "canceled"])
    BY DEF Timeout
  <2> QED
    BY <1>1, <2>1, RestateAttempt
<1>3. \A f \in events : /\ Live(f)' <=> Live(f)
                        /\ Live(f) => JobOf(f)' = JobOf(f)
  BY <1>2, SameRejections
<1>4. AttemptsBounded'
  BY <1>1 DEF ChainInv, AttemptsBounded, Jobs
<1>5. CASE ~Expires(e.of)
  <2>1. events' = events \ {e} /\ ~Live(e)
    BY <1>1, <1>5 DEF Timeout, Expires, Live
  <2>2. OneRetryChain'
    BY <1>1, <1>3, <2>1 DEF ChainInv, OneRetryChain, Jobs
  <2> QED
    BY <1>1, <1>4, <2>1, <2>2 DEF ChainInv
<1>6. CASE Expires(e.of)
  <2>1. Live(e)
    BY <1>1, <1>6 DEF Expires, Live
  <2>2. \A f \in events \ {e} : Live(f) => JobOf(f) # j
    BY <1>1, <2>1 DEF ChainInv, OneRetryChain
  <2>3. events' = (events \ {e}) \cup Retries(e.time, j, jobs[j].succeeded, jobs[j].attempts)
    BY <1>6 DEF Timeout
  <2>4. PICK again : again = At(e.time + Backoff, seq + 1, "retry", j)
    OBVIOUS
  <2>5. again.kind = "retry" /\ again.of = j /\ Live(again)' /\ JobOf(again)' = j
    BY <2>4 DEF At, Live, JobOf
  <2>6. CASE ~jobs[j].succeeded /\ jobs[j].attempts < MaxAttempts
    <3>1. events' = (events \ {e}) \cup {again}
      BY <2>3, <2>4, <2>6 DEF Retries
    <3>2. OneRetryChain'
      <4>1. ASSUME NEW f \in events', NEW g \in events', Live(f)', Live(g)', JobOf(f)' = JobOf(g)'
            PROVE  f = g
        <5>1. CASE f \in events \ {e} /\ g \in events \ {e}
          BY <1>1, <1>3, <4>1, <5>1 DEF ChainInv, OneRetryChain
        <5>2. \A h \in events \ {e} : Live(h)' => JobOf(h)' # j
          BY <1>3, <2>2
        <5> QED
          BY <2>5, <3>1, <4>1, <5>1, <5>2
      <4>2. ASSUME NEW i \in Jobs, ~jobs[i].succeeded, jobs[i].attempts < MaxAttempts
            PROVE  \E f \in events' : Live(f)' /\ JobOf(f)' = i
        <5>1. CASE i = j
          BY <2>5, <3>1, <5>1
        <5>2. CASE i # j
          <6>1. PICK f \in events : Live(f) /\ JobOf(f) = i
            BY <1>1, <4>2 DEF ChainInv, OneRetryChain
          <6> QED
            BY <1>1, <1>3, <3>1, <5>2, <6>1
        <5> QED
          BY <5>1, <5>2
      <4> QED
        BY <1>1, <4>1, <4>2 DEF OneRetryChain, Jobs
    <3> QED
      BY <1>1, <1>4, <2>5, <2>6, <3>1, <3>2 DEF ChainInv
  <2>7. CASE jobs[j].succeeded \/ ~(jobs[j].attempts < MaxAttempts)
    <3>1. events' = events \ {e}
      BY <2>3, <2>7 DEF Retries
    <3>2. OneRetryChain'
      <4>1. ASSUME NEW i \in Jobs, ~jobs[i].succeeded, jobs[i].attempts < MaxAttempts
            PROVE  \E f \in events' : Live(f)' /\ JobOf(f)' = i
        <5>1. PICK f \in events : Live(f) /\ JobOf(f) = i
          BY <1>1, <4>1 DEF ChainInv, OneRetryChain
        <5>2. f # e
          BY <1>1, <2>7, <4>1, <5>1
        <5> QED
          BY <1>3, <3>1, <5>1, <5>2
      <4>2. ASSUME NEW f \in events', NEW g \in events', Live(f)', Live(g)', JobOf(f)' = JobOf(g)'
            PROVE  f = g
        BY <1>1, <1>3, <3>1, <4>2 DEF ChainInv, OneRetryChain
      <4> QED
        BY <1>1, <4>1, <4>2 DEF OneRetryChain, Jobs
    <3> QED
      BY <1>1, <1>4, <3>1, <3>2 DEF ChainInv
  <2> QED
    BY <2>6, <2>7
<1> QED
  BY <1>5, <1>6

LEMMA ChainStep == Shape /\ Shape' /\ ChainInv /\ [Next]_vars => ChainInv'
<1> SUFFICES ASSUME Shape, Shape', ChainInv, [Next]_vars PROVE ChainInv'
  OBVIOUS
<1>1. CASE \E e \in events : End(e)
  BY <1>1 DEF End, ChainInv, OneRetryChain, AttemptsBounded, Jobs
<1>2. CASE UNCHANGED vars
  BY <1>2 DEF vars, ChainInv, OneRetryChain, AttemptsBounded, Live, JobOf, Jobs
<1> QED
  BY <1>1, <1>2, FreshChain, RetryChain, DepartChain, TimeoutChain DEF Next, Ended

LEMMA ShapeAlways == Spec => []Shape
  BY ShapeInit, ShapeStep, PTL DEF Spec

LEMMA ChainAlways == Spec => []ChainInv
<1>1. Init => ChainInv
  BY SizesAssumption
  DEF SizesAssumption, Init, ChainInv, OneRetryChain, AttemptsBounded, Jobs, Live, At
<1> QED
  BY <1>1, ShapeAlways, ChainStep, PTL DEF Spec

\* A job never has two chains of retries, and has one while it may still retry.
THEOREM OneChain == Spec => []OneRetryChain
<1>1. ChainInv => OneRetryChain
  BY DEF ChainInv
<1> QED
  BY <1>1, ChainAlways, PTL

\* max_attempts bounds every job, whatever its attempts run into.
THEOREM AttemptsStayBounded == Spec => []AttemptsBounded
<1>1. ChainInv => AttemptsBounded
  BY DEF ChainInv
<1> QED
  BY <1>1, ChainAlways, PTL

-----------------------------------------------------------------------------
(* Slots.                                                                    *)

\* No slot is idle while somebody waits, and none is given twice.
Busy == inService <= Capacity /\ WorkConserving

LEMMA BusyStep == Shape /\ Busy /\ [Next]_vars => Busy'
<1> SUFFICES ASSUME Shape, Busy, [Next]_vars PROVE Busy'
  OBVIOUS
<1> USE SizesAssumption DEF SizesAssumption
<1>1. ASSUME NEW t, NEW j, NEW tries, NEW rest, NEW kind, Submit(t, j, tries, rest, kind)
      PROVE  Busy'
  <2>1. CASE inService < Capacity
    <3>1. queue = <<>> /\ inService' = inService + 1 /\ queue' = queue
      <4>1. inService # Capacity
        BY <2>1 DEF Shape
      <4>2. inService' = inService + 1 /\ queue' = queue
        BY <1>1, <2>1 DEF Submit, HasSlot
      <4> QED
        BY <4>1, <4>2 DEF Busy, WorkConserving
    <3> QED
      BY <2>1, <3>1 DEF Shape, Busy, WorkConserving
  <2>2. CASE ~(inService < Capacity)
    <3>1. inService = Capacity /\ inService' = inService
      <4>1. inService = Capacity
        BY <2>2 DEF Shape, Busy
      <4>2. inService' = inService
        BY <1>1, <2>2 DEF Submit, HasSlot
      <4> QED
        BY <4>1, <4>2
    <3> QED
      BY <3>1 DEF Busy, WorkConserving
  <2> QED
    BY <2>1, <2>2
<1>2. ASSUME NEW e \in events, Fresh(e) PROVE Busy'
  BY <1>1, <1>2 DEF Fresh
<1>3. ASSUME NEW e \in events, Retry(e) PROVE Busy'
  BY <1>1, <1>3 DEF Retry, Busy, WorkConserving
<1>4. ASSUME NEW e \in events, Depart(e) PROVE Busy'
  <2>1. CASE inService' = inService /\ queue # <<>>
    BY <2>1 DEF Busy, WorkConserving
  <2>2. CASE inService' = inService - 1 /\ queue' = <<>>
    BY <2>2 DEF Shape, Busy, WorkConserving
  <2>3. ASSUME NEW k \in 1..Len(queue) PROVE queue # <<>>
    BY <2>3 DEF Shape
  <2> QED
    BY <1>4, <2>1, <2>2, <2>3 DEF Depart
<1>5. CASE UNCHANGED <<inService, queue>>
  BY <1>5 DEF Busy, WorkConserving
<1> QED
  BY <1>2, <1>3, <1>4, <1>5 DEF Next, Timeout, End, Ended, vars

LEMMA BusyAlways == Spec => []Busy
<1>1. Init => Busy
  BY SizesAssumption DEF SizesAssumption, Init, Busy, WorkConserving
<1> QED
  BY <1>1, ShapeAlways, BusyStep, PTL DEF Spec

\* Nobody waits while a slot is free.
THEOREM NobodyWaitsIdly == Spec => []WorkConserving
<1>1. Busy => WorkConserving
  BY DEF Busy
<1> QED
  BY <1>1, BusyAlways, PTL

Departing == {e \in events : e.kind = "depart"}

\* The counter agrees with the schedule; the numbers handed out keep two events
\* from being one.
SlotInv ==
  /\ IsFiniteSet(events)
  /\ \A e \in events : e.seq < seq
  /\ ~done => inService = Cardinality(Departing)

LEMMA DepartingFinite ==
  ASSUME SlotInv
  PROVE  IsFiniteSet(Departing) /\ Cardinality(Departing) \in Nat
<1>1. Departing \subseteq events
  BY DEF Departing
<1> QED
  BY <1>1, FS_Subset, FS_CardinalityType DEF SlotInv

\* `rest` is the schedule without an event, and perhaps with a fresh arrival.
RestOf(rest) ==
  /\ IsFiniteSet(rest)
  /\ \A f \in rest : f.seq < seq + 3
  /\ {f \in rest : f.kind = "depart"} = Departing

LEMMA SubmitSlots ==
  ASSUME Shape, SlotInv, ~done, seq' = seq + 3,
         NEW t \in Nat, NEW j, NEW tries, NEW rest, NEW kind,
         Submit(t, j, tries, rest, kind), RestOf(rest)
  PROVE  SlotInv'
<1>1. seq \in Nat
  BY DEF Shape
<1>2. PICK timer : timer = At(t + AttemptTimeout, seq, "timeout", Len(attempts) + 1)
  OBVIOUS
<1>3. timer.kind = "timeout" /\ timer.seq = seq
  BY <1>2 DEF At
<1>4. ASSUME NEW x, x.kind = "depart", x.seq = seq + 1,
             events' = rest \cup {timer} \cup {x}, inService' = inService + 1
      PROVE  SlotInv'
  <2>1. Departing' = Departing \cup {x}
    BY <1>3, <1>4 DEF RestOf, Departing
  <2>2. x \notin Departing
    BY <1>1, <1>4 DEF SlotInv, Departing, Shape, Event
  <2>3. Cardinality(Departing') = Cardinality(Departing) + 1
    BY <2>1, <2>2, DepartingFinite, FS_AddElement
  <2>4. IsFiniteSet(events')
    BY <1>4, FS_AddElement DEF RestOf
  <2>5. \A f \in events' : f.seq < seq + 3
    BY <1>1, <1>3, <1>4 DEF RestOf
  <2> QED
    BY <1>4, <2>3, <2>4, <2>5 DEF SlotInv
<1>5. ASSUME NEW more, IsFiniteSet(more), \A x \in more : x.kind = "retry" /\ x.seq = seq + 1,
             events' = rest \cup {timer} \cup more, inService' = inService
      PROVE  SlotInv'
  <2>1. Departing' = Departing
    BY <1>3, <1>5 DEF RestOf, Departing
  <2>2. IsFiniteSet(events')
    BY <1>5, FS_AddElement, FS_Union DEF RestOf
  <2>3. \A f \in events' : f.seq < seq + 3
    BY <1>1, <1>3, <1>5 DEF RestOf
  <2> QED
    BY <1>5, <2>1, <2>2, <2>3 DEF SlotInv
<1>6. CASE /\ inService' = inService + 1
           /\ \E d \in ServiceTimes :
                Enters(t, j, "serving", rest, {At(t + d, seq + 1, "depart", Len(attempts) + 1)})
  <2>1. PICK d \in ServiceTimes :
          Enters(t, j, "serving", rest, {At(t + d, seq + 1, "depart", Len(attempts) + 1)})
    BY <1>6
  <2>2. PICK x : x = At(t + d, seq + 1, "depart", Len(attempts) + 1)
    OBVIOUS
  <2>3. x.kind = "depart" /\ x.seq = seq + 1
    BY <2>2 DEF At
  <2>4. events' = rest \cup {timer} \cup {x}
    BY <1>2, <2>1, <2>2 DEF Enters
  <2> QED
    BY <1>4, <1>6, <2>3, <2>4
<1>7. CASE inService' = inService /\ Enters(t, j, "queued", rest, {})
  BY <1>2, <1>5, <1>7, FS_EmptySet DEF Enters
<1>8. CASE inService' = inService /\ Enters(t, j, "rejected", rest, Retries(t, j, FALSE, tries))
  <2>1. \A x \in Retries(t, j, FALSE, tries) : x.kind = "retry" /\ x.seq = seq + 1
    BY DEF Retries, At
  <2>2. IsFiniteSet(Retries(t, j, FALSE, tries))
    BY FS_EmptySet, FS_Singleton DEF Retries
  <2> QED
    BY <1>2, <1>5, <1>8, <2>1, <2>2 DEF Enters
<1> QED
  BY <1>6, <1>7, <1>8, SubmitCases

LEMMA SlotStep == Shape /\ SlotInv /\ [Next]_vars => SlotInv'
<1> SUFFICES ASSUME Shape, SlotInv, [Next]_vars PROVE SlotInv'
  OBVIOUS
<1>0. seq \in Nat /\ \A e \in events : e.seq \in Nat /\ e.time \in Nat
  BY DEF Shape, Event
<1>1. ASSUME NEW e \in events, Fresh(e) PROVE SlotInv'
  <2>1. PICK gap \in Gaps :
          Submit(e.time, Len(jobs) + 1, 1,
                 (events \ {e}) \cup {At(e.time + gap, seq + 2, "fresh", 0)}, "fresh")
    BY <1>1 DEF Fresh
  <2>2. PICK next : next = At(e.time + gap, seq + 2, "fresh", 0)
    OBVIOUS
  <2>3. next.kind = "fresh" /\ next.seq = seq + 2
    BY <2>2 DEF At
  <2>4. ~done /\ seq' = seq + 3 /\ e.kind = "fresh"
    BY <1>1 DEF Fresh, Pops, Handles
  <2>5. RestOf((events \ {e}) \cup {next})
    <3>1. IsFiniteSet((events \ {e}) \cup {next})
      BY FS_RemoveElement, FS_AddElement DEF SlotInv
    <3> QED
      BY <1>0, <2>3, <2>4, <3>1 DEF RestOf, SlotInv, Departing
  <2> QED
    BY <1>0, <2>1, <2>2, <2>4, <2>5, SubmitSlots
<1>2. ASSUME NEW e \in events, Retry(e) PROVE SlotInv'
  <2>1. ~done /\ seq' = seq + 3 /\ e.kind = "retry"
    BY <1>2 DEF Retry, Pops, Handles
  <2>2. IsFiniteSet(events \ {e})
    BY FS_RemoveElement DEF SlotInv
  <2>3. RestOf(events \ {e})
    BY <1>0, <2>1, <2>2 DEF RestOf, SlotInv, Departing
  <2>4. CASE events' = events \ {e} /\ inService' = inService
    BY <1>0, <2>1, <2>2, <2>4 DEF SlotInv, Departing
  <2> QED
    BY <1>0, <1>2, <2>1, <2>3, <2>4, SubmitSlots DEF Retry
<1>3. ASSUME NEW e \in events, Depart(e) PROVE SlotInv'
  <2>1. ~done /\ seq' = seq + 3 /\ e \in Departing
    BY <1>3 DEF Depart, Pops, Handles, Departing
  <2>2. IsFiniteSet(events \ {e}) /\ IsFiniteSet(Departing \ {e})
    BY DepartingFinite, FS_RemoveElement DEF SlotInv
  <2>3. Cardinality(Departing \ {e}) = Cardinality(Departing) - 1 /\ Cardinality(Departing) \in Nat
    BY <2>1, DepartingFinite, FS_RemoveElement
  <2>4. CASE events' = events \ {e} /\ inService' = inService - 1
    <3>1. Departing' = Departing \ {e}
      BY <2>4 DEF Departing
    <3> QED
      BY <1>0, <2>1, <2>2, <2>3, <2>4, <3>1 DEF SlotInv
  <2>5. ASSUME NEW x, x.kind = "depart", x.seq = seq + 1,
               events' = (events \ {e}) \cup {x}, inService' = inService
        PROVE  SlotInv'
    <3>1. Departing' = (Departing \ {e}) \cup {x}
      BY <2>5 DEF Departing
    <3>2. x \notin Departing
      BY <1>0, <2>5 DEF SlotInv, Departing
    <3>3. Cardinality(Departing') = Cardinality(Departing \ {e}) + 1
      BY <2>2, <3>1, <3>2, FS_AddElement
    <3>4. IsFiniteSet(events')
      BY <2>2, <2>5, FS_AddElement
    <3>5. \A f \in events' : f.seq < seq'
      BY <1>0, <2>1, <2>5 DEF SlotInv
    <3> QED
      BY <2>1, <2>3, <2>5, <3>3, <3>4, <3>5 DEF SlotInv
  <2>6. \A b : \A x \in Departures(e.time, b) : x.kind = "depart" /\ x.seq = seq + 1
    BY DEF Departures, At
  <2> QED
    BY <1>3, <2>4, <2>5, <2>6 DEF Depart
<1>4. ASSUME NEW e \in events, Timeout(e) PROVE SlotInv'
  <2>1. ~done /\ seq' = seq + 3 /\ e.kind = "timeout" /\ inService' = inService
    BY <1>4 DEF Timeout, Pops, Handles
  <2>2. IsFiniteSet(events \ {e})
    BY FS_RemoveElement DEF SlotInv
  <2>3. PICK more : /\ events' = (events \ {e}) \cup more
                    /\ IsFiniteSet(more)
                    /\ \A x \in more : x.kind = "retry" /\ x.seq = seq + 1
    <3>1. ASSUME NEW t, NEW j, NEW b, NEW n
          PROVE  /\ IsFiniteSet(Retries(t, j, b, n))
                 /\ \A x \in Retries(t, j, b, n) : x.kind = "retry" /\ x.seq = seq + 1
      <4>1. \A x \in Retries(t, j, b, n) : x.kind = "retry" /\ x.seq = seq + 1
        BY DEF Retries, At
      <4>2. IsFiniteSet(Retries(t, j, b, n))
        BY FS_EmptySet, FS_Singleton DEF Retries
      <4> QED
        BY <4>1, <4>2
    <3>2. CASE events' = events \ {e}
      BY <3>2, FS_EmptySet
    <3> QED
      BY <1>4, <3>1, <3>2 DEF Timeout
  <2>4. IsFiniteSet(events')
    BY <2>2, <2>3, FS_Union
  <2>5. Departing' = Departing
    BY <2>1, <2>3 DEF Departing
  <2> QED
    BY <1>0, <2>1, <2>3, <2>4, <2>5 DEF SlotInv
<1>5. CASE \E e \in events : End(e)
  BY <1>5, FS_RemoveElement DEF End, SlotInv
<1>6. CASE UNCHANGED vars
  BY <1>6 DEF vars, SlotInv, Departing
<1> QED
  BY <1>1, <1>2, <1>3, <1>4, <1>5, <1>6 DEF Next, Ended

\* Slots are taken and freed with the departures, and never oversubscribed.
THEOREM SlotsExact == Spec => []SlotsAccounted
<1>1. Init => SlotInv
  <2> SUFFICES ASSUME Init PROVE SlotInv
    OBVIOUS
  <2>1. Departing = {}
    BY DEF Init, Departing, At
  <2>2. IsFiniteSet(events)
    BY FS_Singleton DEF Init
  <2>3. \A e \in events : e.seq < seq
    BY DEF Init, At
  <2> QED
    BY <2>1, <2>2, <2>3, FS_EmptySet DEF SlotInv, Init
<1>2. SlotInv /\ Busy => SlotsAccounted
  BY DEF SlotInv, Busy, SlotsAccounted, Departing
<1> QED
  BY <1>1, <1>2, BusyAlways, ShapeAlways, SlotStep, PTL DEF Spec

-----------------------------------------------------------------------------
(* The queue.                                                                *)

\* An attempt that enters is younger than all that wait.
LEMMA SubmitQueue ==
  ASSUME Shape, QueueConsistent,
         NEW t \in Nat, NEW j \in Nat, NEW tries, NEW rest, NEW kind,
         Submit(t, j, tries, rest, kind)
  PROVE  QueueConsistent'
<1> DEFINE a == Len(attempts) + 1
<1>1. /\ Len(attempts) \in Nat /\ queue \in Seq(Nat) /\ Len(queue) \in Nat /\ QueueMax \in Nat
      /\ \A i \in 1..Len(queue) : queue[i] \in Attempts
  BY SizesAssumption DEF Shape, SizesAssumption
<1>2. PICK s, more :
        /\ s \in {"queued", "serving", "rejected"}
        /\ Enters(t, j, s, rest, more)
        /\ \/ s # "queued" /\ queue' = queue
           \/ s = "queued" /\ queue' = Append(queue, a)
  <2>1. CASE \E more : Enters(t, j, "serving", rest, more) /\ queue' = queue
    BY <2>1
  <2>2. CASE Enters(t, j, "queued", rest, {}) /\ queue' = Append(queue, a)
    BY <2>2
  <2>3. CASE \E more : Enters(t, j, "rejected", rest, more) /\ queue' = queue
    BY <2>3
  <2> QED
    BY <2>1, <2>2, <2>3, SubmitCases
<1>3. s = "queued" => Len(queue) < QueueMax
  <2>1. attempts'[a].state = s
    BY <1>2, EnterGrows
  <2>2. CASE Len(queue) < QueueMax
    BY <2>2
  <2>3. CASE queue' = queue
    <3>1. s # "queued"
      BY <1>1, <1>2, <2>3
    <3> QED
      BY <3>1
  <2> QED
    BY <2>2, <2>3 DEF Submit
<1>4. /\ Len(attempts') = a
      /\ \A b \in Attempts : attempts'[b] = attempts[b]
      /\ attempts'[a].state = s
  BY <1>2, EnterGrows
<1>5. \A b \in Attempts' : b \in Attempts \/ b = a
  BY <1>1, <1>4 DEF Attempts
<1> HIDE DEF a
<1>6. CASE s # "queued" /\ queue' = queue
  BY <1>1, <1>4, <1>5, <1>6 DEF QueueConsistent
<1>7. CASE s = "queued" /\ queue' = Append(queue, a)
  <2>1. a \in Nat /\ \A b \in Attempts : b < a
    BY <1>1 DEF a, Attempts
  <2>2. /\ Len(queue') = Len(queue) + 1
        /\ \A i \in 1..Len(queue) : queue'[i] = queue[i]
        /\ queue'[Len(queue) + 1] = a
    BY <1>1, <1>7, <2>1, AppendProperties
  <2>3. \A i \in 1..Len(queue') : i \in 1..Len(queue) \/ i = Len(queue) + 1
    BY <1>1, <2>2
  <2>4. Len(queue') <= QueueMax
    BY <1>1, <1>3, <1>7, <2>2
  <2>5. \A i \in 1..Len(queue'), k \in 1..Len(queue') : i < k => queue'[i] < queue'[k]
    <3> SUFFICES ASSUME NEW i \in 1..Len(queue'), NEW k \in 1..Len(queue'), i < k
                 PROVE  queue'[i] < queue'[k]
      OBVIOUS
    <3>1. i \in 1..Len(queue)
      BY <1>1, <2>2
    <3>2. CASE k \in 1..Len(queue)
      <4>1. queue[i] < queue[k]
        BY <3>1, <3>2 DEF QueueConsistent
      <4> QED
        BY <2>2, <3>1, <3>2, <4>1
    <3>3. CASE k = Len(queue) + 1
      <4>1. queue[i] < a
        BY <1>1, <2>1, <3>1
      <4> QED
        BY <2>2, <3>1, <3>3, <4>1
    <3> QED
      BY <2>3, <3>2, <3>3
  <2>6. \A i \in 1..Len(queue') : attempts'[queue'[i]].state \in {"queued", "canceled"}
    <3> SUFFICES ASSUME NEW i \in 1..Len(queue')
                 PROVE  attempts'[queue'[i]].state \in {"queued", "canceled"}
      OBVIOUS
    <3>1. CASE i \in 1..Len(queue)
      <4>1. /\ queue'[i] = queue[i] /\ queue[i] \in Attempts
            /\ attempts[queue[i]].state \in {"queued", "canceled"}
        BY <1>1, <2>2, <3>1 DEF QueueConsistent
      <4> QED
        BY <1>4, <4>1
    <3>2. CASE i = Len(queue) + 1
      BY <1>4, <1>7, <2>2, <3>2
    <3> QED
      BY <2>3, <3>1, <3>2
  <2>7. \A b \in Attempts' : attempts'[b].state = "queued" => \E i \in 1..Len(queue') : queue'[i] = b
    <3> SUFFICES ASSUME NEW b \in Attempts', attempts'[b].state = "queued"
                 PROVE  \E i \in 1..Len(queue') : queue'[i] = b
      OBVIOUS
    <3>1. CASE b = a
      BY <1>1, <2>2, <3>1
    <3>2. CASE b \in Attempts
      <4>1. PICK i \in 1..Len(queue) : queue[i] = b
        BY <1>4, <3>2 DEF QueueConsistent
      <4> QED
        BY <1>1, <2>2, <4>1
    <3> QED
      BY <1>5, <3>1, <3>2
  <2> QED
    BY <2>4, <2>5, <2>6, <2>7 DEF QueueConsistent
<1> QED
  BY <1>2, <1>6, <1>7

\* Places behind place k of n.
LEMMA Behind ==
  ASSUME NEW n \in Nat, NEW k \in 1..n
  PROVE  /\ \A i \in 1..(n - k) : k + i \in 1..n /\ k < k + i
         /\ \A i \in 1..n : i > k => i - k \in 1..(n - k) /\ k + (i - k) = i
         /\ \A i \in 1..n : i < k => i \in 1..(k - 1)
  OBVIOUS

\* What is behind place k of the queue.
LEMMA BehindPlace ==
  ASSUME Shape, NEW k \in 1..Len(queue), queue' = SubSeq(queue, k + 1, Len(queue))
  PROVE  Len(queue') = Len(queue) - k /\ \A i \in 1..Len(queue') : queue'[i] = queue[k + i]
<1>1. /\ queue \in Seq(Nat) /\ Len(queue) \in Nat /\ k \in Nat
      /\ \A i \in 1..Len(queue) : queue[i] \in Nat
  BY LenProperties, ElementOfSeq DEF Shape
<1>2. \A i \in (k + 1)..Len(queue) : queue[i] \in Nat
  BY <1>1
<1>3. /\ Len(queue') = IF k + 1 <= Len(queue) THEN Len(queue) - (k + 1) + 1 ELSE 0
      /\ \A i \in 1..(Len(queue) - (k + 1) + 1) : queue'[i] = queue[k + 1 + i - 1]
  BY <1>1, <1>2, SubSeqProperties
<1>4. Len(queue) - (k + 1) + 1 = Len(queue) - k
  BY <1>1
<1>5. Len(queue') = Len(queue) - k
  <2>1. k <= Len(queue)
    BY <1>1
  <2> QED
    BY <1>1, <1>3, <2>1
<1>6. \A i \in 1..Len(queue') : k + 1 + i - 1 = k + i
  BY <1>1, <1>5
<1> QED
  BY <1>3, <1>4, <1>5, <1>6

\* Nothing is left of the queue up to the attempt that takes the slot, and those
\* before it were canceled.
LEMMA HandOn ==
  ASSUME Shape, QueueConsistent, NEW k \in 1..Len(queue), NextInLine(k),
         attempts' = [attempts EXCEPT ![queue[k]].state = "serving"],
         queue' = SubSeq(queue, k + 1, Len(queue))
  PROVE  QueueConsistent'
<1>1. /\ queue \in Seq(Nat) /\ Len(queue) \in Nat /\ QueueMax \in Nat /\ k \in Nat
      /\ \A i \in 1..Len(queue) : queue[i] \in Attempts /\ queue[i] \in Nat
  <2>1. /\ queue \in Seq(Nat) /\ QueueMax \in Nat
        /\ \A i \in 1..Len(queue) : queue[i] \in Attempts
    BY SizesAssumption DEF Shape, SizesAssumption
  <2>2. Len(queue) \in Nat /\ \A i \in 1..Len(queue) : queue[i] \in Nat
    BY <2>1, LenProperties, ElementOfSeq
  <2>3. k \in Nat
    BY <2>2
  <2> QED
    BY <2>1, <2>2, <2>3
<1>2. /\ Len(attempts') = Len(attempts)
      /\ \A b \in Attempts : b # queue[k] => attempts'[b] = attempts[b]
      /\ attempts'[queue[k]].state = "serving"
  BY <1>1, RestateAttempt
<1>3. Len(queue') = Len(queue) - k /\ \A i \in 1..Len(queue') : queue'[i] = queue[k + i]
  BY BehindPlace
<1>4. \A i \in 1..Len(queue') : k + i \in 1..Len(queue) /\ k < k + i
  BY <1>1, <1>3, Behind
<1>5. \A i \in 1..Len(queue') : queue'[i] \in Attempts /\ queue[k] < queue'[i] /\ queue'[i] # queue[k]
  <2> SUFFICES ASSUME NEW i \in 1..Len(queue')
               PROVE  queue[k + i] \in Attempts /\ queue[k] < queue[k + i] /\ queue[k + i] # queue[k]
    BY <1>3
  <2>1. k + i \in 1..Len(queue) /\ k < k + i
    BY <1>4
  <2>2. queue[k] < queue[k + i] /\ queue[k] \in Nat /\ queue[k + i] \in Nat
    BY <1>1, <2>1 DEF QueueConsistent
  <2> QED
    BY <1>1, <2>1, <2>2
<1>6. Len(queue') <= QueueMax
  BY <1>1, <1>3 DEF QueueConsistent
<1>7. \A i \in 1..Len(queue'), l \in 1..Len(queue') : i < l => queue'[i] < queue'[l]
  <2> SUFFICES ASSUME NEW i \in 1..Len(queue'), NEW l \in 1..Len(queue'), i < l
               PROVE  queue[k + i] < queue[k + l]
    BY <1>3
  <2>1. k + i < k + l
    BY <1>1
  <2> QED
    BY <1>4, <2>1 DEF QueueConsistent
<1>8. \A i \in 1..Len(queue') : attempts'[queue'[i]].state \in {"queued", "canceled"}
  BY <1>2, <1>3, <1>4, <1>5 DEF QueueConsistent
<1>9. \A b \in Attempts' : attempts'[b].state = "queued" => \E i \in 1..Len(queue') : queue'[i] = b
  <2> SUFFICES ASSUME NEW b \in Attempts, attempts'[b].state = "queued"
               PROVE  \E i \in 1..Len(queue') : queue'[i] = b
    BY <1>2 DEF Attempts
  <2>1. b # queue[k] /\ attempts[b].state = "queued"
    BY <1>2
  <2>2. PICK i \in 1..Len(queue) : queue[i] = b
    BY <2>1 DEF QueueConsistent
  <2>3. i > k
    <3>1. CASE i < k
      <4>1. i \in 1..(k - 1)
        BY <1>1, <3>1, Behind
      <4>2. attempts[queue[i]].state # "queued"
        BY <4>1 DEF NextInLine
      <4> QED
        BY <2>1, <2>2, <4>2
    <3>2. i # k
      BY <2>1, <2>2
    <3> QED
      BY <1>1, <3>1, <3>2
  <2>4. i - k \in 1..Len(queue') /\ k + (i - k) = i
    <3>1. i - k \in 1..(Len(queue) - k) /\ k + (i - k) = i
      BY <1>1, <2>3, Behind
    <3>2. Len(queue') = Len(queue) - k
      BY <1>3
    <3> QED
      BY <3>1, <3>2
  <2> QED
    BY <1>3, <2>2, <2>4
<1> QED
  BY <1>6, <1>7, <1>8, <1>9 DEF QueueConsistent

LEMMA QueueStep == Shape /\ QueueConsistent /\ [Next]_vars => QueueConsistent'
<1> SUFFICES ASSUME Shape, QueueConsistent, [Next]_vars PROVE QueueConsistent'
  OBVIOUS
<1>0. Len(jobs) \in Nat /\ \A e \in events : e.time \in Nat /\ e.of \in Nat
  BY DEF Shape, Event
<1>1. ASSUME NEW e \in events, Fresh(e) PROVE QueueConsistent'
  <2>1. Len(jobs) + 1 \in Nat
    BY <1>0
  <2> QED
    BY <1>0, <1>1, <2>1, SubmitQueue DEF Fresh
<1>2. CASE UNCHANGED <<attempts, queue>>
  BY <1>2 DEF QueueConsistent, Attempts
<1>3. ASSUME NEW e \in events, Retry(e) PROVE QueueConsistent'
  BY <1>0, <1>2, <1>3, SubmitQueue DEF Retry
<1>4. ASSUME NEW e \in events, Depart(e) PROVE QueueConsistent'
  <2>1. CASE /\ \A k \in 1..Len(queue) : attempts[queue[k]].state # "queued"
             /\ queue' = <<>> /\ UNCHANGED attempts
    BY <2>1, SizesAssumption DEF QueueConsistent, Attempts, SizesAssumption
  <2> QED
    BY <1>4, <2>1, HandOn DEF Depart
<1>5. ASSUME NEW e \in events, Timeout(e) PROVE QueueConsistent'
  <2>1. e.of \in Attempts /\ queue' = queue
    BY <1>5 DEF Timeout, Shape, RefersTo
  <2>2. CASE attempts' = [attempts EXCEPT ![e.of].state = "canceled"] /\ attempts[e.of].state = "queued"
    <3>1. /\ Len(attempts') = Len(attempts)
          /\ \A b \in Attempts : b # e.of => attempts'[b] = attempts[b]
          /\ attempts'[e.of].state = "canceled"
      BY <2>1, <2>2, RestateAttempt
    <3>2. \A i \in 1..Len(queue) : queue[i] \in Attempts
      BY DEF Shape
    <3> QED
      BY <2>1, <3>1, <3>2 DEF QueueConsistent, Attempts
  <2> QED
    BY <1>2, <1>5, <2>1, <2>2 DEF Timeout
<1> QED
  BY <1>1, <1>2, <1>3, <1>4, <1>5 DEF Next, End, Ended, vars

\* First come, first served: for any capacity, bound, patience and random draws
\* the queue holds in the order of arrival every attempt that waits, and none
\* that was served or shed (sim.rs:260-265, 273-275, 342-352).
THEOREM QueueInOrder == Spec => []QueueConsistent
<1>1. Init => QueueConsistent
  BY SizesAssumption DEF SizesAssumption, Init, QueueConsistent, Attempts
<1> QED
  BY <1>1, ShapeAlways, QueueStep, PTL DEF Spec
-----------------------------------------------------------------------------
(* Sums over the ticks.  Induction goes by a least counterexample.           *)

\* Every set of naturals but the empty one has a least member.
LEMMA Least == ASSUME NEW T \in SUBSET Nat, T # {} PROVE \E n \in T : \A m \in T : n <= m
<1>1. PICK n \in T : \A m \in T : ~(<<m, n>> \in OpToRel(<, Nat))
  BY WFMin, NatLessThanWellFounded
<1>2. \A m \in T : m \in Nat /\ n \in Nat /\ ~(m < n)
  BY <1>1 DEF OpToRel
<1> QED
  BY <1>2

Partial(f, n, g) == g = [i \in 0..n |-> IF i = 0 THEN 0 ELSE g[i - 1] + f[i]]

LEMMA PartialExists ==
  ASSUME NEW f, NEW N \in Nat, \A i \in 1..N : f[i] \in Int
  PROVE  \E g \in [0..N -> Int] : Partial(f, N, g)
<1> DEFINE T == {n \in 0..N : ~\E g \in [0..n -> Int] : Partial(f, n, g)}
<1> SUFFICES ASSUME T # {} PROVE FALSE
  OBVIOUS
<1>1. PICK n \in T : \A m \in T : n <= m
  <2>1. T \in SUBSET Nat
    OBVIOUS
  <2> HIDE DEF T
  <2> QED
    BY <2>1, Least
<1>2. CASE n = 0
  <2> DEFINE g == [i \in 0..0 |-> 0]
  <2>1. g \in [0..n -> Int] /\ Partial(f, n, g)
    BY <1>2 DEF Partial
  <2> QED
    BY <2>1
<1>3. CASE n # 0
  <2>1. n - 1 \in 0..N /\ n - 1 \notin T /\ n \in 1..N
    BY <1>1, <1>3
  <2>2. PICK g \in [0..(n - 1) -> Int] : Partial(f, n - 1, g)
    BY <2>1
  <2> DEFINE h == [i \in 0..n |-> IF i = n THEN g[n - 1] + f[n] ELSE g[i]]
  <2>3. h \in [0..n -> Int]
    BY <2>1
  <2>4. \A i \in 0..n : h[i] = IF i = 0 THEN 0 ELSE h[i - 1] + f[i]
    <3> SUFFICES ASSUME NEW i \in 0..n PROVE h[i] = IF i = 0 THEN 0 ELSE h[i - 1] + f[i]
      OBVIOUS
    <3>1. CASE i = n
      BY <2>1, <3>1
    <3>2. CASE i # n
      <4>1. i \in 0..(n - 1) /\ h[i] = g[i]
        BY <2>1, <3>2
      <4>2. g[i] = IF i = 0 THEN 0 ELSE g[i - 1] + f[i]
        BY <2>2, <4>1 DEF Partial
      <4>3. i # 0 => h[i - 1] = g[i - 1]
        BY <2>1, <4>1
      <4> QED
        BY <4>1, <4>2, <4>3
    <3> QED
      BY <3>1, <3>2
  <2>5. Partial(f, n, h)
    BY <2>4 DEF Partial
  <2> QED
    BY <2>3, <2>5
<1> QED
  BY <1>2, <1>3


\* p and q sum the same, as far as p goes.
Alike(f, g, N, p, M, q) ==
  /\ N \in Nat /\ M \in Nat /\ N <= M
  /\ Partial(f, N, p) /\ Partial(g, M, q)
  /\ \A i \in 1..N : f[i] = g[i]

LEMMA PartialsAgree ==
  ASSUME NEW f, NEW g, NEW N, NEW p, NEW M, NEW q, Alike(f, g, N, p, M, q)
  PROVE  \A i \in 0..N : p[i] = q[i]
<1> USE DEF Alike
<1> DEFINE T == {n \in 0..N : p[n] # q[n]}
<1> SUFFICES ASSUME T # {} PROVE FALSE
  OBVIOUS
<1>1. PICK n \in T : \A m \in T : n <= m
  <2>1. T \in SUBSET Nat
    OBVIOUS
  <2> HIDE DEF T
  <2> QED
    BY <2>1, Least
<1>2. p[n] = IF n = 0 THEN 0 ELSE p[n - 1] + f[n]
  BY DEF Partial
<1>3. q[n] = IF n = 0 THEN 0 ELSE q[n - 1] + g[n]
  BY DEF Partial
<1>4. n # 0 => n - 1 \in 0..N /\ n - 1 \notin T /\ n \in 1..N
  BY <1>1
<1> QED
  BY <1>2, <1>3, <1>4

LEMMA SumToPartial ==
  ASSUME NEW f, NEW N \in Nat, \A i \in 1..N : f[i] \in Int
  PROVE  \E g \in [0..N -> Int] : Partial(f, N, g) /\ SumTo(f, N) = g[N]
<1> DEFINE Is(g) == g = [i \in 0..N |-> IF i = 0 THEN 0 ELSE g[i - 1] + f[i]]
           chosen == CHOOSE g : Is(g)
<1>1. SumTo(f, N) = chosen[N]
  BY DEF SumTo
<1>2. PICK g : g \in [0..N -> Int] /\ Is(g)
  <2>1. \E g \in [0..N -> Int] : Partial(f, N, g)
    BY PartialExists
  <2>2. \A g : Partial(f, N, g) <=> Is(g)
    BY DEF Partial
  <2> HIDE DEF Is
  <2> QED
    BY <2>1, <2>2
<1>3. Is(chosen)
  <2> HIDE DEF Is
  <2> QED
    BY <1>2
<1>4. \A h : Is(h) => g[N] = h[N]
  <2> SUFFICES ASSUME NEW h, Is(h) PROVE g[N] = h[N]
    OBVIOUS
  <2>1. Alike(f, f, N, g, N, h)
    BY <1>2 DEF Alike, Partial
  <2>2. \A i \in 0..N : g[i] = h[i]
    BY <2>1, PartialsAgree
  <2> QED
    BY <2>2
<1>5. g[N] = chosen[N]
  <2> HIDE DEF Is, chosen
  <2> QED
    BY <1>3, <1>4
<1> QED
  BY <1>1, <1>2, <1>5 DEF Partial

\* A sum, one longer; sums of what is the same.
LEMMA SumOfNone == ASSUME NEW f PROVE SumTo(f, 0) = 0
BY SumToPartial DEF Partial

LEMMA SumType ==
  ASSUME NEW f, NEW N \in Nat, \A i \in 1..N : f[i] \in Int
  PROVE  SumTo(f, N) \in Int
BY SumToPartial

LEMMA SumOneMore ==
  ASSUME NEW f, NEW g, NEW N \in Nat, \A i \in 1..(N + 1) : f[i] \in Int,
         \A i \in 1..N : g[i] = f[i]
  PROVE  SumTo(f, N + 1) = SumTo(g, N) + f[N + 1]
<1>1. PICK p : p \in [0..(N + 1) -> Int] /\ Partial(f, N + 1, p) /\ SumTo(f, N + 1) = p[N + 1]
  <2>1. N + 1 \in Nat
    OBVIOUS
  <2> QED
    BY <2>1, SumToPartial
<1>2. PICK q : q \in [0..N -> Int] /\ Partial(g, N, q) /\ SumTo(g, N) = q[N]
  <2>1. \A i \in 1..N : i \in 1..(N + 1)
    OBVIOUS
  <2> QED
    BY <2>1, SumToPartial
<1>3. p[N] = q[N]
  <2>1. Alike(g, f, N, q, N + 1, p)
    BY <1>1, <1>2 DEF Alike
  <2>2. \A i \in 0..N : q[i] = p[i]
    BY <2>1, PartialsAgree
  <2> QED
    BY <2>2
<1>4. p[N + 1] = p[N] + f[N + 1]
  BY <1>1 DEF Partial
<1> QED
  BY <1>1, <1>2, <1>3, <1>4

LEMMA SumSame ==
  ASSUME NEW f, NEW g, NEW N \in Nat, \A i \in 1..N : f[i] \in Int /\ g[i] = f[i]
  PROVE  SumTo(g, N) = SumTo(f, N)
<1>1. PICK p : p \in [0..N -> Int] /\ Partial(f, N, p) /\ SumTo(f, N) = p[N]
  BY SumToPartial
<1>2. PICK q : q \in [0..N -> Int] /\ Partial(g, N, q) /\ SumTo(g, N) = q[N]
  <2>1. \A i \in 1..N : g[i] \in Int
    OBVIOUS
  <2> QED
    BY <2>1, SumToPartial
<1>3. \A i \in 0..N : q[i] = p[i]
  <2>1. Alike(g, f, N, q, N, p)
    BY <1>1, <1>2 DEF Alike
  <2>2. \A i \in 0..N : q[i] = p[i]
    BY <2>1, PartialsAgree
  <2> QED
    BY <2>2
<1> QED
  BY <1>1, <1>2, <1>3

\* Quiet ticks add nothing.
LEMMA SumZeros ==
  ASSUME NEW g, NEW N \in Nat, NEW M \in Nat, \A i \in 1..N : g[i] \in Int,
         \A i \in (N + 1)..(N + M) : g[i] = 0
  PROVE  SumTo(g, N + M) = SumTo(g, N)
<1> DEFINE T == {m \in 0..M : SumTo(g, N + m) # SumTo(g, N)}
<1> SUFFICES ASSUME T # {} PROVE FALSE
  OBVIOUS
<1>1. PICK m \in T : \A n \in T : m <= n
  <2>1. T \in SUBSET Nat
    OBVIOUS
  <2> HIDE DEF T
  <2> QED
    BY <2>1, Least
<1>2. m \in Nat \ {0} /\ m <= M
  <2>1. N + 0 = N
    OBVIOUS
  <2> QED
    BY <2>1
<1>3. m - 1 \in 0..M /\ m - 1 \notin T /\ N + (m - 1) \in Nat /\ N + (m - 1) + 1 = N + m
  BY <1>1, <1>2
<1>4. \A i \in 1..(N + m) : g[i] \in Int
  BY <1>2
<1>5. SumTo(g, N + m) = SumTo(g, N + (m - 1)) + g[N + m]
  BY <1>3, <1>4, SumOneMore
<1>6. g[N + m] = 0 /\ SumTo(g, N) \in Int
  BY <1>2, SumType
<1> QED
  BY <1>3, <1>5, <1>6

\* Ticks are emitted: c in the first of them, nothing in the others.
Lengthens(f, N, g, M, c) ==
  /\ N \in Nat /\ M \in Nat /\ c \in Int
  /\ \A i \in 1..N : f[i] \in Int /\ g[i] = f[i]
  /\ \A i \in (N + 1)..(N + M) : g[i] = IF i = N + 1 THEN c ELSE 0

LEMMA SumAdvances ==
  ASSUME NEW f, NEW N, NEW g, NEW M, NEW c, Lengthens(f, N, g, M, c)
  PROVE  SumTo(g, N + M) = SumTo(f, N) + IF M = 0 THEN 0 ELSE c
<1> USE DEF Lengthens
<1>1. SumTo(f, N) \in Int
  BY SumType
<1>2. CASE M = 0
  <2>1. N + M = N /\ SumTo(g, N) = SumTo(f, N)
    BY <1>2, SumSame
  <2> QED
    BY <1>1, <1>2, <2>1
<1>3. CASE M # 0
  <2>1. \A i \in 1..(N + 1) : g[i] \in Int
    BY <1>3
  <2>2. SumTo(g, N + 1) = SumTo(f, N) + c
    <3>1. g[N + 1] = c /\ \A i \in 1..N : f[i] = g[i]
      BY <1>3
    <3> QED
      BY <2>1, <3>1, SumOneMore
  <2>3. SumTo(g, (N + 1) + (M - 1)) = SumTo(g, N + 1)
    <3>1. \A i \in ((N + 1) + 1)..((N + 1) + (M - 1)) : g[i] = 0
      BY <1>3
    <3>2. N + 1 \in Nat /\ M - 1 \in Nat
      BY <1>3
    <3> QED
      BY <2>1, <3>1, <3>2, SumZeros
  <2>4. (N + 1) + (M - 1) = N + M
    OBVIOUS
  <2> QED
    BY <1>3, <2>2, <2>3, <2>4
<1> QED
  BY <1>2, <1>3

-----------------------------------------------------------------------------
(* The clock of the telemetry.                                               *)

Row == [counters: [Counted -> Int], queueLen: Nat, inService: Int]

\* The ticks emitted so far are those that ended before whatever comes next.
Metered ==
  /\ counters \in [Counted -> Int]
  /\ rows \in Seq(Row)
  /\ Len(rows) <= TotalTime \div TickTime
  /\ \A e \in events : Len(rows) <= e.time \div TickTime
  /\ done => Len(rows) = TotalTime \div TickTime

LEMMA DivType == ASSUME NEW a \in Nat, NEW n \in Nat \ {0} PROVE a \div n \in Nat
OBVIOUS

LEMMA DivMonotone ==
  ASSUME NEW a \in Nat, NEW b \in Nat, a <= b, NEW n \in Nat \ {0}
  PROVE  a \div n <= b \div n
OBVIOUS

One(k, kinds) == IF k \in kinds THEN 1 ELSE 0

LEMMA BumpNothing == ASSUME NEW c \in [Counted -> Int] PROVE Bump(c, {}) = c
BY DEF Bump

\* A handler at time t leaves the sums as they are and adds its own.
LEMMA Advances ==
  ASSUME Shape, Metered, NEW t \in Nat, Len(rows) <= t \div TickTime, NEW kinds,
         rows' = RowsAt(t), counters' = Bump(CountersAt(t), kinds)
  PROVE  /\ counters' \in [Counted -> Int]
         /\ rows' \in Seq(Row)
         /\ Len(rows') = t \div TickTime
         /\ \A k \in Counted : Total(k)' = Total(k) + One(k, kinds)
<1> DEFINE N == Len(rows)
           M == t \div TickTime - N
           tick(i) == [counters |-> IF i = 1 THEN counters ELSE Zero,
                       queueLen |-> Len(queue), inService |-> inService]
           more == [i \in 1..M |-> tick(i)]
<1>1. /\ TickTime \in Nat \ {0} /\ t \div TickTime \in Nat
      /\ N \in Nat /\ M \in Nat /\ N + M = t \div TickTime
      /\ counters \in [Counted -> Int] /\ rows \in Seq(Row) /\ Zero \in [Counted -> Int]
      /\ TicksUpTo(t) = M
  <2>1. TickTime \in Nat \ {0} /\ t \div TickTime \in Nat
    BY DelaysAssumption, DivType DEF DelaysAssumption
  <2>2. rows \in Seq(Row) /\ N \in Nat
    BY DEF Metered
  <2> QED
    BY <2>1, <2>2 DEF Metered, Zero, TicksUpTo
<1>2. more \in Seq(Row) /\ Len(more) = M /\ \A i \in 1..M : more[i] = tick(i)
  <2>1. \A i \in 1..M : tick(i) \in Row
    BY <1>1 DEF Row, Shape
  <2> HIDE DEF tick
  <2>2. more \in [1..M -> Row]
    BY <2>1
  <2>3. M \in Nat /\ \A i \in 1..M : more[i] = tick(i)
    BY <1>1
  <2> HIDE DEF more, M
  <2> QED
    BY <2>2, <2>3
<1>3. rows' = rows \o more
  BY <1>1 DEF RowsAt
<1>4. /\ rows' \in Seq(Row) /\ Len(rows') = N + M
      /\ \A i \in 1..N : rows'[i] = rows[i]
      /\ \A i \in (N + 1)..(N + M) : rows'[i] = tick(i - N)
  <2> HIDE DEF more, tick
  <2>1. /\ rows' \in Seq(Row) /\ Len(rows') = N + M
        /\ \A i \in 1..(N + M) : rows'[i] = IF i <= N THEN rows[i] ELSE more[i - N]
    BY <1>1, <1>2, <1>3, ConcatProperties
  <2>2. \A i \in (N + 1)..(N + M) : i - N \in 1..M /\ ~(i <= N) /\ i \in 1..(N + M)
    BY <1>1
  <2>3. \A i \in 1..N : i <= N /\ i \in 1..(N + M)
    BY <1>1
  <2> QED
    BY <1>2, <2>1, <2>2, <2>3
<1>5. counters' \in [Counted -> Int]
  BY <1>1 DEF Bump, CountersAt
<1>6. ASSUME NEW k \in Counted PROVE Total(k)' = Total(k) + One(k, kinds)
  <2> DEFINE f == [i \in 1..N |-> rows[i].counters[k]]
             g == [i \in 1..(N + M) |-> rows'[i].counters[k]]
  <2>1. \A i \in 1..N : f[i] \in Int /\ g[i] = f[i]
    <3> SUFFICES ASSUME NEW i \in 1..N PROVE f[i] \in Int /\ g[i] = f[i]
      OBVIOUS
    <3>1. rows[i] \in Row
      BY <1>1
    <3>2. i \in 1..(N + M) /\ rows'[i] = rows[i]
      BY <1>1, <1>4
    <3> QED
      BY <3>1, <3>2 DEF Row
  <2>2. \A i \in (N + 1)..(N + M) : g[i] = IF i = N + 1 THEN counters[k] ELSE 0
    <3> SUFFICES ASSUME NEW i \in (N + 1)..(N + M)
                 PROVE  g[i] = IF i = N + 1 THEN counters[k] ELSE 0
      OBVIOUS
    <3>1. i \in 1..(N + M) /\ rows'[i] = tick(i - N) /\ (i - N = 1 <=> i = N + 1)
      BY <1>1, <1>4
    <3>2. Zero[k] = 0
      BY DEF Zero
    <3> QED
      BY <3>1, <3>2
  <2>3. Total(k) = SumTo(f, N) + counters[k]
    BY DEF Total
  <2>4. Total(k)' = SumTo(g, N + M) + counters'[k]
    BY <1>4 DEF Total
  <2>5. counters[k] \in Int
    BY <1>1
  <2> HIDE DEF f, g, N, M
  <2>6. SumTo(g, N + M) = SumTo(f, N) + IF M = 0 THEN 0 ELSE counters[k]
    <3>1. Lengthens(f, N, g, M, counters[k])
      BY <1>1, <2>1, <2>2, <2>5 DEF Lengthens
    <3> QED
      BY <3>1, SumAdvances
  <2>7. SumTo(f, N) \in Int
    BY <1>1, <2>1, SumType
  <2>8. counters'[k] = (IF M = 0 THEN counters[k] ELSE 0) + One(k, kinds)
    BY <1>1 DEF Bump, CountersAt, Zero, One
  <2> QED
    BY <1>1, <2>3, <2>4, <2>5, <2>6, <2>7, <2>8 DEF One
<1> QED
  BY <1>1, <1>4, <1>5, <1>6

\* Nothing is scheduled for the past.
LEMMA NothingEarlier ==
  ASSUME Shape, NEW e \in events, Fresh(e) \/ Retry(e) \/ Depart(e) \/ Timeout(e) \/ End(e)
  PROVE  \A f \in events' : e.time <= f.time
<1>1. e.time \in Nat /\ \A f \in events : f.time \in Nat /\ e.time <= f.time
  <2>1. \A f \in events : f.time \in Nat
    BY DEF Shape, Event
  <2>2. Pops(e)
    BY DEF Fresh, Retry, Depart, Timeout, End
  <2> QED
    BY <2>1, <2>2 DEF Pops, Precedes
<1>2. AttemptTimeout \in Nat /\ Backoff \in Nat /\ ServiceTimes \subseteq Nat /\ Gaps \subseteq Nat
  BY DelaysAssumption DEF DelaysAssumption
<1>3. \A d \in Nat : \A n, kind, of : e.time <= At(e.time + d, n, kind, of).time
  BY <1>1 DEF At
<1>4. \A j, s, n : \A f \in Retries(e.time, j, s, n) : e.time <= f.time
  BY <1>2, <1>3 DEF Retries
<1>5. ASSUME NEW j, NEW tries, NEW rest, NEW kind, \A f \in rest : e.time <= f.time,
             Submit(e.time, j, tries, rest, kind)
      PROVE  \A f \in events' : e.time <= f.time
  <2>1. ASSUME NEW s, NEW more, Enters(e.time, j, s, rest, more), \A f \in more : e.time <= f.time
        PROVE  \A f \in events' : e.time <= f.time
    <3>1. e.time <= At(e.time + AttemptTimeout, seq, "timeout", Len(attempts) + 1).time
      BY <1>2, <1>3
    <3> QED
      BY <1>5, <2>1, <3>1 DEF Enters
  <2>2. ASSUME NEW d \in ServiceTimes,
               Enters(e.time, j, "serving", rest, {At(e.time + d, seq + 1, "depart", Len(attempts) + 1)})
        PROVE  \A f \in events' : e.time <= f.time
    <3>1. \A f \in {At(e.time + d, seq + 1, "depart", Len(attempts) + 1)} : e.time <= f.time
      BY <1>2, <1>3
    <3> QED
      BY <2>1, <2>2, <3>1
  <2>3. CASE Enters(e.time, j, "queued", rest, {})
    BY <2>1, <2>3
  <2>4. CASE Enters(e.time, j, "rejected", rest, Retries(e.time, j, FALSE, tries))
    BY <1>4, <2>1, <2>4
  <2> QED
    BY <1>5, <2>2, <2>3, <2>4, SubmitCases
<1>6. CASE Fresh(e)
  <2>1. PICK gap \in Gaps :
          Submit(e.time, Len(jobs) + 1, 1,
                 (events \ {e}) \cup {At(e.time + gap, seq + 2, "fresh", 0)}, "fresh")
    BY <1>6 DEF Fresh
  <2>2. \A f \in (events \ {e}) \cup {At(e.time + gap, seq + 2, "fresh", 0)} : e.time <= f.time
    BY <1>1, <1>2, <1>3
  <2> QED
    BY <1>5, <2>1, <2>2
<1>7. CASE Retry(e)
  <2>1. \A f \in events \ {e} : e.time <= f.time
    BY <1>1
  <2> QED
    BY <1>5, <1>7, <2>1 DEF Retry
<1>8. CASE Depart(e)
  <2>1. CASE events' = events \ {e}
    BY <1>1, <2>1
  <2>2. ASSUME NEW k \in 1..Len(queue), NEW departure \in Departures(e.time, queue[k]),
               events' = (events \ {e}) \cup {departure}
        PROVE  \A f \in events' : e.time <= f.time
    <3>1. e.time <= departure.time
      BY <1>2, <1>3 DEF Departures
    <3> QED
      BY <1>1, <2>2, <3>1
  <2> QED
    BY <1>8, <2>1, <2>2 DEF Depart
<1>9. CASE Timeout(e)
  BY <1>1, <1>4, <1>9 DEF Timeout
<1>10. CASE End(e)
  BY <1>1, <1>10 DEF End
<1> QED
  BY <1>6, <1>7, <1>8, <1>9, <1>10

\* The time up to which an event advances the telemetry.
Until(e) == IF End(e) THEN TotalTime ELSE e.time

\* Every event advances the telemetry and counts something in the tick under way.
LEMMA Handled ==
  ASSUME Shape, Shape', Metered, NEW e \in events, NEW kinds,
         \/ Fresh(e) \/ Retry(e) \/ Depart(e) \/ Timeout(e)
         \/ End(e),
         counters' = Bump(CountersAt(Until(e)), kinds)
  PROVE  Metered' /\ \A k \in Counted : Total(k)' = Total(k) + One(k, kinds)
<1> DEFINE t == Until(e)
<1>1. TickTime \in Nat \ {0} /\ TotalTime \in Nat
  BY DelaysAssumption DEF DelaysAssumption
<1>2. e.time \in Nat /\ \A f \in events' : f.time \in Nat
  BY DEF Shape, Event
<1>3. /\ rows' = RowsAt(t) /\ t \in Nat /\ t <= e.time /\ t <= TotalTime
      /\ Len(rows) <= t \div TickTime
      /\ done' => End(e)
  <2>1. CASE End(e)
    <3>1. e.time > TotalTime /\ rows' = RowsAt(TotalTime) /\ t = TotalTime
      BY <2>1 DEF End, Until
    <3>2. Len(rows) <= TotalTime \div TickTime
      BY DEF Metered
    <3> HIDE DEF t
    <3> QED
      BY <1>1, <1>2, <2>1, <3>1, <3>2
  <2>2. CASE ~End(e)
    <3>1. Handles(e) /\ Pops(e)
      BY <2>2 DEF Fresh, Retry, Depart, Timeout
    <3> QED
      BY <1>1, <1>2, <2>2, <3>1 DEF Handles, Pops, Until, Metered
  <2> QED
    BY <2>1, <2>2
<1>4. /\ counters' \in [Counted -> Int] /\ rows' \in Seq(Row)
      /\ Len(rows') = t \div TickTime
      /\ \A k \in Counted : Total(k)' = Total(k) + One(k, kinds)
  <2> HIDE DEF Until
  <2> QED
    BY <1>3, Advances
<1>5. \A f \in events' : Len(rows') <= f.time \div TickTime
  <2> SUFFICES ASSUME NEW f \in events' PROVE Len(rows') <= f.time \div TickTime
    OBVIOUS
  <2>1. e.time <= f.time /\ f.time \in Nat
    BY <1>2, NothingEarlier
  <2>2. t <= f.time
    BY <1>2, <1>3, <2>1
  <2> HIDE DEF t
  <2> QED
    BY <1>1, <1>3, <1>4, <2>1, <2>2, DivMonotone
<1>6. Len(rows') <= TotalTime \div TickTime
  <2> HIDE DEF t
  <2> QED
    BY <1>1, <1>3, <1>4, DivMonotone
<1>7. done' => Len(rows') = TotalTime \div TickTime
  BY <1>3, <1>4 DEF Until
<1> QED
  BY <1>4, <1>5, <1>6, <1>7 DEF Metered

-----------------------------------------------------------------------------
(* What is counted is what has happened.                                     *)

Succeeded == {j \in Jobs : jobs[j].succeeded}
Inside == inService + Len(queue) + Cardinality(Discarded)

\* What a handler that counts `kinds` has done.
Booked(kinds) ==
  /\ Cardinality(Succeeded)' = Cardinality(Succeeded) + One("success", kinds)
  /\ Inside' = Inside + One("offered", kinds) - One("success", kinds)
                 - One("wasted", kinds) - One("shed", kinds)
  /\ Len(jobs') = Len(jobs) + One("fresh", kinds)

LEMMA SetsFinite ==
  ASSUME Shape
  PROVE  /\ IsFiniteSet(Succeeded) /\ Cardinality(Succeeded) \in Nat
         /\ IsFiniteSet(Discarded) /\ Cardinality(Discarded) \in Nat
         /\ inService \in Int /\ Len(queue) \in Nat /\ Len(jobs) \in Nat /\ Inside \in Int
<1>1. Len(jobs) \in Nat /\ Len(attempts) \in Nat /\ inService \in Int /\ Len(queue) \in Nat
  BY DEF Shape
<1>2. IsFiniteSet(Jobs) /\ IsFiniteSet(Attempts)
  BY <1>1, FS_Interval DEF Jobs, Attempts
<1>3. IsFiniteSet(Succeeded) /\ IsFiniteSet(Discarded)
  BY <1>2, FS_Subset DEF Succeeded, Discarded
<1>4. Cardinality(Succeeded) \in Nat /\ Cardinality(Discarded) \in Nat
  BY <1>3, FS_CardinalityType
<1> QED
  BY <1>1, <1>3, <1>4 DEF Inside

\* The first k of the queue are k attempts.
LEMMA FirstOfQueue ==
  ASSUME Shape, QueueConsistent, NEW k \in 0..Len(queue)
  PROVE  /\ IsFiniteSet({queue[i] : i \in 1..k})
         /\ Cardinality({queue[i] : i \in 1..k}) = k
<1> DEFINE first == {queue[i] : i \in 1..k}
           place == [i \in 1..k |-> queue[i]]
<1>1. Len(queue) \in Nat /\ k \in Nat /\ \A i \in 1..Len(queue) : queue[i] \in Nat
  BY DEF Shape
<1>2. \A i, l \in 1..k : queue[i] = queue[l] => i = l
  <2> SUFFICES ASSUME NEW i \in 1..k, NEW l \in 1..k, i # l PROVE queue[i] # queue[l]
    OBVIOUS
  <2>1. i \in 1..Len(queue) /\ l \in 1..Len(queue)
    BY <1>1
  <2>2. i < l \/ l < i
    BY <1>1
  <2>3. queue[i] < queue[l] \/ queue[l] < queue[i]
    BY <2>1, <2>2 DEF QueueConsistent
  <2> QED
    BY <1>1, <2>1, <2>3
<1>3. place \in Surjection(1..k, first) /\ place \in Injection(1..k, first)
  BY <1>2 DEF Surjection, Injection, IsInjective
<1>4. IsFiniteSet(1..k) /\ Cardinality(1..k) = k
  BY <1>1, FS_Interval
<1> HIDE DEF place, first
<1>5. IsFiniteSet(first) /\ Cardinality(first) = k
  BY <1>3, <1>4, FS_Surjection
<1> QED
  BY <1>5 DEF first

\* What is submitted is inside or shed.
LEMMA SubmitBooked ==
  ASSUME Shape, NEW t \in Nat, NEW j \in Nat, NEW tries, NEW rest, NEW kind,
         kind \in {"fresh", "retry"}, Submit(t, j, tries, rest, kind)
  PROVE  \E kinds : /\ kinds \in {{"offered", kind}, {"offered", kind, "shed"}}
                    /\ counters' = Bump(CountersAt(t), kinds)
                    /\ Inside' = Inside + 1 - One("shed", kinds)
<1> DEFINE a == Len(attempts) + 1
<1>1. /\ Len(attempts) \in Nat /\ queue \in Seq(Nat) /\ Len(queue) \in Nat /\ inService \in Int
      /\ Cardinality(Discarded) \in Nat
      /\ \A i \in 1..Len(queue) : queue[i] \in Attempts
  BY SetsFinite DEF Shape
<1>2. \E s, more : s \in {"queued", "serving", "rejected"} /\ Enters(t, j, s, rest, more)
  <2>1. CASE \E more : Enters(t, j, "serving", rest, more)
    BY <2>1
  <2>2. CASE \E more : Enters(t, j, "queued", rest, more)
    BY <2>2
  <2>3. CASE \E more : Enters(t, j, "rejected", rest, more)
    BY <2>3
  <2> QED
    BY <2>1, <2>2, <2>3, SubmitCases
<1>3. /\ Len(attempts') = a
      /\ \A b \in Attempts : attempts'[b] = attempts[b]
      /\ attempts'[a].state # "canceled"
  BY <1>2, EnterGrows
<1>4. \A b \in Attempts' : b \in Attempts \/ b = a
  BY <1>1, <1>3 DEF Attempts
<1>5. \A b \in Attempts : b \in Attempts' /\ b # a
  BY <1>1, <1>3 DEF Attempts
<1>8. queue' = queue \/ queue' = Append(queue, a)
  BY DEF Submit
<1> HIDE DEF a
<1>0. ASSUME \A b \in Attempts :
               (\A i \in 1..Len(queue') : queue'[i] # b) <=> (\A i \in 1..Len(queue) : queue[i] # b)
      PROVE  Discarded' = Discarded
  <2>1. \A b \in Attempts : b \in Discarded' <=> b \in Discarded
    BY <1>0, <1>3, <1>5 DEF Discarded
  <2>2. \A b \in Discarded' : b \in Attempts
    BY <1>3, <1>4 DEF Discarded
  <2>3. \A b \in Discarded : b \in Attempts
    BY DEF Discarded
  <2> QED
    BY <2>1, <2>2, <2>3
<1>6. ASSUME queue' = queue PROVE Discarded' = Discarded
  BY <1>0, <1>6
<1>7. ASSUME queue' = Append(queue, a) PROVE Discarded' = Discarded
  <2>1. a \in Nat
    BY <1>1 DEF a
  <2>2. /\ Len(queue') = Len(queue) + 1
        /\ \A i \in 1..Len(queue) : queue'[i] = queue[i]
        /\ queue'[Len(queue) + 1] = a
    BY <1>1, <1>7, <2>1, AppendProperties
  <2>3. ASSUME NEW b \in Attempts
        PROVE  (\A i \in 1..Len(queue') : queue'[i] # b) <=> (\A i \in 1..Len(queue) : queue[i] # b)
    <3>1. \A i \in 1..Len(queue) : i \in 1..Len(queue') /\ queue'[i] = queue[i]
      BY <1>1, <2>2
    <3>2. \A i \in 1..Len(queue') : i \in 1..Len(queue) \/ queue'[i] = a
      BY <1>1, <2>2
    <3>3. a # b
      BY <1>5
    <3> QED
      BY <2>2, <3>1, <3>2, <3>3
  <2> QED
    BY <1>0, <2>3
<1>9. Discarded' = Discarded
  BY <1>6, <1>7, <1>8
<1>10. CASE /\ inService' = inService + 1 /\ queue' = queue
            /\ counters' = Bump(CountersAt(t), {"offered", kind})
  BY <1>1, <1>9, <1>10 DEF Inside, One
<1>11. CASE /\ inService' = inService /\ queue' = Append(queue, a)
            /\ counters' = Bump(CountersAt(t), {"offered", kind})
  <2>1. Len(queue') = Len(queue) + 1
    BY <1>1, <1>11, AppendProperties DEF a
  <2> QED
    BY <1>1, <1>9, <1>11, <2>1 DEF Inside, One
<1>12. CASE /\ inService' = inService /\ queue' = queue
            /\ counters' = Bump(CountersAt(t), {"offered", kind, "shed"})
  BY <1>1, <1>9, <1>12 DEF Inside, One
<1> QED
  BY <1>10, <1>11, <1>12 DEF Submit, a

LEMMA FreshBooked ==
  ASSUME Shape, NEW e \in events, Fresh(e)
  PROVE  \E kinds : counters' = Bump(CountersAt(e.time), kinds) /\ Booked(kinds)
<1>1. e.time \in Nat /\ Len(jobs) \in Nat /\ jobs \in Seq(Job) /\ Inside \in Int
  BY SetsFinite DEF Shape, Event
<1>2. PICK rest : Submit(e.time, Len(jobs) + 1, 1, rest, "fresh")
  BY DEF Fresh
<1>3. PICK kinds : /\ kinds \in {{"offered", "fresh"}, {"offered", "fresh", "shed"}}
                   /\ counters' = Bump(CountersAt(e.time), kinds)
                   /\ Inside' = Inside + 1 - One("shed", kinds)
  <2>1. Len(jobs) + 1 \in Nat
    BY <1>1
  <2> QED
    BY <1>1, <1>2, <2>1, SubmitBooked
<1>4. /\ Len(jobs') = Len(jobs) + 1
      /\ \A i \in Jobs : jobs'[i] = jobs[i]
      /\ ~jobs'[Len(jobs) + 1].succeeded
  <2> DEFINE new == [attempts |-> 1, succeeded |-> FALSE]
  <2>1. jobs' = Append(jobs, new) /\ new \in Job /\ ~new.succeeded
    BY DEF Fresh, Job
  <2> HIDE DEF new
  <2> QED
    BY <1>1, <2>1, AppendProperties DEF Jobs
<1>5. Succeeded' = Succeeded
  BY <1>1, <1>4 DEF Succeeded, Jobs
<1>6. Cardinality(Succeeded) \in Nat
  BY SetsFinite
<1> QED
  BY <1>1, <1>3, <1>4, <1>5, <1>6 DEF Booked, One

LEMMA RetryBooked ==
  ASSUME Shape, Metered, NEW e \in events, Retry(e)
  PROVE  \E kinds : counters' = Bump(CountersAt(e.time), kinds) /\ Booked(kinds)
<1>1. /\ e.time \in Nat /\ e.of \in Nat /\ e.of \in Jobs
      /\ Len(jobs) \in Nat /\ jobs \in Seq(Job) /\ Inside \in Int /\ Cardinality(Succeeded) \in Nat
  BY SetsFinite DEF Shape, Event, RefersTo, Retry
<1>2. CASE counters' = CountersAt(e.time) /\ UNCHANGED <<jobs, attempts, inService, queue>>
  <2>1. CountersAt(e.time) \in [Counted -> Int]
    BY DEF CountersAt, Metered, Zero
  <2>2. counters' = Bump(CountersAt(e.time), {})
    BY <1>2, <2>1, BumpNothing
  <2>3. Booked({})
    BY <1>1, <1>2 DEF Booked, One, Inside, Succeeded, Discarded, Jobs, Attempts
  <2> QED
    BY <2>2, <2>3
<1>3. CASE /\ jobs' = [jobs EXCEPT ![e.of].attempts = @ + 1]
           /\ Submit(e.time, e.of, jobs[e.of].attempts + 1, events \ {e}, "retry")
  <2> DEFINE new == [jobs[e.of] EXCEPT !.attempts = @ + 1]
  <2>1. jobs[e.of] \in Job
    BY <1>1 DEF Jobs
  <2>2. new \in Job /\ new.succeeded = jobs[e.of].succeeded /\ jobs' = [jobs EXCEPT ![e.of] = new]
    BY <1>3, <2>1 DEF Job
  <2> HIDE DEF new
  <2>3. Len(jobs') = Len(jobs) /\ \A i \in Jobs : jobs'[i].succeeded = jobs[i].succeeded
    BY <1>1, <2>2, ExceptSeq DEF Jobs
  <2>4. Succeeded' = Succeeded
    BY <2>3 DEF Succeeded, Jobs
  <2>5. PICK kinds : /\ kinds \in {{"offered", "retry"}, {"offered", "retry", "shed"}}
                     /\ counters' = Bump(CountersAt(e.time), kinds)
                     /\ Inside' = Inside + 1 - One("shed", kinds)
    BY <1>1, <1>3, SubmitBooked
  <2>6. Booked(kinds)
    BY <1>1, <2>3, <2>4, <2>5 DEF Booked, One
  <2> QED
    BY <2>5, <2>6
<1> QED
  BY <1>2, <1>3 DEF Retry

\* A slot that is handed on: the attempt that takes it leaves the queue, and those
\* before it, all canceled, are thrown out.
LEMMA HandOnInside ==
  ASSUME Shape, QueueConsistent, NEW k \in 1..Len(queue), NextInLine(k),
         attempts' = [attempts EXCEPT ![queue[k]].state = "serving"],
         queue' = SubSeq(queue, k + 1, Len(queue)), inService' = inService
  PROVE  Inside' = Inside - 1
<1> DEFINE thrown == {queue[i] : i \in 1..(k - 1)}
<1>1. /\ Len(queue) \in Nat /\ k \in Nat /\ k - 1 \in 0..Len(queue) /\ inService \in Int
      /\ IsFiniteSet(Discarded) /\ Cardinality(Discarded) \in Nat
      /\ \A i \in 1..Len(queue) : queue[i] \in Attempts /\ queue[i] \in Nat
  <2>1. \A i \in 1..Len(queue) : queue[i] \in Attempts /\ queue[i] \in Nat
    BY ElementOfSeq DEF Shape
  <2>2. Len(queue) \in Nat /\ inService \in Int
    BY SetsFinite
  <2>3. k \in Nat /\ k - 1 \in 0..Len(queue)
    BY <2>2
  <2> QED
    BY <2>1, <2>2, <2>3, SetsFinite
<1>2. /\ Len(attempts') = Len(attempts)
      /\ \A b \in Attempts : b # queue[k] => attempts'[b] = attempts[b]
      /\ attempts'[queue[k]].state = "serving"
  BY <1>1, RestateAttempt
<1>3. Len(queue') = Len(queue) - k /\ \A i \in 1..Len(queue') : queue'[i] = queue[k + i]
  BY BehindPlace
<1>4. \A i \in 1..(k - 1) : /\ i \in 1..Len(queue) /\ attempts[queue[i]].state = "canceled"
                            /\ \A l \in k..Len(queue) : queue[i] # queue[l]
  <2> SUFFICES ASSUME NEW i \in 1..(k - 1)
               PROVE  /\ i \in 1..Len(queue) /\ attempts[queue[i]].state = "canceled"
                      /\ \A l \in k..Len(queue) : queue[i] # queue[l]
    OBVIOUS
  <2>1. i \in 1..Len(queue)
    BY <1>1
  <2>2. attempts[queue[i]].state = "canceled"
    BY <2>1 DEF NextInLine, QueueConsistent
  <2>3. ASSUME NEW l \in k..Len(queue) PROVE queue[i] # queue[l]
    <3>1. l \in 1..Len(queue) /\ i < l
      BY <1>1
    <3>2. queue[i] < queue[l]
      BY <2>1, <3>1 DEF QueueConsistent
    <3> QED
      BY <1>1, <2>1, <3>1, <3>2
  <2> QED
    BY <2>1, <2>2, <2>3
<1>5. ASSUME NEW b \in Attempts PROVE b \in Discarded' <=> b \in Discarded \cup thrown
  <2>1. CASE b = queue[k]
    <3>1. b \notin Discarded'
      BY <1>2, <2>1 DEF Discarded
    <3>2. b \notin Discarded
      BY <2>1 DEF Discarded
    <3>3. b \notin thrown
      BY <1>1, <1>4, <2>1
    <3> QED
      BY <3>1, <3>2, <3>3
  <2>2. CASE b # queue[k] /\ b \in thrown
    <3>1. PICK i \in 1..(k - 1) : b = queue[i]
      BY <2>2
    <3>2. attempts'[b].state = "canceled"
      BY <1>2, <1>4, <2>2, <3>1
    <3>3. \A l \in 1..Len(queue') : queue'[l] # b
      <4> SUFFICES ASSUME NEW l \in 1..Len(queue') PROVE queue[k + l] # b
        BY <1>3
      <4>1. l \in 1..(Len(queue) - k)
        BY <1>3
      <4>2. k + l \in 1..Len(queue) /\ k < k + l
        BY <1>1, <4>1, Behind
      <4>3. k + l \in k..Len(queue)
        BY <1>1, <4>2
      <4> QED
        BY <1>4, <3>1, <4>3
    <3>4. b \in Attempts'
      BY <1>2 DEF Attempts
    <3> QED
      BY <2>2, <3>2, <3>3, <3>4 DEF Discarded
  <2>3. CASE b # queue[k] /\ b \notin thrown
    <3>1. b \in Attempts' /\ attempts'[b] = attempts[b]
      BY <1>2, <2>3 DEF Attempts
    <3>2. ASSUME NEW i \in 1..Len(queue), queue[i] = b PROVE \E l \in 1..Len(queue') : queue'[l] = b
      <4>1. i > k
        BY <1>1, <2>3, <3>2
      <4>2. i - k \in 1..(Len(queue) - k) /\ k + (i - k) = i
        BY <1>1, <4>1, Behind
      <4>3. i - k \in 1..Len(queue')
        BY <1>3, <4>2
      <4> QED
        BY <1>3, <3>2, <4>2, <4>3
    <3>3. ASSUME NEW l \in 1..Len(queue'), queue'[l] = b PROVE \E i \in 1..Len(queue) : queue[i] = b
      <4>1. l \in 1..(Len(queue) - k)
        BY <1>3
      <4>2. k + l \in 1..Len(queue)
        BY <1>1, <4>1, Behind
      <4> QED
        BY <1>3, <3>3, <4>2
    <3>4. b \in Discarded' <=> b \in Discarded
      BY <3>1, <3>2, <3>3 DEF Discarded
    <3> QED
      BY <2>3, <3>4
  <2> QED
    BY <2>1, <2>2, <2>3
<1>6. Discarded' = Discarded \cup thrown
  <2>1. Discarded' \subseteq Attempts /\ Discarded \subseteq Attempts
    BY <1>2 DEF Discarded, Attempts
  <2>2. thrown \subseteq Attempts
    BY <1>1, <1>4
  <2> HIDE DEF thrown
  <2> QED
    BY <1>5, <2>1, <2>2
<1>7. Discarded \cap thrown = {}
  BY <1>4 DEF Discarded
<1>8. IsFiniteSet(thrown) /\ Cardinality(thrown) = k - 1
  BY <1>1, FirstOfQueue
<1>9. Cardinality(Discarded') = Cardinality(Discarded) + (k - 1)
  <2> HIDE DEF thrown
  <2>1. IsFiniteSet(Discarded) /\ IsFiniteSet(thrown)
    BY <1>1, <1>8
  <2>2. Cardinality(Discarded \cup thrown) = Cardinality(Discarded) + Cardinality(thrown) - Cardinality(Discarded \cap thrown)
    BY <2>1, FS_Union
  <2>3. Cardinality(Discarded \cap thrown) = 0
    BY <1>7, FS_EmptySet
  <2> QED
    BY <1>1, <1>6, <1>8, <2>2, <2>3
<1> QED
  BY <1>1, <1>3, <1>9 DEF Inside

\* A slot that nobody waits for: what is left of the queue is canceled and goes.
LEMMA FreedInside ==
  ASSUME Shape, QueueConsistent, \A k \in 1..Len(queue) : attempts[queue[k]].state # "queued",
         queue' = <<>>, inService' = inService - 1, UNCHANGED attempts
  PROVE  Inside' = Inside - 1
<1> DEFINE thrown == {queue[i] : i \in 1..Len(queue)}
<1>1. /\ Len(queue) \in Nat /\ Len(queue) \in 0..Len(queue) /\ inService \in Int
      /\ IsFiniteSet(Discarded) /\ Cardinality(Discarded) \in Nat
      /\ \A i \in 1..Len(queue) : queue[i] \in Attempts
  BY SetsFinite DEF Shape
<1>2. \A i \in 1..Len(queue) : attempts[queue[i]].state = "canceled"
  BY DEF QueueConsistent
<1>3. Len(queue') = 0
  OBVIOUS
<1>4. Discarded' = {a \in Attempts : attempts[a].state = "canceled"}
  BY <1>3 DEF Discarded, Attempts
<1>5. Discarded' = Discarded \cup thrown /\ Discarded \cap thrown = {}
  BY <1>1, <1>2, <1>4 DEF Discarded
<1>6. IsFiniteSet(thrown) /\ Cardinality(thrown) = Len(queue)
  BY <1>1, FirstOfQueue
<1>7. Cardinality(Discarded') = Cardinality(Discarded) + Len(queue)
  <2> HIDE DEF thrown
  <2>1. Cardinality(Discarded \cup thrown) = Cardinality(Discarded) + Cardinality(thrown) - Cardinality({})
    BY <1>1, <1>5, <1>6, FS_Union
  <2> QED
    BY <1>1, <1>5, <1>6, <2>1, FS_EmptySet
<1> QED
  BY <1>1, <1>3, <1>7 DEF Inside

LEMMA DepartBooked ==
  ASSUME Shape, QueueConsistent, NEW e \in events, Depart(e)
  PROVE  \E kinds : counters' = Bump(CountersAt(e.time), kinds) /\ Booked(kinds)
<1> DEFINE j == attempts[e.of].job
           inTime == e.time <= attempts[e.of].timeoutAt /\ ~jobs[j].succeeded
           kinds == {IF inTime THEN "success" ELSE "wasted"}
           new == [jobs[j] EXCEPT !.succeeded = TRUE]
<1>1. /\ j \in Jobs /\ jobs \in Seq(Job) /\ Len(jobs) \in Nat
      /\ IsFiniteSet(Succeeded) /\ Cardinality(Succeeded) \in Nat /\ Inside \in Int
  BY SetsFinite DEF Shape, Depart, RefersTo
<1>2. counters' = Bump(CountersAt(e.time), kinds) /\ jobs' = IF inTime THEN [jobs EXCEPT ![j] = new] ELSE jobs
  BY DEF Depart
<1>3. Inside' = Inside - 1
  BY HandOnInside, FreedInside DEF Depart
<1>4. new \in Job /\ new.succeeded
  <2>1. jobs[j] \in Job
    BY <1>1 DEF Jobs
  <2> QED
    BY <2>1 DEF Job
<1>5. CASE inTime
  <2>1. ~jobs[j].succeeded /\ jobs' = [jobs EXCEPT ![j] = new]
    BY <1>2, <1>5
  <2> HIDE DEF new, j, inTime, kinds
  <2>2. Len(jobs') = Len(jobs) /\ \A i \in Jobs : jobs'[i] = IF i = j THEN new ELSE jobs[i]
    BY <1>1, <1>4, <2>1, ExceptSeq DEF Jobs
  <2>3. Succeeded' = Succeeded \cup {j} /\ j \notin Succeeded
    BY <1>1, <1>4, <2>1, <2>2 DEF Succeeded, Jobs
  <2>4. Cardinality(Succeeded') = Cardinality(Succeeded) + 1
    BY <1>1, <2>3, FS_AddElement
  <2>5. kinds = {"success"}
    BY <1>5 DEF kinds
  <2>6. Booked(kinds)
    BY <1>1, <1>3, <2>2, <2>4, <2>5 DEF Booked, One
  <2> QED
    BY <1>2, <2>6
<1>6. CASE ~inTime
  <2>1. jobs' = jobs /\ kinds = {"wasted"}
    BY <1>2, <1>6
  <2>2. Succeeded' = Succeeded
    BY <2>1 DEF Succeeded, Jobs
  <2> HIDE DEF kinds
  <2>3. Booked(kinds)
    BY <1>1, <1>3, <2>1, <2>2 DEF Booked, One
  <2> QED
    BY <1>2, <2>3
<1> QED
  BY <1>5, <1>6

LEMMA TimeoutBooked ==
  ASSUME Shape, QueueConsistent, Metered, NEW e \in events, Timeout(e)
  PROVE  \E kinds : counters' = Bump(CountersAt(e.time), kinds) /\ Booked(kinds)
<1>1. /\ e.of \in Attempts /\ UNCHANGED <<jobs, inService, queue>>
      /\ Len(jobs) \in Nat /\ Cardinality(Succeeded) \in Nat /\ Inside \in Int
  BY SetsFinite DEF Shape, Timeout, RefersTo
<1>2. Succeeded' = Succeeded
  BY <1>1 DEF Succeeded, Jobs
<1>3. Discarded' = Discarded
  <2>1. CASE attempts' = attempts
    BY <1>1, <2>1 DEF Discarded, Attempts
  <2>2. CASE attempts[e.of].state = "queued" /\ attempts' = [attempts EXCEPT ![e.of].state = "canceled"]
    <3>1. /\ Len(attempts') = Len(attempts)
          /\ \A b \in Attempts : b # e.of => attempts'[b] = attempts[b]
      BY <1>1, <2>2, RestateAttempt
    <3>2. \E i \in 1..Len(queue) : queue[i] = e.of
      BY <1>1, <2>2 DEF QueueConsistent
    <3> QED
      BY <1>1, <3>1, <3>2 DEF Discarded, Attempts
  <2> QED
    BY <2>1, <2>2 DEF Timeout
<1>4. \A kinds \in {{}, {"timeout"}} : Booked(kinds)
  BY <1>1, <1>2, <1>3 DEF Booked, Inside, One
<1>5. CountersAt(e.time) = Bump(CountersAt(e.time), {})
  <2>1. CountersAt(e.time) \in [Counted -> Int]
    BY DEF CountersAt, Metered, Zero
  <2> QED
    BY <2>1, BumpNothing
<1> QED
  BY <1>4, <1>5 DEF Timeout

LEMMA EndBooked ==
  ASSUME Shape, Metered, NEW e \in events, End(e)
  PROVE  \E kinds : counters' = Bump(CountersAt(TotalTime), kinds) /\ Booked(kinds)
<1>1. Len(jobs) \in Nat /\ Cardinality(Succeeded) \in Nat /\ Inside \in Int
  BY SetsFinite
<1>2. Booked({})
  BY <1>1 DEF End, Booked, Succeeded, Inside, Discarded, Jobs, Attempts, One
<1>3. CountersAt(TotalTime) = Bump(CountersAt(TotalTime), {})
  <2>1. CountersAt(TotalTime) \in [Counted -> Int]
    BY DEF CountersAt, Metered, Zero
  <2> QED
    BY <2>1, BumpNothing
<1> QED
  BY <1>2, <1>3 DEF End

\* The books: the invariant behind the telemetry.
Balanced ==
  /\ Metered
  /\ Total("success") = Cardinality(Succeeded)
  /\ Total("offered") = Total("success") + Total("wasted") + Total("shed") + Inside
  /\ Total("fresh") = Len(jobs)

LEMMA TotalType == ASSUME Metered, NEW k \in Counted PROVE Total(k) \in Int
<1> DEFINE f == [i \in 1..Len(rows) |-> rows[i].counters[k]]
<1>1. Len(rows) \in Nat /\ counters[k] \in Int
  <2>1. rows \in Seq(Row) /\ counters \in [Counted -> Int]
    BY DEF Metered
  <2> QED
    BY <2>1, LenProperties
<1>2. ASSUME NEW i \in 1..Len(rows) PROVE f[i] \in Int
  <2>1. rows[i] \in Row
    BY ElementOfSeq DEF Metered
  <2> QED
    BY <2>1 DEF Row
<1> HIDE DEF f
<1>3. SumTo(f, Len(rows)) \in Int
  BY <1>1, <1>2, SumType
<1> QED
  BY <1>1, <1>3 DEF Total, f

LEMMA BalancedStep == Shape /\ Shape' /\ QueueConsistent /\ Balanced /\ [Next]_vars => Balanced'
<1> SUFFICES ASSUME Shape, Shape', QueueConsistent, Balanced, [Next]_vars PROVE Balanced'
  OBVIOUS
<1>1. ASSUME NEW e \in events, Fresh(e) \/ Retry(e) \/ Depart(e) \/ Timeout(e) \/ End(e)
      PROVE  Balanced'
  <2>1. PICK kinds : counters' = Bump(CountersAt(Until(e)), kinds) /\ Booked(kinds)
    <3>1. CASE End(e)
      BY <3>1, EndBooked DEF Balanced, Until
    <3>2. CASE ~End(e)
      BY <1>1, <3>2, FreshBooked, RetryBooked, DepartBooked, TimeoutBooked DEF Balanced, Until
    <3> QED
      BY <3>1, <3>2
  <2>2. Metered' /\ \A k \in Counted : Total(k)' = Total(k) + One(k, kinds)
    BY <1>1, <2>1, Handled DEF Balanced
  <2>3. \A k \in Counted : Total(k) \in Int /\ One(k, kinds) \in Int
    BY TotalType DEF Balanced, One
  <2>4. Inside \in Int /\ Cardinality(Succeeded) \in Nat /\ Len(jobs) \in Nat
    BY SetsFinite
  <2>5. {"success", "offered", "wasted", "shed", "fresh"} \subseteq Counted
    BY DEF Counted
  <2>6. Total("success")' = Cardinality(Succeeded)'
    BY <2>1, <2>2, <2>5 DEF Balanced, Booked
  <2>7. Total("fresh")' = Len(jobs)'
    BY <2>1, <2>2, <2>5 DEF Balanced, Booked
  <2>8. Total("offered")' = Total("success")' + Total("wasted")' + Total("shed")' + Inside'
    <3>1. /\ Total("offered")' = Total("offered") + One("offered", kinds)
          /\ Total("success")' = Total("success") + One("success", kinds)
          /\ Total("wasted")' = Total("wasted") + One("wasted", kinds)
          /\ Total("shed")' = Total("shed") + One("shed", kinds)
      BY <2>2, <2>5
    <3>2. Inside' = Inside + One("offered", kinds) - One("success", kinds)
                      - One("wasted", kinds) - One("shed", kinds)
      BY <2>1 DEF Booked
    <3>3. Total("offered") = Total("success") + Total("wasted") + Total("shed") + Inside
      BY DEF Balanced
    <3>4. /\ Total("success") \in Int /\ Total("wasted") \in Int /\ Total("shed") \in Int
          /\ Total("offered") \in Int
          /\ One("offered", kinds) \in Int /\ One("success", kinds) \in Int
          /\ One("wasted", kinds) \in Int /\ One("shed", kinds) \in Int
      BY <2>3, <2>5
    <3>5. Inside \in Int
      BY <2>4
    <3> QED
      BY ONLY <3>1, <3>2, <3>3, <3>4, <3>5
  <2> QED
    BY <2>2, <2>6, <2>7, <2>8 DEF Balanced
<1>2. CASE UNCHANGED vars
  BY <1>2 DEF vars, Balanced, Metered, Total, Succeeded, Inside, Discarded, Jobs, Attempts
<1> QED
  BY <1>1, <1>2 DEF Next, Ended

\* The telemetry loses and doubles nothing, for every tick length, duration and
\* configuration of the server and whatever is drawn (sim.rs:231-236, 251-259,
\* 280, 305-328).
THEOREM TelemetryBalances == Spec => []TelemetryConserved
<1>1. Init => Balanced
  <2> SUFFICES ASSUME Init PROVE Balanced
    OBVIOUS
  <2>1. Metered
    <3>1. TotalTime \div TickTime \in Nat /\ 0 \div TickTime \in Nat
      BY DelaysAssumption, DivType DEF DelaysAssumption
    <3> QED
      BY <3>1, EmptySeq DEF Init, Metered, Zero, At
  <2>2. \A k \in Counted : Total(k) = 0
    BY SumOfNone DEF Init, Total, Zero
  <2>3. Succeeded = {} /\ Discarded = {}
    BY DEF Init, Succeeded, Discarded, Jobs, Attempts
  <2> QED
    BY <2>1, <2>2, <2>3, FS_EmptySet DEF Init, Balanced, Inside, Counted
<1>2. Shape /\ Balanced => TelemetryConserved
  <2> SUFFICES ASSUME Shape, Balanced PROVE TelemetryConserved
    OBVIOUS
  <2>1. \A k \in {"success", "wasted", "shed"} : Total(k) \in Int
    BY TotalType DEF Balanced, Counted
  <2>2. Total("offered") = Total("success") + Total("wasted") + Total("shed")
                             + inService + Len(queue) + Cardinality(Discarded)
    <3>1. Total("success") \in Int /\ Total("wasted") \in Int /\ Total("shed") \in Int
      BY <2>1
    <3>2. inService \in Int /\ Len(queue) \in Nat /\ Cardinality(Discarded) \in Nat
      BY SetsFinite
    <3> QED
      BY <3>1, <3>2 DEF Balanced, Inside
  <2> QED
    BY <2>2 DEF Balanced, Metered, TelemetryConserved, Succeeded
<1> QED
  BY <1>1, <1>2, ShapeAlways, QueueInOrder, BalancedStep, PTL DEF Spec
=============================================================================
