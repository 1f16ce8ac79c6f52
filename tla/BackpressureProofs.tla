--------------------------- MODULE BackpressureProofs ---------------------------
(***************************************************************************)
(* What Backpressure promises for every set of calls and every threshold,  *)
(* window, probe period and timeout with the timeout no longer than the    *)
(* probe period.                                                           *)
(***************************************************************************)
EXTENDS Backpressure, TLAPS, SequenceTheorems

\* What Remembered does to the history: the newest element is now, the others
\* keep their distance from the end.
LEMMA RememberedShape ==
  ASSUME BackpressureTypeOK, Len(recent) <= Threshold
  PROVE  /\ Remembered \in Seq(Time)
         /\ Len(Remembered) = IF Len(recent) < Threshold THEN Len(recent) + 1 ELSE Threshold
         /\ Remembered[Len(Remembered)] = now
         /\ \A i \in 1..(Len(Remembered) - 1) :
              LET j == IF Len(recent) < Threshold THEN i ELSE i + 1
              IN j \in 1..Len(recent) /\ Remembered[i] = recent[j]
  <1>1. recent \in Seq(Time) /\ now \in Time /\ Len(recent) \in Nat
    BY LenProperties DEF BackpressureTypeOK
  <1>2. CASE Len(recent) < Threshold
    BY <1>1, <1>2, AppendProperties DEF Remembered
  <1>3. CASE ~(Len(recent) < Threshold)
    <2>1. Len(recent) = Threshold /\ Threshold \in Nat /\ Threshold >= 1
      BY <1>1, <1>3, LimitsAssumption DEF LimitsAssumption
    <2>2. recent # <<>>
      BY <1>1, <2>1
    <2>3. /\ Tail(recent) \in Seq(Time)
          /\ Len(Tail(recent)) = Len(recent) - 1
          /\ \A i \in 1..Len(Tail(recent)) : Tail(recent)[i] = recent[i + 1]
      BY <1>1, <2>2, HeadTailProperties
    <2>4. Remembered = Append(Tail(recent), now)
      BY <1>3 DEF Remembered
    <2>. QED
      BY <1>1, <1>3, <2>1, <2>3, <2>4, AppendProperties
  <1>. QED
    BY <1>2, <1>3

-----------------------------------------------------------------------------
(* Types.                                                                    *)

LEMMA NowTypes ==
  ASSUME BackpressureTypeOK
  PROVE  CountNow \in Nat /\ CountNow <= count /\ StartNow \in Time /\ StillShut \in Stamp
  BY DEF BackpressureTypeOK, CountNow, StartNow, StillShut, Stamp, Time

\* A record that is not full never has more failures than remembered, and the
\* history never grows beyond the threshold.
ShortHistory == Len(recent) <= Threshold

TypeInv == BackpressureTypeOK /\ ShortHistory

LEMMA NoHistory == <<>> \in Seq(Time) /\ Len(<<>>) = 0 /\ 0 <= Threshold
  BY LimitsAssumption, EmptySeq DEF LimitsAssumption

LEMMA TypeInit == Init => TypeInv
  <1>. SUFFICES ASSUME Init PROVE TypeInv
    OBVIOUS
  <1>1. recent \in Seq(Time) /\ Len(recent) <= Threshold
    BY NoHistory DEF Init
  <1>2. gossip \in [overloaded : BOOLEAN, at : Time]
    BY DEF Init, NoGossip, Time
  <1>. QED
    BY <1>1, <1>2 DEF Init, TypeInv, ShortHistory, BackpressureTypeOK, Time, Stamp, Never, Flying

LEMMA TypeStep == TypeInv /\ [Next]_vars => TypeInv'
  <1>. SUFFICES ASSUME TypeInv, [Next]_vars PROVE TypeInv'
    OBVIOUS
  <1>. USE DEF TypeInv, ShortHistory
  <1>1. ASSUME NEW c \in Calls, Decide(c) PROVE TypeInv'
    <2>1. CASE ThrottleByGossip(c)
      BY <2>1 DEF BackpressureTypeOK, ThrottleByGossip, Answer, record, Time, Stamp
    <2>2. CASE Pass(c)
      BY <2>2, NowTypes DEF BackpressureTypeOK, Pass, Depart, Answer, Time, Stamp, Flying
    <2>3. CASE PassAsProbe(c)
      BY <2>3 DEF BackpressureTypeOK, PassAsProbe, Depart, Answer, Time, Stamp, Flying
    <2>4. CASE ThrottleLocally(c)
      BY <2>4, NowTypes DEF BackpressureTypeOK, ThrottleLocally, Answer, Time, Stamp
    <2>. QED
      BY <1>1, <2>1, <2>2, <2>3, <2>4 DEF Decide
  <1>2. ASSUME NEW c \in Calls, Outcome(c) PROVE TypeInv'
    <2>1. CASE FetchSucceeds(c)
      <3>1. recent' \in Seq(Time) /\ Len(recent') <= Threshold
        BY <2>1, NoHistory DEF FetchSucceeds
      <3>. QED
        BY <2>1, <3>1 DEF BackpressureTypeOK, FetchSucceeds, Return, Answer, Time, Stamp
    <2>2. CASE FetchFails(c)
      <3>1. Remembered \in Seq(Time) /\ Len(Remembered) <= Threshold
        BY RememberedShape, LenProperties, LimitsAssumption
           DEF BackpressureTypeOK, LimitsAssumption
      <3>2. recent' = Remembered
        BY <2>2 DEF FetchFails
      <3>3. recent' \in Seq(Time) /\ Len(recent') <= Threshold
        BY <3>1, <3>2
      <3>. QED
        BY <2>2, <3>3, NowTypes DEF BackpressureTypeOK, FetchFails, Return, Answer, Time, Stamp
    <2>3. CASE Drop(c)
      BY <2>3 DEF BackpressureTypeOK, Drop, Return, Answer, record, Time, Stamp
    <2>. QED
      BY <1>2, <2>1, <2>2, <2>3 DEF Outcome
  <1>3. ASSUME NEW o \in BOOLEAN, NEW at \in 0..now, ReceiveGossip(o, at) PROVE TypeInv'
    BY <1>3 DEF BackpressureTypeOK, ReceiveGossip, record, Time, Stamp
  <1>4. CASE Reset
    <2>1. recent' \in Seq(Time) /\ Len(recent') <= Threshold
      BY <1>4, NoHistory DEF Reset
    <2>2. gossip' \in [overloaded : BOOLEAN, at : Time]
      BY <1>4 DEF Reset, NoGossip, Time
    <2>. QED
      BY <1>4, <2>1, <2>2 DEF BackpressureTypeOK, Reset, Time, Stamp
  <1>5. CASE Tick
    BY <1>5 DEF BackpressureTypeOK, Tick, record, Time, Stamp
  <1>6. CASE UNCHANGED vars
    BY <1>6 DEF BackpressureTypeOK, vars, record
  <1>. QED
    BY <1>1, <1>2, <1>3, <1>4, <1>5, <1>6 DEF Next

\* Type correctness, for the agent and the handlers of backpressure.rs.
THEOREM BackpressureTypes == Spec => []BackpressureTypeOK
  <1>1. TypeInv => BackpressureTypeOK
    BY DEF TypeInv
  <1>. QED
    BY <1>1, TypeInit, TypeStep, PTL DEF Spec

-----------------------------------------------------------------------------
(* Evidence.                                                                 *)

\* The last count failures (or Threshold, if there were more) are in the
\* history and lie in the window of the record.
Evidence ==
  /\ ~tracked => count = 0
  /\ windowStart <= now
  /\ Len(recent) >= count \/ Len(recent) = Threshold
  /\ \A i \in 1..Len(recent) : Len(recent) - i < count => recent[i] >= windowStart

LEMMA EvidenceInit == Init => Evidence
  BY EmptySeq DEF Init, Evidence

LEMMA EvidenceStep == TypeInv /\ Evidence /\ [Next]_vars => Evidence'
  <1>. SUFFICES ASSUME TypeInv, Evidence, [Next]_vars PROVE Evidence'
    OBVIOUS
  <1>0. /\ now \in Nat /\ count \in Nat /\ windowStart \in Nat /\ tracked \in BOOLEAN
        /\ recent \in Seq(Nat) /\ Len(recent) \in Nat /\ Threshold \in Nat \ {0}
        /\ \A i \in 1..Len(recent) : recent[i] \in Nat
        /\ Len(recent) <= Threshold
    BY LimitsAssumption, LenProperties, ElementOfSeq
       DEF TypeInv, ShortHistory, BackpressureTypeOK, Time, LimitsAssumption
  <1>1. ASSUME NEW c \in Calls, Decide(c) PROVE Evidence'
    <2>1. CASE ThrottleByGossip(c)
      BY <2>1 DEF ThrottleByGossip, record, Evidence
    <2>2. CASE Pass(c)
      <3>1. /\ count' = IF Expired THEN 0 ELSE count
            /\ windowStart' = IF Expired THEN now ELSE windowStart
            /\ UNCHANGED <<tracked, recent, now>>
        BY <2>2 DEF Pass, Depart, CountNow, StartNow
      <3>. QED
        BY <1>0, <3>1 DEF Evidence
    <2>3. CASE PassAsProbe(c)
      BY <2>3 DEF PassAsProbe, Depart, Evidence
    <2>4. CASE ThrottleLocally(c)
      BY <2>4 DEF ThrottleLocally, Evidence
    <2>. QED
      BY <1>1, <2>1, <2>2, <2>3, <2>4 DEF Decide
  <1>2. ASSUME NEW c \in Calls, Outcome(c) PROVE Evidence'
    <2>1. CASE FetchSucceeds(c)
      BY <1>0, <2>1, EmptySeq DEF FetchSucceeds, Evidence
    <2>2. CASE FetchFails(c)
      <3>1. /\ tracked' = TRUE /\ now' = now /\ recent' = Remembered
            /\ count' = CountNow + 1
            /\ windowStart' = IF tracked THEN StartNow ELSE now
        BY <2>2 DEF FetchFails
      <3>2. CountNow \in Nat /\ CountNow <= count
        BY NowTypes DEF TypeInv
      <3>3. windowStart' <= now
        BY <1>0, <3>1 DEF StartNow, Evidence
      <3>4. PICK r : r = Remembered
        OBVIOUS
      <3>5. /\ r \in Seq(Nat)
            /\ Len(r) = IF Len(recent) < Threshold THEN Len(recent) + 1 ELSE Threshold
            /\ r[Len(r)] = now
            /\ \A i \in 1..(Len(r) - 1) :
                 LET j == IF Len(recent) < Threshold THEN i ELSE i + 1
                 IN j \in 1..Len(recent) /\ r[i] = recent[j]
        BY <3>4, RememberedShape DEF TypeInv, ShortHistory, Time
      <3>6. Len(r) >= CountNow + 1 \/ Len(r) = Threshold
        BY <1>0, <3>2, <3>5 DEF Evidence
      <3>7. ASSUME NEW i \in 1..Len(r), Len(r) - i < CountNow + 1
            PROVE  r[i] >= windowStart'
        <4>1. CASE i = Len(r)
          BY <1>0, <3>1, <3>3, <3>5, <4>1
        <4>2. CASE i # Len(r)
          <5>. DEFINE j == IF Len(recent) < Threshold THEN i ELSE i + 1
          <5>1. Len(r) \in Nat /\ i \in 1..(Len(r) - 1)
            BY <3>5, <4>2, LenProperties
          <5>2. j \in 1..Len(recent) /\ r[i] = recent[j]
            BY <3>5, <5>1
          <5>3. Len(recent) - j = Len(r) - i - 1
            <6>1. /\ Len(recent) \in Nat /\ Len(recent) <= Threshold /\ Threshold \in Nat
                  /\ Len(r) = IF Len(recent) < Threshold THEN Len(recent) + 1 ELSE Threshold
                  /\ i \in Nat
              BY <1>0, <3>5, <5>1
            <6>. QED
              BY <6>1
          <5>4. Len(recent) - j < CountNow
            BY <1>0, <3>2, <3>7, <5>1, <5>3
          <5>5. CountNow # 0
            BY <1>0, <5>2, <5>4
          <5>6. CountNow = count /\ tracked /\ windowStart' = windowStart
            BY <1>0, <3>1, <5>5, <3>2 DEF CountNow, StartNow, Evidence
          <5>. QED
            BY <5>2, <5>4, <5>6 DEF Evidence
        <4>. QED
          BY <4>1, <4>2
      <3>8. recent' = r
        BY <3>1, <3>4
      <3>. QED
        BY <3>1, <3>3, <3>6, <3>7, <3>8 DEF Evidence
    <2>3. CASE Drop(c)
      BY <2>3 DEF Drop, record, Evidence
    <2>. QED
      BY <1>2, <2>1, <2>2, <2>3 DEF Outcome
  <1>3. ASSUME NEW o \in BOOLEAN, NEW at \in 0..now, ReceiveGossip(o, at) PROVE Evidence'
    BY <1>3 DEF ReceiveGossip, record, Evidence
  <1>4. CASE Reset
    BY <1>0, <1>4, EmptySeq DEF Reset, Evidence
  <1>5. CASE Tick
    BY <1>0, <1>5 DEF Tick, record, Evidence
  <1>6. CASE UNCHANGED vars
    BY <1>6 DEF vars, record, Evidence
  <1>. QED
    BY <1>1, <1>2, <1>3, <1>4, <1>5, <1>6 DEF Next

\* What a full count means at the moment of a decision.
LEMMA ShutMeans ==
  ASSUME TypeInv, Evidence, Shut
  PROVE  /\ CountNow = count /\ tracked
         /\ now - windowStart <= Window
         /\ Len(recent) = Threshold
         /\ recent[1] >= windowStart
         /\ recent[1] \in Nat /\ now \in Nat /\ windowStart \in Nat
  <1>0. /\ now \in Nat /\ count \in Nat /\ windowStart \in Nat /\ tracked \in BOOLEAN
        /\ Len(recent) \in Nat /\ Threshold \in Nat \ {0} /\ Window \in Nat
        /\ \A i \in 1..Len(recent) : recent[i] \in Nat
        /\ Len(recent) <= Threshold
    BY LimitsAssumption, LenProperties, ElementOfSeq
       DEF TypeInv, ShortHistory, BackpressureTypeOK, Time, LimitsAssumption
  <1>1. CountNow = count /\ count >= Threshold /\ ~Expired
    BY <1>0 DEF Shut, CountNow
  <1>2. tracked
    BY <1>0, <1>1 DEF Evidence
  <1>3. now - windowStart <= Window
    BY <1>0, <1>1, <1>2 DEF Expired
  <1>4. Len(recent) = Threshold
    BY <1>0, <1>1 DEF Evidence
  <1>5. 1 \in 1..Len(recent) /\ Len(recent) - 1 < count
    BY <1>0, <1>1, <1>4
  <1>6. recent[1] >= windowStart /\ recent[1] \in Nat
    BY <1>0, <1>5 DEF Evidence
  <1>. QED
    BY <1>0, <1>1, <1>2, <1>3, <1>4, <1>6

\* A local refusal of should_throttle rests on Threshold failures recorded
\* within the last Window and since the last success.
THEOREM RefusedWithEvidence == Spec => ThrottledOnEvidence
  <1>1. ASSUME TypeInv, Evidence, NEW c \in Calls, ThrottleLocally(c)
        PROVE  Len(recent) = Threshold /\ now - recent[1] <= Window
    <2>1. Shut
      BY <1>1 DEF ThrottleLocally
    <2>2. Window \in Nat
      BY LimitsAssumption DEF LimitsAssumption
    <2>. QED
      BY <1>1, <2>1, <2>2, ShutMeans
  <1>2. TypeInv /\ Evidence /\ [Next]_vars =>
          [\A c \in Calls : ThrottleLocally(c) =>
             Len(recent) = Threshold /\ now - recent[1] <= Window]_vars
    BY <1>1
  <1>. QED
    BY <1>2, TypeInit, TypeStep, EvidenceInit, EvidenceStep, PTL DEF Spec, ThrottledOnEvidence

-----------------------------------------------------------------------------
(* Probes.                                                                   *)

\* Fetches are younger than their timeout; nobody was refused locally before
\* the probe under way was begun.
Flights ==
  \A c \in Calls : pc[c] \in Flying =>
    /\ begun[c] <= now
    /\ now - begun[c] <= RequestTimeout
    /\ pc[c] = "probing" /\ lastThrottled # Never => lastThrottled >= begun[c]

ProbeInv == Flights /\ OneProbeAtATime

LEMMA ProbeInit == Init => ProbeInv
  BY DEF Init, ProbeInv, Flights, OneProbeAtATime, Flying

LEMMA ProbeStep == TypeInv /\ ProbeInv /\ [Next]_vars => ProbeInv'
  <1>. SUFFICES ASSUME TypeInv, ProbeInv, [Next]_vars PROVE ProbeInv'
    OBVIOUS
  <1>0. /\ now \in Nat /\ lastThrottled \in Nat \cup {-1}
        /\ begun \in [Calls -> Nat] /\ RequestTimeout \in Nat /\ Probe \in Nat
        /\ RequestTimeout <= Probe
        /\ pc \in [Calls -> {"idle", "gossip", "local", "fetch", "probing"}]
    BY LimitsAssumption
       DEF TypeInv, BackpressureTypeOK, Time, Stamp, Never, LimitsAssumption, Flying
  <1>. USE DEF ProbeInv, Never, Flying
  <1>1. ASSUME NEW c \in Calls, Decide(c) PROVE ProbeInv'
    <2>1. CASE ThrottleByGossip(c)
      BY <1>0, <2>1 DEF ThrottleByGossip, Answer, record, Flights, OneProbeAtATime
    <2>2. CASE Pass(c)
      BY <1>0, <2>2 DEF Pass, Depart, Answer, Flights, OneProbeAtATime
    <2>3. CASE PassAsProbe(c)
      <3>1. \A d \in Calls : pc[d] # "probing"
        BY <1>0, <2>3 DEF PassAsProbe, ProbeDue, Flights
      <3>. QED
        BY <1>0, <2>3, <3>1 DEF PassAsProbe, Depart, Answer, Flights, OneProbeAtATime
    <2>4. CASE ThrottleLocally(c)
      BY <1>0, <2>4 DEF ThrottleLocally, Answer, Flights, OneProbeAtATime
    <2>. QED
      BY <1>1, <2>1, <2>2, <2>3, <2>4 DEF Decide
  <1>2. ASSUME NEW c \in Calls, Outcome(c) PROVE ProbeInv'
    <2>1. CASE FetchSucceeds(c)
      BY <1>0, <2>1 DEF FetchSucceeds, Return, Answer, Flights, OneProbeAtATime
    <2>2. CASE FetchFails(c)
      BY <1>0, <2>2 DEF FetchFails, Return, Answer, Flights, OneProbeAtATime
    <2>3. CASE Drop(c)
      BY <1>0, <2>3 DEF Drop, Return, Answer, record, Flights, OneProbeAtATime
    <2>. QED
      BY <1>2, <2>1, <2>2, <2>3 DEF Outcome
  <1>3. ASSUME NEW o \in BOOLEAN, NEW at \in 0..now, ReceiveGossip(o, at) PROVE ProbeInv'
    BY <1>3 DEF ReceiveGossip, record, Flights, OneProbeAtATime
  <1>4. CASE Reset
    BY <1>0, <1>4 DEF Reset, Flights, OneProbeAtATime
  <1>5. CASE Tick
    BY <1>0, <1>5 DEF Tick, record, Flights, OneProbeAtATime
  <1>6. CASE UNCHANGED vars
    BY <1>6 DEF vars, record, Flights, OneProbeAtATime
  <1>. QED
    BY <1>1, <1>2, <1>3, <1>4, <1>5, <1>6 DEF Next

\* Never two probes of a downstream are under way: the probe branch of
\* should_throttle, whatever the order of the outcomes.
THEOREM OneProbe == Spec => []OneProbeAtATime
  <1>1. ProbeInv => OneProbeAtATime
    BY DEF ProbeInv
  <1>. QED
    BY <1>1, TypeInit, TypeStep, ProbeInit, ProbeStep, PTL DEF Spec

-----------------------------------------------------------------------------
(* The length of a lock-out.                                                 *)

\* While nothing is let through, every fetch under way is older than the first
\* refusal, so that none can begin a window later than a timeout after it.
ShutOut ==
  shutSince # Never =>
    /\ shutSince <= now
    /\ windowStart <= shutSince + RequestTimeout
    /\ \A c \in Calls : pc[c] \in Flying => begun[c] <= shutSince

LEMMA ShutOutInit == Init => ShutOut
  BY DEF Init, ShutOut

LEMMA ShutOutStep ==
  TypeInv /\ Evidence /\ Flights /\ ShutOut /\ [Next]_vars => ShutOut'
  <1>. SUFFICES ASSUME TypeInv, Evidence, Flights, ShutOut, [Next]_vars PROVE ShutOut'
    OBVIOUS
  <1>0. /\ now \in Nat /\ shutSince \in Nat \cup {-1} /\ windowStart \in Nat
        /\ begun \in [Calls -> Nat] /\ RequestTimeout \in Nat
        /\ pc \in [Calls -> {"idle", "gossip", "local", "fetch", "probing"}]
        /\ windowStart <= now
    BY LimitsAssumption
       DEF TypeInv, BackpressureTypeOK, Time, Stamp, Never, LimitsAssumption, Flying, Evidence
  <1>. USE DEF Never, Flying
  <1>1. ASSUME NEW c \in Calls, Decide(c) PROVE ShutOut'
    <2>1. CASE ThrottleByGossip(c)
      BY <1>0, <2>1 DEF ThrottleByGossip, Answer, record, ShutOut
    <2>2. CASE Pass(c)
      BY <2>2 DEF Pass, Depart, ShutOut
    <2>3. CASE PassAsProbe(c)
      BY <2>3 DEF PassAsProbe, Depart, ShutOut
    <2>4. CASE ThrottleLocally(c)
      BY <1>0, <2>4 DEF ThrottleLocally, Answer, StillShut, ShutOut, Flights
    <2>. QED
      BY <1>1, <2>1, <2>2, <2>3, <2>4 DEF Decide
  <1>2. ASSUME NEW c \in Calls, Outcome(c) PROVE ShutOut'
    <2>1. CASE FetchSucceeds(c)
      BY <2>1 DEF FetchSucceeds, ShutOut
    <2>2. CASE FetchFails(c)
      <3>1. windowStart' = now \/ windowStart' = windowStart
        BY <2>2 DEF FetchFails, StartNow
      <3>2. now - begun[c] <= RequestTimeout
        BY <2>2 DEF FetchFails, Flights
      <3>. QED
        BY <1>0, <2>2, <3>1, <3>2 DEF FetchFails, Return, Answer, ShutOut
    <2>3. CASE Drop(c)
      BY <1>0, <2>3 DEF Drop, Return, Answer, record, ShutOut
    <2>. QED
      BY <1>2, <2>1, <2>2, <2>3 DEF Outcome
  <1>3. ASSUME NEW o \in BOOLEAN, NEW at \in 0..now, ReceiveGossip(o, at) PROVE ShutOut'
    BY <1>3 DEF ReceiveGossip, record, ShutOut
  <1>4. CASE Reset
    BY <1>4 DEF Reset, ShutOut
  <1>5. CASE Tick
    BY <1>0, <1>5 DEF Tick, record, ShutOut
  <1>6. CASE UNCHANGED vars
    BY <1>6 DEF vars, record, ShutOut
  <1>. QED
    BY <1>1, <1>2, <1>3, <1>4, <1>5, <1>6 DEF Next

\* Local refusals by should_throttle end at most Window + RequestTimeout after
\* the first, although probes are not sent under steady traffic.
THEOREM LockOutEnds == Spec => ShutOutBounded
  <1>1. ASSUME TypeInv, Evidence, ShutOut, NEW c \in Calls, ThrottleLocally(c),
               shutSince # Never
        PROVE  now - shutSince <= Window + RequestTimeout
    <2>1. Shut
      BY <1>1 DEF ThrottleLocally
    <2>2. now - windowStart <= Window /\ now \in Nat /\ windowStart \in Nat
      BY <1>1, <2>1, ShutMeans
    <2>3. shutSince \in Nat /\ Window \in Nat /\ RequestTimeout \in Nat
      BY <1>1, LimitsAssumption
         DEF LimitsAssumption, TypeInv, BackpressureTypeOK, Stamp, Time, Never
    <2>. QED
      BY <1>1, <2>2, <2>3 DEF ShutOut
  <1>2. TypeInv /\ Evidence /\ ShutOut /\ [Next]_vars =>
          [\A c \in Calls : ThrottleLocally(c) /\ shutSince # Never =>
             now - shutSince <= Window + RequestTimeout]_vars
    BY <1>1
  <1>3. ProbeInv => Flights
    BY DEF ProbeInv
  <1>. QED
    BY <1>2, <1>3, TypeInit, TypeStep, EvidenceInit, EvidenceStep, ProbeInit, ProbeStep,
       ShutOutInit, ShutOutStep, PTL DEF Spec, ShutOutBounded
=============================================================================
