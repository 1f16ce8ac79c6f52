-------------------------- MODULE FaultInjectorProofs --------------------------
(***************************************************************************)
(* What FaultInjector promises for every finite set of requests, every set *)
(* of peers and every length of a ramp.                                    *)
(***************************************************************************)
EXTENDS FaultInjector, FiniteSetTheorems, TLAPS

OnRules == {"addInput", "addOutput", "delInput", "delOutput"}

\* Handlers between two commands about a peer have it in hand; a stray iptables
\* command means that the books are not tidy.
Placed ==
  /\ \A h \in Handlers :
       /\ pc[h] \in {"addInput", "delInput"} => left[h] # {}
       /\ pc[h] \in {"addOutput", "record", "delOutput"} => peer[h] \in left[h]
       /\ pc[h] = "spawn" => request[h] = "slow-degradation"
       /\ request[h] = "slow-degradation" /\ Active(h) => pc[h] \in {"tcDel", "tcAdd", "spawn"}
  /\ \A s \in stray : s.cmd \in OnRules => ~tidy /\ s.peer \in Peers

TypeInv == FaultTypeOK /\ Placed

\* The rules a command leaves behind.
LEMMA EffectTypes ==
  ASSUME FaultTypeOK, NEW cmd, NEW p, Effect(cmd, p),
         cmd \in OnRules => p \in Peers
  PROVE  /\ rules' \in [Chains -> [Peers -> Nat]]
         /\ qdisc' \in {"none", "fault", "delay"}
  <1>1. CASE \E chain \in Chains :
               /\ \/ /\ cmd = (IF chain = "INPUT" THEN "addInput" ELSE "addOutput")
                     /\ rules' = Changed(chain, p, rules[chain][p] + 1)
                  \/ /\ cmd = (IF chain = "INPUT" THEN "delInput" ELSE "delOutput")
                     /\ rules' = IF rules[chain][p] = 0 THEN rules
                                   ELSE Changed(chain, p, rules[chain][p] - 1)
               /\ UNCHANGED qdisc
    <2>1. PICK chain \in Chains :
               /\ \/ /\ cmd = (IF chain = "INPUT" THEN "addInput" ELSE "addOutput")
                     /\ rules' = Changed(chain, p, rules[chain][p] + 1)
                  \/ /\ cmd = (IF chain = "INPUT" THEN "delInput" ELSE "delOutput")
                     /\ rules' = IF rules[chain][p] = 0 THEN rules
                                   ELSE Changed(chain, p, rules[chain][p] - 1)
               /\ UNCHANGED qdisc
      BY <1>1
    <2>2. p \in Peers
      BY <2>1 DEF OnRules
    <2>3. rules[chain][p] \in Nat
      BY <2>2 DEF FaultTypeOK
    <2>4. \A n \in Nat : Changed(chain, p, n) \in [Chains -> [Peers -> Nat]]
      BY <2>2 DEF Changed, FaultTypeOK
    <2>5. rules[chain][p] + 1 \in Nat /\ (rules[chain][p] # 0 => rules[chain][p] - 1 \in Nat)
      BY <2>3
    <2>. QED
      BY <2>1, <2>4, <2>5 DEF FaultTypeOK
  <1>2. CASE cmd = "tcDel" /\ qdisc' = "none" /\ UNCHANGED rules
    BY <1>2 DEF FaultTypeOK
  <1>3. CASE /\ cmd = "tcAdd"
             /\ qdisc' = IF qdisc = "none" THEN "fault" ELSE qdisc
             /\ UNCHANGED rules
    BY <1>3 DEF FaultTypeOK
  <1>4. CASE cmd = "replace" /\ qdisc' = "delay" /\ UNCHANGED rules
    BY <1>4 DEF FaultTypeOK
  <1>. QED
    BY <1>1, <1>2, <1>3, <1>4 DEF Effect

LEMMA RunTypes ==
  ASSUME FaultTypeOK, NEW cmd, NEW p, Run(cmd, p),
         cmd \in OnRules => p \in Peers
  PROVE  /\ rules' \in [Chains -> [Peers -> Nat]]
         /\ qdisc' \in {"none", "fault", "delay"}
         /\ tidy' \in BOOLEAN
         /\ tidy' => tidy
  <1>1. tidy' \in BOOLEAN /\ (tidy' => tidy)
    <2>1. tidy' = tidy \/ tidy' = (tidy /\ p = None)
      BY DEF Run
    <2>2. tidy \in BOOLEAN
      BY DEF FaultTypeOK
    <2>3. CASE tidy' = tidy
      BY <2>2, <2>3
    <2>4. CASE tidy' = (tidy /\ p = None)
      <3>1. (tidy /\ p = None) \in BOOLEAN
        OBVIOUS
      <3>2. (tidy /\ p = None) => tidy
        OBVIOUS
      <3>3. PICK b : b = (tidy /\ p = None)
        OBVIOUS
      <3>4. b \in BOOLEAN /\ (b => tidy) /\ tidy' = b
        BY <2>4, <3>1, <3>2, <3>3
      <3>. QED
        BY <3>4
    <2>. QED
      BY <2>1, <2>3, <2>4
  <1>2. CASE Effect(cmd, p)
    BY <1>1, <1>2, EffectTypes
  <1>3. CASE UNCHANGED kernel
    BY <1>1, <1>3 DEF FaultTypeOK, kernel
  <1>. QED
    BY <1>2, <1>3 DEF Run

\* Aborting ends a task and leaves at most a stray replace.
LEMMA AbortTypes ==
  ASSUME FaultTypeOK, TakeAndAbort
  PROVE  /\ handle' = None
         /\ ramp' \in [Handlers -> 0..RampSteps]
         /\ \A h \in Handlers : ramp'[h] = ramp[h] \/ ramp'[h] = 0
         /\ \A h \in Handlers : handle = h => ramp'[h] = 0
         /\ stray' \subseteq [by : Handlers, cmd : Commands \cup {"replace"},
                              peer : Peers \cup {None}]
         /\ \A s \in stray' : s \in stray \/ s.cmd = "replace"
  <1>. USE RampAssumption, NoneAssumption DEF RampAssumption, NoneAssumption, FaultTypeOK
  <1>1. CASE handle = None
    BY <1>1 DEF TakeAndAbort
  <1>2. CASE handle # None
    <2>1. handle \in Handlers /\ handle' = None
      BY <1>2 DEF TakeAndAbort
    <2>2. ramp' = [ramp EXCEPT ![handle] = 0]
      BY <1>2 DEF TakeAndAbort
    <2>3. stray' = stray \/ stray' = stray \cup {[by |-> handle, cmd |-> "replace", peer |-> None]}
      BY <1>2 DEF TakeAndAbort
    <2>4. ramp' \in [Handlers -> 0..RampSteps]
      BY <2>1, <2>2
    <2>. QED
      BY <2>1, <2>2, <2>3, <2>4
  <1>. QED
    BY <1>1, <1>2

-----------------------------------------------------------------------------
(* Types.                                                                    *)

LEMMA TypeInit == Init => TypeInv
  <1>. SUFFICES ASSUME Init PROVE FaultTypeOK /\ Placed
    BY DEF TypeInv
  <1>1. FaultTypeOK
    <2>1. rules \in [Chains -> [Peers -> Nat]]
      BY DEF Init
    <2>2. ramp \in [Handlers -> 0..RampSteps]
      BY RampAssumption DEF RampAssumption, Init
    <2>3. pc \in [Handlers -> Steps]
      BY DEF Init, Steps
    <2>. QED
      BY <2>1, <2>2, <2>3 DEF Init, FaultTypeOK
  <1>2. Placed
    BY DEF Init, Placed, Active
  <1>. QED
    BY <1>1, <1>2

LEMMA TypeStep == TypeInv /\ [Next]_vars => TypeInv'
  <1>. SUFFICES ASSUME TypeInv, [Next]_vars PROVE TypeInv'
    OBVIOUS
  <1>. USE DEF TypeInv
  <1>1. ASSUME NEW h \in Handlers, NEW what \in Requests, Inject(h, what)
        PROVE  TypeInv'
    <2>1. CASE /\ what \in {"tc", "slow-degradation"}
               /\ TakeAndAbort
               /\ Goes(h, "tcDel")
               /\ recovering' = {}
               /\ cleared' = FALSE
               /\ rival' = (rival \/ (what = "slow-degradation" /\ \E g \in Handlers : Degrading(g)))
               /\ UNCHANGED left
      <3>1. FaultTypeOK'
        BY <1>1, <2>1, AbortTypes DEF Inject, FaultTypeOK, Goes, Steps, Commands, kernel
      <3>2. Placed'
        BY <1>1, <2>1, AbortTypes DEF Inject, FaultTypeOK, Placed, Goes, Active, OnRules
      <3>. QED
        BY <3>1, <3>2
    <2>2. CASE /\ what = "network-partition"
               /\ \E ips \in SUBSET Peers :
                    /\ left' = [left EXCEPT ![h] = ips]
                    /\ Goes(h, IF ips = {} THEN "done" ELSE "addInput")
               /\ UNCHANGED <<handle, ramp, stray, rival, recovering, cleared>>
      <3>1. FaultTypeOK'
        BY <1>1, <2>2 DEF Inject, FaultTypeOK, Goes, Steps, Commands, kernel
      <3>2. Placed'
        BY <1>1, <2>2 DEF Inject, FaultTypeOK, Placed, Goes, Active, OnRules
      <3>. QED
        BY <3>1, <3>2
    <2>. QED
      BY <1>1, <2>1, <2>2 DEF Inject
  <1>2. ASSUME NEW h \in Handlers, NEW what \in Requests, Recover(h, what)
        PROVE  TypeInv'
    <2>1. CASE what \in {"recover", "recover-tc"}
      <3>0. TakeAndAbort /\ Goes(h, "tcDel") /\ recovering' \subseteq Handlers
        BY <1>2, <2>1 DEF Recover, FaultTypeOK
      <3>1. FaultTypeOK'
        BY <1>2, <3>0, AbortTypes DEF Recover, FaultTypeOK, Goes, Steps, Commands, kernel
      <3>2. Placed'
        BY <1>2, <2>1, <3>0, AbortTypes DEF Recover, FaultTypeOK, Placed, Goes, Active, OnRules
      <3>. QED
        BY <3>1, <3>2
    <2>2. CASE what \notin {"recover", "recover-tc"}
      <3>1. FaultTypeOK'
        BY <1>2, <2>2 DEF Recover, FaultTypeOK, Goes, Steps, Commands, kernel
      <3>2. Placed'
        BY <1>2, <2>2 DEF Recover, FaultTypeOK, Placed, Goes, Active, OnRules
      <3>. QED
        BY <3>1, <3>2
    <2>. QED
      BY <2>1, <2>2
  <1>3. ASSUME NEW h \in Handlers, HandlerStep(h) PROVE TypeInv'
    <2>1. CASE TcDel(h)
      <3>0. /\ rules' \in [Chains -> [Peers -> Nat]]
            /\ qdisc' \in {"none", "fault", "delay"}
            /\ tidy' \in BOOLEAN
            /\ tidy' => tidy
        BY <2>1, RunTypes DEF TcDel, OnRules
      <3>1. FaultTypeOK'
        BY <2>1, <3>0 DEF TcDel, AfterTcDel, FaultTypeOK, Goes, Steps, Commands, books
      <3>2. Placed'
        BY <2>1, <3>0 DEF TcDel, AfterTcDel, InjectsTc, FaultTypeOK, Placed, Goes, Active
      <3>. QED
        BY <3>1, <3>2
    <2>2. CASE TcAdd(h)
      <3>0. /\ rules' \in [Chains -> [Peers -> Nat]]
            /\ qdisc' \in {"none", "fault", "delay"}
            /\ tidy' \in BOOLEAN
            /\ tidy' => tidy
        BY <2>2, RunTypes DEF TcAdd, OnRules
      <3>1. FaultTypeOK'
        BY <2>2, <3>0 DEF TcAdd, FaultTypeOK, Goes, Steps, Commands, books
      <3>2. Placed'
        BY <2>2, <3>0 DEF TcAdd, FaultTypeOK, Placed, Goes, Active
      <3>. QED
        BY <3>1, <3>2
    <2>3. CASE Spawn(h)
      <3>1. FaultTypeOK'
        BY <2>3, RampAssumption
           DEF RampAssumption, Spawn, FaultTypeOK, Goes, Steps, Commands, kernel, history
      <3>2. Placed'
        BY <2>3 DEF Spawn, FaultTypeOK, Placed, Goes, Active, history
      <3>. QED
        BY <3>1, <3>2
    <2>4. CASE AddInput(h)
      <3>0. PICK p \in left[h] : Run("addInput", p) /\ peer' = [peer EXCEPT ![h] = p]
        BY <2>4 DEF AddInput
      <3>1. p \in Peers
        BY DEF FaultTypeOK
      <3>2. /\ rules' \in [Chains -> [Peers -> Nat]]
            /\ qdisc' \in {"none", "fault", "delay"}
            /\ tidy' \in BOOLEAN
            /\ tidy' => tidy
        BY <3>0, <3>1, RunTypes
      <3>3. FaultTypeOK'
        BY <2>4, <3>0, <3>1, <3>2 DEF AddInput, FaultTypeOK, Goes, Steps, Commands, books
      <3>4. Placed'
        BY <2>4, <3>0, <3>2 DEF AddInput, FaultTypeOK, Placed, Goes, Active
      <3>. QED
        BY <3>3, <3>4
    <2>5. CASE AddOutput(h)
      <3>1. peer[h] \in Peers
        BY <2>5 DEF AddOutput, FaultTypeOK, Placed
      <3>2. /\ rules' \in [Chains -> [Peers -> Nat]]
            /\ qdisc' \in {"none", "fault", "delay"}
            /\ tidy' \in BOOLEAN
            /\ tidy' => tidy
        BY <2>5, <3>1, RunTypes DEF AddOutput
      <3>3. FaultTypeOK'
        BY <2>5, <3>2 DEF AddOutput, FaultTypeOK, Goes, Steps, Commands, books
      <3>4. Placed'
        BY <2>5, <3>2 DEF AddOutput, FaultTypeOK, Placed, Goes, Active
      <3>. QED
        BY <3>3, <3>4
    <2>6. CASE Record(h)
      <3>1. peer[h] \in Peers
        BY <2>6 DEF Record, FaultTypeOK, Placed
      <3>2. FaultTypeOK'
        BY <2>6, <3>1 DEF Record, FaultTypeOK, Goes, Steps, Commands, kernel
      <3>3. Placed'
        BY <2>6 DEF Record, FaultTypeOK, Placed, Goes, Active
      <3>. QED
        BY <3>2, <3>3
    <2>7. CASE Drain(h)
      <3>1. FaultTypeOK'
        BY <2>7 DEF Drain, FaultTypeOK, Goes, Steps, Commands, kernel, history
      <3>2. Placed'
        BY <2>7 DEF Drain, FaultTypeOK, Placed, Goes, Active, history
      <3>. QED
        BY <3>1, <3>2
    <2>8. CASE DelInput(h)
      <3>0. PICK p \in left[h] : Run("delInput", p) /\ peer' = [peer EXCEPT ![h] = p]
        BY <2>8 DEF DelInput
      <3>1. p \in Peers
        BY DEF FaultTypeOK
      <3>2. /\ rules' \in [Chains -> [Peers -> Nat]]
            /\ qdisc' \in {"none", "fault", "delay"}
            /\ tidy' \in BOOLEAN
            /\ tidy' => tidy
        BY <3>0, <3>1, RunTypes
      <3>3. FaultTypeOK'
        BY <2>8, <3>0, <3>1, <3>2 DEF DelInput, FaultTypeOK, Goes, Steps, Commands, books
      <3>4. Placed'
        BY <2>8, <3>0, <3>2 DEF DelInput, FaultTypeOK, Placed, Goes, Active
      <3>. QED
        BY <3>3, <3>4
    <2>9. CASE DelOutput(h)
      <3>1. peer[h] \in Peers
        BY <2>9 DEF DelOutput, FaultTypeOK, Placed
      <3>2. /\ rules' \in [Chains -> [Peers -> Nat]]
            /\ qdisc' \in {"none", "fault", "delay"}
            /\ tidy' \in BOOLEAN
            /\ tidy' => tidy
        BY <2>9, <3>1, RunTypes DEF DelOutput
      <3>3. FaultTypeOK'
        BY <2>9, <3>2 DEF DelOutput, FaultTypeOK, Goes, Steps, Commands, books
      <3>4. Placed'
        BY <2>9, <3>2 DEF DelOutput, FaultTypeOK, Placed, Goes, Active
      <3>. QED
        BY <3>3, <3>4
    <2>. QED
      BY <1>3, <2>1, <2>2, <2>3, <2>4, <2>5, <2>6, <2>7, <2>8, <2>9 DEF HandlerStep
  <1>4. ASSUME NEW h \in Handlers, Drop(h) PROVE TypeInv'
    <2>0. \/ stray' = stray
          \/ \E p \in Peers \cup {None} :
               /\ stray' = stray \cup {[by |-> h, cmd |-> pc[h], peer |-> p]}
               /\ pc[h] \in OnRules => p \in Peers
      BY <1>4 DEF Drop, FaultTypeOK, Placed, OnRules
    <2>1. /\ stray' \subseteq [by : Handlers, cmd : Commands \cup {"replace"},
                               peer : Peers \cup {None}]
          /\ \A s \in stray' : s \in stray \/ (s.cmd = pc[h] /\ (s.cmd \in OnRules => s.peer \in Peers))
      BY <1>4, <2>0 DEF Drop, FaultTypeOK
    <2>2. tidy' = (tidy /\ pc[h] \in {"tcDel", "tcAdd"})
      BY <1>4 DEF Drop
    <2>3. FaultTypeOK'
      BY <1>4, <2>1, <2>2 DEF Drop, FaultTypeOK, Goes, Steps, kernel, books
    <2>4. Placed'
      BY <1>4, <2>1, <2>2 DEF Drop, FaultTypeOK, Placed, Goes, Active, OnRules
    <2>. QED
      BY <2>3, <2>4
  <1>5. ASSUME NEW h \in Handlers, RampStep(h) PROVE TypeInv'
    <2>1. rules' \in [Chains -> [Peers -> Nat]] /\ qdisc' \in {"none", "fault", "delay"}
      BY <1>5, EffectTypes DEF RampStep, FaultTypeOK, kernel, OnRules
    <2>2. ramp' \in [Handlers -> 0..RampSteps]
      BY <1>5, RampAssumption DEF RampAssumption, RampStep, FaultTypeOK
    <2>. QED
      BY <1>5, <2>1, <2>2 DEF RampStep, FaultTypeOK, Placed, Active, books, tasks, history
  <1>6. ASSUME NEW s \in stray, Land(s) PROVE TypeInv'
    <2>1. rules' \in [Chains -> [Peers -> Nat]] /\ qdisc' \in {"none", "fault", "delay"}
      BY <1>6, EffectTypes DEF Land, Placed
    <2>. QED
      BY <1>6, <2>1 DEF Land, FaultTypeOK, Placed, Active, books, tasks, history
  <1>7. CASE UNCHANGED vars
    BY <1>7 DEF vars, kernel, books, tasks, history, FaultTypeOK, Placed, Active
  <1>. QED
    BY <1>1, <1>2, <1>3, <1>4, <1>5, <1>6, <1>7 DEF Next

\* Type correctness of the injector's books, the kernel's state and the handlers
\* (faults/mod.rs).
THEOREM FaultTypes == Spec => []FaultTypeOK
  <1>1. TypeInv => FaultTypeOK
    BY DEF TypeInv
  <1>. QED
    BY <1>1, TypeInit, TypeStep, PTL DEF Spec

-----------------------------------------------------------------------------
(* The ramp.                                                                 *)

\* Without rivals, one injection of slow-degradation is under way at most, and
\* none of the ramps has survived its first step.
RampInv ==
  ~rival =>
    /\ \A h \in Handlers : ramp[h] > 0 => handle = h
    /\ \A g, h \in Handlers : Degrading(g) /\ Degrading(h) => g = h
    /\ \A g, h \in Handlers : Degrading(g) => ramp[h] = 0

LEMMA RampInit == Init => RampInv
  BY DEF Init, RampInv, Degrading, Active

LEMMA RampInvStep == TypeInv /\ RampInv /\ [Next]_vars => RampInv'
  <1>. SUFFICES ASSUME TypeInv, RampInv, [Next]_vars, ~rival' PROVE RampInv'
    BY DEF RampInv
  <1>0. /\ pc \in [Handlers -> Steps] /\ request \in [Handlers -> Requests \cup {None}]
        /\ ramp \in [Handlers -> 0..RampSteps] /\ RampSteps \in Nat
        /\ None \notin Handlers
    BY RampAssumption, NoneAssumption DEF TypeInv, FaultTypeOK, RampAssumption, NoneAssumption
  <1>1. ASSUME NEW h \in Handlers, NEW what \in Requests, Inject(h, what) PROVE RampInv'
    <2>1. CASE what \in {"tc", "slow-degradation"}
      <3>1. TakeAndAbort /\ Goes(h, "tcDel") /\ ~rival
            /\ (what = "slow-degradation" => \A g \in Handlers : ~Degrading(g))
        BY <1>1, <2>1 DEF Inject
      <3>2. \A g \in Handlers : ramp'[g] = 0
        BY <1>0, <3>1, AbortTypes DEF RampInv, TypeInv
      <3>3. \A g \in Handlers : g # h => Degrading(g)' = Degrading(g)
        BY <1>0, <1>1, <3>1 DEF Inject, Goes, Degrading, Active
      <3>4. Degrading(h)' => what = "slow-degradation"
        BY <1>0, <1>1 DEF Inject, Degrading
      <3>. QED
        BY <3>1, <3>2, <3>3, <3>4 DEF RampInv
    <2>2. CASE what \notin {"tc", "slow-degradation"}
      BY <1>0, <1>1, <2>2 DEF Inject, Goes, Degrading, Active, RampInv
    <2>. QED
      BY <2>1, <2>2
  <1>2. ASSUME NEW h \in Handlers, NEW what \in Requests, Recover(h, what) PROVE RampInv'
    <2>0. ~rival
      BY <1>2 DEF Recover
    <2>1. \A g \in Handlers : Degrading(g)' => Degrading(g)
      BY <1>0, <1>2 DEF Recover, Goes, Degrading, Active
    <2>2. CASE what \in {"recover", "recover-tc"}
      <3>1. \A g \in Handlers : ramp'[g] = 0
        BY <1>0, <1>2, <2>0, <2>2, AbortTypes DEF Recover, RampInv, TypeInv
      <3>. QED
        BY <2>0, <2>1, <3>1 DEF RampInv
    <2>3. CASE what \notin {"recover", "recover-tc"}
      BY <1>2, <2>0, <2>1, <2>3 DEF Recover, RampInv
    <2>. QED
      BY <2>2, <2>3
  <1>3. ASSUME NEW h \in Handlers, Spawn(h) PROVE RampInv'
    <2>1. ~rival /\ Degrading(h)
      BY <1>3 DEF Spawn, history, TypeInv, Placed, Degrading, Active
    <2>2. ramp' = [ramp EXCEPT ![h] = RampSteps] /\ handle' = h
      BY <1>3 DEF Spawn
    <2>3. \A g \in Handlers : ~Degrading(g)'
      BY <1>0, <1>3, <2>1 DEF Spawn, Goes, Degrading, Active, RampInv
    <2>. QED
      BY <1>0, <2>1, <2>2, <2>3 DEF RampInv
  <1>4. ASSUME NEW h \in Handlers, HandlerStep(h) \/ Drop(h), ~Spawn(h) PROVE RampInv'
    <2>1. UNCHANGED <<rival, handle, ramp, request>> /\ pc[h] # "idle"
          /\ \E step : pc' = [pc EXCEPT ![h] = step]
      BY <1>4 DEF HandlerStep, Drop, TcDel, TcAdd, AddInput, AddOutput, Record, Drain, DelInput,
                  DelOutput, Goes, books, history, Commands
    <2>2. \A g \in Handlers : Degrading(g)' => Degrading(g)
      <3>1. pc[h] # "done"
        BY <1>4 DEF HandlerStep, Drop, TcDel, TcAdd, AddInput, AddOutput, Record, Drain, DelInput,
                    DelOutput, Commands
      <3>. QED
        BY <1>0, <2>1, <3>1 DEF Degrading, Active
    <2>. QED
      BY <2>1, <2>2 DEF RampInv
  <1>5. ASSUME NEW h \in Handlers, RampStep(h) PROVE RampInv'
    BY <1>0, <1>5 DEF RampStep, books, tasks, history, RampInv, Degrading, Active
  <1>6. ASSUME NEW s \in stray, Land(s) PROVE RampInv'
    BY <1>6 DEF Land, books, tasks, history, RampInv, Degrading, Active
  <1>7. CASE UNCHANGED vars
    BY <1>7 DEF vars, books, tasks, history, RampInv, Degrading, Active
  <1>. QED
    BY <1>1, <1>2, <1>3, <1>4, <1>5, <1>6, <1>7 DEF Next

\* While no two slow-degradation injections overlap, the handle of the injector
\* reaches the only ramp there is (mod.rs:102-114, 306-311).
THEOREM RampReachable == Spec => []RampHeld
  <1>1. RampInv => RampHeld
    BY DEF RampInv, RampHeld
  <1>. QED
    BY <1>1, TypeInit, TypeStep, RampInit, RampInvStep, PTL DEF Spec

-----------------------------------------------------------------------------
(* The rules.                                                                *)

LEMMA SetsFinite ==
  ASSUME NEW chain, NEW p
  PROVE  /\ IsFiniteSet(Unrecorded(chain, p)) /\ Cardinality(Unrecorded(chain, p)) \in Nat
         /\ IsFiniteSet(ToDelete(chain, p)) /\ Cardinality(ToDelete(chain, p)) \in Nat
  <1>1. Unrecorded(chain, p) \subseteq Handlers /\ ToDelete(chain, p) \subseteq Handlers
    BY DEF Unrecorded, ToDelete
  <1>. QED
    BY <1>1, HandlersAssumption, FS_Subset, FS_CardinalityType DEF HandlersAssumption

LEMMA NobodyYet ==
  ASSUME Init, NEW chain, NEW p
  PROVE  Unrecorded(chain, p) = {} /\ ToDelete(chain, p) = {}
  BY DEF Init, Unrecorded, ToDelete

LEMMA RulesInit == Init => RulesAccounted
  <1>. SUFFICES ASSUME Init, NEW chain \in Chains, NEW p \in Peers
                PROVE  rules[chain][p] = (IF p \in blocked THEN 1 ELSE 0)
                                           + Cardinality(Unrecorded(chain, p))
                                           + Cardinality(ToDelete(chain, p))
    BY DEF RulesAccounted
  <1>1. rules[chain][p] = 0 /\ p \notin blocked
    BY DEF Init
  <1>2. Cardinality(Unrecorded(chain, p)) = 0 /\ Cardinality(ToDelete(chain, p)) = 0
    BY NobodyYet, FS_EmptySet
  <1>. QED
    BY <1>1, <1>2

\* Where a step leaves the peers in hand alone, so it leaves what is owed.
Untouched(chain, p) ==
  /\ Unrecorded(chain, p)' = Unrecorded(chain, p)
  /\ ToDelete(chain, p)' = ToDelete(chain, p)

LEMMA TcLeavesRules ==
  ASSUME FaultTypeOK, NEW cmd, cmd \notin OnRules, Effect(cmd, None)
  PROVE  rules' = rules
  BY DEF Effect, OnRules

\* The four iptables commands, when they succeed.
LEMMA RuleEffects ==
  ASSUME FaultTypeOK, NEW p \in Peers
  PROVE  /\ Effect("addInput", p) => rules' = Changed("INPUT", p, rules["INPUT"][p] + 1)
         /\ Effect("addOutput", p) => rules' = Changed("OUTPUT", p, rules["OUTPUT"][p] + 1)
         /\ Effect("delInput", p) /\ rules["INPUT"][p] # 0 =>
              rules' = Changed("INPUT", p, rules["INPUT"][p] - 1)
         /\ Effect("delOutput", p) /\ rules["OUTPUT"][p] # 0 =>
              rules' = Changed("OUTPUT", p, rules["OUTPUT"][p] - 1)
  BY DEF Effect, Chains

\* While the books are tidy, a command about a peer has succeeded.
LEMMA TidyRun ==
  ASSUME FaultTypeOK, NEW cmd, NEW p \in Peers, Run(cmd, p), tidy'
  PROVE  tidy /\ Effect(cmd, p)
  BY NoneAssumption DEF NoneAssumption, Run

LEMMA TidyTcRun ==
  ASSUME FaultTypeOK, NEW cmd, cmd \notin OnRules, Run(cmd, None), tidy'
  PROVE  tidy /\ rules' = rules
  BY TcLeavesRules DEF Run, kernel

\* What the sum of the books says, by itself.
Owed(chain, p) ==
  (IF p \in blocked THEN 1 ELSE 0) + Cardinality(Unrecorded(chain, p))
                                    + Cardinality(ToDelete(chain, p))

LEMMA RulesStep == TypeInv /\ RulesAccounted /\ [Next]_vars => RulesAccounted'
  <1>. SUFFICES ASSUME TypeInv, RulesAccounted, [Next]_vars, tidy',
                       NEW chain \in Chains, NEW q \in Peers
                PROVE  rules'[chain][q] = Owed(chain, q)'
    BY DEF RulesAccounted, Owed
  <1>. DEFINE U == Unrecorded(chain, q)
  <1>. DEFINE D == ToDelete(chain, q)
  <1>t. /\ pc \in [Handlers -> Steps] /\ left \in [Handlers -> SUBSET Peers]
        /\ peer \in [Handlers -> Peers \cup {None}] /\ blocked \subseteq Peers
        /\ rules \in [Chains -> [Peers -> Nat]] /\ None \notin Peers
        /\ chain \in {"INPUT", "OUTPUT"}
    BY NoneAssumption DEF TypeInv, FaultTypeOK, NoneAssumption, Chains
  <1>f. /\ IsFiniteSet(U) /\ Cardinality(U) \in Nat
        /\ IsFiniteSet(D) /\ Cardinality(D) \in Nat
    BY SetsFinite
  <1>a. tidy => rules[chain][q] = Owed(chain, q)
    BY DEF RulesAccounted, Owed
  <1>s. ASSUME tidy, rules' = rules, blocked' = blocked, Untouched(chain, q)
        PROVE  rules'[chain][q] = Owed(chain, q)'
    BY <1>a, <1>s DEF Owed, Untouched
  <1>1. ASSUME NEW h \in Handlers, NEW what \in Requests, Inject(h, what) \/ Recover(h, what)
        PROVE  rules'[chain][q] = Owed(chain, q)'
    <2>1. /\ tidy /\ rules' = rules /\ blocked' = blocked /\ peer' = peer
          /\ pc[h] = "idle"
          /\ \E step \in {"tcDel", "done", "addInput", "drain"} : pc' = [pc EXCEPT ![h] = step]
          /\ \A g \in Handlers : g # h => left'[g] = left[g]
      BY <1>1, <1>t DEF Inject, Recover, Goes, kernel, history
    <2>2. Untouched(chain, q)
      BY <1>t, <2>1 DEF Untouched, Unrecorded, ToDelete
    <2>. QED
      BY <1>s, <2>1, <2>2
  <1>2. ASSUME NEW h \in Handlers, TcDel(h) \/ TcAdd(h) \/ Spawn(h)
        PROVE  rules'[chain][q] = Owed(chain, q)'
    <2>1. tidy /\ rules' = rules
      BY <1>2, TidyTcRun DEF TcDel, TcAdd, Spawn, OnRules, TypeInv, kernel, history
    <2>2. /\ blocked' = blocked /\ peer' = peer /\ left' = left
          /\ pc[h] \in {"tcDel", "tcAdd", "spawn"}
          /\ \E step \in {"tcAdd", "done", "drain", "spawn"} : pc' = [pc EXCEPT ![h] = step]
      BY <1>2 DEF TcDel, TcAdd, Spawn, AfterTcDel, Goes, books
    <2>3. Untouched(chain, q)
      BY <1>t, <2>2 DEF Untouched, Unrecorded, ToDelete
    <2>. QED
      BY <1>s, <2>1, <2>2, <2>3
  <1>3. ASSUME NEW h \in Handlers, AddInput(h) PROVE rules'[chain][q] = Owed(chain, q)'
    <2>1. PICK p \in left[h] : Run("addInput", p) /\ peer' = [peer EXCEPT ![h] = p]
      BY <1>3 DEF AddInput
    <2>2. /\ pc[h] = "addInput" /\ pc' = [pc EXCEPT ![h] = "addOutput"]
          /\ left' = left /\ blocked' = blocked /\ p \in Peers
      BY <1>3, <1>t DEF AddInput, Goes, books
    <2>3. tidy /\ rules' = Changed("INPUT", p, rules["INPUT"][p] + 1)
      BY <2>1, <2>2, TidyRun, RuleEffects DEF TypeInv
    <2>4. D' = D
      BY <1>t, <2>1, <2>2 DEF ToDelete
    <2>5. h \notin U
      BY <2>2 DEF Unrecorded
    <2>6. U' = IF chain = "INPUT" /\ q = p THEN U \cup {h} ELSE U
      BY <1>t, <2>1, <2>2 DEF Unrecorded
    <2>7. rules'[chain][q] = rules[chain][q] + (IF chain = "INPUT" /\ q = p THEN 1 ELSE 0)
      BY <1>t, <2>2, <2>3 DEF Changed, Chains
    <2>8. Cardinality(U') = Cardinality(U) + (IF chain = "INPUT" /\ q = p THEN 1 ELSE 0)
      <3>1. CASE chain = "INPUT" /\ q = p
        <4>1. U' = U \cup {h}
          BY <2>6, <3>1
        <4>2. Cardinality(U \cup {h}) = Cardinality(U) + 1
          BY <1>f, <2>5, <3>1, FS_AddElement
        <4>. QED
          BY <3>1, <4>1, <4>2
      <3>2. CASE ~(chain = "INPUT" /\ q = p)
        <4>1. U' = U
          BY <2>6, <3>2
        <4>. QED
          BY <1>f, <3>2, <4>1
      <3>. QED
        BY <3>1, <3>2
    <2>. QED
      BY <1>a, <1>f, <2>2, <2>3, <2>4, <2>7, <2>8 DEF Owed
  <1>4. ASSUME NEW h \in Handlers, AddOutput(h) PROVE rules'[chain][q] = Owed(chain, q)'
    <2>1. PICK p \in Peers : p = peer[h]
      BY <1>4, <1>t DEF AddOutput, TypeInv, Placed
    <2>2. /\ pc[h] = "addOutput" /\ pc' = [pc EXCEPT ![h] = "record"]
          /\ left' = left /\ blocked' = blocked /\ peer' = peer
          /\ Run("addOutput", p)
      BY <1>4, <2>1 DEF AddOutput, Goes, books
    <2>3. tidy /\ rules' = Changed("OUTPUT", p, rules["OUTPUT"][p] + 1)
      BY <2>2, TidyRun, RuleEffects DEF TypeInv
    <2>4. D' = D
      BY <1>t, <2>2 DEF ToDelete
    <2>5. chain = "OUTPUT" => h \notin U
      BY <2>2 DEF Unrecorded
    <2>6. U' = IF chain = "OUTPUT" /\ q = p THEN U \cup {h} ELSE U
      BY <1>t, <2>1, <2>2 DEF Unrecorded
    <2>7. rules'[chain][q] = rules[chain][q] + (IF chain = "OUTPUT" /\ q = p THEN 1 ELSE 0)
      BY <1>t, <2>3 DEF Changed, Chains
    <2>8. Cardinality(U') = Cardinality(U) + (IF chain = "OUTPUT" /\ q = p THEN 1 ELSE 0)
      <3>1. CASE chain = "OUTPUT" /\ q = p
        <4>1. U' = U \cup {h}
          BY <2>6, <3>1
        <4>2. Cardinality(U \cup {h}) = Cardinality(U) + 1
          BY <1>f, <2>5, <3>1, FS_AddElement
        <4>. QED
          BY <3>1, <4>1, <4>2
      <3>2. CASE ~(chain = "OUTPUT" /\ q = p)
        <4>1. U' = U
          BY <2>6, <3>2
        <4>. QED
          BY <1>f, <3>2, <4>1
      <3>. QED
        BY <3>1, <3>2
    <2>. QED
      BY <1>a, <1>f, <2>2, <2>3, <2>4, <2>7, <2>8 DEF Owed
  <1>5. ASSUME NEW h \in Handlers, Record(h) PROVE rules'[chain][q] = Owed(chain, q)'
    <2>1. PICK p \in Peers : p = peer[h]
      BY <1>5, <1>t DEF Record, TypeInv, Placed
    <2>2. /\ tidy /\ rules' = rules /\ p \notin blocked /\ blocked' = blocked \cup {p}
          /\ pc[h] = "record" /\ peer' = [peer EXCEPT ![h] = None]
          /\ \E step \in {"done", "addInput"} : pc' = [pc EXCEPT ![h] = step]
          /\ \A g \in Handlers : g # h => left'[g] = left[g]
      BY <1>5, <1>t, <2>1 DEF Record, Goes, kernel
    <2>3. D' = D
      BY <1>t, <2>2 DEF ToDelete
    <2>4. U' = IF q = p THEN U \ {h} ELSE U
      BY <1>t, <2>1, <2>2 DEF Unrecorded
    <2>5. q = p => h \in U
      BY <2>1, <2>2 DEF Unrecorded
    <2>6. Cardinality(U') = Cardinality(U) - (IF q = p THEN 1 ELSE 0)
      <3>1. CASE q = p
        <4>1. U' = U \ {h}
          BY <2>4, <3>1
        <4>2. Cardinality(U \ {h}) = Cardinality(U) - 1
          BY <1>f, <2>5, <3>1, FS_RemoveElement
        <4>. QED
          BY <3>1, <4>1, <4>2
      <3>2. CASE q # p
        <4>1. U' = U
          BY <2>4, <3>2
        <4>. QED
          BY <1>f, <3>2, <4>1
      <3>. QED
        BY <3>1, <3>2
    <2>. QED
      BY <1>a, <1>f, <2>2, <2>3, <2>6 DEF Owed
  <1>6. ASSUME NEW h \in Handlers, Drain(h) PROVE rules'[chain][q] = Owed(chain, q)'
    <2>1. /\ tidy /\ rules' = rules /\ blocked' = {} /\ peer' = peer
          /\ pc[h] = "drain" /\ left' = [left EXCEPT ![h] = blocked]
          /\ pc' = [pc EXCEPT ![h] = IF blocked = {} THEN "done" ELSE "delInput"]
      BY <1>6 DEF Drain, Goes, kernel, history
    <2>2. U' = U
      BY <1>t, <2>1 DEF Unrecorded
    <2>3. h \notin D
      BY <2>1 DEF ToDelete
    <2>4. D' = IF q \in blocked THEN D \cup {h} ELSE D
      BY <1>t, <2>1 DEF ToDelete
    <2>5. Cardinality(D') = Cardinality(D) + (IF q \in blocked THEN 1 ELSE 0)
      <3>1. CASE q \in blocked
        <4>1. D' = D \cup {h}
          BY <2>4, <3>1
        <4>2. Cardinality(D \cup {h}) = Cardinality(D) + 1
          BY <1>f, <2>3, <3>1, FS_AddElement
        <4>. QED
          BY <3>1, <4>1, <4>2
      <3>2. CASE q \notin blocked
        <4>1. D' = D
          BY <2>4, <3>2
        <4>. QED
          BY <1>f, <3>2, <4>1
      <3>. QED
        BY <3>1, <3>2
    <2>. QED
      BY <1>a, <1>f, <2>1, <2>2, <2>5 DEF Owed
  <1>7. ASSUME NEW h \in Handlers, DelInput(h) PROVE rules'[chain][q] = Owed(chain, q)'
    <2>1. PICK p \in left[h] : Run("delInput", p) /\ peer' = [peer EXCEPT ![h] = p]
      BY <1>7 DEF DelInput
    <2>2. /\ pc[h] = "delInput" /\ pc' = [pc EXCEPT ![h] = "delOutput"]
          /\ left' = left /\ blocked' = blocked /\ p \in Peers
      BY <1>7, <1>t DEF DelInput, Goes, books
    <2>3. tidy /\ Effect("delInput", p)
      BY <2>1, <2>2, TidyRun DEF TypeInv
    <2>4. rules["INPUT"][p] # 0
      <3>1. h \in ToDelete("INPUT", p)
        BY <2>1, <2>2 DEF ToDelete
      <3>2. Cardinality(ToDelete("INPUT", p)) # 0
        BY <3>1, SetsFinite, FS_EmptySet
      <3>. QED
        BY <2>2, <2>3, <3>2, SetsFinite DEF RulesAccounted, Chains
    <2>5. rules' = Changed("INPUT", p, rules["INPUT"][p] - 1)
      BY <2>2, <2>3, <2>4, RuleEffects DEF TypeInv
    <2>6. U' = U
      BY <1>t, <2>1, <2>2 DEF Unrecorded
    <2>7. chain = "INPUT" /\ q = p => h \in D
      BY <2>1, <2>2 DEF ToDelete
    <2>8. D' = IF chain = "INPUT" /\ q = p THEN D \ {h} ELSE D
      BY <1>t, <2>1, <2>2 DEF ToDelete
    <2>9. rules'[chain][q] = rules[chain][q] - (IF chain = "INPUT" /\ q = p THEN 1 ELSE 0)
      BY <1>t, <2>2, <2>5 DEF Changed, Chains
    <2>10. Cardinality(D') = Cardinality(D) - (IF chain = "INPUT" /\ q = p THEN 1 ELSE 0)
      <3>1. CASE chain = "INPUT" /\ q = p
        <4>1. D' = D \ {h}
          BY <2>8, <3>1
        <4>2. Cardinality(D \ {h}) = Cardinality(D) - 1
          BY <1>f, <2>7, <3>1, FS_RemoveElement
        <4>. QED
          BY <3>1, <4>1, <4>2
      <3>2. CASE ~(chain = "INPUT" /\ q = p)
        <4>1. D' = D
          BY <2>8, <3>2
        <4>. QED
          BY <1>f, <3>2, <4>1
      <3>. QED
        BY <3>1, <3>2
    <2>. QED
      BY <1>a, <1>f, <2>2, <2>3, <2>6, <2>9, <2>10 DEF Owed
  <1>8. ASSUME NEW h \in Handlers, DelOutput(h) PROVE rules'[chain][q] = Owed(chain, q)'
    <2>1. PICK p \in Peers : p = peer[h]
      BY <1>8, <1>t DEF DelOutput, TypeInv, Placed
    <2>2. /\ pc[h] = "delOutput" /\ p \in left[h] /\ Run("delOutput", p)
          /\ left' = [left EXCEPT ![h] = left[h] \ {p}]
          /\ peer' = [peer EXCEPT ![h] = None]
          /\ pc' = [pc EXCEPT ![h] = IF left[h] = {p} THEN "done" ELSE "delInput"]
          /\ blocked' = blocked
      BY <1>8, <2>1 DEF DelOutput, Goes, books, TypeInv, Placed
    <2>3. tidy /\ Effect("delOutput", p)
      BY <2>2, TidyRun DEF TypeInv
    <2>4. rules["OUTPUT"][p] # 0
      <3>1. h \in ToDelete("OUTPUT", p)
        BY <2>2 DEF ToDelete
      <3>2. Cardinality(ToDelete("OUTPUT", p)) # 0
        BY <3>1, SetsFinite, FS_EmptySet
      <3>. QED
        BY <2>3, <3>2, SetsFinite DEF RulesAccounted, Chains
    <2>5. rules' = Changed("OUTPUT", p, rules["OUTPUT"][p] - 1)
      BY <2>3, <2>4, RuleEffects DEF TypeInv
    <2>6. U' = U
      BY <1>t, <2>1, <2>2 DEF Unrecorded
    <2>7. chain = "OUTPUT" /\ q = p => h \in D
      BY <2>1, <2>2 DEF ToDelete
    <2>8. D' = IF chain = "OUTPUT" /\ q = p THEN D \ {h} ELSE D
      BY <1>t, <2>1, <2>2 DEF ToDelete
    <2>9. rules'[chain][q] = rules[chain][q] - (IF chain = "OUTPUT" /\ q = p THEN 1 ELSE 0)
      BY <1>t, <2>5 DEF Changed, Chains
    <2>10. Cardinality(D') = Cardinality(D) - (IF chain = "OUTPUT" /\ q = p THEN 1 ELSE 0)
      <3>1. CASE chain = "OUTPUT" /\ q = p
        <4>1. D' = D \ {h}
          BY <2>8, <3>1
        <4>2. Cardinality(D \ {h}) = Cardinality(D) - 1
          BY <1>f, <2>7, <3>1, FS_RemoveElement
        <4>. QED
          BY <3>1, <4>1, <4>2
      <3>2. CASE ~(chain = "OUTPUT" /\ q = p)
        <4>1. D' = D
          BY <2>8, <3>2
        <4>. QED
          BY <1>f, <3>2, <4>1
      <3>. QED
        BY <3>1, <3>2
    <2>. QED
      BY <1>a, <1>f, <2>2, <2>3, <2>6, <2>9, <2>10 DEF Owed
  <1>9. ASSUME NEW h \in Handlers, Drop(h) PROVE rules'[chain][q] = Owed(chain, q)'
    <2>1. /\ tidy /\ pc[h] \in {"tcDel", "tcAdd"} /\ rules' = rules /\ blocked' = blocked
          /\ pc' = [pc EXCEPT ![h] = "done"]
          /\ \A g \in Handlers : g # h => left'[g] = left[g] /\ peer'[g] = peer[g]
      BY <1>9, <1>t DEF Drop, Goes, kernel, books
    <2>2. Untouched(chain, q)
      BY <1>t, <2>1 DEF Untouched, Unrecorded, ToDelete
    <2>. QED
      BY <1>s, <2>1, <2>2
  <1>10. ASSUME NEW h \in Handlers, RampStep(h) PROVE rules'[chain][q] = Owed(chain, q)'
    <2>1. tidy /\ rules' = rules /\ blocked' = blocked /\ UNCHANGED <<pc, left, peer>>
      BY <1>10, TcLeavesRules DEF RampStep, OnRules, TypeInv, kernel, books, tasks, history
    <2>2. Untouched(chain, q)
      BY <2>1 DEF Untouched, Unrecorded, ToDelete
    <2>. QED
      BY <1>s, <2>1, <2>2
  <1>11. ASSUME NEW s \in stray, Land(s) PROVE rules'[chain][q] = Owed(chain, q)'
    <2>1. tidy /\ blocked' = blocked /\ UNCHANGED <<pc, left, peer>>
      BY <1>11 DEF Land, books, tasks, history
    <2>2. s.cmd \notin OnRules
      BY <2>1 DEF TypeInv, Placed
    <2>3. rules' = rules
      BY <1>11, <2>2 DEF Land, Effect, OnRules
    <2>4. Untouched(chain, q)
      BY <2>1 DEF Untouched, Unrecorded, ToDelete
    <2>. QED
      BY <1>s, <2>1, <2>3, <2>4
  <1>12. CASE UNCHANGED vars
    <2>1. tidy /\ rules' = rules /\ blocked' = blocked /\ UNCHANGED <<pc, left, peer>>
      BY <1>12 DEF vars, kernel, books, tasks, history
    <2>2. Untouched(chain, q)
      BY <2>1 DEF Untouched, Unrecorded, ToDelete
    <2>. QED
      BY <1>s, <2>1, <2>2
  <1>. QED
    BY <1>1, <1>2, <1>3, <1>4, <1>5, <1>6, <1>7, <1>8, <1>9, <1>10, <1>11, <1>12
       DEF Next, HandlerStep

\* While no iptables command fails or is left behind and no peer is partitioned
\* twice, the injector's books account for every rule in the kernel, in any
\* interleaving of its handlers (network_partition.rs:44-49, mod.rs:313-319).
THEOREM RulesExact == Spec => []RulesAccounted
  BY TypeInit, TypeStep, RulesInit, RulesStep, PTL DEF Spec
=============================================================================
