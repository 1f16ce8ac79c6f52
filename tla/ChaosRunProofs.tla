--------------------------- MODULE ChaosRunProofs ---------------------------
(***************************************************************************)
(* Proofs about ChaosRun, for any experiment whose variants have labels of *)
(* their own, any number of workers and seeds, and any times.              *)
(***************************************************************************)
EXTENDS ChaosRun, FiniteSetTheorems, SequenceTheorems, TLAPS

Busy == {"launch", "poll", "status", "list", "rename", "teardown"}

\* Who holds a cell: a cell is queued, or one busy worker's, or neither, and has
\* not failed before; nobody works when no run is under way.
Held ==
  /\ \A w \in Slots : IF pc[w] \in Busy
                        THEN job[w] \in planned /\ w <= workers /\ phase = "running"
                        ELSE job[w] = Idle
  /\ \A v, w \in Slots : pc[v] \in Busy /\ pc[w] \in Busy /\ job[v] = job[w] => v = w
  /\ \A w \in Slots : job[w] \notin ToSet(queue) \cup failures
  /\ ToSet(queue) \cap failures = {}
  /\ \A w \in Slots : pc[w] # "teardown" => ~error[w]
  /\ phase = "running" => \A w \in Slots : pc[w] = "exited" => queue = <<>>

\* Only a renaming worker has a list, of files of its cell's prefix, and only a
\* variant has one.
Listing ==
  \A w \in Slots : \A f \in listed[w] :
    /\ pc[w] = "rename"
    /\ job[w] \notin Plain /\ Prefix[f.maker] = Prefix[job[w]]

\* A cluster that is up runs a cell.
Clusters == \A w \in Slots : cluster[w].state # "down" => cluster[w].cell \in Cells

Sound == ChaosRunTypeOK /\ Held /\ Listing /\ Clusters

-----------------------------------------------------------------------------
(* The order of the cells.                                                   *)

LEMMA OrderOfCells ==
  /\ Order \in [1..Cardinality(Cells) -> Cells]
  /\ Order \in Seq(Cells) /\ Len(Order) = Cardinality(Cells)
  /\ IsInjective(Order) /\ ToSet(Order) = Cells
<1> DEFINE n == Cardinality(Cells)
<1>1. n \in Nat /\ ExistsBijection(1..n, Cells)
  BY FS_CardinalityType, ChaosRunAssumption DEF ChaosRunAssumption
<1>2. \E f \in [1..n -> Cells] : IsInjective(f)
  BY <1>1 DEF ExistsBijection, Bijection, Injection
<1>3. Order \in [1..n -> Cells] /\ IsInjective(Order)
  BY <1>2 DEF Order, SetToSeq
<1>4. Order \in Seq(Cells) /\ Len(Order) = n
  BY <1>1, <1>3
<1>5. Order \in Surjection(1..n, Cells)
  <2>1. Order \in Injection(1..n, Cells)
    BY <1>3 DEF Injection
  <2>2. Cardinality(1..n) = n
    BY <1>1, FS_Interval
  <2> QED
    BY <2>1, <2>2, FS_Injection, ChaosRunAssumption DEF ChaosRunAssumption
<1>6. ToSet(Order) = Cells
  BY <1>3, <1>5 DEF ToSet, Surjection
<1> QED
  BY <1>3, <1>4, <1>6

LEMMA InOrderIsSeq ==
  ASSUME NEW some \in SUBSET Cells, NEW q \in InOrder(some)
  PROVE  q \in Seq(some) /\ q \in Seq(ToSet(q)) /\ IsInjective(q) /\ ToSet(q) \subseteq some
<1> DEFINE n == Cardinality(some)
<1>1. n \in Nat /\ q \in [1..n -> some]
  BY FS_Subset, FS_CardinalityType, ChaosRunAssumption DEF ChaosRunAssumption, InOrder
<1>2. ASSUME NEW i \in 1..n, NEW k \in 1..n, q[i] = q[k] PROVE ~(i < k)
  <2> SUFFICES ASSUME i < k PROVE FALSE
    OBVIOUS
  <2>1. PICK a, b \in DOMAIN Order : a < b /\ q[i] = Order[a] /\ q[k] = Order[b]
    BY <1>1 DEF InOrder
  <2>2. a = b
    BY <1>2, <2>1, OrderOfCells DEF IsInjective
  <2>3. a \in Nat
    BY <2>1, OrderOfCells
  <2> QED
    BY <2>1, <2>2, <2>3
<1>3. IsInjective(q)
  <2> SUFFICES ASSUME NEW i \in 1..n, NEW k \in 1..n, q[i] = q[k] PROVE i = k
    BY <1>1 DEF IsInjective
  <2>1. ~(i < k) /\ ~(k < i)
    BY <1>2
  <2> QED
    BY <1>1, <2>1
<1>4. q \in Seq(some)
  BY <1>1
<1>5. ToSet(q) \subseteq some /\ q \in [1..n -> ToSet(q)]
  BY <1>1 DEF ToSet
<1>6. q \in Seq(ToSet(q))
  BY <1>1, <1>5
<1> QED
  BY <1>3, <1>4, <1>5, <1>6

-----------------------------------------------------------------------------
(* What the steps of a worker that holds a cell have in common.              *)

Advance(w) == Launch(w) \/ Poll(w) \/ Status(w) \/ List(w) \/ Rename(w) \/ Check(w)

LEMMA AdvanceFrame ==
  ASSUME Sound, NEW w \in Slots, Advance(w)
  PROVE  /\ pc[w] \in Busy \ {"teardown"} /\ phase = "running" /\ w <= workers
         /\ \E p \in Busy : /\ pc' = [pc EXCEPT ![w] = p]
                            /\ \/ error' = error
                               \/ p = "teardown" /\ error' = [error EXCEPT ![w] = TRUE]
         /\ UNCHANGED <<phase, run, workers, planned, queue, failures, job, clean>>
<1> USE DEF At, Alive, Goes, Fails, Stay, Busy
<1>1. CASE Launch(w)
  BY <1>1 DEF Launch
<1>2. CASE Poll(w)
  BY <1>2 DEF Poll
<1>3. CASE Status(w)
  BY <1>3 DEF Status
<1>4. CASE List(w)
  BY <1>4 DEF List
<1>5. CASE Rename(w)
  <2>1. (pc' = pc /\ error' = error) \/ Fails(w)
    BY <1>5 DEF Rename
  <2>2. pc = [pc EXCEPT ![w] = "rename"] /\ pc[w] = "rename"
    BY <1>5 DEF Rename, Sound, ChaosRunTypeOK
  <2> QED
    BY <1>5, <2>1, <2>2 DEF Rename
<1>6. CASE Check(w)
  BY <1>6 DEF Check
<1> QED
  BY <1>1, <1>2, <1>3, <1>4, <1>5, <1>6 DEF Advance

LEMMA AdvanceHeld == ASSUME Sound, NEW w \in Slots, Advance(w) PROVE Held'
<1>1. PICK p \in Busy : /\ pc' = [pc EXCEPT ![w] = p]
                        /\ \/ error' = error
                           \/ p = "teardown" /\ error' = [error EXCEPT ![w] = TRUE]
  BY AdvanceFrame
<1>2. /\ pc[w] \in Busy \ {"teardown"} /\ phase = "running" /\ w <= workers
      /\ UNCHANGED <<phase, run, workers, planned, queue, failures, job, clean>>
  BY AdvanceFrame
<1>3. pc \in [Slots -> Busy \cup {"take", "exited"}] /\ error \in [Slots -> BOOLEAN]
  BY DEF Sound, ChaosRunTypeOK, Busy
<1>4. \A v \in Slots : (pc'[v] \in Busy <=> pc[v] \in Busy) /\ (v # w => pc'[v] = pc[v])
  BY <1>1, <1>2, <1>3
<1>5. pc'[w] = p /\ p # "exited" /\ p # "take"
  BY <1>1, <1>3 DEF Busy
<1>6. \A v \in Slots : pc'[v] # "teardown" => ~error'[v]
  BY <1>1, <1>2, <1>3, <1>4, <1>5 DEF Sound, Held
<1>7. \A v \in Slots : IF pc'[v] \in Busy THEN job'[v] \in planned' /\ v <= workers' /\ phase' = "running"
                                           ELSE job'[v] = Idle
  BY <1>2, <1>4 DEF Sound, Held
<1>8. \A u, v \in Slots : pc'[u] \in Busy /\ pc'[v] \in Busy /\ job'[u] = job'[v] => u = v
  BY <1>2, <1>4 DEF Sound, Held
<1>9. phase' = "running" => \A v \in Slots : pc'[v] = "exited" => queue' = <<>>
  BY <1>2, <1>4, <1>5 DEF Sound, Held
<1>10. /\ \A v \in Slots : job'[v] \notin ToSet(queue') \cup failures'
       /\ ToSet(queue') \cap failures' = {}
  BY <1>2 DEF Sound, Held
<1> QED
  BY <1>6, <1>7, <1>8, <1>9, <1>10 DEF Held

\* What they do to the rest.
LEMMA AdvanceData ==
  ASSUME NEW w \in Slots, Advance(w)
  PROVE  /\ waited' = waited \/ (~TimedOut(w) /\ waited' = [waited EXCEPT ![w] = @ + 1])
         /\ acted' = acted \/ acted' = [acted EXCEPT ![w] = TRUE]
         /\ cluster' = cluster \/ cluster' = [cluster EXCEPT ![w] = BroughtUp(job[w])]
         /\ \/ files' = files
            \/ \E f \in files \cap listed[w] :
                 files' = (files \ {f}) \cup {[f EXCEPT !.label = job[w]]}
         /\ \/ listed' = listed
            \/ listed' = [listed EXCEPT ![w] = ToLabel(job[w])]
            \/ \E f : listed' = [listed EXCEPT ![w] = @ \ {f}]
            \/ listed' = [listed EXCEPT ![w] = {}]
<1>1. CASE Launch(w)
  BY <1>1 DEF Launch
<1>2. CASE Poll(w)
  BY <1>2 DEF Poll, Execute
<1>3. CASE Status(w)
  <2>1. waited' = waited \/ (~TimedOut(w) /\ waited' = [waited EXCEPT ![w] = @ + 1])
    <3> DEFINE exitedOk == Reported(w) = "exited"
               bad == \/ Reported(w) \in {"error", "disappeared"}
                      \/ exitedOk /\ ActionAt[job[w]] # Never /\ ~acted[w]
                      \/ ~exitedOk /\ TimedOut(w)
    <3>1. waited' = waited \/ (~bad /\ ~exitedOk /\ waited' = [waited EXCEPT ![w] = @ + 1])
      BY <1>3 DEF Status
    <3> QED
      BY <3>1
  <2>2. UNCHANGED <<acted, cluster, files, listed>>
    BY <1>3 DEF Status
  <2> QED
    BY <2>1, <2>2
<1>4. CASE List(w)
  BY <1>4 DEF List
<1>5. CASE Rename(w)
  <2>1. UNCHANGED <<waited, acted, cluster>>
    BY <1>5 DEF Rename
  <2>2. PICK f \in listed[w] :
          \/ /\ f \in files
             /\ files' = (files \ {f}) \cup {[f EXCEPT !.label = job[w]]}
             /\ listed' = [listed EXCEPT ![w] = @ \ {f}]
          \/ /\ listed' = [listed EXCEPT ![w] = {}]
             /\ files' = files
    BY <1>5 DEF Rename
  <2> QED
    BY <2>1, <2>2
<1>6. CASE Check(w)
  BY <1>6 DEF Check
<1> QED
  BY <1>1, <1>2, <1>3, <1>4, <1>5, <1>6 DEF Advance

LEMMA AdvanceTypes == ASSUME Sound, NEW w \in Slots, Advance(w) PROVE ChaosRunTypeOK'
<1>1. /\ pc' \in [Slots -> {"take", "launch", "poll", "status", "list", "rename", "teardown", "exited"}]
      /\ error' \in [Slots -> BOOLEAN]
  BY AdvanceFrame DEF Sound, ChaosRunTypeOK, Busy
<1>2. /\ UNCHANGED <<phase, run, workers, planned, queue, failures, job, clean>>
      /\ job[w] \in Cells
  BY AdvanceFrame DEF Sound, Held, ChaosRunTypeOK
<1>3. acted' \in [Slots -> BOOLEAN]
  BY AdvanceData DEF Sound, ChaosRunTypeOK
<1>4. waited' \in [Slots -> 0..Patience + 1]
  <2>1. waited' = waited \/ (~TimedOut(w) /\ waited' = [waited EXCEPT ![w] = @ + 1])
    BY AdvanceData
  <2>2. waited[w] \in 0..Patience + 1 /\ Patience \in Nat
    BY ChaosRunAssumption DEF ChaosRunAssumption, Sound, ChaosRunTypeOK
  <2>3. ~TimedOut(w) => waited[w] + 1 \in 0..Patience + 1
    BY <2>2 DEF TimedOut
  <2> QED
    BY <2>1, <2>3 DEF Sound, ChaosRunTypeOK
<1>5. cluster' \in [Slots -> [cell: Cells \cup {Idle}, written: 0..Seeds,
                              state: {"down", "running", "exited", "error", "gone"}]]
  <2>1. cluster' = cluster \/ cluster' = [cluster EXCEPT ![w] = BroughtUp(job[w])]
    BY AdvanceData
  <2> QED
    BY <1>2, <2>1, ChaosRunAssumption DEF ChaosRunAssumption, BroughtUp, Sound, ChaosRunTypeOK
<1>6. files' \subseteq Files
  <2>1. files' = files \/ \E f \in files : files' = (files \ {f}) \cup {[f EXCEPT !.label = job[w]]}
    BY AdvanceData
  <2>2. files \subseteq Files
    BY DEF Sound, ChaosRunTypeOK
  <2>3. ASSUME NEW f \in files PROVE [f EXCEPT !.label = job[w]] \in Files
    BY <1>2, <2>2 DEF Files
  <2> QED
    BY <2>1, <2>2, <2>3
<1>7. listed' \in [Slots -> SUBSET Files] /\ \A v \in Slots : \A f \in listed'[v] : f.label = Unlabelled
  <2>1. \/ listed' = listed
        \/ listed' = [listed EXCEPT ![w] = ToLabel(job[w])]
        \/ \E f : listed' = [listed EXCEPT ![w] = @ \ {f}]
        \/ listed' = [listed EXCEPT ![w] = {}]
    BY AdvanceData
  <2>2. ToLabel(job[w]) \subseteq Files /\ \A f \in ToLabel(job[w]) : f.label = Unlabelled
    BY DEF ToLabel, Sound, ChaosRunTypeOK
  <2> QED
    BY <2>1, <2>2 DEF Sound, ChaosRunTypeOK
<1> QED
  BY <1>1, <1>2, <1>3, <1>4, <1>5, <1>6, <1>7 DEF Sound, ChaosRunTypeOK

LEMMA AdvanceLists == ASSUME Sound, NEW w \in Slots, Advance(w) PROVE Listing' /\ Clusters'
<1>1. /\ UNCHANGED <<phase, run, workers, planned, queue, failures, job, clean>>
      /\ job[w] \in Cells /\ \A v \in Slots : v # w => pc'[v] = pc[v]
  BY AdvanceFrame DEF Sound, Held, ChaosRunTypeOK
<1>2. Clusters'
  <2>1. cluster' = cluster \/ cluster' = [cluster EXCEPT ![w] = BroughtUp(job[w])]
    BY AdvanceData
  <2>2. BroughtUp(job[w]).cell \in Cells
    BY <1>1 DEF BroughtUp
  <2>3. cluster \in [Slots -> [cell: Cells \cup {Idle}, written: 0..Seeds,
                              state: {"down", "running", "exited", "error", "gone"}]]
    BY DEF Sound, ChaosRunTypeOK
  <2> QED
    BY <2>1, <2>2, <2>3 DEF Sound, Clusters
<1>3. ASSUME NEW v \in Slots, NEW f \in listed'[v]
      PROVE  pc'[v] = "rename" /\ job'[v] \notin Plain /\ Prefix[f.maker] = Prefix[job'[v]]
  <2>1. CASE v # w
    <3>1. listed'[v] = listed[v]
      BY <2>1, AdvanceData DEF Sound, ChaosRunTypeOK
    <3> QED
      BY <1>1, <1>3, <2>1, <3>1 DEF Sound, Listing
  <2>2. CASE v = w /\ List(w)
    BY <1>1, <1>3, <2>2 DEF List, Goes, ToLabel, Sound, ChaosRunTypeOK
  <2>3. CASE v = w /\ Rename(w)
    <3>1. listed \in [Slots -> SUBSET Files]
      BY DEF Sound, ChaosRunTypeOK
    <3>2. PICK g \in listed[w] :
            \/ pc' = pc /\ listed' = [listed EXCEPT ![w] = @ \ {g}]
            \/ listed' = [listed EXCEPT ![w] = {}]
      BY <2>3, Zenon DEF Rename
    <3>3. pc[w] = "rename"
      BY <2>3 DEF Rename, At
    <3>4. (pc' = pc /\ listed'[w] \subseteq listed[w]) \/ listed'[w] = {}
      BY <3>1, <3>2
    <3> QED
      BY <1>1, <1>3, <2>3, <3>3, <3>4 DEF Sound, Listing
  <2>4. CASE v = w /\ (Launch(w) \/ Poll(w) \/ Status(w) \/ Check(w))
    <3>1. listed' = listed /\ (pc[w] # "rename" \/ listed[w] = {})
      BY <2>4 DEF Launch, Poll, Status, Check, At
    <3> QED
      BY <1>3, <2>4, <3>1 DEF Sound, Listing
  <2> QED
    BY <2>1, <2>2, <2>3, <2>4 DEF Advance
<1> QED
  BY <1>2, <1>3 DEF Listing

-----------------------------------------------------------------------------
(* The other steps.                                                          *)

LEMMA HeadOfQueue ==
  ASSUME Sound, queue # <<>>
  PROVE  /\ Head(queue) \in planned /\ Head(queue) \in ToSet(queue)
         /\ Tail(queue) \in Seq(planned) /\ IsInjective(Tail(queue))
         /\ ToSet(Tail(queue)) = ToSet(queue) \ {Head(queue)}
<1>1. /\ queue \in Seq(planned) /\ IsInjective(queue)
      /\ Len(queue) \in Nat \ {0} /\ DOMAIN queue = 1..Len(queue)
  BY EmptySeq, LenProperties DEF Sound, ChaosRunTypeOK
<1>2. /\ Head(queue) = queue[1] /\ Tail(queue) \in Seq(planned)
      /\ Len(Tail(queue)) = Len(queue) - 1
      /\ \A i \in 1..Len(Tail(queue)) : Tail(queue)[i] = queue[i + 1]
  BY <1>1, HeadTailProperties
<1>3. DOMAIN Tail(queue) = 1..Len(queue) - 1
  BY <1>2, LenProperties
<1>4. \A i, k \in 1..Len(queue) : queue[i] = queue[k] => i = k
  BY <1>1 DEF IsInjective
<1>5. IsInjective(Tail(queue))
  <2> SUFFICES ASSUME NEW i \in 1..Len(queue) - 1, NEW k \in 1..Len(queue) - 1,
                      Tail(queue)[i] = Tail(queue)[k]
               PROVE  i = k
    BY <1>3 DEF IsInjective
  <2>1. i + 1 \in 1..Len(queue) /\ k + 1 \in 1..Len(queue) /\ queue[i + 1] = queue[k + 1]
    BY <1>1, <1>2
  <2> QED
    BY <1>4, <2>1
<1>6. ASSUME NEW c PROVE c \in ToSet(Tail(queue)) <=> c \in ToSet(queue) \ {Head(queue)}
  <2>1. c \in ToSet(Tail(queue)) <=> \E i \in 1..Len(queue) - 1 : c = queue[i + 1]
    BY <1>1, <1>2, <1>3 DEF ToSet
  <2>2. c \in ToSet(queue) <=> \E i \in 1..Len(queue) : c = queue[i]
    BY <1>1 DEF ToSet
  <2>3. ASSUME NEW i \in 1..Len(queue), c = queue[i], c # queue[1]
        PROVE  \E k \in 1..Len(queue) - 1 : c = queue[k + 1]
    <3>1. i - 1 \in 1..Len(queue) - 1 /\ (i - 1) + 1 = i
      BY <1>1, <2>3
    <3> QED
      BY <2>3, <3>1
  <2>4. ASSUME NEW i \in 1..Len(queue) - 1, c = queue[i + 1]
        PROVE  c # queue[1] /\ i + 1 \in 1..Len(queue)
    BY <1>1, <1>4, <2>4
  <2> QED
    BY <1>2, <2>1, <2>2, <2>3, <2>4
<1>7. queue[1] \in planned /\ queue[1] \in ToSet(queue)
  BY <1>1, ElementOfSeq DEF ToSet
<1> QED
  BY <1>2, <1>5, <1>6, <1>7

LEMMA TakeSound == ASSUME Sound, NEW w \in Slots, Take(w) PROVE Sound'
<1> USE DEF Sound
<1>1. /\ pc[w] = "take" /\ w <= workers /\ phase = "running" /\ job[w] = Idle /\ ~error[w]
      /\ UNCHANGED <<phase, run, workers, planned, waited, acted, error, failures, listed,
                     cluster, files, clean>>
      /\ pc \in [Slots -> {"take", "launch", "poll", "status", "list", "rename", "teardown", "exited"}]
      /\ job \in [Slots -> Cells \cup {Idle}]
  <2>1. /\ pc[w] = "take" /\ w <= workers /\ phase = "running"
        /\ UNCHANGED <<phase, run, workers, planned, waited, acted, error, failures, listed,
                       cluster, files, clean>>
    BY DEF Take, At, Alive, Stay
  <2>2. job[w] = Idle /\ ~error[w]
    BY <2>1 DEF Held, Busy
  <2> QED
    BY <2>1, <2>2 DEF ChaosRunTypeOK
<1>2. Clusters' /\ Listing'
  <2>1. Clusters'
    BY <1>1 DEF Clusters
  <2>2. \A v \in Slots : listed[v] # {} => pc'[v] = pc[v] /\ job'[v] = job[v]
    BY <1>1 DEF Take, Goes, Listing
  <2> QED
    BY <1>1, <2>1, <2>2 DEF Listing
<1>3. CASE queue = <<>> /\ Goes(w, "exited") /\ UNCHANGED <<queue, job>>
  <2>1. pc' = [pc EXCEPT ![w] = "exited"] /\ queue' = queue /\ job' = job
    BY <1>3 DEF Goes
  <2>2. ChaosRunTypeOK'
    BY <1>1, <2>1 DEF ChaosRunTypeOK
  <2>3. Held'
    BY <1>1, <1>3, <2>1 DEF Held, Busy
  <2> QED
    BY <1>2, <2>2, <2>3
<1>4. CASE queue # <<>> /\ Goes(w, "launch")
           /\ job' = [job EXCEPT ![w] = Head(queue)] /\ queue' = Tail(queue)
  <2>1. pc' = [pc EXCEPT ![w] = "launch"] /\ job' = [job EXCEPT ![w] = Head(queue)]
    BY <1>4 DEF Goes
  <2>2. /\ Head(queue) \in planned /\ Head(queue) \in ToSet(queue)
        /\ queue' \in Seq(planned) /\ IsInjective(queue')
        /\ ToSet(queue') = ToSet(queue) \ {Head(queue)}
    BY <1>4, HeadOfQueue
  <2>3. ChaosRunTypeOK'
    BY <1>1, <2>1, <2>2 DEF ChaosRunTypeOK
  <2>4. \A v \in Slots : v # w => pc'[v] = pc[v] /\ job'[v] = job[v]
    BY <1>1, <2>1
  <2>5. pc'[w] = "launch" /\ job'[w] = Head(queue) /\ \A v \in Slots : job[v] # Head(queue)
    BY <1>1, <2>1, <2>2 DEF Held
  <2>6. \A v \in Slots : IF pc'[v] \in Busy THEN job'[v] \in planned' /\ v <= workers' /\ phase' = "running"
                                            ELSE job'[v] = Idle
    BY <1>1, <2>2, <2>4, <2>5 DEF Held, Busy
  <2>7. \A u, v \in Slots : pc'[u] \in Busy /\ pc'[v] \in Busy /\ job'[u] = job'[v] => u = v
    BY <2>4, <2>5 DEF Held
  <2>8. /\ \A v \in Slots : job'[v] \notin ToSet(queue') \cup failures'
        /\ ToSet(queue') \cap failures' = {}
    BY <1>1, <2>2, <2>4, <2>5 DEF Held
  <2>9. \A v \in Slots : pc'[v] # "exited" /\ (pc'[v] # "teardown" => ~error'[v])
    BY <1>1, <1>4, <2>4, <2>5 DEF Held
  <2>10. Held'
    BY <2>6, <2>7, <2>8, <2>9 DEF Held
  <2> QED
    BY <1>2, <2>3, <2>10
<1> QED
  BY <1>3, <1>4 DEF Take

LEMMA TeardownSound == ASSUME Sound, NEW w \in Slots, Teardown(w) PROVE Sound'
<1> USE DEF Sound
<1>1. /\ pc[w] = "teardown" /\ phase = "running" /\ w <= workers
      /\ UNCHANGED <<phase, run, workers, planned, queue, listed, files>>
      /\ pc' = [pc EXCEPT ![w] = "take"] /\ job' = [job EXCEPT ![w] = Idle]
      /\ waited' = [waited EXCEPT ![w] = 0] /\ acted' = [acted EXCEPT ![w] = FALSE]
      /\ error' = [error EXCEPT ![w] = FALSE] /\ clean' \in BOOLEAN
      /\ failures' = failures \/ failures' = failures \cup {job[w]}
      /\ cluster' = cluster \/ cluster' = [cluster EXCEPT ![w] = Down]
  BY DEF Teardown, TornDown, At, Alive, Goes, Stay, ChaosRunTypeOK
<1>2. /\ pc \in [Slots -> {"take", "launch", "poll", "status", "list", "rename", "teardown", "exited"}]
      /\ job \in [Slots -> Cells \cup {Idle}] /\ error \in [Slots -> BOOLEAN]
  BY DEF ChaosRunTypeOK
<1>3. job[w] \in planned /\ job[w] \notin ToSet(queue) /\ Idle \notin Cells
  BY <1>1, ChaosRunAssumption DEF Held, Busy, ChaosRunAssumption
<1>4. /\ pc'[w] = "take" /\ job'[w] = Idle /\ ~error'[w]
      /\ \A v \in Slots : v # w => pc'[v] = pc[v] /\ job'[v] = job[v] /\ error'[v] = error[v]
  BY <1>1, <1>2
<1>5. ChaosRunTypeOK'
  <2>1. waited' \in [Slots -> 0..Patience + 1] /\ acted' \in [Slots -> BOOLEAN]
    BY <1>1, ChaosRunAssumption DEF ChaosRunAssumption, ChaosRunTypeOK
  <2>2. cluster' \in [Slots -> [cell: Cells \cup {Idle}, written: 0..Seeds,
                                state: {"down", "running", "exited", "error", "gone"}]]
    BY <1>1, ChaosRunAssumption DEF ChaosRunAssumption, Down, ChaosRunTypeOK
  <2>3. failures' \subseteq planned /\ pc' \in [Slots -> {"take", "launch", "poll", "status", "list",
                                                         "rename", "teardown", "exited"}]
    BY <1>1, <1>3 DEF ChaosRunTypeOK
  <2>4. job' \in [Slots -> Cells \cup {Idle}] /\ error' \in [Slots -> BOOLEAN]
    BY <1>1, <1>2
  <2> QED
    BY <1>1, <2>1, <2>2, <2>3, <2>4 DEF ChaosRunTypeOK
<1>6. Held'
  <2>1. \A v \in Slots : IF pc'[v] \in Busy THEN job'[v] \in planned' /\ v <= workers' /\ phase' = "running"
                                            ELSE job'[v] = Idle
    BY <1>1, <1>4 DEF Held, Busy
  <2>2. \A u, v \in Slots : pc'[u] \in Busy /\ pc'[v] \in Busy /\ job'[u] = job'[v] => u = v
    BY <1>4 DEF Held, Busy
  <2>3. ToSet(queue') \cap failures' = {}
    BY <1>1, <1>3 DEF Held
  <2>4. ASSUME NEW v \in Slots PROVE job'[v] \notin ToSet(queue') \cup failures'
    <3>1. CASE v = w
      <4>1. ToSet(queue) \subseteq Cells /\ failures' \subseteq Cells
        BY <1>5, <1>1 DEF ChaosRunTypeOK, ToSet
      <4> QED
        BY <1>1, <1>3, <1>4, <3>1, <4>1
    <3>2. CASE v # w
      <4>1. job[v] # job[w]
        BY <1>1, <1>2, <1>3, <3>2 DEF Held, Busy, ChaosRunTypeOK
      <4> QED
        BY <1>1, <1>4, <3>2, <4>1 DEF Held
    <3> QED
      BY <3>1, <3>2
  <2>5. \A v \in Slots : /\ pc'[v] = "exited" => queue' = <<>>
                         /\ pc'[v] # "teardown" => ~error'[v]
    BY <1>1, <1>4 DEF Held
  <2> QED
    BY <2>1, <2>2, <2>3, <2>4, <2>5 DEF Held
<1>7. Listing'
  BY <1>1, <1>4 DEF Listing
<1>8. Clusters'
  <2>1. Down.state = "down"
    BY DEF Down
  <2>2. \A v \in Slots : cluster'[v] = cluster[v] \/ cluster'[v] = Down
    BY <1>1 DEF ChaosRunTypeOK
  <2> QED
    BY <2>1, <2>2 DEF Clusters
<1> QED
  BY <1>5, <1>6, <1>7, <1>8

LEMMA ClusterSound == ASSUME Sound, NEW w \in Slots, Writes(w) \/ Exits(w) PROVE Sound'
<1> USE DEF Sound
<1>1. UNCHANGED <<phase, run, workers, planned, queue, failures, progress, clean>>
  BY DEF Writes, Exits
<1>2. Held' /\ Listing'
  BY <1>1 DEF progress, Held, Listing
<1>3. Running(w) /\ cluster[w].cell \in Cells
  BY DEF Writes, Exits, Running, Clusters
<1>4. CASE Writes(w)
  <2>1. cluster' = [cluster EXCEPT ![w].written = @ + 1] /\ cluster[w].written < Seeds
    BY <1>4 DEF Writes
  <2>2. cluster[w].written + 1 \in 1..Seeds /\ cluster[w].written + 1 \in 0..Seeds
    BY <2>1, ChaosRunAssumption DEF ChaosRunAssumption, ChaosRunTypeOK
  <2>3. files' \subseteq Files
    BY <1>3, <1>4, <2>2 DEF Writes, Files, ChaosRunTypeOK
  <2>4. cluster' \in [Slots -> [cell: Cells \cup {Idle}, written: 0..Seeds,
                                state: {"down", "running", "exited", "error", "gone"}]]
    BY <2>1, <2>2 DEF ChaosRunTypeOK
  <2>5. ChaosRunTypeOK'
    BY <1>1, <2>3, <2>4 DEF progress, ChaosRunTypeOK
  <2>6. Clusters'
    BY <2>1 DEF Clusters, ChaosRunTypeOK
  <2> QED
    BY <1>2, <2>5, <2>6
<1>5. CASE Exits(w)
  <2>1. PICK how \in {"exited", "error", "gone"} : cluster' = [cluster EXCEPT ![w].state = how]
    BY <1>5 DEF Exits
  <2>2. cluster' \in [Slots -> [cell: Cells \cup {Idle}, written: 0..Seeds,
                                state: {"down", "running", "exited", "error", "gone"}]]
    BY <2>1 DEF ChaosRunTypeOK
  <2>3. ChaosRunTypeOK'
    BY <1>1, <1>5, <2>2 DEF Exits, progress, ChaosRunTypeOK
  <2>4. Clusters'
    BY <1>3, <2>1 DEF Clusters, ChaosRunTypeOK
  <2> QED
    BY <1>2, <2>3, <2>4
<1> QED
  BY <1>4, <1>5

LEMMA KilledSound == ASSUME Sound, Killed PROVE Sound'
<1> USE DEF Sound
<1>1. queue' = <<>> /\ queue' \in Seq({}) /\ IsInjective(queue') /\ ToSet(queue') = {}
  BY EmptySeq DEF Killed, IsInjective, ToSet
<1>2. ChaosRunTypeOK'
  <2>1. /\ pc' \in [Slots -> {"take", "launch", "poll", "status", "list", "rename", "teardown", "exited"}]
        /\ job' \in [Slots -> Cells \cup {Idle}]
        /\ acted' \in [Slots -> BOOLEAN] /\ error' \in [Slots -> BOOLEAN]
    BY DEF Killed
  <2>2. waited' \in [Slots -> 0..Patience + 1]
    BY ChaosRunAssumption DEF Killed, ChaosRunAssumption
  <2>3. listed' \in [Slots -> SUBSET Files] /\ \A w \in Slots : listed'[w] = {}
    BY DEF Killed
  <2>4. planned' = {} /\ failures' = {} /\ phase' = "interrupted" /\ clean' = FALSE
        /\ UNCHANGED <<run, workers, cluster, files>>
    BY DEF Killed
  <2> QED
    BY <1>1, <2>1, <2>2, <2>3, <2>4 DEF ChaosRunTypeOK
<1>3. Held'
  BY <1>1 DEF Killed, Held, Busy
<1>4. Listing' /\ Clusters'
  BY DEF Killed, Listing, Clusters
<1> QED
  BY <1>2, <1>3, <1>4

LEMMA JoinedSound == ASSUME Sound, Joined PROVE Sound'
<1> USE DEF Sound
<1>1. /\ phase = "running" /\ phase' \in {"succeeded", "failed"}
      /\ UNCHANGED <<run, workers, planned, queue, failures, progress, cluster, files, clean>>
  BY DEF Joined
<1>2. \A w \in Slots : pc[w] \notin Busy
  BY DEF Joined, Held, Busy
<1>3. ChaosRunTypeOK'
  BY <1>1 DEF progress, ChaosRunTypeOK
<1>4. Held'
  BY <1>1, <1>2 DEF progress, Held
<1>5. Listing' /\ Clusters'
  BY <1>1 DEF progress, Listing, Clusters
<1> QED
  BY <1>3, <1>4, <1>5

LEMMA BeginsSound ==
  ASSUME Sound, NEW resume \in BOOLEAN, NEW threads \in Slots, Begins(resume, threads)
  PROVE  Sound'
<1> USE DEF Sound
<1> DEFINE some == {c \in Cells : resume => ~Complete(c)}
<1>1. PICK cells \in InOrder(some) :
        /\ phase # "running" /\ run < MaxRuns
        /\ phase' = "running" /\ run' = run + 1 /\ workers' = threads
        /\ planned' = ToSet(cells) /\ queue' = cells
        /\ failures' = {}
        /\ pc' = [w \in Slots |-> IF cells = <<>> THEN "exited" ELSE "take"]
        /\ UNCHANGED <<job, waited, acted, error, listed, cluster, files, clean>>
  BY DEF Begins
<1>2. /\ cells \in Seq(planned') /\ IsInjective(cells) /\ planned' \subseteq Cells
  <2>1. some \subseteq Cells
    OBVIOUS
  <2> HIDE DEF some
  <2> QED
    BY <1>1, <2>1, InOrderIsSeq
<1>3. \A w \in Slots : job[w] = Idle /\ ~error[w] /\ listed[w] = {}
  <2>1. \A w \in Slots : pc[w] \notin Busy
    BY <1>1 DEF Held
  <2> QED
    BY <2>1 DEF Held, Listing, Busy
<1>4. ChaosRunTypeOK'
  <2>1. run' \in 1..MaxRuns
    BY <1>1, ChaosRunAssumption DEF ChaosRunAssumption, ChaosRunTypeOK
  <2>2. queue' \in Seq(planned') /\ IsInjective(queue') /\ planned' \subseteq Cells
    BY <1>1, <1>2
  <2> QED
    BY <1>1, <2>1, <2>2 DEF ChaosRunTypeOK
<1>5. Held'
  <2>1. \A w \in Slots : pc'[w] = (IF queue' = <<>> THEN "exited" ELSE "take")
    BY <1>1
  <2>2. \A w \in Slots : job'[w] = Idle /\ ~error'[w] /\ pc'[w] \notin Busy
    BY <1>1, <1>3, <2>1 DEF Busy
  <2>3. Idle \notin ToSet(queue') \cup failures' /\ ToSet(queue') \cap failures' = {}
    BY <1>1, <1>2, ChaosRunAssumption DEF ChaosRunAssumption
  <2> QED
    BY <2>1, <2>2, <2>3 DEF Held, Busy
<1>6. Listing' /\ Clusters'
  BY <1>1, <1>3 DEF Listing, Clusters
<1> QED
  BY <1>4, <1>5, <1>6

LEMMA InitSound == Init => Sound
<1> SUFFICES ASSUME Init PROVE Sound
  OBVIOUS
<1>1. queue \in Seq(planned) /\ IsInjective(queue)
  BY OrderOfCells DEF Init
<1>2. ChaosRunTypeOK
  BY <1>1, ChaosRunAssumption DEF Init, Down, ChaosRunTypeOK, ChaosRunAssumption
<1>3. Idle \notin ToSet(queue)
  BY OrderOfCells, ChaosRunAssumption DEF Init, ChaosRunAssumption
<1>4. Held
  BY <1>3 DEF Init, Held, Busy
<1>5. Listing /\ Clusters
  BY DEF Init, Down, Listing, Clusters
<1> QED
  BY <1>2, <1>4, <1>5 DEF Sound

LEMMA SoundStep == Sound /\ [Next]_vars => Sound'
<1> SUFFICES ASSUME Sound, [Next]_vars PROVE Sound'
  OBVIOUS
<1>1. ASSUME NEW w \in Slots, Work(w) PROVE Sound'
  <2>1. CASE Advance(w)
    BY <2>1, AdvanceHeld, AdvanceTypes, AdvanceLists DEF Sound
  <2> QED
    BY <1>1, <2>1, TakeSound, TeardownSound DEF Work, Advance
<1>2. ASSUME NEW w \in Slots, Writes(w) \/ Exits(w) PROVE Sound'
  BY <1>2, ClusterSound
<1>3. ASSUME NEW resume \in BOOLEAN, NEW threads \in Slots, Begins(resume, threads) PROVE Sound'
  BY <1>3, BeginsSound
<1>4. CASE UNCHANGED vars
  BY <1>4 DEF vars, progress, Sound, ChaosRunTypeOK, Held, Listing, Clusters
<1> QED
  BY <1>1, <1>2, <1>3, <1>4, JoinedSound, KilledSound DEF Next

\* The types of the runner's variables; with Held, no two workers ever have the
\* same cell, in whatever order the runs of chaos-run are killed and resumed.
THEOREM ChaosRunTypes == Spec => [](ChaosRunTypeOK /\ Held)
<1>1. Sound => ChaosRunTypeOK /\ Held
  BY DEF Sound
<1> QED
  BY <1>1, InitSound, SoundStep, PTL DEF Spec

-----------------------------------------------------------------------------
(* A cell that counts as ok has its results.                                 *)

\* A worker that leaves its cell without an error has seen the results.
Finished ==
  /\ OkMeansResults
  /\ \A w \in Slots : pc[w] = "teardown" /\ ~error[w] => Complete(job[w])

LEMMA OkIs ==
  ASSUME NEW c \in Cells
  PROVE  Fate(c) = "ok" <=> /\ c \in planned /\ c \notin ToSet(queue)
                            /\ \A w \in Slots : job[w] # c
                            /\ c \notin failures
BY DEF Fate

LEMMA CompleteIs ==
  ASSUME NEW c \in Cells
  PROVE  Complete(c) <=> \A s \in 1..Seeds : \E f \in files :
                           Prefix[f.maker] = Prefix[c] /\ f.seed = s /\ f.label = Label(c)
BY DEF Complete, Results

\* Files that count for a cell are neither removed nor renamed: the variants of a
\* prefix take only what has no label, and there is no plain cell beside them.
LEMMA ResultsStay ==
  ASSUME Sound, NEW w \in Slots, NEW f \in files, NEW c \in Cells,
         f \in listed[w], f.label = Label(c), Prefix[f.maker] = Prefix[c]
  PROVE  FALSE
<1>1. f.label = Unlabelled /\ job[w] \notin Plain /\ Prefix[job[w]] = Prefix[c] /\ job[w] \in Cells
  <2>1. pc[w] = "rename" /\ job[w] \notin Plain /\ Prefix[f.maker] = Prefix[job[w]]
    BY DEF Sound, Listing
  <2> QED
    BY <2>1 DEF Sound, ChaosRunTypeOK, Held, Busy
<1>2. c \in Plain
  BY <1>1, ChaosRunAssumption DEF Label, ChaosRunAssumption
<1> QED
  BY <1>1, <1>2, ChaosRunAssumption DEF ChaosRunAssumption, Separate

LEMMA CompleteStays ==
  ASSUME Sound, [Next]_vars, NEW c \in Cells, Complete(c)
  PROVE  Complete(c)'
<1> SUFFICES ASSUME NEW s \in 1..Seeds
             PROVE  \E f \in files' : Prefix[f.maker] = Prefix[c] /\ f.seed = s /\ f.label = Label(c)
  BY DEF Complete, Results, Label
<1>1. PICK f \in files : Prefix[f.maker] = Prefix[c] /\ f.seed = s /\ f.label = Label(c)
  BY CompleteIs
<1>2. f \in files'
  <2>1. ASSUME NEW w \in Slots, Advance(w) PROVE f \in files'
    <3>1. \/ files' = files
          \/ \E g \in files \cap listed[w] :
               files' = (files \ {g}) \cup {[g EXCEPT !.label = job[w]]}
      BY <2>1, AdvanceData
    <3>2. f \notin listed[w]
      BY <1>1, ResultsStay
    <3> QED
      BY <3>1, <3>2
  <2>2. ASSUME NEW w \in Slots, Take(w) \/ Teardown(w) \/ Exits(w) PROVE files' = files
    BY <2>2 DEF Take, Teardown, Exits
  <2>3. ASSUME NEW w \in Slots, Writes(w) PROVE files \subseteq files'
    BY <2>3 DEF Writes
  <2>4. ASSUME NEW resume \in BOOLEAN, NEW threads \in Slots, Begins(resume, threads)
        PROVE  files' = files
    BY <2>4 DEF Begins
  <2>5. Joined \/ Killed \/ UNCHANGED vars => files' = files
    BY DEF Joined, Killed, vars
  <2> QED
    BY <2>1, <2>2, <2>3, <2>4, <2>5 DEF Next, Work, Advance
<1> QED
  BY <1>1, <1>2

LEMMA FinishedStep ==
  ASSUME Sound, Finished, [Next]_vars
  PROVE  Finished'
<1> DEFINE Known(c) == Fate(c) = "ok" \/ \E w \in Slots : pc[w] = "teardown" /\ ~error[w] /\ job[w] = c
           Wanted(c) == (Fate(c) = "ok")' \/ \E w \in Slots : pc'[w] = "teardown" /\ ~error'[w] /\ job'[w] = c
<1>1. ASSUME NEW c \in Cells, Known(c) PROVE Complete(c)'
  <2>1. Complete(c)
    BY <1>1, CompleteIs DEF Finished, OkMeansResults
  <2> QED
    BY <2>1, CompleteStays
<1>2. \A w \in Slots : pc[w] = "teardown" => job[w] \in Cells
  BY DEF Sound, Held, Busy, ChaosRunTypeOK
<1>3. \A c \in Cells : (Fate(c) = "ok")' <=>
        c \in planned' /\ c \notin ToSet(queue') /\ (\A w \in Slots : job'[w] # c) /\ c \notin failures'
  BY DEF Fate
<1>4. ASSUME NEW c \in Cells, Wanted(c), NEW w \in Slots, Advance(w)
      PROVE  Complete(c)'
  <2>1. UNCHANGED <<planned, queue, failures, job>>
    BY <1>4, AdvanceFrame
  <2>2. CASE (Fate(c) = "ok")'
    BY <1>1, <1>3, <2>1, <2>2, OkIs
  <2>3. ASSUME NEW v \in Slots, pc'[v] = "teardown", ~error'[v], job'[v] = c PROVE Complete(c)'
    <3>1. CASE pc[v] = "teardown" /\ ~error[v]
      BY <1>1, <2>1, <2>3, <3>1
    <3>2. CASE v = w /\ pc[w] # "teardown"
      <4>1. Check(w) /\ Complete(c) /\ files' = files
        <5>1. error' = error \/ error' = [error EXCEPT ![w] = TRUE]
          BY <1>4, AdvanceFrame
        <5>2. error' = error
          BY <2>3, <3>2, <5>1 DEF Sound, ChaosRunTypeOK
        <5>3. ~Fails(w)
          BY <2>3, <3>2 DEF Fails, Sound, ChaosRunTypeOK
        <5>4. pc \in [Slots -> {"take", "launch", "poll", "status", "list", "rename", "teardown", "exited"}]
          BY DEF Sound, ChaosRunTypeOK
        <5>5. ~(Launch(w) \/ Poll(w) \/ List(w))
          BY <2>3, <3>2, <5>3, <5>4 DEF Launch, Poll, List, Goes
        <5>6. ~Status(w)
          BY <2>3, <3>2, <5>3, <5>4 DEF Status, Goes
        <5>7. ~Rename(w)
          BY <2>3, <3>2, <5>3, <5>4 DEF Rename
        <5> QED
          BY <1>4, <2>1, <2>3, <3>2, <5>3, <5>5, <5>6, <5>7 DEF Advance, Check
      <4> QED
        BY <4>1, CompleteStays
    <3>3. v # w \/ pc[w] = "teardown" => pc[v] = "teardown" /\ ~error[v]
      BY <1>4, <2>3, AdvanceFrame DEF Sound, ChaosRunTypeOK
    <3> QED
      BY <3>1, <3>2, <3>3
  <2> QED
    BY <1>4, <2>2, <2>3
<1>5. ASSUME NEW c \in Cells, Wanted(c), NEW w \in Slots, Take(w) PROVE Complete(c)'
  <2>1. /\ UNCHANGED <<planned, failures, error>> /\ pc[w] = "take"
        /\ \/ pc' = [pc EXCEPT ![w] = "exited"] /\ UNCHANGED <<queue, job>>
           \/ /\ pc' = [pc EXCEPT ![w] = "launch"] /\ queue # <<>>
              /\ job' = [job EXCEPT ![w] = Head(queue)] /\ queue' = Tail(queue)
    BY <1>5 DEF Take, At, Goes, Stay
  <2>2. \A v \in Slots : pc'[v] = "teardown" => pc[v] = "teardown" /\ job'[v] = job[v]
    BY <2>1 DEF Sound, ChaosRunTypeOK
  <2>3. CASE (Fate(c) = "ok")'
    <3>1. CASE UNCHANGED <<queue, job>>
      BY <1>1, <1>3, <2>1, <2>3, <3>1, OkIs
    <3>2. CASE queue # <<>> /\ job' = [job EXCEPT ![w] = Head(queue)] /\ queue' = Tail(queue)
      <4>1. ToSet(queue') = ToSet(queue) \ {Head(queue)} /\ job'[w] = Head(queue) /\ job[w] = Idle
        BY <2>1, <3>2, HeadOfQueue DEF Sound, ChaosRunTypeOK, Held, Busy
      <4>2. c # Head(queue) /\ c \notin ToSet(queue) /\ c # Idle
        BY <1>3, <2>3, <4>1, ChaosRunAssumption DEF ChaosRunAssumption
      <4>3. \A v \in Slots : job[v] # c
        BY <1>3, <2>3, <3>2, <4>1, <4>2 DEF Sound, ChaosRunTypeOK
      <4> QED
        BY <1>1, <1>3, <2>1, <2>3, <4>2, <4>3, OkIs
    <3> QED
      BY <2>1, <3>1, <3>2
  <2> QED
    BY <1>1, <1>5, <2>1, <2>2, <2>3
<1>6. ASSUME NEW c \in Cells, Wanted(c), NEW w \in Slots, Teardown(w) PROVE Complete(c)'
  <2>1. /\ UNCHANGED <<planned, queue>> /\ pc[w] = "teardown"
        /\ pc' = [pc EXCEPT ![w] = "take"] /\ job' = [job EXCEPT ![w] = Idle]
        /\ error' = [error EXCEPT ![w] = FALSE]
        /\ failures' = IF error[w] THEN failures \cup {job[w]} ELSE failures
    BY <1>6 DEF Teardown, At, Goes, Stay
  <2>2. \A v \in Slots : pc'[v] = "teardown" => pc[v] = "teardown" /\ job'[v] = job[v] /\ error'[v] = error[v]
    BY <2>1 DEF Sound, ChaosRunTypeOK
  <2>3. CASE (Fate(c) = "ok")'
    <3>1. c \in planned /\ c \notin ToSet(queue) /\ c \notin failures /\ (job[w] = c => ~error[w])
      BY <1>3, <2>1, <2>3
    <3>2. \A v \in Slots : v # w => job[v] # c
      BY <1>3, <2>1, <2>3 DEF Sound, ChaosRunTypeOK
    <3> QED
      BY <1>1, <2>1, <3>1, <3>2, OkIs
  <2> QED
    BY <1>1, <1>6, <2>2, <2>3
<1>7. ASSUME NEW c \in Cells, Wanted(c), UNCHANGED <<planned, queue, failures, pc, job, error>>
      PROVE  Complete(c)'
  BY <1>1, <1>3, <1>7, OkIs
<1>8. ASSUME NEW c \in Cells, Wanted(c), Killed PROVE FALSE
  BY <1>3, <1>8 DEF Killed
<1>9. ASSUME NEW c \in Cells, Wanted(c), NEW resume \in BOOLEAN, NEW threads \in Slots,
             Begins(resume, threads)
      PROVE  FALSE
  <2>1. planned' = ToSet(queue') /\ \A w \in Slots : pc'[w] # "teardown"
    BY <1>9 DEF Begins
  <2> QED
    BY <1>3, <1>9, <2>1
<1>10. ASSUME NEW c \in Cells, Wanted(c) PROVE Complete(c)'
  <2>1. ASSUME NEW w \in Slots, Writes(w) \/ Exits(w) PROVE Complete(c)'
    BY <1>7, <1>10, <2>1 DEF Writes, Exits, progress
  <2>2. CASE Joined \/ UNCHANGED vars
    BY <1>7, <1>10, <2>2 DEF Joined, vars, progress
  <2> QED
    BY <1>4, <1>5, <1>6, <1>8, <1>9, <1>10, <2>1, <2>2 DEF Next, Work, Advance
<1>11. \A w \in Slots : pc'[w] = "teardown" => job'[w] \in Cells
  BY SoundStep DEF Sound, Held, Busy, ChaosRunTypeOK
<1>12. \A w \in Slots : pc'[w] = "teardown" /\ ~error'[w] => Complete(job[w])'
  <2> SUFFICES ASSUME NEW w \in Slots, pc'[w] = "teardown", ~error'[w]
               PROVE  Complete(job[w])'
    OBVIOUS
  <2>1. \A c \in Cells : job'[w] = c => Complete(c)'
    BY <1>10
  <2>2. PICK c \in Cells : job'[w] = c
    BY <1>11
  <2> QED
    BY <2>1, <2>2 DEF Complete, Results, Label
<1>13. OkMeansResults'
  <2> SUFFICES ASSUME NEW c \in Cells, (Fate(c) = "ok")', NEW s \in 1..Seeds
               PROVE  \E f \in files' : Prefix[f.maker] = Prefix[c] /\ f.seed = s /\ f.label = Label(c)
    BY DEF OkMeansResults, Label
  <2>1. Complete(c)'
    BY <1>10
  <2> QED
    BY <2>1 DEF Complete, Results, Label
<1> QED
  BY <1>12, <1>13 DEF Finished

\* A cell reported as ok has the results of every seed under its own label, and
\* no other variant, worker or later run takes them away.
THEOREM OkHasResults == Spec => []OkMeansResults
<1>1. Init => Finished
  <2> SUFFICES ASSUME Init PROVE Finished
    OBVIOUS
  <2>1. \A c \in Cells : c \in ToSet(queue)
    BY OrderOfCells DEF Init
  <2> QED
    BY <2>1, OkIs DEF Init, Finished, OkMeansResults
<1>2. Sound /\ Finished /\ [Next]_vars => Finished'
  BY FinishedStep
<1>3. Finished => OkMeansResults
  BY DEF Finished
<1> QED
  BY <1>1, <1>2, <1>3, InitSound, SoundStep, PTL DEF Spec

-----------------------------------------------------------------------------
(* Labels name the maker while one worker runs and nothing goes wrong.       *)

Alone == clean /\ workers = 1 /\ run = 1

\* A file that a variant has written and nobody has labelled yet.
Loose(f) == f.label = Unlabelled /\ f.maker \notin Plain

\* The one worker's cluster is up only while it waits for its end, so what is
\* written meanwhile belongs to its cell, and nothing of it is left behind.
Tidy ==
  /\ \A w \in Slots : cluster[w].state # "down" => w = 1 /\ cluster[1].cell = job[1]
  /\ pc[1] \in {"take", "launch", "exited"} => cluster[1].state = "down"
  /\ pc[1] \in {"list", "rename"} \/ (pc[1] = "teardown" /\ ~error[1]) =>
       cluster[1].state = "exited"
  /\ \A f \in files : f.label \in {Unlabelled, f.maker}
  /\ \A f \in files : Loose(f) =>
       /\ f.maker = job[1]
       /\ pc[1] \notin {"take", "launch", "exited"}
       /\ pc[1] = "rename" => f \in listed[1]
       /\ pc[1] = "teardown" => error[1]

AloneTidy == Alone => Tidy

LEMMA AloneBefore ==
  ASSUME Sound, Alone', [Next]_vars
  PROVE  /\ Alone
         /\ \A w \in Slots : Work(w) => w = 1
         /\ ~Killed /\ \A resume \in BOOLEAN, threads \in Slots : ~Begins(resume, threads)
<1>1. 1 \in Slots /\ Slots \subseteq Nat \ {0} /\ run \in 1..MaxRuns
  BY ChaosRunAssumption DEF ChaosRunAssumption, Sound, ChaosRunTypeOK
<1>2. ~Killed /\ \A resume \in BOOLEAN, threads \in Slots : ~Begins(resume, threads)
  <2>1. ~Killed
    BY DEF Killed, Alone
  <2>2. run \in Nat \ {0} /\ run' = 1
    BY <1>1, ChaosRunAssumption DEF ChaosRunAssumption, Alone
  <2>3. \A resume \in BOOLEAN, threads \in Slots : Begins(resume, threads) => run' = run + 1
    BY DEF Begins
  <2> QED
    BY <2>1, <2>2, <2>3
<1>3. ASSUME NEW w \in Slots, Work(w) PROVE Alone /\ w <= 1
  <2>1. CASE Advance(w)
    BY <2>1, AdvanceFrame DEF Alone
  <2>2. CASE Take(w) \/ Teardown(w)
    BY <2>2 DEF Take, Teardown, At, Alive, Stay, Alone
  <2> QED
    BY <1>3, <2>1, <2>2 DEF Work, Advance
<1>4. \A w \in Slots : Work(w) => w = 1
  BY <1>1, <1>3
<1>5. (\E w \in Slots : Writes(w) \/ Exits(w)) \/ Joined \/ UNCHANGED vars => Alone
  BY DEF Writes, Exits, Joined, vars, Alone
<1> QED
  BY <1>2, <1>3, <1>4, <1>5 DEF Next

LEMMA TidyWork ==
  ASSUME Sound, Alone, Alone', Tidy, Work(1)
  PROVE  Tidy'
<1> USE DEF Loose
<1>0. /\ 1 \in Slots
      /\ pc \in [Slots -> {"take", "launch", "poll", "status", "list", "rename", "teardown", "exited"}]
      /\ error \in [Slots -> BOOLEAN] /\ job \in [Slots -> Cells \cup {Idle}]
      /\ cluster \in [Slots -> [cell: Cells \cup {Idle}, written: 0..Seeds,
                                state: {"down", "running", "exited", "error", "gone"}]]
      /\ listed \in [Slots -> SUBSET Files] /\ files \subseteq Files
  BY ChaosRunAssumption DEF ChaosRunAssumption, Sound, ChaosRunTypeOK
<1>1. CASE Take(1)
  <2>1. /\ pc[1] = "take" /\ pc'[1] \in {"launch", "exited"}
        /\ UNCHANGED <<cluster, files, error>>
    BY <1>0, <1>1 DEF Take, At, Goes
  <2> QED
    BY <2>1 DEF Tidy
<1>2. CASE Launch(1)
  <2>1. pc[1] = "launch" /\ UNCHANGED <<job, files, listed>>
    BY <1>2 DEF Launch, At
  <2>2. CASE Fails(1) /\ UNCHANGED cluster
    <3>1. pc'[1] = "teardown" /\ error'[1]
      BY <1>0, <2>2 DEF Fails, Goes
    <3> QED
      BY <2>1, <2>2, <3>1 DEF Tidy
  <2>3. CASE Goes(1, "poll") /\ cluster' = [cluster EXCEPT ![1] = BroughtUp(job[1])]
    <3>1. /\ pc'[1] = "poll" /\ cluster'[1].cell = job[1]
          /\ \A w \in Slots : w # 1 => cluster'[w] = cluster[w]
      BY <1>0, <2>3 DEF Goes, BroughtUp
    <3> QED
      BY <2>1, <3>1 DEF Tidy
  <2> QED
    BY <1>2, <2>2, <2>3 DEF Launch
<1>3. CASE Poll(1)
  <2>1. pc[1] = "poll" /\ UNCHANGED <<job, files, listed, cluster>>
    BY <1>3 DEF Poll, At
  <2>2. pc'[1] = "status" \/ (pc'[1] = "teardown" /\ error'[1])
    BY <1>0, <1>3 DEF Poll, Goes, Fails
  <2> QED
    BY <2>1, <2>2 DEF Tidy
<1>4. CASE Status(1)
  <2>1. pc[1] = "status" /\ UNCHANGED <<job, files, listed, cluster>>
    BY <1>4 DEF Status, At
  <2>2. \/ pc'[1] = "poll"
        \/ pc'[1] = "teardown" /\ error'[1]
        \/ pc'[1] = "list" /\ Reported(1) = "exited"
    BY <1>0, <1>4 DEF Status, Goes, Fails
  <2>3. Reported(1) = "exited" => cluster[1].state = "exited"
    BY DEF Reported
  <2> QED
    BY <2>1, <2>2, <2>3 DEF Tidy
<1>5. CASE List(1)
  <2>1. /\ pc[1] = "list" /\ pc'[1] = "rename" /\ UNCHANGED <<job, files, cluster, error>>
        /\ listed'[1] = ToLabel(job[1])
    BY <1>0, <1>5 DEF List, At, Goes
  <2>2. \A f \in files : Loose(f) => f \in ToLabel(job[1])
    BY <2>1 DEF Tidy, ToLabel
  <2> QED
    BY <2>1, <2>2 DEF Tidy
<1>6. CASE Rename(1)
  <2>1. pc[1] = "rename" /\ UNCHANGED <<job, cluster>>
    BY <1>6 DEF Rename, At
  <2>2. PICK f \in listed[1] :
          \/ /\ f \in files
             /\ files' = (files \ {f}) \cup {[f EXCEPT !.label = job[1]]}
             /\ listed' = [listed EXCEPT ![1] = @ \ {f}]
             /\ UNCHANGED <<pc, error>>
          \/ Fails(1) /\ UNCHANGED files
    BY <1>6 DEF Rename
  <2>3. CASE Fails(1) /\ UNCHANGED files
    <3>1. pc'[1] = "teardown" /\ error'[1]
      BY <1>0, <2>3 DEF Fails, Goes
    <3> QED
      BY <2>1, <2>3, <3>1 DEF Tidy
  <2>4. CASE /\ f \in files
             /\ files' = (files \ {f}) \cup {[f EXCEPT !.label = job[1]]}
             /\ listed' = [listed EXCEPT ![1] = @ \ {f}]
             /\ UNCHANGED <<pc, error>>
    <3>1. f.label = Unlabelled /\ job[1] \notin Plain /\ Prefix[f.maker] = Prefix[job[1]]
      BY <1>0 DEF Sound, ChaosRunTypeOK, Listing
    <3>2. job[1] \in Cells /\ f.maker \in Cells
      BY <1>0, <2>1, <2>4 DEF Sound, Held, Busy, Files, ChaosRunTypeOK
    <3>3. f.maker = job[1]
      <4>1. CASE f.maker \in Plain
        BY <3>1, <3>2, <4>1, ChaosRunAssumption DEF ChaosRunAssumption, Separate
      <4>2. CASE f.maker \notin Plain
        BY <2>4, <3>1, <4>2 DEF Tidy
      <4> QED
        BY <4>1, <4>2
    <3>4. DEFINE g == [f EXCEPT !.label = job[1]]
    <3>5. g.label = job[1] /\ g.maker = job[1] /\ job[1] # Unlabelled
      BY <1>0, <2>4, <3>2, <3>3, ChaosRunAssumption DEF ChaosRunAssumption, Files
    <3>6. listed'[1] = listed[1] \ {f} /\ \A h \in files' : h = g \/ (h \in files /\ h # f)
      BY <1>0, <2>4
    <3> HIDE DEF g
    <3>7. \A h \in files' : h.label \in {Unlabelled, h.maker}
      BY <3>5, <3>6 DEF Tidy
    <3>8. \A h \in files' : Loose(h) => h \in files /\ h # f
      BY <3>5, <3>6
    <3> QED
      BY <2>1, <2>4, <3>6, <3>7, <3>8 DEF Tidy
  <2> QED
    BY <2>2, <2>3, <2>4
<1>7. CASE Check(1)
  <2>1. /\ pc[1] = "rename" /\ listed[1] = {} /\ UNCHANGED <<job, files, cluster>>
        /\ pc'[1] = "teardown"
    BY <1>0, <1>7 DEF Check, At, Goes, Fails
  <2> QED
    BY <2>1 DEF Tidy
<1>8. CASE Teardown(1)
  <2>1. /\ pc[1] = "teardown" /\ pc'[1] = "take" /\ ~error[1] /\ files' = files
        /\ cluster' = [cluster EXCEPT ![1] = Down] \/ (Running(1) /\ UNCHANGED cluster)
    BY <1>0, <1>8 DEF Teardown, TornDown, At, Goes, Alone
  <2>2. cluster'[1] = Down /\ \A w \in Slots : w # 1 => cluster'[w] = cluster[w]
    BY <1>0, <2>1 DEF Tidy, Running
  <2>3. \A w \in Slots : cluster'[w].state = "down"
    BY <2>2 DEF Tidy, Down
  <2>4. \A f \in files : ~Loose(f)
    BY <2>1 DEF Tidy
  <2> QED
    BY <1>0, <2>1, <2>3, <2>4 DEF Tidy
<1> QED
  BY <1>1, <1>2, <1>3, <1>4, <1>5, <1>6, <1>7, <1>8 DEF Work

LEMMA TidyCluster ==
  ASSUME Sound, Tidy, NEW w \in Slots, Writes(w) \/ Exits(w)
  PROVE  Tidy'
<1> USE DEF Loose
<1>1. UNCHANGED <<pc, job, error, listed>>
  BY DEF Writes, Exits, progress
<1>2. /\ cluster \in [Slots -> [cell: Cells \cup {Idle}, written: 0..Seeds,
                                state: {"down", "running", "exited", "error", "gone"}]]
      /\ 1 \in Slots
  BY ChaosRunAssumption DEF ChaosRunAssumption, Sound, ChaosRunTypeOK
<1>3. cluster[w].state = "running" /\ w = 1 /\ cluster[1].cell = job[1]
  BY DEF Writes, Exits, Running, Tidy
<1>4. /\ pc[1] \notin {"take", "launch", "exited", "list", "rename"}
      /\ pc[1] = "teardown" => error[1]
  BY <1>2, <1>3 DEF Tidy, Sound, ChaosRunTypeOK
<1>5. \A v \in Slots : (v # 1 => cluster'[v] = cluster[v]) /\ cluster'[v].cell = cluster[v].cell
  <2>1. CASE Writes(w)
    BY <1>2, <1>3, <2>1 DEF Writes
  <2>2. CASE Exits(w)
    BY <1>2, <1>3, <2>2 DEF Exits
  <2> QED
    BY <2>1, <2>2
<1>6. \A f \in files' : f \in files \/ (f.label = Unlabelled /\ f.maker = job[1])
  BY <1>3 DEF Writes, Exits
<1>7. \A f \in files' : f.label \in {Unlabelled, f.maker}
  BY <1>6 DEF Tidy
<1>8. \A f \in files' : Loose(f) => f.maker = job[1]
  BY <1>6 DEF Tidy
<1>9. \A v \in Slots : cluster'[v].state # "down" => v = 1 /\ cluster'[1].cell = job'[1]
  BY <1>1, <1>2, <1>3, <1>5 DEF Tidy
<1> QED
  BY <1>1, <1>4, <1>7, <1>8, <1>9 DEF Tidy

\* The label of a file names the cell that made it, as long as one worker runs
\* and nothing has gone wrong.
THEOREM LabelsNameMakers == Spec => []LabelsRight
<1>1. Init => AloneTidy
  <2> SUFFICES ASSUME Init PROVE Tidy
    BY DEF AloneTidy
  <2>1. 1 \in Slots
    BY ChaosRunAssumption DEF ChaosRunAssumption
  <2> QED
    BY <2>1 DEF Init, Down, Tidy
<1>2. Sound /\ AloneTidy /\ [Next]_vars => AloneTidy'
  <2> SUFFICES ASSUME Sound, AloneTidy, [Next]_vars, Alone' PROVE Tidy'
    BY DEF AloneTidy
  <2>1. Alone /\ Tidy
    BY AloneBefore DEF AloneTidy
  <2>2. ASSUME NEW w \in Slots, Work(w) PROVE Tidy'
    BY <2>1, <2>2, AloneBefore, TidyWork
  <2>3. ASSUME NEW w \in Slots, Writes(w) \/ Exits(w) PROVE Tidy'
    BY <2>1, <2>3, TidyCluster
  <2>4. CASE Joined \/ UNCHANGED vars
    BY <2>1, <2>4 DEF Joined, vars, progress, Tidy, Loose
  <2> QED
    BY <2>2, <2>3, <2>4, AloneBefore DEF Next
<1>3. AloneTidy => LabelsRight
  BY DEF AloneTidy, Alone, Tidy, LabelsRight
<1> QED
  BY <1>1, <1>2, <1>3, InitSound, SoundStep, PTL DEF Spec

-----------------------------------------------------------------------------
(* The runner does what the board promises.                                  *)

\* Fate, read off the runner's variables without the order of its cases.
FateTable ==
  \A c \in Cells :
    /\ Fate(c) \in {"skipped", "waiting", "running", "failed", "ok"}
    /\ Fate(c) = "skipped" <=> c \notin planned
    /\ Fate(c) = "waiting" <=> c \in ToSet(queue)
    /\ Fate(c) = "running" <=> \E w \in Slots : job[w] = c
    /\ Fate(c) = "failed" <=> c \in failures

LEMMA Fates == Sound => FateTable
<1> SUFFICES ASSUME Sound, NEW c \in Cells
             PROVE  /\ Fate(c) \in {"skipped", "waiting", "running", "failed", "ok"}
                    /\ Fate(c) = "skipped" <=> c \notin planned
                    /\ Fate(c) = "waiting" <=> c \in ToSet(queue)
                    /\ Fate(c) = "running" <=> \E w \in Slots : job[w] = c
                    /\ Fate(c) = "failed" <=> c \in failures
  BY DEF FateTable
<1>1. c \in ToSet(queue) => c \in planned
  BY LenProperties, ElementOfSeq DEF Sound, ChaosRunTypeOK, ToSet
<1>2. \A w \in Slots : job[w] = c => c \in planned /\ c \notin ToSet(queue) /\ c \notin failures
  BY ChaosRunAssumption DEF ChaosRunAssumption, Sound, Held
<1>3. c \in failures => c \in planned /\ c \notin ToSet(queue)
  BY DEF Sound, Held, ChaosRunTypeOK
<1> QED
  BY <1>1, <1>2, <1>3 DEF Fate

LEMMA FatesAfter == Sound' => FateTable'
BY Fates, PTL

\* While a worker takes a cell there is room for one more.
LEMMA RoomForOne ==
  ASSUME Sound, NEW w \in Slots, pc[w] = "take", w <= workers
  PROVE  Cardinality({c \in Cells : Fate(c) = "running"}) < workers
<1> DEFINE busy == {c \in Cells : Fate(c) = "running"}
           others == (1..workers) \ {w}
           by == [c \in busy |-> CHOOSE v \in Slots : job[v] = c]
<1>1. workers \in Nat \ {0} /\ w \in 1..workers
  BY ChaosRunAssumption DEF ChaosRunAssumption, Sound, ChaosRunTypeOK
<1>2. IsFiniteSet(others) /\ Cardinality(others) = workers - 1
  <2>1. IsFiniteSet(1..workers) /\ Cardinality(1..workers) = workers
    BY <1>1, FS_Interval
  <2> QED
    BY <1>1, <2>1, FS_RemoveElement
<1>3. \A c \in busy : by[c] \in Slots /\ job[by[c]] = c
  <2> SUFFICES ASSUME NEW c \in busy PROVE by[c] \in Slots /\ job[by[c]] = c
    OBVIOUS
  <2>1. FateTable /\ c \in Cells /\ Fate(c) = "running"
    BY Fates
  <2>2. \E v \in Slots : job[v] = c
    BY <2>1 DEF FateTable
  <2>3. by[c] = CHOOSE v \in Slots : job[v] = c
    OBVIOUS
  <2> QED
    BY <2>2, <2>3
<1>4. \A c \in busy : by[c] \in others
  <2> SUFFICES ASSUME NEW c \in busy PROVE by[c] \in others
    OBVIOUS
  <2>1. pc[by[c]] \in Busy
    BY <1>3, ChaosRunAssumption DEF ChaosRunAssumption, Sound, Held
  <2>2. by[c] <= workers /\ by[c] # w /\ by[c] \in Nat \ {0}
    BY <1>3, <2>1, ChaosRunAssumption DEF ChaosRunAssumption, Sound, Held, Busy
  <2> QED
    BY <1>1, <2>2
<1>5. by \in Injection(busy, others)
  <2>1. \A c, d \in busy : by[c] = by[d] => c = d
    BY <1>3
  <2>2. by \in [busy -> others]
    BY <1>4
  <2> QED
    BY <2>1, <2>2 DEF Injection, IsInjective
<1>6. IsFiniteSet(busy) /\ Cardinality(busy) <= Cardinality(others)
  BY <1>2, <1>5, FS_Injection
<1>7. Cardinality(busy) \in Nat
  BY <1>6, FS_CardinalityType
<1> QED
  BY <1>1, <1>2, <1>6, <1>7

Unmoved == UNCHANGED <<planned, queue, failures, job, phase, workers>>

LEMMA UnmovedStutters == ASSUME Unmoved PROVE UNCHANGED Board!boardVars
<1>1. \A c \in Cells : Fate(c)' = Fate(c)
  BY DEF Unmoved, Fate
<1> QED
  BY <1>1 DEF Unmoved, Board!boardVars

\* A step that changes the fate of one cell only.
LEMMA OneMoves ==
  ASSUME NEW d \in Cells, NEW fate, Fate(d)' = fate,
         \A c \in Cells : c # d => Fate(c)' = Fate(c)
  PROVE  [c \in Cells |-> Fate(c)]' = [[c \in Cells |-> Fate(c)] EXCEPT ![d] = fate]
OBVIOUS

\* What a fate depends on.
LEMMA FateKept ==
  ASSUME NEW c \in Cells, planned' = planned, c \in failures' <=> c \in failures,
         c \in ToSet(queue') <=> c \in ToSet(queue),
         (\E v \in Slots : job'[v] = c) <=> (\E v \in Slots : job[v] = c)
  PROVE  Fate(c)' = Fate(c)
BY DEF Fate

LEMMA SameCardinality == \A S : Board!Cardinality(S) = Cardinality(S)
BY DEF Board!Cardinality, Cardinality

LEMMA TakeOnBoard ==
  ASSUME Sound, Sound', NEW w \in Slots, Take(w)
  PROVE  [Board!BoardNext]_Board!boardVars
<1>1. /\ pc[w] = "take" /\ w <= workers /\ phase = "running"
      /\ UNCHANGED <<phase, workers, planned, failures>>
  BY DEF Take, At, Alive, Stay
<1>2. CASE UNCHANGED <<queue, job>>
  BY <1>1, <1>2, UnmovedStutters DEF Unmoved
<1>3. CASE queue # <<>> /\ job' = [job EXCEPT ![w] = Head(queue)] /\ queue' = Tail(queue)
  <2>1. /\ Head(queue) \in ToSet(queue) /\ ToSet(queue') = ToSet(queue) \ {Head(queue)}
        /\ Head(queue) \in Cells
    BY <1>3, HeadOfQueue DEF Sound, ChaosRunTypeOK
  <2>2. job[w] = Idle /\ Idle \notin Cells /\ job \in [Slots -> Cells \cup {Idle}]
    BY <1>1, ChaosRunAssumption DEF ChaosRunAssumption, Sound, Held, Busy, ChaosRunTypeOK
  <2>3. PICK d \in Cells : d = Head(queue)
    BY <2>1
  <2>4. Fate(d) = "waiting"
    BY <2>1, <2>3, Fates DEF FateTable
  <2>5. Fate(d)' = "running"
    <3>1. \E v \in Slots : job'[v] = d
      BY <1>3, <2>2, <2>3
    <3> QED
      BY <3>1, FatesAfter DEF FateTable
  <2>6. ASSUME NEW c \in Cells, c # d PROVE Fate(c)' = Fate(c)
    <3>1. c \in ToSet(queue') <=> c \in ToSet(queue)
      BY <2>1, <2>3, <2>6
    <3>2. (\E v \in Slots : job'[v] = c) <=> (\E v \in Slots : job[v] = c)
      <4>1. job'[w] # c /\ job[w] # c
        BY <1>3, <2>2, <2>3, <2>6
      <4>2. \A v \in Slots : v # w => job'[v] = job[v]
        BY <1>3, <2>2
      <4> QED
        BY <4>1, <4>2
    <3> QED
      BY <1>1, <3>1, <3>2, FateKept
  <2>7. [c \in Cells |-> Fate(c)]' = [[c \in Cells |-> Fate(c)] EXCEPT ![d] = "running"]
    BY <2>5, <2>6, OneMoves
  <2>8. Cardinality(Board!Are("running")) < workers
    <3>1. Board!Are("running") = {c \in Cells : Fate(c) = "running"}
      BY DEF Board!Are
    <3> QED
      BY <1>1, <3>1, RoomForOne
  <2>9. Board!Begin(d)
    <3>1. [c \in Cells |-> Fate(c)][d] = "waiting"
      BY <2>4
    <3> QED
      BY <1>1, <2>7, <2>8, <3>1, SameCardinality DEF Board!Begin
  <2> QED
    BY <2>9 DEF Board!BoardNext
<1> QED
  BY <1>2, <1>3 DEF Take

LEMMA TeardownOnBoard ==
  ASSUME Sound, Sound', NEW w \in Slots, Teardown(w)
  PROVE  [Board!BoardNext]_Board!boardVars
<1>1. /\ pc[w] = "teardown" /\ phase = "running"
      /\ UNCHANGED <<phase, workers, planned, queue>>
      /\ job' = [job EXCEPT ![w] = Idle]
      /\ failures' = failures \/ failures' = failures \cup {job[w]}
  BY DEF Teardown, At, Alive, Stay
<1>2. job \in [Slots -> Cells \cup {Idle}] /\ Idle \notin Cells
  BY ChaosRunAssumption DEF ChaosRunAssumption, Sound, ChaosRunTypeOK
<1>3. job[w] \in planned /\ job[w] \in Cells /\ job[w] \notin ToSet(queue)
  BY <1>1 DEF Sound, Held, Busy, ChaosRunTypeOK
<1>4. \A v \in Slots : v # w => job[v] # job[w]
  BY <1>1, <1>2, <1>3 DEF Sound, Held, Busy
<1>5. PICK d \in Cells : d = job[w]
  BY <1>3
<1>6. Fate(d) = "running"
  BY <1>5, Fates DEF FateTable
<1>7. \A v \in Slots : job'[v] # d
  BY <1>1, <1>2, <1>4, <1>5
<1>8. Fate(d)' \in {"ok", "failed"}
  BY <1>1, <1>3, <1>5, <1>7 DEF Fate
<1>9. ASSUME NEW c \in Cells, c # d PROVE Fate(c)' = Fate(c)
  <2>1. (\E v \in Slots : job'[v] = c) <=> (\E v \in Slots : job[v] = c)
    <3>1. job'[w] # c /\ job[w] # c
      BY <1>1, <1>2, <1>5, <1>9
    <3>2. \A v \in Slots : v # w => job'[v] = job[v]
      BY <1>1, <1>2
    <3> QED
      BY <3>1, <3>2
  <2>2. c \in failures' <=> c \in failures
    BY <1>1, <1>5, <1>9
  <2> QED
    BY <1>1, <2>1, <2>2, FateKept
<1>10. \E outcome \in {"ok", "failed"} :
         [c \in Cells |-> Fate(c)]' = [[c \in Cells |-> Fate(c)] EXCEPT ![d] = outcome]
  BY <1>8, <1>9, OneMoves
<1>11. Board!End(d)
  BY <1>1, <1>6, <1>10 DEF Board!End
<1> QED
  BY <1>11 DEF Board!BoardNext

LEMMA RunOnBoard ==
  ASSUME Sound, Sound', Joined \/ Killed \/ \E resume \in BOOLEAN, threads \in Slots : Begins(resume, threads)
  PROVE  Board!BoardNext
<1>1. CASE Joined
  <2>1. /\ phase = "running" /\ phase' = IF failures = {} THEN "succeeded" ELSE "failed"
        /\ UNCHANGED <<workers, planned, queue, failures, job>>
    BY <1>1 DEF Joined, progress
  <2>2. 1 \in Slots /\ 1 <= workers
    BY ChaosRunAssumption DEF ChaosRunAssumption, Sound, ChaosRunTypeOK
  <2>3. queue = <<>>
    BY <1>1, <2>1, <2>2 DEF Joined, Sound, Held
  <2>4. \A w \in Slots : job[w] = Idle
    BY <1>1 DEF Joined, Sound, Held, Busy
  <2>5. \A c \in Cells : Fate(c) # "waiting" /\ Fate(c) # "running"
    BY <2>3, <2>4, Fates, ChaosRunAssumption DEF ChaosRunAssumption, FateTable, ToSet
  <2>6. Board!Are("waiting") \cup Board!Are("running") = {}
    BY <2>5 DEF Board!Are
  <2>7. Board!Are("failed") = {} <=> failures = {}
    <3>1. \A c \in Cells : [e \in Cells |-> Fate(e)][c] = "failed" <=> c \in failures
      BY Fates DEF FateTable
    <3>2. failures \subseteq Cells
      BY DEF Sound, ChaosRunTypeOK
    <3> QED
      BY <3>1, <3>2 DEF Board!Are
  <2>8. \A c \in Cells : Fate(c)' = Fate(c)
    BY <2>1 DEF Fate
  <2>9. Board!Conclude
    BY <2>1, <2>6, <2>7, <2>8 DEF Board!Conclude
  <2> QED
    BY <2>9 DEF Board!BoardNext
<1>2. CASE Killed
  <2>1. \A c \in Cells : Fate(c)' = "skipped"
    BY <1>2 DEF Killed, Fate
  <2>2. Board!Interrupt
    BY <1>2, <2>1 DEF Killed, Board!Interrupt
  <2> QED
    BY <2>2 DEF Board!BoardNext
<1>3. ASSUME NEW resume \in BOOLEAN, NEW threads \in Slots, Begins(resume, threads)
      PROVE  Board!BoardNext
  <2>1. phase # "running" /\ phase' = "running" /\ workers' = threads /\ planned' = ToSet(queue')
    BY <1>3 DEF Begins
  <2>2. planned' \in SUBSET Cells /\ workers' \in Nat \ {0}
    BY <2>1, ChaosRunAssumption DEF ChaosRunAssumption, Sound, ChaosRunTypeOK
  <2>3. \A c \in Cells : Fate(c)' = IF c \in planned' THEN "waiting" ELSE "skipped"
    BY <2>1 DEF Fate
  <2>4. Board!Restart
    BY <2>1, <2>2, <2>3 DEF Board!Restart
  <2> QED
    BY <2>4 DEF Board!BoardNext
<1> QED
  BY <1>1, <1>2, <1>3

\* Every behaviour of the runner is one of the board, its liveness apart: a cell
\* is begun once, by one of at most `workers` workers, and the verdict of a run is
\* that of its cells, over kills, resumed runs and whatever coordinators do.
THEOREM RunnerRefinesBoard ==
  Spec => Board!BoardInit /\ [][Board!BoardNext]_Board!boardVars
<1>1. Init => Board!BoardInit
  <2> SUFFICES ASSUME Init PROVE Board!BoardInit
    OBVIOUS
  <2>1. workers \in Nat \ {0}
    BY ChaosRunAssumption DEF ChaosRunAssumption, Init
  <2>2. \A c \in Cells : Fate(c) = "waiting"
    BY OrderOfCells DEF Init, Fate
  <2> QED
    BY <2>1, <2>2 DEF Init, Board!BoardInit
<1>2. Sound /\ Sound' /\ [Next]_vars => [Board!BoardNext]_Board!boardVars
  <2> SUFFICES ASSUME Sound, Sound', [Next]_vars PROVE [Board!BoardNext]_Board!boardVars
    OBVIOUS
  <2>1. ASSUME NEW w \in Slots, Advance(w) PROVE [Board!BoardNext]_Board!boardVars
    BY <2>1, AdvanceFrame, UnmovedStutters DEF Unmoved
  <2>2. ASSUME NEW w \in Slots, Writes(w) \/ Exits(w) PROVE [Board!BoardNext]_Board!boardVars
    BY <2>2, UnmovedStutters DEF Unmoved, Writes, Exits, progress
  <2>3. CASE UNCHANGED vars
    BY <2>3, UnmovedStutters DEF Unmoved, vars, progress
  <2>4. CASE Joined \/ Killed \/ \E resume \in BOOLEAN, threads \in Slots : Begins(resume, threads)
    BY <2>4, RunOnBoard
  <2> QED
    BY <2>1, <2>2, <2>3, <2>4, TakeOnBoard, TeardownOnBoard DEF Next, Work, Advance
<1> QED
  BY <1>1, <1>2, InitSound, SoundStep, PTL DEF Spec
=============================================================================
