------------------------------ MODULE ChaosRun ------------------------------
(***************************************************************************)
(* chaos-run: worker threads take the cells of an experiment from a queue, *)
(* start a cluster for each, poll its coordinator until it exits, label    *)
(* the result files it has written and see whether all are there.  The     *)
(* coordinator itself (Coordinator) is reduced to the files it writes.     *)
(*                                                                         *)
(* A result file carries the seed and the prefix of the cell that made it; *)
(* cells that are variants of each other share the prefix and are told     *)
(* apart by a label that the runner adds to the name afterwards.  Files of *)
(* several runs that agree in all of this are one here.                    *)
(*                                                                         *)
(* chaos-run may be killed at any moment.  Clusters are detached and stay  *)
(* up; the next run may resume.  Time is counted in polls.                 *)
(*                                                                         *)
(* Left out: the contents of the files and of the compose files, the       *)
(* manifest, --only, and what Docker does beside running the coordinator.  *)
(* Operators named X_Y are X with a plausible mistake Y.                   *)
(***************************************************************************)
EXTENDS Integers, Sequences, FiniteSets, SequencesExt

CONSTANTS
  Cells,
  Prefix,        \* cell -> prefix of its result files
  Plain,         \* cells that are no variants: their files get no label
  ActionAt,      \* cell -> when its action is due, in polls; Never without one
  Seeds,         \* how many
  Slots,         \* worker ids, 1..n
  Grace,         \* polls until a coordinator without status counts as gone, 60 s
  Patience,      \* polls until a cell times out, 90 min
  MaxRuns        \* bound: runs of chaos-run

Never == -1
Unlabelled == "none"
Idle == "idle"

\* variants_of_one_strategy_have_distinct_result_names; and no experiment of the
\* repository has a plain cell next to a variant of the same prefix.
Separate ==
  \A c, d \in Cells : c # d /\ Prefix[c] = Prefix[d] => c \notin Plain /\ d \notin Plain

ASSUME ChaosRunAssumption ==
  /\ IsFiniteSet(Cells) /\ Plain \subseteq Cells
  /\ ActionAt \in [Cells -> Nat \cup {Never}]
  /\ Seeds \in Nat \ {0} /\ Grace \in Nat /\ Patience \in Nat /\ MaxRuns \in Nat \ {0}
  /\ IsFiniteSet(Slots) /\ Slots \subseteq Nat \ {0} /\ 1 \in Slots
  /\ {Unlabelled, Idle} \cap Cells = {}
  /\ Separate

VARIABLES
  phase,      \* of the run under way: running, or how it ended
  run,        \* how many there have been
  workers,    \* worker threads of this run
  planned,    \* cells of this run
  queue,      \* those not taken yet, under one mutex
  failures,   \* labels of failed cells
  pc,         \* worker -> where it stands
  job,        \* worker -> its cell, Idle without one
  waited,     \* worker -> polls since the start of its cluster
  acted,      \* worker -> the action of its cell was executed
  error,      \* worker -> run_cluster has returned an error
  listed,     \* worker -> files still to be renamed
  cluster,    \* worker -> cluster of its project, Down without one
  files,      \* results directory
  clean       \* history: no cell has failed and no run was killed

progress == <<pc, job, waited, acted, error, listed>>
vars == <<phase, run, workers, planned, queue, failures, progress, cluster, files, clean>>

Down == [cell |-> Idle, written |-> 0, state |-> "down"]
Order == SetToSeq(Cells)

Label(c) == IF c \in Plain THEN Unlabelled ELSE c

-----------------------------------------------------------------------------
(* Result files.                                                             *)

\* result_files of one seed: right prefix, and the cell's own label or none.
Results(c, s) == {f \in files : Prefix[f.maker] = Prefix[c] /\ f.seed = s /\ f.label = Label(c)}

\* is_cell_complete: any file of the seed will do, of whatever run.
Complete(c) == \A s \in 1..Seeds : Results(c, s) # {}

ToLabel_LabelledToo(c) == {f \in files : Prefix[f.maker] = Prefix[c] /\ f.label # Label(c)}

\* What tag_variant_results finds: every file of the prefix without a label.
ToLabel(c) ==
  {f \in files : c \notin Plain /\ Prefix[f.maker] = Prefix[c] /\ f.label = Unlabelled}

-----------------------------------------------------------------------------
(* The coordinator of a cluster, and its end.                                *)

Running(w) == cluster[w].state = "running"

\* run_cell writes the file of the next seed.
Writes(w) ==
  /\ Running(w) /\ cluster[w].written < Seeds
  /\ cluster' = [cluster EXCEPT ![w].written = @ + 1]
  /\ files' = files \cup {[maker |-> cluster[w].cell, seed |-> cluster[w].written + 1,
                           label |-> Unlabelled]}
  /\ UNCHANGED <<phase, run, workers, planned, queue, failures, progress, clean>>

\* It exits: done or stopped from outside (swarm shows "Shutdown", which counts as
\* an exit with 0), with an error, or without a trace.
Exits(w) ==
  /\ Running(w)
  /\ \E how \in {"exited", "error", "gone"} : cluster' = [cluster EXCEPT ![w].state = how]
  /\ UNCHANGED <<phase, run, workers, planned, queue, failures, progress, files, clean>>

-----------------------------------------------------------------------------
(* A worker.                                                                 *)

Alive(w) == phase = "running" /\ w <= workers

Stay == UNCHANGED <<phase, run, workers, planned>>

At(w, place) == Alive(w) /\ pc[w] = place

Goes(w, next) == pc' = [pc EXCEPT ![w] = next]

\* `?`: run_cluster is left, the cluster is torn down.
Fails(w) ==
  /\ Goes(w, "teardown")
  /\ error' = [error EXCEPT ![w] = TRUE]

\* The first cell of the queue, or the thread ends.
Take(w) ==
  /\ At(w, "take")
  /\ \/ /\ queue = <<>>
        /\ Goes(w, "exited")
        /\ UNCHANGED <<queue, job>>
     \/ /\ queue # <<>>
        /\ Goes(w, "launch")
        /\ job' = [job EXCEPT ![w] = Head(queue)]
        /\ queue' = Tail(queue)
  /\ UNCHANGED <<waited, acted, error, failures, listed, cluster, files, clean>> /\ Stay

\* ComposeBackend::start and SwarmBackend::start.
BroughtUp(c) == [cell |-> c, written |-> 0, state |-> "running"]

\* prepare and start: what is left of an earlier cluster of this project is taken
\* down, and the new one brought up; either may fail, and what is then there is
\* torn down, or not.
Launch(w) ==
  /\ At(w, "launch")
  /\ \/ Fails(w) /\ UNCHANGED cluster
     \/ /\ Goes(w, "poll") /\ UNCHANGED error
        /\ cluster' = [cluster EXCEPT ![w] = BroughtUp(job[w])]
  /\ UNCHANGED <<queue, failures, job, waited, acted, listed, files, clean>> /\ Stay

Due(w) == ActionAt[job[w]] # Never /\ ~acted[w] /\ waited[w] >= ActionAt[job[w]]

\* stop-service: the service is stopped, the coordinator stays.
Execute(w) == acted' = [acted EXCEPT ![w] = TRUE]

\* The head of the polling loop: an action that is due is executed, or fails.
Poll(w) ==
  /\ At(w, "poll")
  /\ \/ ~Due(w) /\ Goes(w, "status") /\ UNCHANGED <<acted, error>>
     \/ Due(w) /\ Goes(w, "status") /\ Execute(w) /\ UNCHANGED error
     \/ Due(w) /\ Fails(w) /\ UNCHANGED acted
  /\ UNCHANGED <<queue, failures, job, waited, listed, cluster, files, clean>> /\ Stay

TimedOut(w) == waited[w] >= Patience

\* check_status: a coordinator of which nothing is to be seen is taken to be on its
\* way for the first minute.
Reported(w) ==
  IF cluster[w].state = "gone"
  THEN IF waited[w] > Grace THEN "disappeared" ELSE "running"
  ELSE cluster[w].state

\* What follows from it.
Status(w) ==
  LET exitedOk == Reported(w) = "exited"
      bad == \/ Reported(w) \in {"error", "disappeared"}
             \/ exitedOk /\ ActionAt[job[w]] # Never /\ ~acted[w]
             \/ ~exitedOk /\ TimedOut(w)
  IN  /\ At(w, "status")
      /\ \/ bad /\ Fails(w) /\ UNCHANGED waited
         \/ ~bad /\ exitedOk /\ Goes(w, "list") /\ UNCHANGED <<error, waited>>
         \/ /\ ~bad /\ ~exitedOk
            /\ Goes(w, "poll") /\ UNCHANGED error
            /\ waited' = [waited EXCEPT ![w] = @ + 1]
      /\ UNCHANGED <<queue, failures, job, acted, listed, cluster, files, clean>> /\ Stay

\* tag_variant_results reads the directory ...
List(w) ==
  /\ At(w, "list")
  /\ listed' = [listed EXCEPT ![w] = ToLabel(job[w])]
  /\ Goes(w, "rename")
  /\ UNCHANGED <<queue, failures, job, waited, acted, error, cluster, files, clean>> /\ Stay

\* ... and renames one file after the other.  One that another worker has renamed
\* meanwhile is not there any more.
Rename(w) ==
  /\ At(w, "rename") /\ listed[w] # {}
  /\ \E f \in listed[w] :
       \/ /\ f \in files
          /\ files' = (files \ {f}) \cup {[f EXCEPT !.label = job[w]]}
          /\ listed' = [listed EXCEPT ![w] = @ \ {f}]
          /\ UNCHANGED <<pc, error>>
       \/ /\ f \notin files
          /\ Fails(w)
          /\ listed' = [listed EXCEPT ![w] = {}]
          /\ UNCHANGED files
  /\ UNCHANGED <<queue, failures, job, waited, acted, cluster, clean>> /\ Stay

\* A coordinator that has exited with 0 is believed.
Check_Skipped(w) ==
  /\ At(w, "rename") /\ listed[w] = {}
  /\ Goes(w, "teardown")
  /\ UNCHANGED <<queue, failures, job, waited, acted, error, listed, cluster, files, clean>> /\ Stay

\* attach_action_metadata (which may fail) and the final look at the directory.
Check(w) ==
  /\ At(w, "rename") /\ listed[w] = {}
  /\ \/ Complete(job[w]) /\ Goes(w, "teardown") /\ UNCHANGED error
     \/ ~Complete(job[w]) /\ Fails(w)
     \/ ActionAt[job[w]] # Never /\ Fails(w)
  /\ UNCHANGED <<queue, failures, job, waited, acted, listed, cluster, files, clean>> /\ Stay

\* The backend's teardown.
TornDown(w) == cluster' = [cluster EXCEPT ![w] = Down]

\* teardown, whose own failure is ignored: the cluster may be left, and run.  Then
\* the outcome is counted.
Teardown(w) ==
  /\ At(w, "teardown")
  /\ \/ TornDown(w)
     \/ Running(w) /\ UNCHANGED cluster
  /\ failures' = IF error[w] THEN failures \cup {job[w]} ELSE failures
  /\ clean' = (clean /\ ~error[w])
  /\ job' = [job EXCEPT ![w] = Idle]
  /\ waited' = [waited EXCEPT ![w] = 0]
  /\ acted' = [acted EXCEPT ![w] = FALSE]
  /\ error' = [error EXCEPT ![w] = FALSE]
  /\ Goes(w, "take")
  /\ UNCHANGED <<queue, listed, files>> /\ Stay

-----------------------------------------------------------------------------
(* The run.                                                                  *)

\* Only the first thread is joined.
Joined_First ==
  /\ phase = "running"
  /\ pc[1] = "exited"
  /\ phase' = IF failures = {} THEN "succeeded" ELSE "failed"
  /\ UNCHANGED <<run, workers, planned, queue, failures, progress, cluster, files, clean>>

\* All threads are joined.
Joined ==
  /\ phase = "running"
  /\ \A w \in Slots : w <= workers => pc[w] = "exited"
  /\ phase' = IF failures = {} THEN "succeeded" ELSE "failed"
  /\ UNCHANGED <<run, workers, planned, queue, failures, progress, cluster, files, clean>>

\* Ctrl+C or a crash: the lock is released with the process, the threads are gone,
\* the clusters are not.
Killed ==
  /\ phase = "running"
  /\ phase' = "interrupted"
  /\ queue' = <<>> /\ failures' = {} /\ planned' = {}
  /\ pc' = [w \in Slots |-> "exited"] /\ job' = [w \in Slots |-> Idle]
  /\ waited' = [w \in Slots |-> 0]
  /\ acted' = [w \in Slots |-> FALSE] /\ error' = [w \in Slots |-> FALSE]
  /\ listed' = [w \in Slots |-> {}]
  /\ clean' = FALSE
  /\ UNCHANGED <<run, workers, cluster, files>>

\* Those cells, in the order of the experiment.
InOrder(some) ==
  {q \in [1..Cardinality(some) -> some] :
     \A i, k \in DOMAIN q : i < k =>
       \E m, n \in DOMAIN Order : m < n /\ q[i] = Order[m] /\ q[k] = Order[n]}

\* Failures of the run before are kept.
Begins_KeepsFailures(resume, threads) ==
  \E cells \in InOrder({c \in Cells : resume => ~Complete(c)}) :
      /\ phase # "running" /\ run < MaxRuns
      /\ phase' = "running"
      /\ run' = run + 1
      /\ workers' = threads
      /\ planned' = ToSet(cells) /\ queue' = cells
      /\ pc' = [w \in Slots |-> IF cells = <<>> THEN "exited" ELSE "take"]
      /\ UNCHANGED <<failures, job, waited, acted, error, listed, cluster, files, clean>>

\* run_experiment: the lock is free, the cells are expanded; --resume drops those
\* that are complete.  Without cells no thread is started.
Begins(resume, threads) ==
  \E cells \in InOrder({c \in Cells : resume => ~Complete(c)}) :
      /\ phase # "running" /\ run < MaxRuns
      /\ phase' = "running"
      /\ run' = run + 1
      /\ workers' = threads
      /\ planned' = ToSet(cells) /\ queue' = cells
      /\ failures' = {}
      /\ pc' = [w \in Slots |-> IF cells = <<>> THEN "exited" ELSE "take"]
      /\ UNCHANGED <<job, waited, acted, error, listed, cluster, files, clean>>

Init ==
  /\ phase = "running" /\ run = 1 /\ workers \in Slots
  /\ planned = Cells /\ queue = Order /\ failures = {}
  /\ pc = [w \in Slots |-> "take"] /\ job = [w \in Slots |-> Idle]
  /\ waited = [w \in Slots |-> 0]
  /\ acted = [w \in Slots |-> FALSE] /\ error = [w \in Slots |-> FALSE]
  /\ listed = [w \in Slots |-> {}]
  /\ cluster = [w \in Slots |-> Down]
  /\ files = {} /\ clean = TRUE

Work(w) ==
  \/ Take(w) \/ Launch(w) \/ Poll(w) \/ Status(w)
  \/ List(w) \/ Rename(w) \/ Check(w) \/ Teardown(w)

Next ==
  \/ \E w \in Slots : Work(w) \/ Writes(w) \/ Exits(w)
  \/ Joined
  \/ Killed
  \/ \E resume \in BOOLEAN, threads \in Slots : Begins(resume, threads)

\* Docker commands return and sleeps end: a worker thread goes on, and so does
\* the main thread.  Nothing is assumed of the coordinators.
Spec == Init /\ [][Next]_vars /\ WF_vars(Joined) /\ \A w \in Slots : WF_vars(Work(w))

-----------------------------------------------------------------------------
(* Properties.                                                               *)

Files == [maker: Cells, seed: 1..Seeds, label: Cells \cup {Unlabelled}]

\* Types.  A cell is in the queue or with one worker, and files that wait to be
\* renamed are files without a label.
ChaosRunTypeOK ==
  /\ phase \in {"running", "succeeded", "failed", "interrupted"}
  /\ run \in 1..MaxRuns /\ workers \in Slots
  /\ planned \subseteq Cells /\ failures \subseteq planned
  /\ queue \in Seq(planned) /\ IsInjective(queue)
  /\ pc \in [Slots -> {"take", "launch", "poll", "status", "list", "rename", "teardown", "exited"}]
  /\ job \in [Slots -> Cells \cup {Idle}]
  /\ waited \in [Slots -> 0..Patience + 1]
  /\ acted \in [Slots -> BOOLEAN] /\ error \in [Slots -> BOOLEAN]
  /\ files \subseteq Files
  /\ listed \in [Slots -> SUBSET Files]
  /\ \A w \in Slots : \A f \in listed[w] : f.label = Unlabelled
  /\ cluster \in [Slots -> [cell: Cells \cup {Idle}, written: 0..Seeds,
                            state: {"down", "running", "exited", "error", "gone"}]]
  /\ clean \in BOOLEAN

\* What has become of a cell in this run, from what the program keeps.
Fate(c) ==
  IF c \notin planned THEN "skipped"
  ELSE IF c \in ToSet(queue) THEN "waiting"
  ELSE IF \E w \in Slots : job[w] = c THEN "running"
  ELSE IF c \in failures THEN "failed" ELSE "ok"

Board == INSTANCE CellBoard WITH status <- [c \in Cells |-> Fate(c)]

\* Every planned cell is begun once and by one worker and ends, the run ends
\* whatever the coordinators do, and its verdict is that of its cells
\* (runner.rs:196, 327-375).
ImplementsBoard == Board!BoardSpec

\* A cell that counts as ok has a result under its own label for every seed, and
\* keeps it, whatever variants, workers and later runs rename
\* (runner.rs:204-222, cell.rs:217-256).
OkMeansResults ==
  \A c \in Cells : Fate(c) = "ok" =>
    \A s \in 1..Seeds : \E f \in files :
      Prefix[f.maker] = Prefix[c] /\ f.seed = s /\ f.label = Label(c)

\* A label names the cell that made the file as long as one worker runs and
\* nothing has gone wrong.  With more workers, or after a cell that failed or was
\* killed half-way, a variant takes over what another one has left without a
\* label (cell.rs:251).
LabelsRight ==
  clean /\ workers = 1 /\ run = 1 => \A f \in files : f.label \in {Unlabelled, f.maker}
=============================================================================
