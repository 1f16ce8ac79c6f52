------------------------------ MODULE CellBoard ------------------------------
(***************************************************************************)
(* What a run of chaos-run promises, without saying how: every cell that   *)
(* is planned is begun once, by one of at most `workers` workers, and ends *)
(* either ok or failed; when all have ended the run does, and it succeeds  *)
(* if and only if no cell has failed.  A run may be interrupted, and       *)
(* another one may be started when none is under way.                      *)
(***************************************************************************)
EXTENDS FiniteSets, Naturals

CONSTANT Cells

VARIABLES
  phase,     \* "running", or how the last run ended
  workers,   \* at most so many cells at once
  status     \* cell -> what has become of it in this run

boardVars == <<phase, workers, status>>

Are(s) == {c \in Cells : status[c] = s}

BoardInit ==
  /\ phase = "running"
  /\ workers \in Nat \ {0}
  /\ status = [c \in Cells |-> "waiting"]

Begin(c) ==
  /\ phase = "running" /\ status[c] = "waiting"
  /\ Cardinality(Are("running")) < workers
  /\ status' = [status EXCEPT ![c] = "running"]
  /\ UNCHANGED <<phase, workers>>

End(c) ==
  /\ phase = "running" /\ status[c] = "running"
  /\ \E outcome \in {"ok", "failed"} : status' = [status EXCEPT ![c] = outcome]
  /\ UNCHANGED <<phase, workers>>

Conclude ==
  /\ phase = "running"
  /\ Are("waiting") \cup Are("running") = {}
  /\ phase' = IF Are("failed") = {} THEN "succeeded" ELSE "failed"
  /\ UNCHANGED <<workers, status>>

Interrupt ==
  /\ phase = "running"
  /\ phase' = "interrupted"
  /\ UNCHANGED workers
  /\ status' \in [Cells -> {"waiting", "ok", "failed", "skipped"}]

\* The next run plans some of the cells.
Restart ==
  /\ phase # "running"
  /\ phase' = "running"
  /\ workers' \in Nat \ {0}
  /\ \E planned \in SUBSET Cells :
       status' = [c \in Cells |-> IF c \in planned THEN "waiting" ELSE "skipped"]

BoardNext ==
  \/ \E c \in Cells : Begin(c) \/ End(c)
  \/ Conclude
  \/ Interrupt
  \/ Restart

BoardSpec ==
  /\ BoardInit /\ [][BoardNext]_boardVars
  /\ WF_boardVars(Conclude)
  /\ \A c \in Cells : WF_boardVars(Begin(c)) /\ WF_boardVars(End(c))
=============================================================================
