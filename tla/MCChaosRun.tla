----------------------------- MODULE MCChaosRun -----------------------------
(* Two variants of one prefix, the first with an action; one seed, whose file  *)
(* a cell that fails at the end leaves without a label; one or two workers; a  *)
(* second run, with or without --resume, over what the first has left.         *)
EXTENDS ChaosRun

MCCells == {"a", "b"}
MCPrefix == [c \in MCCells |-> "p"]
MCActionAt == [c \in MCCells |-> IF c = "a" THEN 1 ELSE Never]
MCSlots == {1, 2}
=============================================================================
