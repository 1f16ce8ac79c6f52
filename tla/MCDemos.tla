------------------------------ MODULE MCDemos ------------------------------
(* Two orders; four requests to one flaky service, so that two of them open   *)
(* the breaker, and the others are late, or let in afterwards.                *)
EXTENDS Demos

MCAsks == {"x", "y", "z", "u"}
MCServices == {"b"}
MCThreshold == [s \in MCServices |-> 2]
MCOpenTimeout == [s \in MCServices |-> 1]
=============================================================================
