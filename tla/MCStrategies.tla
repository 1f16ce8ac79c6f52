---------------------------- MODULE MCStrategies ----------------------------
(* Two calls, two parameter sets that differ in every bound, one soft reset:  *)
(* while one call stands between two locks the other may create the pipeline, *)
(* a decision may push new parameters, or a reset may go by.  Small enough    *)
(* for liveness, where symmetry would not be sound.                           *)
EXTENDS Strategies

CONSTANTS c1, c2

Generous == [retries |-> 1, threshold |-> 2, openTimeout |-> 1, limit |-> 2]
Tight == [retries |-> 0, threshold |-> 1, openTimeout |-> 1, limit |-> 1]

MCCalls == {c1, c2}
MCConfigs == {Generous, Tight}
=============================================================================
