---------------------------- MODULE TunedPipeline ----------------------------
(* A pipeline whose strategy keeps the parameters in force, whoever sets them. *)
EXTENDS Pipeline

VARIABLE params    \* MasAgent.params, CentralStrategy.params, StaticStrategy.cfg
=============================================================================
