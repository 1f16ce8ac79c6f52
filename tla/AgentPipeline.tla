---------------------------- MODULE AgentPipeline ----------------------------
(***************************************************************************)
(* The pipelines of a MAS strategy (mas-agent and its variants).  The      *)
(* agent's mutex guards its parameters and its map of pipelines together:  *)
(* a lookup creates a pipeline from the parameters of that very moment, a  *)
(* decision tick replaces the parameters and pushes them into the mapped   *)
(* pipeline under one lock, and so does a soft reset.                      *)
(*                                                                         *)
(* Operators named X_Y are X with a mistake Y, as in Pipeline.             *)
(***************************************************************************)
EXTENDS TunedPipeline

agentVars == <<pipelineVars, params>>

AgentTypeOK == PipelineTypeOK /\ params \in Configs

\* MasAgent::get_or_create, with the agent locked.
AgentLookup(c) == Lookup(c, params) /\ UNCHANGED params

AgentDecide_NotApplied(cfg) == params' = cfg /\ UNCHANGED pipelineVars

\* MasAgent::tick: whatever decide makes of the observation is put in force by
\* act.  Which parameters it chooses is left open here.
AgentDecide(cfg) ==
  /\ params' = cfg
  /\ \/ ApplyParams(cfg)
     \/ mapped = Unmapped /\ UNCHANGED pipelineVars

AgentReset_InPlace ==
  /\ mapped # Unmapped
  /\ params' = Default
  /\ config' = [config EXCEPT ![mapped] = Default]
  /\ state' = [state EXCEPT ![mapped] = "closed"]
  /\ current' = [current EXCEPT ![mapped] = 0]
  /\ UNCHANGED <<now, created, mapped, failures, since, callVars>>

\* MasAgent::reset.
AgentReset ==
  /\ params' = Default
  /\ \/ Clear
     \/ mapped = Unmapped /\ UNCHANGED pipelineVars

AgentCallStep(c) == CallStep(c) /\ UNCHANGED params

AgentDrop(c) == Drop(c) /\ UNCHANGED params

AgentTick == Tick /\ UNCHANGED params

AgentInit == PipelineInit /\ params = Default

AgentNext ==
  \/ \E c \in Calls : AgentLookup(c) \/ AgentCallStep(c) \/ AgentDrop(c)
  \/ \E cfg \in Configs : AgentDecide(cfg)
  \/ AgentReset
  \/ AgentTick

AgentSpec == AgentInit /\ [][AgentNext]_agentVars
=============================================================================
