--------------------------- MODULE CentralPipeline ---------------------------
(***************************************************************************)
(* The pipelines of the central strategy.  Parameters and the map of       *)
(* pipelines have a mutex each: a call reads the parameters, lets go of    *)
(* them and only then locks the map; POST /control writes the parameters   *)
(* and pushes them into the map while it holds the first mutex; a soft     *)
(* reset clears the map first and restores the parameters afterwards.      *)
(* Every gap between two locks is an interleaving point.                   *)
(* Operators named X_Y are X with a mistake Y, as in Pipeline.             *)
(***************************************************************************)
EXTENDS TunedPipeline

VARIABLES
  read,       \* call -> the parameters it copied before it locks the map, if any
  pushing,    \* apply_update holds the mutex of params and waits for the map
  resetting   \* reset has cleared the map and waits for the mutex of params

strategyVars == <<params, read, pushing, resetting>>
centralVars == <<pipelineVars, strategyVars>>

\* PipelineConfig::from_params(&self.params.lock()), first step of a call.
ReadParams(c) ==
  /\ pc[c] = "idle"
  /\ read[c] = {}
  /\ ~pushing
  /\ read' = [read EXCEPT ![c] = {params}]
  /\ UNCHANGED <<pipelineVars, params, pushing, resetting>>

\* pipelines.lock().get_or_create(..., c, ...), second step of a call.
CentralLookup(c) ==
  /\ \E cfg \in read[c] : Lookup(c, cfg)
  /\ read' = [read EXCEPT ![c] = {}]
  /\ UNCHANGED <<params, pushing, resetting>>

\* apply_update merges the body of /control into the parameters ...
ControlWrite(cfg) ==
  /\ ~pushing
  /\ params' = cfg
  /\ pushing' = TRUE
  /\ UNCHANGED <<pipelineVars, read, resetting>>

\* ... and updates the mapped pipelines before it lets go of the mutex.
ControlPush ==
  /\ pushing
  /\ \/ ApplyParams(params)
     \/ mapped = Unmapped /\ UNCHANGED pipelineVars
  /\ pushing' = FALSE
  /\ UNCHANGED <<params, read, resetting>>

ResetClear_InPlace ==
  /\ ~resetting
  /\ mapped # Unmapped
  /\ state' = [state EXCEPT ![mapped] = "closed"]
  /\ current' = [current EXCEPT ![mapped] = 0]
  /\ resetting' = TRUE
  /\ UNCHANGED <<now, created, mapped, config, failures, since, callVars, params, read, pushing>>

ResetClear ==
  /\ ~resetting
  /\ \/ Clear
     \/ mapped = Unmapped /\ UNCHANGED pipelineVars
  /\ resetting' = TRUE
  /\ UNCHANGED <<params, read, pushing>>

ResetParams ==
  /\ resetting
  /\ ~pushing
  /\ params' = Default
  /\ resetting' = FALSE
  /\ UNCHANGED <<pipelineVars, read, pushing>>

CentralCallStep(c) == (CallStep(c) \/ Drop(c)) /\ UNCHANGED strategyVars

CentralTick == Tick /\ UNCHANGED strategyVars

CentralInit ==
  /\ PipelineInit
  /\ params = Default
  /\ read = [c \in Calls |-> {}]
  /\ pushing = FALSE
  /\ resetting = FALSE

CentralNext ==
  \/ \E c \in Calls : ReadParams(c) \/ CentralLookup(c) \/ CentralCallStep(c)
  \/ \E cfg \in Configs : ControlWrite(cfg)
  \/ ControlPush
  \/ ResetClear
  \/ ResetParams
  \/ CentralTick

CentralSpec == CentralInit /\ [][CentralNext]_centralVars

-----------------------------------------------------------------------------
(* Properties.                                                               *)

\* Once a /control update or a soft reset is through, the mapped pipeline runs
\* with the parameters in force: "push new params into every existing pipeline"
\* (pipeline.rs:64).  A call between its two locks breaks it.
ControlReachesPipeline ==
  mapped # Unmapped /\ ~pushing /\ ~resetting => config[mapped] = params
=============================================================================
