----------------------------- MODULE Strategies -----------------------------
(***************************************************************************)
(* The strategies of a node that send their calls through pipelines.       *)
(* create_strategy picks one by name when the service starts; it stays.    *)
(* static and static-conservative keep one mutex around the map and never  *)
(* change their parameters; mas-agent, -swim and -inbound are              *)
(* AgentPipeline; central is CentralPipeline.                              *)
(***************************************************************************)
EXTENDS AgentPipeline, CentralPipeline

VARIABLE strategy

nodeVars == <<centralVars, strategy>>

\* Two mutexes only matter to the central strategy.
NoGaps == UNCHANGED <<read, pushing, resetting>>

\* StaticStrategy: call_downstreams and reset of an agent that never decides.
StaticNext ==
  \/ \E c \in Calls : AgentLookup(c) \/ AgentCallStep(c) \/ AgentDrop(c)
  \/ AgentReset
  \/ AgentTick

Init == CentralInit /\ strategy \in {"static", "mas-agent", "central"}

Next ==
  /\ \/ strategy = "static" /\ StaticNext /\ NoGaps
     \/ strategy = "mas-agent" /\ AgentNext /\ NoGaps
     \/ strategy = "central" /\ CentralNext
  /\ UNCHANGED strategy

\* What the task of a call does by itself.
Run(c) == CallStep(c) /\ UNCHANGED <<strategyVars, strategy>>

\* A call that has its pipeline keeps running: no lock is held across an await,
\* every fetch carries a timeout (fetch_json) and every sleep is a finite timer.
\* Nothing is assumed of clients, decisions, resets or the clock.
Spec == Init /\ [][Next]_nodeVars /\ \A c \in Calls : WF_nodeVars(Run(c))

-----------------------------------------------------------------------------
(* Properties.                                                               *)

\* Types of the pipelines and of the parameters and copies around them.
StrategyTypeOK ==
  /\ PipelineTypeOK
  /\ params \in Configs
  /\ read \in [Calls -> {{}} \cup {{cfg} : cfg \in Configs}]
  /\ pushing \in BOOLEAN
  /\ resetting \in BOOLEAN
  /\ strategy \in {"static", "mas-agent", "central"}

\* Under one mutex the mapped pipeline always runs with the strategy's own
\* parameters, whatever lookups, ticks and resets interleave (mas.rs:79-83,
\* 133-136, 176-183).  ControlReachesPipeline shows that two mutexes break it.
ParamsInForce ==
  strategy # "central" /\ mapped # Unmapped => config[mapped] = params

\* A call that got its pipeline returns to its handler (or is dropped with it),
\* even if decisions change the retry count for ever (resilience.rs:180-206).
EveryCallReturns ==
  \A c \in Calls : (pc[c] = "acquire") ~> (pc[c] \in {"done", "dropped"})

\* What the pipelines promise under any source of parameters, every strategy
\* keeps: the gaps between the central strategy's locks break none of it.
ImplementsPipeline == PipelineSpec
=============================================================================
