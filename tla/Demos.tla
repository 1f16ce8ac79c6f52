-------------------------------- MODULE Demos --------------------------------
(***************************************************************************)
(* `demo`: one program that is every gateway, service and client of the    *)
(* demos.  A scenario starts the three services of one demo and a client   *)
(* is run against them: either orders are placed or answers combined.      *)
(***************************************************************************)
EXTENDS Orders, Combine

VARIABLE family    \* "saga" or "circuit-breaker"

demosVars == <<family, orderVars, combineVars>>

\* What does not run stays as it was.
Init ==
  \/ /\ family = "saga"
     /\ OrderInit
     /\ gateway = "gateway" /\ CombineRest
  \/ /\ family = "circuit-breaker"
     /\ CombineInit
     /\ demo = CHOOSE d \in OrderScenarios : TRUE
     /\ OrderRest

Next ==
  \/ family = "saga" /\ OrderNext /\ UNCHANGED <<family, combineVars>>
  \/ family = "circuit-breaker" /\ CombineNext /\ UNCHANGED <<family, orderVars>>

Spec == Init /\ [][Next]_demosVars

\* Types of both.
DemosTypeOK ==
  /\ family \in {"saga", "circuit-breaker"} /\ demo \in OrderScenarios
  /\ OrderTypeOK
  /\ CombineTypeOK
=============================================================================
