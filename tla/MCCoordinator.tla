---------------------------- MODULE MCCoordinator ----------------------------
(* Two seeds; a permanent fault of the base profile on s1, a temporary one *)
(* of the overlay on top of it, and a partition of s2 whose end falls on   *)
(* the end of the load test, before, with or after its last request.       *)
EXTENDS Coordinator

CONSTANTS s1, s2

Fault(svc, layer, start, end) == [svc |-> svc, layer |-> layer, start |-> start, end |-> end]

MCServices == {s1, s2}
MCProfiles == << {Fault(s1, "tc", 0, None)},
                 {Fault(s1, "tc", 1, 2)},
                 {Fault(s2, "iptables", 1, 4)} >>
=============================================================================
