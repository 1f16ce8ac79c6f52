--------------------------- MODULE MCFaultInjector ---------------------------
(* Three overlapping requests against two peers: an injection, a recovery and *)
(* one more of either kind; a ramp of two commands.                           *)
EXTENDS FaultInjector, TLC

CONSTANTS h1, h2, h3, p1, p2

MCHandlers == {h1, h2, h3}
MCPeers == {p1, p2}
MCSymmetry == Permutations(MCHandlers) \cup Permutations(MCPeers)
=============================================================================
