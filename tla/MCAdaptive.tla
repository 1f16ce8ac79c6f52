----------------------------- MODULE MCAdaptive -----------------------------
(* Two handlers, three downstreams (one open breaker of three and two of     *)
(* three fall on either side of the 40 % cap), a window of two seconds that    *)
(* comes round once; the agent's timer fires twice: enough to come down and to *)
(* try to rise again, and for a reset between a snapshot and its decision.     *)
EXTENDS Adaptive, TLC

CONSTANTS r1, r2, d1, d2, d3

MCRequests == {r1, r2}
MCDownstreams == {d1, d2, d3}
MCDefault == [retries |-> 3, threshold |-> 5, limit |-> 8, timeout |-> 6, backoff |-> 4]
MCP90s == {100, 3500}
MCSymmetry == Permutations(MCRequests) \cup Permutations(MCDownstreams)
=============================================================================
