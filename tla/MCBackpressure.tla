---------------------------- MODULE MCBackpressure ----------------------------
(* Three concurrent calls.  The constants keep the order of the code's: the   *)
(* timeout is shorter than the probe period, that is shorter than the window. *)
EXTENDS Backpressure, TLC

CONSTANTS c1, c2, c3

MCCalls == {c1, c2, c3}
MCSymmetry == Permutations(MCCalls)
=============================================================================
