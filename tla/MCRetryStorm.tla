---------------------------- MODULE MCRetryStorm ----------------------------
(* One slot, two places in the queue: with service longer than the patience  *)
(* of clients, attempts are served late, wait, are shed and are canceled; the *)
(* largest gap skips several ticks.                                           *)
EXTENDS RetryStorm

MCServiceTimes == {1, 3}
MCGaps == {1, 2, 7}
=============================================================================
