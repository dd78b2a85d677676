---------------------------- MODULE MCScheduler -----------------------------
(* Model values for Scheduler.                                              *)
EXTENDS Scheduler, TLC

CONSTANTS p1, p2

TwoPasses == {p1, p2}
=============================================================================
