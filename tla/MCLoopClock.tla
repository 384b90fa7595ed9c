---------------------------- MODULE MCLoopClock ----------------------------
(* LoopClock with a counter that restarts after twenty ticks.              *)
EXTENDS LoopClock
=============================================================================
