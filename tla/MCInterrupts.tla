---------------------------- MODULE MCInterrupts ----------------------------
(* The processor's interrupts, with devices that ask as often as they like: *)
(* who may be kept waiting.  Of three lines one has both a more urgent one  *)
(* that interrupts it and a less urgent one that it interrupts.             *)
EXTENDS Interrupts

ASSUME InterruptsAssumption == Bounds
=============================================================================
