---------------------------- MODULE MCGameLoop ----------------------------
(* GameLoop with the constants of its configurations, for TLC.  Slots 1 to *)
(* 4 have roles of their own, so slots are not symmetric.                  *)
EXTENDS GameLoop
=============================================================================
