----------------------------- MODULE VgaTiming -----------------------------
(***************************************************************************)
(* vga_controller: the place of the beam and the two sync pulses.  The     *)
(* step of the module is the 25 MHz pixel clock; the whole behaviour is    *)
(* that of FrameDisplayer, which is driven by the beam.                    *)
(***************************************************************************)
EXTENDS Integers

VARIABLES
  hc, vc,          \* counters of pixels and lines, DrawX and DrawY
  hs, vs           \* the sync pulses, active low

hpixels == 799
vlines == 524

beam == <<hc, vc, hs, vs>>

InPicture(x, y) == x < 640 /\ y < 480

\* The wire display, VGA_BLANK_N outside.
Display == InPicture(hc, vc)

NextLine == IF vc = vlines THEN 0 ELSE vc + 1

\* Both pulses are registered: they are computed from the counters as they
\* were, and the one of the lines from the line after.
LineSync == IF hc + 1 >= 656 /\ hc + 1 < 752 THEN 0 ELSE 1
FrameSync == IF vc + 1 = 490 \/ vc + 1 = 491 THEN 0 ELSE 1

\* A cycle of the pixel clock.
Count ==
  /\ hc' = IF hc = hpixels THEN 0 ELSE hc + 1
  /\ vc' = IF hc = hpixels THEN NextLine ELSE vc
  /\ hs' = LineSync
  /\ vs' = FrameSync

\* KEY[0], which stops the pixel clock as well.
ResetBeam == hc' = 0 /\ vc' = 0 /\ hs' = 0 /\ vs' = 0

BeamTypeOK == hc \in 0 .. hpixels /\ vc \in 0 .. vlines /\ hs \in 0 .. 1 /\ vs \in 0 .. 1

\* Where the pulses are: never in the picture, except at its first pixel after
\* a reset, and on lines 489 and 490, one before the lines that the comment at
\* vga_controller's line 98 gives.
SyncOutsidePicture ==
  \/ hc = 0 /\ vc = 0
  \/ /\ hs = 0 <=> hc >= 656 /\ hc < 752
     /\ vs = 0 <=> \/ hc > 0 /\ (vc = 489 \/ vc = 490)
                   \/ hc = 0 /\ (vc = 490 \/ vc = 491)
=============================================================================
