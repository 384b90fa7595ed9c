-------------------------- MODULE MCFrameDisplayer --------------------------
EXTENDS FrameDisplayer

\* The menu as the game sets it up, its first fruit cut, its second under a
\* text.
MCMenu ==
  [screen |-> 0, state |-> <<2, 1, 1, 0, 0, 0, 0, 0, 0>>,
   x |-> <<30, 180, 450, 0, 0, 0, 0, 0, 0>>,
   y |-> <<380, 160, 260, 480, 480, 480, 480, 480, 480>>, cursor |-> <<50, 100>>]

\* A round: each object begins or ends on a line that is followed, some
\* overlap, two touch the edges of the screen, the explosion is at its end.
MCRound ==
  [screen |-> 3, state |-> <<1, 2, 3, 2, 1, 3, 1, 2, 4>>,
   x |-> <<0, 50, 60, 300, 340, 576, 630, 420, 430>>,
   y |-> <<290, 355, 354, 354, 353, 467, 353, 285, 291>>,
   cursor |-> <<340, 126>>]

\* The two ends of a game: the carrot to go on with, and what is left of the
\* bomb.
MCWon ==
  [screen |-> 4, state |-> <<0, 0, 0, 1, 0, 0, 0, 0, 4>>,
   x |-> <<0, 0, 0, 230, 0, 0, 0, 0, 270>>,
   y |-> <<480, 480, 480, 330, 480, 480, 480, 480, 303>>, cursor |-> <<0, 0>>]
MCLost ==
  [screen |-> 5, state |-> <<0, 0, 0, 2, 0, 0, 0, 0, 1>>,
   x |-> <<0, 0, 0, 230, 0, 0, 0, 0, 400>>,
   y |-> <<480, 480, 480, 330, 480, 480, 480, 480, 320>>, cursor |-> <<500, 1000>>]

MCFrames == {MCMenu, MCRound, MCWon, MCLost}

\* Every eighth word of the sprites and texts is transparent.
MCClear == {spriteOffset + 8 * k : k \in 0 .. 15855}

\* The ends of the screen and of the title, the top of a fruit of the menu, the
\* last line of another, 'Continue' and the end of the memory under it, and the
\* pulse between two frames.
MCStartLines == {36, 240, 353, 366, 380, 479, 489, 524}
MCLines == MCStartLines \cup {0, 1, 37, 354, 355, 367, 480, 490, 491}
=============================================================================
