--------------------------- MODULE MCVeggieFlight ---------------------------
EXTENDS VeggieFlight

\* The fruit of the menu where it hangs in the code.
MCMenuX == [i \in {1} |-> 30]
MCMenuY == [i \in {1} |-> 100]

\* Throws from both halves of the screen, one of which falls back and one of
\* which leaves over the edge, and a sword so low that the hitbox wraps.
MCX == {249, 401}
MCVX == {-12, 5}
MCVY == {24, 30}
MCCursors == {<<310, 60>>}
=============================================================================
