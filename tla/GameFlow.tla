------------------------------ MODULE GameFlow ------------------------------
(***************************************************************************)
(* What the game promises its player, with no loop, clock or vegetables:   *)
(* the screens, the verdict that is pending while a round fades out, and   *)
(* the lives.  GameLoop, the model of the program's main loop, implements  *)
(* it.                                                                     *)
(***************************************************************************)
EXTENDS Integers

CONSTANTS
  MEDIUMLIVES,   \* lives a medium round starts with (5 in the code)
  HARDLIVES      \* lives a hard round starts with (3 in the code)

VARIABLES
  screen,        \* what the player sees: the menu, a round, or its end
  verdict,       \* the screen the program has decided to show next
  lives          \* lives left, 0 outside a round

flowVars == <<screen, verdict, lives>>

Rounds == {"easy", "medium", "hard"}
Ends   == {"won", "lost"}

LivesAtStart(m) ==
  CASE m = "easy" -> 0 [] m = "medium" -> MEDIUMLIVES [] m = "hard" -> HARDLIVES

\* The program boots with a change to the menu already pending.
FlowInit ==
  /\ screen = "menu"
  /\ verdict = "menu"
  /\ lives = 0

\* The player slices one of the three fruits of the menu.
StartRound(m) ==
  /\ screen = "menu"
  /\ screen' = m
  /\ lives' = LivesAtStart(m)
  /\ UNCHANGED verdict

\* The player slices the bomb, which only a hard round throws.
LoseLife ==
  /\ screen = "hard"
  /\ lives > 0
  /\ lives' = lives - 1
  /\ UNCHANGED <<screen, verdict>>

\* The round's clock reaches zero.  A verdict already pending is replaced.
TimeUp ==
  /\ screen \in Rounds
  /\ verdict' = "won"
  /\ UNCHANGED <<screen, lives>>

\* No lives are left.  A verdict already pending is replaced.
OutOfLives ==
  /\ screen = "hard"
  /\ lives = 0
  /\ verdict' = "lost"
  /\ UNCHANGED <<screen, lives>>

\* The pending screen replaces the present one.
ShowVerdict ==
  /\ verdict # "none"
  /\ verdict \in Ends => screen \in Rounds
  /\ screen' = verdict
  /\ verdict' = "none"
  /\ lives' = 0

\* The player slices the fruit that an end screen shows.
Continue ==
  /\ screen \in Ends
  /\ screen' = "menu"
  /\ UNCHANGED <<verdict, lives>>

FlowNext ==
  \/ \E m \in Rounds : StartRound(m)
  \/ LoseLife \/ TimeUp \/ OutOfLives \/ ShowVerdict \/ Continue

\* Only the clock and the program are fair: the player owes nothing.
FlowSpec ==
  /\ FlowInit /\ [][FlowNext]_flowVars
  /\ WF_flowVars(TimeUp)
  /\ WF_flowVars(ShowVerdict)
=============================================================================
