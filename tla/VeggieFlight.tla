---------------------------- MODULE VeggieFlight ----------------------------
(***************************************************************************)
(* What happens to the objects of a round: thrown by spawningEngine(),     *)
(* moved by physicsEngine(), cut by slicingEngine(), taken away by         *)
(* disintegrateEngine(), and what each does to the score and the combo.    *)
(* The engines run in the order of the trip round the loop of main(); the  *)
(* clocks that let an engine run are left open.  Modes, lives and the end  *)
(* of the round are GameLoop's; here a round goes on for as long as        *)
(* MAXTHROWS lets it.                                                      *)
(***************************************************************************)
EXTENDS Integers, FiniteSets

CONSTANTS
  Veggies, Bomb,      \* the slots of veggies, 1 .. 8, and of the bomb, 9
  Menu,               \* the slots of the fruits of the menu, 1 .. 3
  MenuX, MenuY,       \* where these are when the round starts
  WIDTH, HEIGHT,      \* of the screen, 640 and 480
  XS, VXS, VYS,       \* the places and speeds rand() may give
  MAXVY,              \* the fastest throw, 30
  FALL,               \* the fastest fall from anywhere on the screen, 31
  BOX, BELOW, ABOVE,  \* the hitbox: 75, 60 and 15
  UINT,               \* the number of values of an unsigned int, 2^32
  Cursors,            \* where the sword may point
  COMBO,              \* the combos a streak may carry into the round
  MAXTHROWS           \* bound on the throws of a behaviour

Slots == Veggies \cup {Bomb}

ASSUME SlotAssumption ==
  /\ IsFiniteSet(Veggies) /\ Bomb \notin Veggies
  /\ Menu \subseteq Veggies /\ Menu # {}

ASSUME ScreenAssumption == WIDTH \in Nat /\ HEIGHT \in Nat

ASSUME MenuAssumption ==
  /\ MenuX \in [Menu -> 0 .. WIDTH]
  /\ MenuY \in [Menu -> 0 .. HEIGHT]

ASSUME ThrowAssumption ==
  /\ XS \subseteq 0 .. WIDTH
  /\ VXS \subseteq Int
  /\ MAXVY \in Nat /\ VYS \subseteq 0 .. MAXVY

\* A throw of the greatest speed turns below the top of the screen, and a
\* fall from the top does not get faster than FALL.
ASSUME HeightAssumption ==
  /\ MAXVY * (MAXVY + 1) <= 2 * HEIGHT
  /\ FALL \in Nat /\ FALL * (FALL + 1) > 2 * HEIGHT

ASSUME BoxAssumption ==
  BOX \in Nat /\ BELOW \in Nat /\ ABOVE \in Nat
  /\ UINT \in Nat /\ UINT >= BELOW + 1024

\* The cursor's registers have ten bits.
TenBits == 0 .. 1023

ASSUME CursorAssumption == Cursors \subseteq TenBits \X TenBits

ASSUME BoundAssumption == COMBO \in Nat /\ MAXTHROWS \in Nat

VARIABLES
  pc,                     \* the engine whose turn it is
  objectState,            \* of each slot: 0 empty, 1 whole, 2 .. 4 cut
  xPosition, yPosition,   \* of each slot
  xVelocity, yVelocity,
  score,                  \* veggieObject[0].xPosition
  comboFruit,
  cursorStreak, cursor,   \* as read by the last port2Unpackager()
  throws,                 \* history: objects thrown so far
  moves,                  \* history: moves of the object so far
  cuts                    \* history: how often it has been cut

objects == <<objectState, xPosition, yPosition, xVelocity, yVelocity>>
flightVars == <<pc, objects, score, comboFruit, cursorStreak, cursor, throws,
                moves, cuts>>

-----------------------------------------------------------------------------
Free(i) == objectState[i] = 0

\* The sideways speeds for a place at the bottom, narrower for the bomb.
SpeedsAt(i, x) ==
  IF x < (IF i = Bomb THEN 300 ELSE 250) THEN 0 .. 11
  ELSE IF x > (IF i = Bomb THEN 350 ELSE 400) THEN -12 .. -1
  ELSE -6 .. 5

Throws(i) == {t \in XS \X VXS \X VYS : t[2] \in SpeedsAt(i, t[1])}

\* Mutant: what falls below the floor is not let go.
OutsideAside(x, y) == x < 0 \/ x > WIDTH

Outside(x, y) == y < 0 \/ x < 0 \/ x > WIDTH

\* f, with 0 for the slots that are now empty.
Without(f, gone) == [i \in Slots |-> IF i \in gone THEN 0 ELSE f[i]]

\* Mutant: what rises is not slowed down.
PulledWhenFalling(v) == IF v > 0 THEN v ELSE v - 1

\* Gravity.
Pulled(v) == v - 1

\* Mutant: the coordinates are compared as signed numbers.
HitSigned(i) ==
  /\ xPosition[i] < cursor[1] /\ cursor[1] < xPosition[i] + BOX
  /\ yPosition[i] - BELOW < cursor[2] /\ cursor[2] < yPosition[i] + ABOVE

\* The hitbox.  The cursor is unsigned, so all four comparisons are: below
\* BELOW the lower edge wraps to a number no cursor reaches.
Hit(i) ==
  /\ xPosition[i] < cursor[1] /\ cursor[1] < xPosition[i] + BOX
  /\ (yPosition[i] - BELOW) % UINT < cursor[2]
  /\ cursor[2] < yPosition[i] + ABOVE

\* Mutant: an object already cut is cut again.
CuttableAgain(i) == objectState[i] \in {1, 2} /\ Hit(i)

Cuttable(i) == objectState[i] = 1 /\ Hit(i)

\* n veggies cut in one pass add 2 for the first of the combo, 4 for the
\* second and so on.
Reward(n) == n * (2 * comboFruit + n + 1)

-----------------------------------------------------------------------------
\* A round has just been started: the fruit of the menu that was sliced is
\* cut, the others hang where they were, and all of them start to fall.
FlightInit ==
  /\ pc = "unpack"
  /\ \E cut \in Menu :
       objectState = [i \in Slots |-> IF i \notin Menu THEN 0
                                      ELSE IF i = cut THEN 2 ELSE 1]
  /\ xPosition = [i \in Slots |-> IF i \in Menu THEN MenuX[i] ELSE 0]
  /\ yPosition = [i \in Slots |-> IF i \in Menu THEN MenuY[i] ELSE 0]
  /\ xVelocity = [i \in Slots |-> 0]
  /\ yVelocity = [i \in Slots |-> 0]
  /\ score = 0
  /\ comboFruit \in 0 .. COMBO
  /\ cursorStreak = 1 /\ cursor \in Cursors
  /\ throws = 0
  /\ moves = [i \in Slots |-> 0]
  /\ cuts = [i \in Slots |-> 0]

\* Every object that exists moves; those that are then beyond the screen are
\* gone, and each veggie among them costs 3.
Physics ==
  /\ pc = "physics" /\ pc' = "spawn"
  /\ LET x(i) == xPosition[i] + xVelocity[i]
         y(i) == yPosition[i] + yVelocity[i]
         moved == {i \in Slots : objectState[i] # 0}
         gone == {i \in moved : Outside(x(i), y(i))}
         kept == moved \ gone
     IN /\ objectState' = [i \in Slots |-> IF i \in kept THEN objectState[i]
                                                         ELSE 0]
        /\ xPosition' = [i \in Slots |-> IF i \in kept THEN x(i)
                                 ELSE IF i \in gone THEN 0 ELSE xPosition[i]]
        /\ yPosition' = [i \in Slots |-> IF i \in kept THEN y(i)
                                 ELSE IF i \in gone THEN 0 ELSE yPosition[i]]
        /\ xVelocity' = [i \in Slots |-> IF i \in gone THEN 0
                                                       ELSE xVelocity[i]]
        /\ yVelocity' = [i \in Slots |-> IF i \in kept
                                         THEN Pulled(yVelocity[i])
                                 ELSE IF i \in gone THEN 0 ELSE yVelocity[i]]
        /\ moves' = [i \in Slots |-> IF i \in kept THEN moves[i] + 1
                                                   ELSE 0]
        /\ cuts' = Without(cuts, gone)
        /\ score' = score - 3 * Cardinality(gone \ {Bomb})
  /\ UNCHANGED <<comboFruit, cursorStreak, cursor, throws>>

\* spawningEngine() throws the bomb, or up to five veggies from free slots
\* it happens to find.
Spawn(S, throw) ==
  /\ pc = "spawn" /\ pc' = "disintegrate"
  /\ S \subseteq Slots
  /\ \A i \in S : Free(i) /\ throw[i] \in Throws(i)
  /\ throws + Cardinality(S) <= MAXTHROWS
  /\ objectState' = [i \in Slots |-> IF i \in S THEN 1 ELSE objectState[i]]
  /\ xPosition' = [i \in Slots |-> IF i \in S THEN throw[i][1]
                                              ELSE xPosition[i]]
  /\ yPosition' = [i \in Slots |-> IF i \in S THEN 0 ELSE yPosition[i]]
  /\ xVelocity' = [i \in Slots |-> IF i \in S THEN throw[i][2]
                                              ELSE xVelocity[i]]
  /\ yVelocity' = [i \in Slots |-> IF i \in S THEN throw[i][3]
                                              ELSE yVelocity[i]]
  /\ throws' = throws + Cardinality(S)
  /\ moves' = [i \in Slots |-> IF i \in S THEN 0 ELSE moves[i]]
  /\ cuts' = [i \in Slots |-> IF i \in S THEN 0 ELSE cuts[i]]
  /\ UNCHANGED <<score, comboFruit, cursorStreak, cursor>>

Batches == {{Bomb}} \cup {S \in SUBSET Veggies : Cardinality(S) <= 5}

Disintegrated(i) ==
  CASE objectState[i] = 2 -> 3
    [] objectState[i] = 3 -> IF i = Bomb THEN 4 ELSE 0
    [] objectState[i] = 4 -> 0
    [] OTHER -> objectState[i]

Emptied(gone) ==
  /\ xPosition' = Without(xPosition, gone)
  /\ yPosition' = Without(yPosition, gone)
  /\ xVelocity' = Without(xVelocity, gone)
  /\ yVelocity' = Without(yVelocity, gone)

\* A cut object crumbles by one stage, the last of which empties the slot.
Disintegrate ==
  /\ pc = "disintegrate" /\ pc' = "slice"
  /\ LET gone == {i \in Slots : objectState[i] # 0 /\ Disintegrated(i) = 0}
     IN /\ objectState' = [i \in Slots |-> Disintegrated(i)]
        /\ Emptied(gone)
        /\ moves' = Without(moves, gone)
        /\ cuts' = Without(cuts, gone)
  /\ UNCHANGED <<score, comboFruit, cursorStreak, cursor, throws>>

\* slicingEngine() in a round: everything under the cursor is cut, the bomb
\* last, streak or no streak.
Slice ==
  /\ pc = "slice" /\ pc' = "unpack"
  /\ LET cut == {i \in Slots : Cuttable(i)}
         n == Cardinality(cut \ {Bomb})
     IN /\ objectState' = [i \in Slots |-> IF i \in cut THEN 2
                                                        ELSE objectState[i]]
        /\ cuts' = [i \in Slots |-> IF i \in cut THEN cuts[i] + 1
                                                 ELSE cuts[i]]
        /\ score' = score + Reward(n) - (IF Bomb \in cut THEN 15 ELSE 0)
        /\ comboFruit' = IF Bomb \in cut THEN 0 ELSE comboFruit + n
  /\ UNCHANGED <<xPosition, yPosition, xVelocity, yVelocity, cursorStreak,
                 cursor, throws, moves>>

\* Mutant: the score is cut off at the combo's end only.
ClampOnStreakEnd(s) ==
  /\ comboFruit' = IF s = 0 THEN 0 ELSE comboFruit
  /\ score' = IF s = 0 /\ score < 0 THEN 0 ELSE score

\* What port2Unpackager() does besides reading: no streak, no combo, and
\* the score does not go below zero.
Clamp(s) ==
  /\ comboFruit' = IF s = 0 THEN 0 ELSE comboFruit
  /\ score' = IF score < 0 THEN 0 ELSE score

Unpack(s, c) ==
  /\ pc = "unpack" /\ pc' = "send"
  /\ cursorStreak' = s /\ cursor' = c
  /\ Clamp(s)
  /\ UNCHANGED <<objects, throws, moves, cuts>>

\* FPGAcommunicator() sends the frame.
Send ==
  /\ pc = "send" /\ pc' = "physics"
  /\ UNCHANGED <<objects, score, comboFruit, cursorStreak, cursor, throws,
                 moves, cuts>>

\* An engine whose time has not come is passed over.
Skip(here, after) ==
  /\ pc = here /\ pc' = after
  /\ UNCHANGED <<objects, score, comboFruit, cursorStreak, cursor, throws,
                 moves, cuts>>

NoPhysics == Skip("physics", "spawn")
NoSpawn == Skip("spawn", "disintegrate")
NoDisintegrate == Skip("disintegrate", "slice")

FlightNext ==
  \/ Physics \/ NoPhysics
  \/ NoSpawn \/ \E S \in Batches : \E throw \in [S -> XS \X VXS \X VYS] :
                  Spawn(S, throw)
  \/ Disintegrate \/ NoDisintegrate
  \/ Slice
  \/ \E s \in {0, 1}, c \in Cursors : Unpack(s, c)
  \/ Send

FlightSpec == FlightInit /\ [][FlightNext]_flightVars

-----------------------------------------------------------------------------
\* Every variable holds a value of its range.
TypeOK ==
  /\ pc \in {"physics", "spawn", "disintegrate", "slice", "unpack", "send"}
  /\ objectState \in [Slots -> 0 .. 4]
  /\ xPosition \in [Slots -> 0 .. WIDTH]
  /\ yPosition \in [Slots -> Nat]
  /\ xVelocity \in [Slots -> Int]
  /\ yVelocity \in [Slots -> Int]
  /\ score \in Int
  /\ comboFruit \in Nat
  /\ cursorStreak \in {0, 1}
  /\ cursor \in Cursors
  /\ throws \in Nat
  /\ moves \in [Slots -> Nat]
  /\ cuts \in [Slots -> Nat]

\* No score below zero is ever sent, although veggies that escape and bombs
\* take the score there in the middle of a trip.
ScoreSentNotNegative == pc = "send" => score >= 0

\* No object is ever above the screen: what is thrown turns before it, so
\* the y the display wraps at ten bits never does.
BelowTheTop == \A i \in Slots : yPosition[i] <= HEIGHT

\* Cut or not, an object is gone MAXVY + FALL moves after it was thrown: no
\* slot is lost to an object that stays.
FlightEnds ==
  \A i \in Slots : objectState[i] # 0 => moves[i] <= MAXVY + FALL

\* An object is cut at most once, so it earns or costs its points once.
CutOnce == \A i \in Slots : cuts[i] <= 1

\* An empty slot is at rest in the corner, and no speed of an earlier object
\* is left in it.
EmptyAtRest ==
  \A i \in Slots :
    objectState[i] = 0 => /\ xPosition[i] = 0 /\ yPosition[i] = 0
                          /\ xVelocity[i] = 0 /\ yVelocity[i] = 0

\* Nothing is cut while it is lower than BELOW, wherever the sword is: the
\* lower edge of its hitbox would be negative, and the comparison is
\* unsigned.
CutFromHeight ==
  [][\A i \in Slots :
       objectState[i] = 1 /\ objectState'[i] = 2 => yPosition[i] >= BELOW]_flightVars

-----------------------------------------------------------------------------
(* Why they hold.                                                          *)

\* The energy of a flight: 2y + v(v+1) does not change, and is not more than
\* a throw or a place on the screen gives.
Energy(i) == 2 * yPosition[i] + yVelocity[i] * (yVelocity[i] + 1)

EnergyBounded == \A i \in Slots : Energy(i) <= 2 * HEIGHT

\* Every move of a flight takes one from its speed.
MovesCounted ==
  \A i \in Slots : objectState[i] # 0 => moves[i] + yVelocity[i] <= MAXVY

\* Only what is whole is not yet cut.
CutsCounted ==
  \A i \in Slots : /\ cuts[i] <= 1
                   /\ objectState[i] = 1 => cuts[i] = 0

FlightInv ==
  /\ TypeOK
  /\ EnergyBounded
  /\ MovesCounted
  /\ CutsCounted
  /\ EmptyAtRest
  /\ ScoreSentNotNegative
=============================================================================
