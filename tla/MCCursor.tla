------------------------------ MODULE MCCursor ------------------------------
(* From the player's hand to the cursor, one part in a behaviour, from     *)
(* start to end: the sword of the game (SwordFilter), one of the sketches  *)
(* before it (EarlierSketches), or the way from the radio to the game      *)
(* (CursorPath).  The sword has a handful of readings: upright, upside     *)
(* down and vertical, near the middle, a jump away and off the screen; a   *)
(* sketch has rest, and either corner at speed; the packages on the way    *)
(* differ in both bits of both coordinates, on two pins.                   *)
EXTENDS SwordFilter

CONSTANTS
  SketchReadings, SKETCHSTREAK, SketchSteps, MAXMILLIS, MAXPACKETS,
  PINS, Packages, Boot, FIFO, MAXREAD

VARIABLES
  part,
  sketch, at, ready, dmpEnabled, fifo, packets, cleared, reading, filled, sent,
  wire, received, relayed, button, millis, streakMillis, moved, sentAt,
  air, receiverAt, bit, radioPackage, transmittedType, pins, xyPin, streakPin, buttonPin,
  xRegister, yRegister, cpu, cursorStreak, cursorClicked, xCursor, yCursor,
  read, xAge, yAge, streakAge, xSeen, ySeen, streakSeen

R(yaw, pitch, roll, grav) ==
  [yaw |-> yaw, pitch |-> pitch, roll |-> roll, grav |-> grav]

MCReadings ==
  { R(0, 0, 0, 8192),         \* at rest
    R(30, 0, 0, 8192),        \* a move
    R(30, 0, 0, -8192),       \* the same, upside down
    R(400, -300, 0, 8192),    \* off the screen
    R(100, 20, 75, 0) }       \* vertical

Swing(yaw, pitch, gyro) == [yaw |-> yaw, pitch |-> pitch, gyro |-> gyro]

MCSketchReadings == { Swing(0, 0, 0), Swing(100, 90, 5), Swing(-100, -90, 20) }

Word(x, y, s, b) == [xCoordinate |-> x, yCoordinate |-> y, streakActive |-> s, buttonClicked |-> b]

MCBoot == Word(2, 1, 1, 0)
MCPackages == { Word(1, 2, 1, 0), Word(2, 3, 0, 1) }

Sketch == INSTANCE EarlierSketches
            WITH Readings <- SketchReadings, STREAK <- SKETCHSTREAK, Steps <- SketchSteps,
                 pc <- at, dmpReady <- ready, package <- filled
Path   == INSTANCE CursorPath
            WITH pc <- receiverAt, xCoordinate <- xRegister, yCoordinate <- yRegister

ASSUME CursorAssumption == Sketch!Bounds /\ Path!Bounds

sketches == <<sketch, at, ready, dmpEnabled, fifo, packets, cleared, reading, filled, sent,
              wire, received, relayed, button, millis, streakMillis, moved, sentAt>>
path == <<air, receiverAt, bit, radioPackage, transmittedType, pins, xyPin, streakPin,
          buttonPin, xRegister, yRegister, cpu, cursorStreak, cursorClicked, xCursor,
          yCursor, read, xAge, yAge, streakAge, xSeen, ySeen, streakSeen>>
all == <<part, vars, sketches, path>>

(* The parts that do not run stand still, in one of their first states.    *)
CursorInit ==
  /\ part \in {"sword", "sketch", "path"}
  /\ Init /\ Sketch!Init /\ Path!Init
  /\ part # "sword" => dmpReady
  /\ part # "sketch" => sketch = "MPU_unit2"

CursorNext ==
  /\ UNCHANGED part
  /\ \/ part = "sword" /\ Next /\ UNCHANGED <<sketches, path>>
     \/ part = "sketch" /\ Sketch!Next /\ UNCHANGED <<vars, path>>
     \/ part = "path" /\ Path!Next /\ UNCHANGED <<vars, sketches>>

CursorSpec == CursorInit /\ [][CursorNext]_all

(* The receiver's loop() and the main loop of the game never stop.         *)
Receives == part = "path" /\ Path!Receiver /\ UNCHANGED <<part, vars, sketches>>
Plays    == part = "path" /\ Path!Game /\ UNCHANGED <<part, vars, sketches>>

FairCursorSpec == CursorSpec /\ WF_all(Receives) /\ WF_all(Plays)

(* What the earlier sketches send (EarlierSketches).                       *)
SketchesSound == Sketch!SketchesSound

(* No coordinate is put together from two (CursorPath).                    *)
CoordinatesWhole == Path!CoordinatesWhole

(* The streak is not newer than the place it is cut at (CursorPath).       *)
StreakNotAhead == Path!StreakNotAhead

(* The game comes to see the last package (CursorPath).                    *)
CursorCatchesUp == part = "path" => Path!CursorCatchesUp
=============================================================================
