---------------------------- MODULE SwordFilter ----------------------------
(***************************************************************************)
(* The sword (MPU_unit.ino): every trip round loop() reads the motion      *)
(* sensor, throws out what looks like a glitch, turns yaw and pitch into   *)
(* a point of the screen and sends it.  The glitch filter keeps the last   *)
(* point when gravity or the point jumps, and is switched off for a trip   *)
(* when it has been at it for PATIENCE trips.  The button centres the      *)
(* sword and restarts the sensor.                                          *)
(* The sensor is external: a reading is any member of Readings, its yaw    *)
(* and pitch in quarters of a degree, which are pixels.  Sending changes   *)
(* nothing here; what becomes of the package is the business of            *)
(* CursorPath.                                                             *)
(***************************************************************************)
EXTENDS Integers

CONSTANTS
  Readings,           \* what the sensor may say
  NoReading,          \* not a reading
  WIDTH, HEIGHT,      \* 640, 480
  JUMPX, JUMPY,       \* the longest move that is believed, 64 and 48
  GRAVJUMP,           \* the largest change of gravity believed, 6000
  ROLL,               \* beyond this roll the sword is vertical, 60
  MOVE,               \* a longer move makes a streak, 6
  STREAK,             \* which lasts this many milliseconds, 50
  Steps,              \* milliseconds a trip may take
  PATIENCE            \* 25

Reading == [yaw : Int, pitch : Int, roll : Int, grav : Int]

ASSUME ReadingsAssumption == Readings \subseteq Reading /\ NoReading \notin Readings
ASSUME ScreenAssumption == WIDTH \in Nat /\ HEIGHT \in Nat
ASSUME FilterAssumption ==
  /\ JUMPX \in Nat /\ JUMPY \in Nat /\ GRAVJUMP \in Nat /\ ROLL \in Nat
  /\ MOVE \in Nat /\ STREAK \in Nat /\ Steps \subseteq Nat
  /\ PATIENCE \in Nat \ {0}

VARIABLES
  pc,                         \* where loop() is
  dmpReady,                   \* the sensor was found
  xCoordinate, yCoordinate,   \* the package
  streakActive, buttonClicked,
  quiet,                      \* currentMillis - streakMillis, up to STREAK
  currGrav,
  antiGlitch, glitchCounter, deGlitchMode,
  last,                       \* history: the last reading,
  steady,                     \* trips it has stayed the same,
  calm                        \* and trips since the cursor last leapt

package == <<xCoordinate, yCoordinate, streakActive, buttonClicked>>
filter == <<currGrav, antiGlitch, glitchCounter, deGlitchMode>>
history == <<last, steady, calm>>
vars == <<pc, dmpReady, package, quiet, filter, history>>

Abs(n) == IF n < 0 THEN -n ELSE n

UpTo(n, top) == IF n > top THEN top ELSE n

-----------------------------------------------------------------------------
\* setup().  currGrav is a global that nothing has written yet.  (Starting
\* the sensor takes longer than a streak.)
Init ==
  /\ pc = "sense"
  /\ dmpReady \in BOOLEAN
  /\ xCoordinate = WIDTH \div 2 /\ yCoordinate = HEIGHT \div 2
  /\ streakActive = 0 /\ buttonClicked = 0
  /\ quiet = STREAK
  /\ currGrav = 0
  /\ antiGlitch = 0 /\ glitchCounter = 0 /\ deGlitchMode = 1
  /\ last = NoReading /\ steady = 0 /\ calm = PATIENCE

-----------------------------------------------------------------------------
\* Mutant: the filter believes no jump of gravity, even when switched off.
GravityNeverFree(g) ==
  IF Abs(g - currGrav) > GRAVJUMP THEN currGrav ELSE g

\* The gravity the trip goes by.
Gravity(g) ==
  IF Abs(g - currGrav) > GRAVJUMP /\ deGlitchMode = 1 THEN currGrav ELSE g

Clamped(v, top) == IF v > top THEN top ELSE IF v < 0 THEN 0 ELSE v

\* Where the sword points: held vertical it leaves x alone, upside down it
\* mirrors it.
PointX(r, g) ==
  IF Abs(r.roll) > ROLL THEN Clamped(xCoordinate, WIDTH)
  ELSE Clamped(IF g > 0 THEN WIDTH \div 2 + r.yaw ELSE WIDTH \div 2 - r.yaw,
               WIDTH)

PointY(r) == Clamped(HEIGHT \div 2 + r.pitch, HEIGHT)

Far(x, y) == Abs(x - xCoordinate) > JUMPX \/ Abs(y - yCoordinate) > JUMPY

\* antiGlitch is raised by a glitch, and never lowered again.
Noticed(glitch) == IF glitch THEN 1 ELSE antiGlitch

\* Mutant: the filter stays off once it has been switched off.
PatienceLost(glitching) ==
  LET n == IF glitching = 1 THEN glitchCounter + 1 ELSE 0
  IN IF n >= PATIENCE
       THEN glitchCounter' = 0 /\ deGlitchMode' = 0
       ELSE glitchCounter' = n /\ deGlitchMode' = deGlitchMode

\* After PATIENCE trips of glitches the next trip believes everything.
Patience(glitching) ==
  LET n == IF glitching = 1 THEN glitchCounter + 1 ELSE 0
  IN IF n = PATIENCE
       THEN glitchCounter' = 0 /\ deGlitchMode' = 0
       ELSE glitchCounter' = n /\ deGlitchMode' = 1

\* A move makes a streak, or one made less than STREAK ms ago lasts.
Streak(moved, ms) ==
  IF moved > MOVE
    THEN streakActive' = 1 /\ quiet' = 0
    ELSE /\ quiet' = UpTo(quiet + ms, STREAK)
         /\ streakActive' = IF quiet + ms < STREAK THEN 1 ELSE 0

\* A trip up to the sending of the package.
Sense(r, ms) ==
  /\ pc = "sense" /\ dmpReady
  /\ pc' = "button"
  /\ LET g == Gravity(r.grav)
         px == PointX(r, g)
         py == PointY(r)
         crazy == Far(px, py) /\ deGlitchMode = 1
         x == IF crazy THEN xCoordinate ELSE px
         y == IF crazy THEN yCoordinate ELSE py
         glitching == Noticed(g # r.grav \/ crazy)
     IN /\ currGrav' = g
        /\ xCoordinate' = x /\ yCoordinate' = y
        /\ Streak(Abs(x - xCoordinate) + Abs(y - yCoordinate), ms)
        /\ antiGlitch' = glitching
        /\ Patience(glitching)
        /\ calm' = IF Far(x, y) THEN 0 ELSE UpTo(calm + 1, PATIENCE)
  /\ last' = r
  /\ steady' = IF r = last THEN UpTo(steady + 1, PATIENCE + 1) ELSE 1
  /\ UNCHANGED <<dmpReady, buttonClicked>>

\* The rest of the trip: the button is up ...
NotPressed ==
  /\ pc = "button" /\ pc' = "sense"
  /\ UNCHANGED <<dmpReady, package, quiet, filter, history>>

\* ... or down, and a second package is sent ...
Pressed ==
  /\ pc = "button" /\ pc' = "reset"
  /\ xCoordinate' = WIDTH \div 2
  /\ streakActive' = 0 /\ buttonClicked' = 1
  /\ steady' = 0
  /\ UNCHANGED <<dmpReady, yCoordinate, quiet, filter, last, calm>>

\* ... and the sensor restarted, which takes more than a second.
Restart ==
  /\ pc = "reset" /\ pc' = "sense"
  /\ dmpReady' = TRUE
  /\ buttonClicked' = 0
  /\ quiet' = STREAK
  /\ UNCHANGED <<xCoordinate, yCoordinate, streakActive, filter, history>>

\* With no sensor loop() returns at once, for ever.
NotReady == ~dmpReady /\ pc = "sense" /\ UNCHANGED vars

Next ==
  \/ \E r \in Readings, ms \in Steps : Sense(r, ms)
  \/ NotPressed \/ Pressed \/ Restart \/ NotReady

Spec == Init /\ [][Next]_vars

-----------------------------------------------------------------------------
\* Every variable is in its range, the point on the screen (its right and
\* lower borders, 640 and 480, included).
TypeOK ==
  /\ pc \in {"sense", "button", "reset"}
  /\ dmpReady \in BOOLEAN
  /\ xCoordinate \in 0 .. WIDTH /\ yCoordinate \in 0 .. HEIGHT
  /\ streakActive \in {0, 1} /\ buttonClicked \in {0, 1}
  /\ quiet \in 0 .. STREAK
  /\ currGrav \in Int
  /\ antiGlitch \in {0, 1} /\ deGlitchMode \in {0, 1}
  /\ glitchCounter \in 0 .. PATIENCE - 1
  /\ last \in Readings \cup {NoReading}
  /\ steady \in 0 .. PATIENCE + 1
  /\ calm \in 0 .. PATIENCE

\* The cursor is where the sword points, by the gravity of the reading.
Settled ==
  /\ currGrav = last.grav
  /\ xCoordinate = PointX(last, last.grav)
  /\ yCoordinate = PointY(last)

\* The filter cannot lock the cursor out: when the sensor has said the same
\* for more than PATIENCE trips the cursor is where the sword points,
\* whatever was rejected before and however often the filter was wrong.
CursorArrives == steady > PATIENCE => Settled

\* And it is not switched off too often: between two leaps of the cursor
\* longer than JUMPX or JUMPY there are at least PATIENCE - 1 trips with
\* none.
LeapsRare ==
  [][pc = "sense" /\ Far(xCoordinate', yCoordinate') => calm >= PATIENCE - 1]_vars

-----------------------------------------------------------------------------
(* Why they hold.                                                          *)

\* Each trip on the way to the next believing one is a trip without a leap.
CalmCounted ==
  /\ glitchCounter <= calm + 1
  /\ deGlitchMode = 0 => glitchCounter = 0 /\ calm >= PATIENCE - 1

\* While the cursor is not where the sword points, the trips of the same
\* reading are being counted.
Waiting ==
  /\ steady > 0 => last \in Readings
  /\ steady > 0 /\ ~Settled =>
       \/ deGlitchMode = 1 /\ steady <= glitchCounter
       \/ deGlitchMode = 0 /\ steady <= PATIENCE

SwordInv ==
  /\ TypeOK
  /\ CalmCounted
  /\ Waiting
  /\ CursorArrives

=============================================================================
