----------------------------- MODULE CursorPath -----------------------------
(***************************************************************************)
(* How the sword's position reaches the game.  The radio delivers packages *)
(* to the receiver, an Arduino (FPGA_unit.ino) that sends x and y in turn  *)
(* over the same ten pins, one pin at a time, and then moves xyPin; an     *)
(* edge of xyPin makes arduino_fpga_comm take the ten pins into one of its *)
(* registers; port2Unpackager() of main.c reads streak, x and y one after  *)
(* the other.  The three run at their own speeds.                          *)
(* The radio is external: it may lose any package, keeps the order of the  *)
(* others and holds FIFO of them.                                          *)
(***************************************************************************)
EXTENDS Integers, Sequences

CONSTANTS
  PINS,       \* number of coordinate pins, 10
  Packages,   \* what the sword may send
  Boot,       \* the package setup() starts with: (420, 75), streak on
  FIFO,       \* packages the radio holds, 3
  MAXREAD     \* bound on the packages read in a behaviour

Pins == 0 .. PINS - 1

Package == [xCoordinate : Nat, yCoordinate : Nat,
            streakActive : {0, 1}, buttonClicked : {0, 1}]

\* What is taken for granted of the constants.
Bounds ==
  /\ PINS \in Nat \ {0}
  /\ FIFO \in Nat /\ MAXREAD \in Nat
  /\ Packages \subseteq Package /\ Boot \in Package

VARIABLES
  air,                \* packages received and not yet read
  pc,                 \* where loop() of the receiver is
  bit,                \* the pin written next
  radioPackage,
  transmittedType,    \* 1: y was transmitted last
  pins, xyPin, streakPin, buttonPin,
  xCoordinate, yCoordinate,     \* the registers of arduino_fpga_comm
  cpu,                \* what port2Unpackager() reads next
  cursorStreak, cursorClicked, xCursor, yCursor,
  read,               \* history: packages read so far, Boot first
  xAge, yAge, streakAge,     \* history: which of them the registers and
  xSeen, ySeen, streakSeen   \* pins, and the values of the game, come from

receiver == <<pc, bit, radioPackage, transmittedType>>
gpio == <<pins, xyPin, streakPin, buttonPin>>
registers == <<xCoordinate, yCoordinate>>
game == <<cpu, cursorStreak, cursorClicked, xCursor, yCursor>>
ages == <<xAge, yAge, streakAge>>
seen == <<xSeen, ySeen, streakSeen>>
vars == <<air, receiver, gpio, registers, game, read, ages, seen>>

-----------------------------------------------------------------------------
\* decimalToBinary(): the bit of v that goes to pin i.  The array holds the
\* highest bit first and the pins take it from its end.
Bits(v) == [i \in Pins |-> IF (v \div 2^i) % 2 = 1 THEN 1 ELSE 0]

Dark == [i \in Pins |-> 0]

\* A value taken from read[n] is of age n, the value before any was taken of
\* age 0.
Init ==
  /\ air = <<>>
  /\ pc = "loop" /\ bit = 0
  /\ radioPackage = Boot /\ transmittedType = 0
  /\ pins = Dark /\ xyPin = 0 /\ streakPin = 0 /\ buttonPin = 0
  /\ xCoordinate = Dark /\ yCoordinate = Dark
  /\ cpu = "port2"
  /\ cursorStreak = 0 /\ cursorClicked = 0
  /\ xCursor = Dark /\ yCursor = Dark
  /\ read = <<Boot>>
  /\ xAge = 0 /\ yAge = 0 /\ streakAge = 0
  /\ xSeen = 0 /\ ySeen = 0 /\ streakSeen = 0

-----------------------------------------------------------------------------
(* The radio and the receiver.                                             *)

\* A package of the sword arrives; one that finds no room is lost.  (At most
\* MAXREAD arrive in a behaviour.)
Arrive(p) ==
  /\ Len(air) < FIFO
  /\ Len(read) + Len(air) <= MAXREAD
  /\ air' = Append(air, p)
  /\ UNCHANGED <<receiver, gpio, registers, game, read, ages, seen>>

\* while(radio.available()) radio.read(...): the last package read counts.
ReadRadio ==
  /\ pc = "loop" /\ air # <<>>
  /\ radioPackage' = Head(air)
  /\ air' = Tail(air)
  /\ read' = Append(read, Head(air))
  /\ UNCHANGED <<pc, bit, transmittedType, gpio, registers, game, ages, seen>>

\* Mutant: the streak is sent before the coordinate it belongs to.
StartWithStreak ==
  /\ pc = "loop" /\ air = <<>>
  /\ pc' = "pins" /\ bit' = 0
  /\ streakPin' = radioPackage.streakActive
  /\ streakAge' = Len(read)
  /\ UNCHANGED <<air, radioPackage, transmittedType, pins, xyPin, buttonPin,
                 registers, game, read, xAge, yAge, seen>>

\* Two milliseconds after the last transmission the next one starts.
StartTransmission ==
  /\ pc = "loop" /\ air = <<>>
  /\ pc' = "pins" /\ bit' = 0
  /\ UNCHANGED <<air, radioPackage, transmittedType, gpio, registers, game,
                 read, ages, seen>>

\* Mutant: y is sent again after y, and taken for x.
CoordinateSwapped ==
  IF transmittedType = 0 THEN radioPackage.xCoordinate
                         ELSE radioPackage.yCoordinate

\* After y comes x, after x comes y.
Coordinate ==
  IF transmittedType = 1 THEN radioPackage.xCoordinate
                         ELSE radioPackage.yCoordinate

WritePin ==
  /\ pc = "pins"
  /\ pins' = [pins EXCEPT ![bit] = Bits(Coordinate)[bit]]
  /\ IF bit + 1 < PINS THEN bit' = bit + 1 /\ pc' = pc
                       ELSE bit' = 0 /\ pc' = "edge"
  /\ UNCHANGED <<air, radioPackage, transmittedType, xyPin, streakPin,
                 buttonPin, registers, game, read, ages, seen>>

\* arduino_fpga_comm: the rising edge takes the pins as x, the falling one
\* as y.
Capture(level) ==
  LET rises == xyPin = 0 /\ level = 1
      falls == xyPin = 1 /\ level = 0
  IN /\ xCoordinate' = IF rises THEN pins ELSE xCoordinate
     /\ xAge' = IF rises THEN Len(read) ELSE xAge
     /\ yCoordinate' = IF falls THEN pins ELSE yCoordinate
     /\ yAge' = IF falls THEN Len(read) ELSE yAge

\* Mutant: transmittedType is forgotten, y is sent again and again.
ToggledNever(t) == t

Toggled(t) == 1 - t

WriteXyPin ==
  /\ pc = "edge" /\ pc' = "streak"
  /\ xyPin' = transmittedType
  /\ Capture(transmittedType)
  /\ transmittedType' = Toggled(transmittedType)
  /\ UNCHANGED <<air, bit, radioPackage, pins, streakPin, buttonPin, game,
                 read, streakAge, seen>>

WriteStreak ==
  /\ pc = "streak" /\ pc' = "button"
  /\ streakPin' = radioPackage.streakActive
  /\ streakAge' = Len(read)
  /\ UNCHANGED <<air, bit, radioPackage, transmittedType, pins, xyPin,
                 buttonPin, registers, game, read, xAge, yAge, seen>>

WriteButton ==
  /\ pc = "button" /\ pc' = "loop"
  /\ buttonPin' = radioPackage.buttonClicked
  /\ UNCHANGED <<air, bit, radioPackage, transmittedType, pins, xyPin,
                 streakPin, registers, game, read, ages, seen>>

Receiver ==
  \/ ReadRadio \/ StartTransmission \/ WritePin \/ WriteXyPin
  \/ WriteStreak \/ WriteButton

-----------------------------------------------------------------------------
(* The game.                                                               *)

\* The streak and the button are two bits of one port.
ReadPort2 ==
  /\ cpu = "port2" /\ cpu' = "x"
  /\ cursorStreak' = streakPin
  /\ cursorClicked' = buttonPin
  /\ streakSeen' = streakAge
  /\ UNCHANGED <<air, receiver, gpio, registers, xCursor, yCursor,
                 read, ages, xSeen, ySeen>>

ReadX ==
  /\ cpu = "x" /\ cpu' = "y"
  /\ xCursor' = xCoordinate
  /\ xSeen' = xAge
  /\ UNCHANGED <<air, receiver, gpio, registers, cursorStreak, cursorClicked,
                 yCursor, read, ages, ySeen, streakSeen>>

ReadY ==
  /\ cpu = "y" /\ cpu' = "port2"
  /\ yCursor' = yCoordinate
  /\ ySeen' = yAge
  /\ UNCHANGED <<air, receiver, gpio, registers, cursorStreak, cursorClicked,
                 xCursor, read, ages, xSeen, streakSeen>>

Game == ReadPort2 \/ ReadX \/ ReadY

Next == Receiver \/ Game \/ \E p \in Packages : Arrive(p)

Spec == Init /\ [][Next]_vars

\* The receiver's loop() and the main loop of the game never stop.
FairSpec == Spec /\ WF_vars(Receiver) /\ WF_vars(Game)

-----------------------------------------------------------------------------
\* Every variable holds a value of its range.
TypeOK ==
  /\ air \in Seq(Packages) /\ read \in Seq(Packages \cup {Boot})
  /\ pc \in {"loop", "pins", "edge", "streak", "button"}
  /\ bit \in Pins
  /\ radioPackage \in Packages \cup {Boot}
  /\ transmittedType \in {0, 1}
  /\ pins \in [Pins -> {0, 1}]
  /\ xyPin \in {0, 1} /\ streakPin \in {0, 1} /\ buttonPin \in {0, 1}
  /\ xCoordinate \in [Pins -> {0, 1}] /\ yCoordinate \in [Pins -> {0, 1}]
  /\ cpu \in {"port2", "x", "y"}
  /\ cursorStreak \in {0, 1} /\ cursorClicked \in {0, 1}
  /\ xCursor \in [Pins -> {0, 1}] /\ yCursor \in [Pins -> {0, 1}]
  /\ xAge \in Nat /\ yAge \in Nat /\ streakAge \in Nat
  /\ xSeen \in Nat /\ ySeen \in Nat /\ streakSeen \in Nat

\* The bits of a coordinate all come from one package: no register, and no
\* cursor of the game, ever holds a number that is half x and half y or half
\* of one package and half of the next.
CoordinatesWhole ==
  /\ xCoordinate = IF xAge = 0 THEN Dark ELSE Bits(read[xAge].xCoordinate)
  /\ yCoordinate = IF yAge = 0 THEN Dark ELSE Bits(read[yAge].yCoordinate)
  /\ xCursor = IF xSeen = 0 THEN Dark ELSE Bits(read[xSeen].xCoordinate)
  /\ yCursor = IF ySeen = 0 THEN Dark ELSE Bits(read[ySeen].yCoordinate)

\* Between two trips round the game's loop the streak is not newer than both
\* coordinates: the game never cuts with a streak at a place the sword had
\* left altogether when the streak began.  (The very first transmission, of
\* y, moves no edge, as xyPin is low already, but it moves the streak: the
\* game is excepted until it has seen an x.)
StreakNotAhead ==
  cpu = "port2" /\ xSeen > 0 =>
    \/ streakSeen <= xSeen
    \/ streakSeen <= ySeen

\* When no more packages arrive the game comes to see the last one: both
\* coordinates and the streak.
CursorCatchesUp ==
  <>[][Len(air') <= Len(air)]_vars =>
    <>[](/\ xCursor = Bits(radioPackage.xCoordinate)
         /\ yCursor = Bits(radioPackage.yCoordinate)
         /\ cursorStreak = radioPackage.streakActive)

-----------------------------------------------------------------------------
(* Why they hold.                                                          *)

\* The package being transmitted is the last one read.
LastRead == Len(read) >= 1 /\ radioPackage = read[Len(read)]

\* How far the pins are written.
PinsWritten ==
  /\ pc = "pins" => \A i \in Pins : i < bit => pins[i] = Bits(Coordinate)[i]
  /\ pc = "edge" => pins = Bits(Coordinate)

AgesPast ==
  /\ xAge <= Len(read) /\ yAge <= Len(read) /\ streakAge <= Len(read)
  /\ xSeen <= Len(read) /\ ySeen <= Len(read) /\ streakSeen <= Len(read)

\* From the first rising edge on every transmission moves xyPin ...
EdgeDue == xAge > 0 => xyPin = 1 - transmittedType

\* ... so that one coordinate is of the package whose streak is sent next.
StreakFollows ==
  xAge > 0 =>
    /\ pc = "streak" => xAge = Len(read) \/ yAge = Len(read)
    /\ streakAge <= xAge \/ streakAge <= yAge

\* And while the game reads, the coordinates can only get newer.
StreakRead ==
  /\ cpu = "x" /\ xAge > 0 => streakSeen <= xAge \/ streakSeen <= yAge
  /\ cpu = "y" /\ xSeen > 0 => streakSeen <= xSeen \/ streakSeen <= yAge

PathInv ==
  /\ TypeOK
  /\ LastRead
  /\ PinsWritten
  /\ AgesPast
  /\ EdgeDue
  /\ StreakFollows
  /\ StreakRead
  /\ CoordinatesWhole
  /\ StreakNotAhead
=============================================================================
