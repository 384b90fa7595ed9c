-------------------------- MODULE EarlierSketches --------------------------
(***************************************************************************)
(* The sketches the sword was built up with (VeggieDuino): MPU_unit2 sends *)
(* a package of zeros, MPU_unit3 sends angles over a wire to PLS_unit, and *)
(* MPU_unit4 and MPU_unitblargh radio them themselves.  The motion sensor  *)
(* queues packets of its own accord; the loop takes the oldest and throws  *)
(* the rest away.  A packet is queued, taken and cleared whole.  Angles    *)
(* are whole degrees.                                                      *)
(***************************************************************************)
EXTENDS Integers, Sequences

CONSTANTS Readings,     \* bound: [yaw, pitch, gyro] the sensor may measure
          WIDTH, HEIGHT,
          STREAK,       \* milliseconds a streak outlasts its motion (100)
          Steps,        \* bound: milliseconds that may pass at once
          MAXMILLIS,    \* bound: milliseconds since the start, less than 2^32
          MAXPACKETS    \* bound: packets of the sensor

(* What is taken for granted of the constants.                               *)
Bounds ==
  /\ WIDTH \in Nat /\ HEIGHT \in Nat
  /\ STREAK \in Nat \ {0} /\ Steps \subseteq Nat \ {0}
  /\ \A r \in Readings : r.yaw \in Int /\ r.pitch \in Int /\ r.gyro \in Int
  /\ MAXMILLIS \in Nat /\ MAXPACKETS \in Nat

VARIABLES
  sketch,           \* the one that was loaded
  pc, dmpReady,
  dmpEnabled,       \* the sensor queues packets
  fifo,             \* its queue
  packets, cleared, \* history: packets made; and of those, how many when the
                    \* queue was last cleared, and the time before
  reading,          \* taken from the queue
  package,          \* radioPackage, or serialPackage of MPU_unit3
  sent,             \* the last package given to the radio or to the wire
  wire, received,   \* on the way to PLS_unit, and its serialPackage
  relayed,          \* what PLS_unit has given to the radio
  button,           \* the pin is low
  millis, streakMillis,
  moved, sentAt     \* history: when a reading was last fast, and when the last
                    \* package was filled in

sensor == <<dmpReady, dmpEnabled, fifo, packets, cleared>>
pls    == <<wire, received, relayed>>
clock  == <<millis, streakMillis, moved, sentAt>>
vars   == <<sketch, pc, sensor, reading, package, sent, pls, button, clock>>

None == <<>>
(* dataPackage, and MPUPackage.                                            *)
Data(x, y, streak, clicked) ==
  [xCoordinate |-> x, yCoordinate |-> y, streakActive |-> streak, buttonClicked |-> clicked]
MPU(pitch, yaw, streak) == [pitch |-> pitch, yaw |-> yaw, streakActive |-> streak]
Zeros == Data(0, 0, FALSE, FALSE)
Still == MPU(0, 0, FALSE)

HasSensor == sketch # "MPU_unit2"

(* Each sketch has a setup() of its own: two of them with the sensor and   *)
(* the radio, one with the sensor and the wire, one with the radio only.   *)
(* A sensor that cannot be programmed is left alone.                       *)
Setup(name, ready, empty) ==
  sketch = name /\ dmpReady \in ready /\ dmpEnabled = dmpReady /\ package = empty

MPU_unit2      == Setup("MPU_unit2", {FALSE}, Zeros)
MPU_unit3      == Setup("MPU_unit3", BOOLEAN, Still)
MPU_unit4      == Setup("MPU_unit4", BOOLEAN, Zeros)
MPU_unitblargh == Setup("MPU_unitblargh", BOOLEAN, Zeros)
PLS_unit       == wire = None /\ received = Still /\ relayed = None

Init ==
  /\ MPU_unit2 \/ MPU_unit3 \/ MPU_unit4 \/ MPU_unitblargh
  /\ PLS_unit
  /\ pc = "loop"
  /\ fifo = <<>> /\ packets = 0 /\ cleared = <<0, 0>>
  /\ reading = None /\ sent = None
  /\ button = FALSE
  /\ millis = 0 /\ streakMillis = 0 /\ moved = -STREAK /\ sentAt = 0

-----------------------------------------------------------------------------
(* The sensor, the button and the time                                     *)

DmpPacket ==
  /\ dmpEnabled /\ packets < MAXPACKETS
  /\ \E r \in Readings : fifo' = Append(fifo, [n |-> packets + 1, r |-> r])
  /\ packets' = packets + 1
  /\ UNCHANGED <<sketch, pc, dmpReady, dmpEnabled, cleared, reading, package, sent, pls,
                 button, clock>>

Press == /\ HasSensor /\ sketch # "MPU_unit3" /\ button' = ~button
         /\ UNCHANGED <<sketch, pc, sensor, reading, package, sent, pls, clock>>

Elapse == /\ \E ms \in Steps : millis + ms <= MAXMILLIS /\ millis' = millis + ms
          /\ UNCHANGED <<sketch, pc, sensor, reading, package, sent, pls, button, streakMillis, moved, sentAt>>

-----------------------------------------------------------------------------
(* loop()                                                                  *)

(* MPU_unit2: the package of setup(), again and again.                     *)
SendZeros ==
  /\ sketch = "MPU_unit2"
  /\ sent' = package
  /\ UNCHANGED <<sketch, pc, sensor, reading, package, pls, button, clock>>

(* The others do nothing without a sensor.  They ask for the length of the *)
(* queue until there is a packet in it, take the first, and clear it.      *)
GetFIFOBytes ==
  /\ HasSensor /\ pc = "loop" /\ dmpReady
  /\ fifo # <<>>
  /\ reading' = Head(fifo) /\ fifo' = Tail(fifo)
  /\ pc' = "reset"
  /\ UNCHANGED <<sketch, dmpReady, dmpEnabled, packets, cleared, package, sent, pls, button, clock>>

\* Mutant: the queue is left as it is.
ResetFIFONot ==
  /\ pc = "reset"
  /\ cleared' = <<packets, cleared[1]>>
  /\ pc' = "work"
  /\ UNCHANGED <<sketch, dmpReady, dmpEnabled, fifo, packets, reading, package, sent, pls,
                 button, clock>>

ResetFIFO ==
  /\ pc = "reset"
  /\ fifo' = <<>> /\ cleared' = <<packets, cleared[1]>>
  /\ pc' = "work"
  /\ UNCHANGED <<sketch, dmpReady, dmpEnabled, packets, reading, package, sent, pls, button, clock>>

Worked == pc = "work" /\ UNCHANGED <<sketch, sensor, reading, button>>
Fast(threshold) == reading.r.gyro > threshold
Moved(threshold) == /\ moved' = IF Fast(threshold) THEN millis ELSE moved
                    /\ sentAt' = millis

(* MPU_unit3: the angles as they are, over the wire.                       *)
SendAngles ==
  /\ Worked /\ sketch = "MPU_unit3"
  /\ package' = MPU(reading.r.pitch, reading.r.yaw, Fast(10))
  /\ sent' = package' /\ wire' = package'
  /\ Moved(10)
  /\ pc' = "loop"
  /\ UNCHANGED <<received, relayed, millis, streakMillis>>

(* MPU_unit4: of the package only the streak.                              *)
SendStreak ==
  /\ Worked /\ sketch = "MPU_unit4"
  /\ package' = [package EXCEPT !.streakActive = Fast(10)]
  /\ sent' = package'
  /\ Moved(10)
  /\ pc' = "button"
  /\ UNCHANGED <<pls, millis, streakMillis>>

(* MPU_unitblargh: coordinates within the screen, and a streak that goes   *)
(* on for a while; streakMillis begins at zero, as millis() does.          *)
Clamp(n, high) == IF n > high THEN high ELSE IF n < 0 THEN 0 ELSE n

SendCoordinates ==
  /\ Worked /\ sketch = "MPU_unitblargh"
  /\ streakMillis' = IF Fast(3) THEN millis ELSE streakMillis
  /\ package' = Data(Clamp(4 * reading.r.yaw + WIDTH \div 2, WIDTH),
                     Clamp(3 * (-reading.r.pitch) + HEIGHT \div 2, HEIGHT),
                     Fast(3) \/ millis - streakMillis < STREAK, button)
  /\ sent' = package'
  /\ Moved(3)
  /\ pc' = "button"
  /\ UNCHANGED <<pls, millis>>

Released ==
  /\ pc = "button" /\ ~button
  /\ pc' = "loop"
  /\ UNCHANGED <<sketch, sensor, reading, package, sent, pls, button, clock>>

(* The sensor is switched off for a while; what was queued stays.  The     *)
(* last sketch also programs it anew, without asking whether that worked.  *)
ButtonPressed ==
  /\ pc = "button" /\ button
  /\ dmpEnabled' = FALSE
  /\ pc' = "delay"
  /\ UNCHANGED <<sketch, dmpReady, fifo, packets, cleared, reading, package, sent, pls, button, clock>>

ButtonDone ==
  /\ pc = "delay"
  /\ \/ sketch = "MPU_unit4" /\ dmpEnabled' = TRUE /\ UNCHANGED <<fifo, cleared>>
     \/ /\ sketch = "MPU_unitblargh"
        /\ dmpEnabled' \in BOOLEAN
        /\ fifo' = <<>> /\ cleared' = <<packets, cleared[1]>>
  /\ dmpReady' = TRUE
  /\ pc' = "loop"
  /\ UNCHANGED <<sketch, packets, reading, package, sent, pls, button, clock>>

-----------------------------------------------------------------------------
(* PLS_unit's loop(): it takes what has come over the wire, whole or       *)
(* spoilt, and radios its own package, which nobody fills in.              *)
PlsLoop ==
  /\ sketch = "MPU_unit3"
  /\ received' \in IF wire = None THEN {received} ELSE {received, wire}
  /\ wire' = None
  /\ relayed' = Zeros
  /\ UNCHANGED <<sketch, pc, sensor, reading, package, sent, button, clock>>

Next == \/ DmpPacket \/ Press \/ Elapse
        \/ SendZeros \/ GetFIFOBytes \/ ResetFIFO
        \/ SendAngles \/ SendStreak \/ SendCoordinates
        \/ Released \/ ButtonPressed \/ ButtonDone \/ PlsLoop

Spec == Init /\ [][Next]_vars
-----------------------------------------------------------------------------
(* What a sketch works on was queued after the clearing before the last    *)
(* one, however many packets came in meanwhile: in the trip before, or     *)
(* since it ended.  MPU_unitblargh clears its queue after the button's     *)
(* wait as well, and works on nothing from before it; in MPU_unit4, which  *)
(* does not, a trip before the wait is the trip before like any other.     *)
(* The last sketch sends coordinates on the screen only, and a streak      *)
(* exactly while the sword is fast and for STREAK milliseconds more, but   *)
(* also for as long after the start.  Without a sensor nothing is sent.    *)
SketchesSound ==
  /\ pc = "work" => reading.n > cleared[2] /\ reading.n <= cleared[1]
  /\ sketch = "MPU_unitblargh" /\ sent # None =>
       /\ sent.xCoordinate \in 0 .. WIDTH /\ sent.yCoordinate \in 0 .. HEIGHT
       /\ sent.streakActive <=> (sentAt - moved < STREAK \/ sentAt < STREAK)
  /\ sent # None /\ HasSensor => dmpReady
-----------------------------------------------------------------------------
(* What SketchesSound rests on.                                            *)

Packet == [n : Nat, r : Readings]

TypeOK ==
  /\ sketch \in {"MPU_unit2", "MPU_unit3", "MPU_unit4", "MPU_unitblargh"}
  /\ pc \in {"loop", "reset", "work", "button", "delay"}
  /\ dmpReady \in BOOLEAN /\ dmpEnabled \in BOOLEAN
  /\ fifo \in Seq(Packet) /\ packets \in Nat /\ cleared \in Nat \X Nat
  /\ button \in BOOLEAN
  /\ millis \in Nat /\ streakMillis \in Nat /\ moved \in Int /\ sentAt \in Nat

(* What is queued came in after the queue was last cleared; so had, at the *)
(* clearing before, what is worked on.                                     *)
QueueFresh ==
  /\ cleared[1] <= packets
  /\ \A i \in 1 .. Len(fifo) : cleared[1] < fifo[i].n /\ fifo[i].n <= packets
  /\ pc = "reset" => /\ reading \in Packet
                     /\ cleared[1] < reading.n /\ reading.n <= packets
  /\ pc = "work" => /\ reading \in Packet
                    /\ cleared[2] < reading.n /\ reading.n <= cleared[1]

(* The sketch that draws streaks remembers when the sword was last fast,   *)
(* or zero when it never was.                                              *)
StreakKept ==
  sketch = "MPU_unitblargh" =>
    \/ moved \in Nat /\ streakMillis = moved
    \/ moved = -STREAK /\ streakMillis = 0

(* The loop goes to work with a sensor only.                               *)
Working == pc \in {"reset", "work"} => dmpReady

SketchInv == TypeOK /\ QueueFresh /\ StreakKept /\ Working /\ SketchesSound
=============================================================================
