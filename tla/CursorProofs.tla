---------------------------- MODULE CursorProofs ----------------------------
(***************************************************************************)
(* Proofs about the way from the player's hand to the cursor.  The glitch  *)
(* filter of the sword is neither too stubborn nor too easily talked       *)
(* round, for any readings, thresholds and patience; the sketches before   *)
(* it never work on stale readings; and between radio and game no          *)
(* coordinate is torn and no streak runs ahead, for any number of pins and *)
(* any packages.                                                           *)
(***************************************************************************)
EXTENDS MCCursor, SequenceTheorems, TLAPS

-----------------------------------------------------------------------------
(* The sword of the game.                                                  *)

\* What a reading is made of.
LEMMA ReadingFields ==
  ASSUME NEW r \in Readings
  PROVE  r.yaw \in Int /\ r.pitch \in Int /\ r.roll \in Int /\ r.grav \in Int
BY ReadingsAssumption DEF Reading

\* A clamped number is on the screen, and clamping it again changes nothing.
LEMMA ClampedRange ==
  ASSUME NEW v \in Int, NEW top \in Nat
  PROVE  /\ Clamped(v, top) \in 0 .. top
         /\ v \in 0 .. top => Clamped(v, top) = v
BY DEF Clamped

\* The sword always points at the screen.
LEMMA PointOnScreen ==
  ASSUME TypeOK, NEW r \in Readings, NEW g \in Int
  PROVE  PointX(r, g) \in 0 .. WIDTH /\ PointY(r) \in 0 .. HEIGHT
<1>1. /\ WIDTH \in Nat /\ HEIGHT \in Nat /\ xCoordinate \in Int
      /\ WIDTH \div 2 \in Int /\ HEIGHT \div 2 \in Int
  BY ScreenAssumption DEF TypeOK
<1>2. r.yaw \in Int /\ r.pitch \in Int /\ r.roll \in Int
  BY ReadingFields
<1>3. PointY(r) \in 0 .. HEIGHT
  <2>1. HEIGHT \div 2 + r.pitch \in Int
    BY <1>1, <1>2
  <2> QED
    BY <2>1, <1>1, ClampedRange DEF PointY
<1>4. PointX(r, g) \in 0 .. WIDTH
  <2>1. WIDTH \div 2 + r.yaw \in Int /\ WIDTH \div 2 - r.yaw \in Int
    BY <1>1, <1>2
  <2>2. /\ Clamped(xCoordinate, WIDTH) \in 0 .. WIDTH
        /\ Clamped(WIDTH \div 2 + r.yaw, WIDTH) \in 0 .. WIDTH
        /\ Clamped(WIDTH \div 2 - r.yaw, WIDTH) \in 0 .. WIDTH
    BY <2>1, <1>1, ClampedRange
  <2> QED
    BY <2>2 DEF PointX
<1> QED
  BY <1>3, <1>4

\* setup() puts the sword at rest in the middle of the screen.
LEMMA InitInv == Init => SwordInv
<1> SUFFICES ASSUME Init PROVE SwordInv
  OBVIOUS
<1>1. TypeOK
  <2>1. WIDTH \div 2 \in 0 .. WIDTH /\ HEIGHT \div 2 \in 0 .. HEIGHT
    BY ScreenAssumption
  <2> QED
    BY <2>1, ScreenAssumption, FilterAssumption DEF Init, TypeOK
<1>2. CalmCounted /\ Waiting /\ CursorArrives
  BY FilterAssumption DEF Init, CalmCounted, Waiting, CursorArrives
<1> QED
  BY <1>1, <1>2 DEF SwordInv

\* What a trip does to the filter: either it believed all of the reading, or
\* the glitch is counted, and in a trip that believes everything there is
\* none.
LEMMA TripCases ==
  ASSUME SwordInv, NEW r \in Readings, NEW ms \in Steps, Sense(r, ms)
  PROVE  /\ TypeOK'
         /\ last' = r
         /\ Settled' \/ (/\ deGlitchMode = 1
                         /\ \/ glitchCounter' = glitchCounter + 1 /\ deGlitchMode' = 1
                            \/ glitchCounter = PATIENCE - 1 /\ deGlitchMode' = 0)
         /\ last = r /\ Settled => Settled'
         /\ glitchCounter' <= glitchCounter + 1
         /\ deGlitchMode' = 0 => glitchCounter = PATIENCE - 1 /\ glitchCounter' = 0
         /\ deGlitchMode = 1 => ~Far(xCoordinate', yCoordinate')
<1> DEFINE g == Gravity(r.grav)
           px == PointX(r, g)
           py == PointY(r)
           crazy == Far(px, py) /\ deGlitchMode = 1
           x == IF crazy THEN xCoordinate ELSE px
           y == IF crazy THEN yCoordinate ELSE py
           glitching == Noticed(g # r.grav \/ crazy)
<1>0. /\ TypeOK /\ ms \in Nat /\ r.grav \in Int /\ r.roll \in Int
      /\ PATIENCE \in Nat \ {0} /\ STREAK \in Nat /\ MOVE \in Nat
      /\ JUMPX \in Nat /\ JUMPY \in Nat /\ WIDTH \in Nat /\ HEIGHT \in Nat
  BY ReadingFields, FilterAssumption, ScreenAssumption DEF SwordInv
<1>1. /\ currGrav' = g /\ xCoordinate' = x /\ yCoordinate' = y
      /\ antiGlitch' = glitching /\ Patience(glitching)
      /\ Streak(Abs(x - xCoordinate) + Abs(y - yCoordinate), ms)
      /\ calm' = IF Far(x, y) THEN 0 ELSE UpTo(calm + 1, PATIENCE)
      /\ last' = r
      /\ steady' = IF r = last THEN UpTo(steady + 1, PATIENCE + 1) ELSE 1
      /\ pc' = "button" /\ dmpReady' = dmpReady /\ buttonClicked' = buttonClicked
  BY DEF Sense
<1>2. g \in Int /\ (deGlitchMode = 0 => g = r.grav)
  BY <1>0 DEF Gravity, TypeOK
<1>3. px \in 0 .. WIDTH /\ py \in 0 .. HEIGHT
  BY <1>0, <1>2, PointOnScreen
<1>4. x \in 0 .. WIDTH /\ y \in 0 .. HEIGHT
  BY <1>0, <1>3 DEF TypeOK
<1>5. glitching \in {0, 1}
  BY <1>0 DEF Noticed, TypeOK
<1>6. /\ glitchCounter' \in 0 .. PATIENCE - 1 /\ deGlitchMode' \in {0, 1}
      /\ glitchCounter' <= glitchCounter + 1
      /\ deGlitchMode' = 0 => glitchCounter = PATIENCE - 1 /\ glitchCounter' = 0
      /\ glitching = 1 =>
           \/ glitchCounter' = glitchCounter + 1 /\ deGlitchMode' = 1
           \/ glitchCounter = PATIENCE - 1 /\ deGlitchMode' = 0
  <2> HIDE DEF glitching
  <2>1. glitchCounter \in 0 .. PATIENCE - 1
    BY <1>0 DEF TypeOK
  <2> QED
    BY <2>1, <1>0, <1>1, <1>5 DEF Patience
<1>7. TypeOK'
  <2>1. streakActive' \in {0, 1} /\ quiet' \in 0 .. STREAK
    <3> HIDE DEF x, y
    <3> DEFINE shifted == Abs(x - xCoordinate) + Abs(y - yCoordinate)
    <3>1. Streak(shifted, ms) /\ quiet \in 0 .. STREAK
      BY <1>0, <1>1 DEF TypeOK
    <3> HIDE DEF shifted
    <3> QED
      BY <3>1, <1>0 DEF Streak, UpTo
  <2>2. calm' \in 0 .. PATIENCE /\ steady' \in 0 .. PATIENCE + 1
    BY <1>0, <1>1 DEF UpTo, TypeOK
  <2> HIDE DEF g, x, y, glitching
  <2> QED
    BY <2>1, <2>2, <1>0, <1>1, <1>2, <1>4, <1>5, <1>6 DEF TypeOK
<1>8. deGlitchMode = 1 => ~Far(x, y)
  <2>1. CASE crazy
    <3>1. x = xCoordinate /\ y = yCoordinate
      BY <2>1
    <3> QED
      BY <3>1, <1>0 DEF Far, Abs, TypeOK
  <2>2. CASE ~crazy
    BY <2>2
  <2> QED
    BY <2>1, <2>2
<1>9. g = r.grav /\ ~crazy => Settled'
  <2>1. SUFFICES ASSUME g = r.grav, ~crazy PROVE Settled'
    OBVIOUS
  <2>2. /\ currGrav' = r.grav /\ yCoordinate' = PointY(r)
        /\ xCoordinate' = PointX(r, r.grav)
    BY <2>1, <1>1
  <2>3. PointX(r, r.grav)' = PointX(r, r.grav)
    <3>1. CASE Abs(r.roll) > ROLL
      <4>1. xCoordinate' = Clamped(xCoordinate, WIDTH)
        BY <2>2, <3>1 DEF PointX
      <4>2. Clamped(xCoordinate, WIDTH) = xCoordinate
        BY <1>0, ClampedRange DEF TypeOK
      <4> QED
        BY <3>1, <4>1, <4>2 DEF PointX
    <3>2. CASE ~(Abs(r.roll) > ROLL)
      BY <3>2 DEF PointX
    <3> QED
      BY <3>1, <3>2
  <2>4. PointY(r)' = PointY(r)
    BY DEF PointY
  <2> QED
    BY <2>2, <2>3, <2>4, <1>1 DEF Settled, PointX, PointY
<1>10. (glitching = 1 /\ deGlitchMode = 1) \/ Settled'
  <2>1. CASE g = r.grav /\ ~crazy
    BY <2>1, <1>9
  <2>2. CASE g # r.grav
    <3>1. deGlitchMode = 1
      BY <2>2, <1>0, <1>2 DEF TypeOK
    <3> QED
      BY <3>1, <2>2 DEF Noticed
  <2>3. CASE crazy
    BY <2>3 DEF Noticed
  <2> QED
    BY <2>1, <2>2, <2>3
<1>11. last = r /\ Settled => Settled'
  <2>1. SUFFICES ASSUME last = r, Settled PROVE Settled'
    OBVIOUS
  <2>2. /\ currGrav = r.grav /\ xCoordinate = PointX(r, r.grav)
        /\ yCoordinate = PointY(r)
    BY <2>1 DEF Settled
  <2>3. g = r.grav
    BY <2>2 DEF Gravity
  <2>4. ~Far(px, py)
    <3>1. px = xCoordinate /\ py = yCoordinate
      BY <2>2, <2>3
    <3> QED
      BY <3>1, <1>0 DEF Far, Abs, TypeOK
  <2> QED
    BY <2>3, <2>4, <1>9
<1> QED
  BY <1>0, <1>1, <1>6, <1>7, <1>8, <1>10, <1>11 DEF TypeOK

\* A trip keeps the invariant.
LEMMA TripInv ==
  ASSUME SwordInv, NEW r \in Readings, NEW ms \in Steps, Sense(r, ms)
  PROVE  SwordInv'
<1>0. TypeOK /\ TypeOK' /\ PATIENCE \in Nat \ {0}
  BY TripCases, FilterAssumption DEF SwordInv
<1>1. CalmCounted'
  <2>1. calm' = IF Far(xCoordinate', yCoordinate') THEN 0 ELSE UpTo(calm + 1, PATIENCE)
    BY DEF Sense
  <2>2. CASE deGlitchMode = 1
    <3>1. calm' = UpTo(calm + 1, PATIENCE)
      BY <2>1, <2>2, TripCases
    <3> QED
      BY <3>1, <2>2, <1>0, TripCases DEF SwordInv, CalmCounted, TypeOK, UpTo
  <2>3. CASE deGlitchMode = 0
    <3>1. glitchCounter = 0
      BY <2>3 DEF SwordInv, CalmCounted
    <3> QED
      BY <3>1, <2>1, <1>0, TripCases DEF CalmCounted, TypeOK, UpTo
  <2> QED
    BY <2>2, <2>3, <1>0 DEF TypeOK
<1>2. Waiting'
  <2>1. last' \in Readings
    BY TripCases
  <2>2. SUFFICES ASSUME ~Settled'
                 PROVE  \/ deGlitchMode' = 1 /\ steady' <= glitchCounter'
                        \/ deGlitchMode' = 0 /\ steady' <= PATIENCE
    BY <2>1 DEF Waiting
  <2>3. /\ deGlitchMode = 1
        /\ \/ glitchCounter' = glitchCounter + 1 /\ deGlitchMode' = 1
           \/ glitchCounter = PATIENCE - 1 /\ deGlitchMode' = 0
        /\ ~(last = r /\ Settled)
    BY <2>2, TripCases
  <2>4. steady' <= glitchCounter + 1
    <3>1. steady' = IF r = last THEN UpTo(steady + 1, PATIENCE + 1) ELSE 1
      BY DEF Sense
    <3>2. CASE r = last /\ steady > 0
      <4>1. steady <= glitchCounter
        BY <3>2, <2>3 DEF SwordInv, Waiting
      <4> QED
        BY <4>1, <3>1, <1>0 DEF UpTo, TypeOK
    <3>3. CASE ~(r = last /\ steady > 0)
      BY <3>3, <3>1, <1>0 DEF UpTo, TypeOK
    <3> QED
      BY <3>2, <3>3
  <2> QED
    BY <2>3, <2>4, <1>0 DEF TypeOK
<1>3. CursorArrives'
  BY <1>0, <1>2 DEF Waiting, CursorArrives, TypeOK
<1> QED
  BY <1>0, <1>1, <1>2, <1>3 DEF SwordInv

\* Where the sword points depends on the reading and, held vertical, on x.
LEMMA SettledSame ==
  ASSUME xCoordinate' = xCoordinate, yCoordinate' = yCoordinate,
         currGrav' = currGrav, last' = last
  PROVE  Settled' <=> Settled
BY DEF Settled, PointX, PointY

\* The rest of the trip leaves the filter alone: releasing the button changes
\* nothing but pc, pressing it starts the count of steady trips again, and
\* restarting the sensor touches only flags and the age of the streak.
LEMMA ButtonInv ==
  ASSUME SwordInv, NotPressed \/ Pressed \/ Restart \/ NotReady \/ UNCHANGED vars
  PROVE  SwordInv'
<1>0. TypeOK /\ WIDTH \div 2 \in 0 .. WIDTH /\ STREAK \in Nat /\ PATIENCE \in Nat \ {0}
  BY ScreenAssumption, FilterAssumption DEF SwordInv
<1>1. CASE NotPressed \/ NotReady \/ UNCHANGED vars
  <2>1. /\ UNCHANGED <<dmpReady, package, quiet, filter, history>>
        /\ pc' \in {"sense", "button", "reset"}
    BY <1>0, <1>1 DEF NotPressed, NotReady, vars, TypeOK
  <2>2. TypeOK'
    BY <2>1, <1>0 DEF TypeOK, package, filter, history
  <2>3. CalmCounted' /\ Waiting' /\ CursorArrives'
    BY <2>1, SettledSame
    DEF SwordInv, CalmCounted, Waiting, CursorArrives, package, filter, history
  <2> QED
    BY <2>2, <2>3 DEF SwordInv
<1>2. CASE Pressed
  <2>1. TypeOK'
    BY <1>0, <1>2 DEF Pressed, TypeOK, filter
  <2>2. CalmCounted' /\ Waiting' /\ CursorArrives'
    BY <1>0, <1>2
    DEF Pressed, SwordInv, CalmCounted, Waiting, CursorArrives, TypeOK, filter
  <2> QED
    BY <2>1, <2>2 DEF SwordInv
<1>3. CASE Restart
  <2>1. TypeOK'
    BY <1>0, <1>3 DEF Restart, TypeOK, filter, history
  <2>2. CalmCounted' /\ Waiting' /\ CursorArrives'
    BY <1>3, SettledSame
    DEF Restart, SwordInv, CalmCounted, Waiting, CursorArrives, filter, history
  <2> QED
    BY <2>1, <2>2 DEF SwordInv
<1> QED
  BY <1>1, <1>2, <1>3

\* Every step of the sword.
LEMMA NextInv == SwordInv /\ [Next]_vars => SwordInv'
BY TripInv, ButtonInv DEF Next

-----------------------------------------------------------------------------
(* The sketches before it.                                                 *)

\* A clamped coordinate is on the screen.
LEMMA ClampedTo == ASSUME NEW n \in Int,
                          NEW high \in Nat PROVE Sketch!Clamp(n, high) \in 0 .. high
BY DEF Sketch!Clamp

\* A packet goes to the end of the queue, and is taken from its front.
LEMMA QueueSteps ==
  ASSUME NEW S, NEW q \in Seq(S)
  PROVE  /\ \A p \in S : /\ Append(q, p) \in Seq(S)
                         /\ \A i \in 1 .. Len(Append(q, p)) :
                               Append(q, p)[i] = IF i <= Len(q) THEN q[i] ELSE p
         /\ q # <<>> => /\ Head(q) \in S /\ Head(q) = q[1] /\ 1 \in 1 .. Len(q)
                        /\ Tail(q) \in Seq(S)
                        /\ \A i \in 1 .. Len(Tail(q)) : Tail(q)[i] = q[i + 1] /\ i + 1 \in 1 .. Len(q)
OBVIOUS

\* Each sketch starts with nothing queued and nothing sent.
LEMMA SketchAtStart == Sketch!Init => Sketch!SketchInv
<1> SUFFICES ASSUME Sketch!Init PROVE Sketch!SketchInv
  OBVIOUS
<1>1. /\ sketch \in {"MPU_unit2", "MPU_unit3", "MPU_unit4", "MPU_unitblargh"}
      /\ ready \in BOOLEAN /\ dmpEnabled \in BOOLEAN
  BY DEF Sketch!Init, Sketch!MPU_unit2, Sketch!MPU_unit3, Sketch!MPU_unit4,
    Sketch!MPU_unitblargh, Sketch!Setup
<1>2. /\ at = "loop" /\ fifo = <<>> /\ packets = 0 /\ cleared = <<0, 0>> /\ sent = Sketch!None
      /\ button = FALSE /\ millis = 0 /\ streakMillis = 0 /\ moved = -SKETCHSTREAK /\ sentAt = 0
  BY DEF Sketch!Init
<1>3. SKETCHSTREAK \in Nat
  BY CursorAssumption DEF Sketch!Bounds
<1>4. Sketch!TypeOK
  <2>1. <<>> \in Seq(Sketch!Packet) /\ <<0, 0>> \in Nat \X Nat /\ -SKETCHSTREAK \in Int
    BY <1>3
  <2> QED
    BY <1>1, <1>2, <2>1 DEF Sketch!TypeOK
<1>5. Sketch!QueueFresh /\ Sketch!StreakKept /\ Sketch!Working /\ Sketch!SketchesSound
  BY <1>2 DEF Sketch!QueueFresh, Sketch!StreakKept, Sketch!Working, Sketch!SketchesSound
<1> QED
  BY <1>4, <1>5 DEF Sketch!SketchInv

\* The sensor queues a packet, which is newer than all before.
LEMMA PacketKeeps == ASSUME Sketch!SketchInv, Sketch!DmpPacket PROVE Sketch!SketchInv'
<1>1. Sketch!TypeOK /\ Sketch!QueueFresh /\ Sketch!StreakKept /\ Sketch!Working /\ Sketch!SketchesSound
  BY DEF Sketch!SketchInv
<1>2. PICK r \in SketchReadings : fifo' = Append(fifo, [n |-> packets + 1, r |-> r])
  BY DEF Sketch!DmpPacket
<1>3. /\ packets' = packets + 1
      /\ UNCHANGED <<sketch, at, ready, dmpEnabled, cleared, reading, filled, sent,
                     button, millis, streakMillis, moved, sentAt>>
  BY DEF Sketch!DmpPacket, Sketch!clock
<1>4. PICK p \in Sketch!Packet : p = [n |-> packets + 1, r |-> r] /\ p.n = packets + 1
  <2>1. packets + 1 \in Nat
    BY <1>1 DEF Sketch!TypeOK
  <2>2. [n |-> packets + 1, r |-> r] \in Sketch!Packet
    BY <2>1 DEF Sketch!Packet
  <2> QED
    BY <2>2
<1>5. fifo \in Seq(Sketch!Packet) /\ fifo' = Append(fifo, p) /\ packets \in Nat /\ cleared \in Nat \X Nat
  BY <1>1, <1>2, <1>4 DEF Sketch!TypeOK
<1>6. /\ fifo' \in Seq(Sketch!Packet)
      /\ \A i \in 1 .. Len(fifo') : fifo'[i] = IF i <= Len(fifo) THEN fifo[i] ELSE p
  BY <1>5, QueueSteps
<1>7. Sketch!TypeOK'
  BY <1>1, <1>3, <1>6 DEF Sketch!TypeOK
<1>8. Sketch!QueueFresh'
  <2>1. cleared[1] <= packets /\ cleared[1] \in Nat
    BY <1>1, <1>5 DEF Sketch!QueueFresh
  <2>2. ASSUME NEW i \in 1 .. Len(fifo') PROVE cleared[1] < fifo'[i].n /\ fifo'[i].n <= packets'
    <3>1. CASE i <= Len(fifo)
      <4>1. i \in 1 .. Len(fifo) /\ fifo'[i] = fifo[i]
        BY <3>1, <1>5, <1>6
      <4>2. fifo[i] \in Sketch!Packet
        BY <4>1, <1>5, ElementOfSeq
      <4>3. fifo[i].n \in Nat
        BY <4>2 DEF Sketch!Packet
      <4> QED
        BY <4>1, <4>3, <1>1, <1>3, <1>5 DEF Sketch!QueueFresh
    <3>2. CASE ~(i <= Len(fifo))
      BY <3>2, <2>1, <1>3, <1>4, <1>5, <1>6
    <3> QED
      BY <3>1, <3>2
  <2>3. at = "reset" => reading \in Sketch!Packet /\ cleared[1] < reading.n /\ reading.n <= packets'
    BY <1>1, <1>3, <1>5 DEF Sketch!QueueFresh, Sketch!Packet
  <2>4. cleared[1] <= packets'
    BY <2>1, <1>3, <1>5
  <2> QED
    BY <2>2, <2>3, <2>4, <1>1, <1>3 DEF Sketch!QueueFresh
<1>9. Sketch!StreakKept' /\ Sketch!Working' /\ Sketch!SketchesSound'
  BY <1>1, <1>3 DEF Sketch!StreakKept, Sketch!Working, Sketch!SketchesSound,
    Sketch!HasSensor
<1> QED
  BY <1>7, <1>8, <1>9 DEF Sketch!SketchInv

\* The loop takes the oldest packet,
LEMMA TakeKeeps == ASSUME Sketch!SketchInv, Sketch!GetFIFOBytes PROVE Sketch!SketchInv'
<1>1. Sketch!TypeOK /\ Sketch!QueueFresh /\ Sketch!StreakKept /\ Sketch!Working /\ Sketch!SketchesSound
  BY DEF Sketch!SketchInv
<1>2. /\ ready /\ fifo # <<>> /\ reading' = Head(fifo) /\ fifo' = Tail(fifo) /\ at' = "reset"
      /\ UNCHANGED <<sketch, ready, dmpEnabled, packets, cleared, filled, sent, button,
                     millis, streakMillis, moved, sentAt>>
  BY DEF Sketch!GetFIFOBytes, Sketch!clock
<1>3. fifo \in Seq(Sketch!Packet)
  BY <1>1 DEF Sketch!TypeOK
<1>4. /\ Head(fifo) \in Sketch!Packet /\ Head(fifo) = fifo[1] /\ 1 \in 1 .. Len(fifo)
      /\ Tail(fifo) \in Seq(Sketch!Packet)
      /\ \A i \in 1 .. Len(Tail(fifo)) : Tail(fifo)[i] = fifo[i + 1] /\ i + 1 \in 1 .. Len(fifo)
  BY <1>2, <1>3, QueueSteps
<1>5. Sketch!TypeOK'
  BY <1>1, <1>2, <1>4 DEF Sketch!TypeOK
<1>6. Sketch!QueueFresh'
  BY <1>1, <1>2, <1>4 DEF Sketch!QueueFresh
<1>7. Sketch!StreakKept' /\ Sketch!Working' /\ Sketch!SketchesSound'
  BY <1>1, <1>2 DEF Sketch!StreakKept, Sketch!Working, Sketch!SketchesSound,
    Sketch!HasSensor
<1> QED
  BY <1>5, <1>6, <1>7 DEF Sketch!SketchInv

\* clears the queue,
LEMMA ResetKeeps == ASSUME Sketch!SketchInv, Sketch!ResetFIFO PROVE Sketch!SketchInv'
<1>1. Sketch!TypeOK /\ Sketch!QueueFresh /\ Sketch!StreakKept /\ Sketch!Working /\ Sketch!SketchesSound
  BY DEF Sketch!SketchInv
<1>2. /\ at = "reset" /\ fifo' = <<>> /\ cleared' = <<packets, cleared[1]>> /\ at' = "work"
      /\ UNCHANGED <<sketch, ready, dmpEnabled, packets, reading, filled, sent, button,
                     millis, streakMillis, moved, sentAt>>
  BY DEF Sketch!ResetFIFO, Sketch!clock
<1>3. cleared[1] \in Nat /\ packets \in Nat
  BY <1>1 DEF Sketch!TypeOK
<1>4. Sketch!TypeOK'
  BY <1>1, <1>2, <1>3 DEF Sketch!TypeOK
<1>5. cleared'[1] = packets /\ cleared'[2] = cleared[1] /\ Len(fifo') = 0
  BY <1>2
<1>6. reading \in Sketch!Packet /\ cleared[1] < reading.n /\ reading.n <= packets
  BY <1>1, <1>2 DEF Sketch!QueueFresh
<1>7. Sketch!QueueFresh'
  BY <1>2, <1>3, <1>5, <1>6 DEF Sketch!QueueFresh
<1>8. Sketch!StreakKept' /\ Sketch!Working'
  BY <1>1, <1>2 DEF Sketch!StreakKept, Sketch!Working
<1>9. Sketch!SketchesSound'
  BY <1>1, <1>2, <1>5, <1>6 DEF Sketch!SketchesSound, Sketch!HasSensor
<1> QED
  BY <1>4, <1>7, <1>8, <1>9 DEF Sketch!SketchInv

\* and works on what it took: sending sets the times that are remembered.
LEMMA SendKeeps ==
  ASSUME Sketch!SketchInv, Sketch!SendAngles \/ Sketch!SendStreak
  PROVE  Sketch!SketchInv'
<1>1. Sketch!TypeOK /\ Sketch!QueueFresh /\ Sketch!StreakKept /\ Sketch!Working /\ Sketch!SketchesSound
  BY DEF Sketch!SketchInv
<1>2. /\ at = "work" /\ sketch # "MPU_unitblargh" /\ at' \in {"loop", "button"}
      /\ moved' \in {millis, moved} /\ sentAt' = millis
      /\ UNCHANGED <<sketch, ready, dmpEnabled, fifo, packets, cleared, reading, button,
                     millis, streakMillis>>
  BY DEF Sketch!SendAngles, Sketch!SendStreak, Sketch!Worked, Sketch!Moved, Sketch!sensor,
    Sketch!pls
<1>3. Sketch!TypeOK'
  BY <1>1, <1>2 DEF Sketch!TypeOK
<1>4. Sketch!QueueFresh' /\ Sketch!StreakKept'
  BY <1>1, <1>2 DEF Sketch!QueueFresh, Sketch!StreakKept
<1>5. Sketch!Working'
  BY <1>1, <1>2 DEF Sketch!Working
<1>6. Sketch!SketchesSound'
  BY <1>1, <1>2 DEF Sketch!SketchesSound, Sketch!Working
<1> QED
  BY <1>3, <1>4, <1>5, <1>6 DEF Sketch!SketchInv

\* The sketch with the streaks: the streak it shows is the one that is due.
LEMMA CoordinatesKeep == ASSUME Sketch!SketchInv,
                                Sketch!SendCoordinates PROVE Sketch!SketchInv'
<1>1. Sketch!TypeOK /\ Sketch!QueueFresh /\ Sketch!StreakKept /\ Sketch!Working /\ Sketch!SketchesSound
  BY DEF Sketch!SketchInv
<1>2. /\ at = "work" /\ sketch = "MPU_unitblargh" /\ at' = "button"
      /\ streakMillis' = (IF Sketch!Fast(3) THEN millis ELSE streakMillis)
      /\ moved' = (IF Sketch!Fast(3) THEN millis ELSE moved) /\ sentAt' = millis
      /\ UNCHANGED <<sketch, ready, dmpEnabled, fifo, packets, cleared, reading, button,
                     millis>>
  BY DEF Sketch!SendCoordinates, Sketch!Worked, Sketch!Moved, Sketch!sensor, Sketch!pls
<1>3. PICK x, y, streak, clicked :
        /\ sent' = Sketch!Data(x, y, streak, clicked)
        /\ x = Sketch!Clamp(4 * reading.r.yaw + WIDTH \div 2, WIDTH)
        /\ y = Sketch!Clamp(3 * (-reading.r.pitch) + HEIGHT \div 2, HEIGHT)
        /\ streak = (Sketch!Fast(3) \/ millis - streakMillis < SKETCHSTREAK)
  BY DEF Sketch!SendCoordinates
<1>4. sent'.xCoordinate = x /\ sent'.yCoordinate = y /\ sent'.streakActive = streak
  BY <1>3 DEF Sketch!Data
<1>5. /\ millis \in Nat /\ streakMillis \in Nat /\ moved \in Int
      /\ SKETCHSTREAK \in Nat /\ SKETCHSTREAK > 0 /\ WIDTH \in Nat /\ HEIGHT \in Nat
  BY <1>1, CursorAssumption DEF Sketch!TypeOK, Sketch!Bounds
<1>6. x \in 0 .. WIDTH /\ y \in 0 .. HEIGHT
  <2>1. reading \in Sketch!Packet
    BY <1>1, <1>2 DEF Sketch!QueueFresh
  <2>2. reading.r.yaw \in Int /\ reading.r.pitch \in Int
    BY <2>1, CursorAssumption DEF Sketch!Packet, Sketch!Bounds
  <2>3. WIDTH \div 2 \in Int /\ HEIGHT \div 2 \in Int
    BY <1>5
  <2>4. /\ 4 * reading.r.yaw + (WIDTH \div 2) \in Int
        /\ 3 * (-reading.r.pitch) + (HEIGHT \div 2) \in Int
    BY <2>2, <2>3
  <2> QED
    BY <2>4, <1>3, <1>5, ClampedTo
<1>7. streak <=> (sentAt' - moved' < SKETCHSTREAK \/ sentAt' < SKETCHSTREAK)
  <2>1. CASE Sketch!Fast(3)
    <3>1. streak
      BY <2>1, <1>3, Zenon
    <3>2. sentAt' - moved' < SKETCHSTREAK
      BY <2>1, <1>2, <1>5
    <3> QED
      BY <3>1, <3>2
  <2>2. CASE ~Sketch!Fast(3)
    <3>1. \/ moved \in Nat /\ streakMillis = moved
          \/ moved = -SKETCHSTREAK /\ streakMillis = 0
      BY <1>1, <1>2 DEF Sketch!StreakKept
    <3>2. streak <=> millis - streakMillis < SKETCHSTREAK
      BY <2>2, <1>3, Zenon
    <3>3. (millis - streakMillis < SKETCHSTREAK) <=> (sentAt' - moved' < SKETCHSTREAK \/ sentAt' < SKETCHSTREAK)
      BY <2>2, <3>1, <1>2, <1>5
    <3> QED
      BY <3>2, <3>3
  <2> QED
    BY <2>1, <2>2
<1>8. Sketch!TypeOK'
  BY <1>1, <1>2, <1>5 DEF Sketch!TypeOK
<1>9. Sketch!QueueFresh' /\ Sketch!Working'
  BY <1>1, <1>2 DEF Sketch!QueueFresh, Sketch!Working
<1>10. Sketch!StreakKept'
  BY <1>1, <1>2, <1>5 DEF Sketch!StreakKept
<1>11. Sketch!SketchesSound'
  <2>1. ready'
    BY <1>1, <1>2 DEF Sketch!Working
  <2> QED
    BY <2>1, <1>2, <1>4, <1>6, <1>7 DEF Sketch!SketchesSound
<1> QED
  BY <1>8, <1>9, <1>10, <1>11 DEF Sketch!SketchInv

\* Switching off and on leaves the queue as it is, or empties it.
LEMMA ButtonKeeps == ASSUME Sketch!SketchInv, Sketch!ButtonDone PROVE Sketch!SketchInv'
<1>1. Sketch!TypeOK /\ Sketch!QueueFresh /\ Sketch!StreakKept /\ Sketch!Working /\ Sketch!SketchesSound
  BY DEF Sketch!SketchInv
<1>2. /\ ready' = TRUE /\ at' = "loop" /\ dmpEnabled' \in BOOLEAN
      /\ \/ UNCHANGED <<fifo, cleared>>
         \/ fifo' = <<>> /\ cleared' = <<packets, cleared[1]>>
      /\ UNCHANGED <<sketch, packets, reading, filled, sent, button, millis, streakMillis,
                     moved, sentAt>>
  BY DEF Sketch!ButtonDone, Sketch!clock
<1>3. cleared[1] \in Nat /\ packets \in Nat
  BY <1>1 DEF Sketch!TypeOK
<1>4. Sketch!TypeOK'
  <2>1. <<>> \in Seq(Sketch!Packet) /\ <<packets, cleared[1]>> \in Nat \X Nat
    BY <1>3
  <2>2. fifo' \in Seq(Sketch!Packet) /\ cleared' \in Nat \X Nat
    BY <1>1, <1>2, <2>1 DEF Sketch!TypeOK
  <2> QED
    BY <1>1, <1>2, <2>2 DEF Sketch!TypeOK
<1>5. Sketch!QueueFresh'
  <2>1. CASE UNCHANGED <<fifo, cleared>>
    BY <2>1, <1>1, <1>2 DEF Sketch!QueueFresh
  <2>2. CASE fifo' = <<>> /\ cleared' = <<packets, cleared[1]>>
    <3>1. cleared'[1] = packets /\ Len(fifo') = 0
      BY <2>2
    <3> QED
      BY <3>1, <1>2, <1>3 DEF Sketch!QueueFresh
  <2> QED
    BY <1>2, <2>1, <2>2
<1>6. Sketch!StreakKept' /\ Sketch!Working' /\ Sketch!SketchesSound'
  BY <1>1, <1>2 DEF Sketch!StreakKept, Sketch!Working, Sketch!SketchesSound,
    Sketch!HasSensor
<1> QED
  BY <1>4, <1>5, <1>6 DEF Sketch!SketchInv

\* The other steps leave the queue, the reading and the streak alone.
LEMMA OtherSketchSteps ==
  ASSUME Sketch!SketchInv,
         Sketch!Press \/ Sketch!Elapse \/ Sketch!SendZeros \/ Sketch!Released \/ Sketch!ButtonPressed \/ Sketch!PlsLoop \/ UNCHANGED Sketch!vars
  PROVE  Sketch!SketchInv'
<1>1. Sketch!TypeOK /\ Sketch!QueueFresh /\ Sketch!StreakKept /\ Sketch!Working /\ Sketch!SketchesSound
  BY DEF Sketch!SketchInv
<1>2. /\ UNCHANGED <<sketch, ready, fifo, packets, cleared, reading, streakMillis, moved, sentAt>>
      /\ dmpEnabled' \in BOOLEAN /\ button' \in BOOLEAN /\ millis' \in Nat
      /\ at' = at \/ at' \in {"loop", "delay"}
      /\ sent' = sent \/ sketch = "MPU_unit2"
  <2> USE <1>1 DEF Sketch!TypeOK, Sketch!sensor, Sketch!pls, Sketch!clock
  <2>1. CASE Sketch!Press
    BY <2>1 DEF Sketch!Press
  <2>2. CASE Sketch!Elapse
    BY <2>2, CursorAssumption DEF Sketch!Elapse, Sketch!Bounds
  <2>3. CASE Sketch!SendZeros
    BY <2>3 DEF Sketch!SendZeros
  <2>4. CASE Sketch!Released
    BY <2>4 DEF Sketch!Released
  <2>5. CASE Sketch!ButtonPressed
    BY <2>5 DEF Sketch!ButtonPressed
  <2>6. CASE Sketch!PlsLoop
    BY <2>6 DEF Sketch!PlsLoop
  <2>7. CASE UNCHANGED Sketch!vars
    BY <2>7 DEF Sketch!vars
  <2> QED
    BY <2>1, <2>2, <2>3, <2>4, <2>5, <2>6, <2>7
<1>3. Sketch!TypeOK'
  BY <1>1, <1>2 DEF Sketch!TypeOK
<1>4. Sketch!QueueFresh' /\ Sketch!StreakKept'
  BY <1>1, <1>2 DEF Sketch!QueueFresh, Sketch!StreakKept
<1>5. Sketch!Working'
  BY <1>1, <1>2 DEF Sketch!Working
<1>6. Sketch!SketchesSound'
  BY <1>1, <1>2 DEF Sketch!SketchesSound, Sketch!HasSensor
<1> QED
  BY <1>3, <1>4, <1>5, <1>6 DEF Sketch!SketchInv

\* Every step of a sketch.
LEMMA SketchStep == Sketch!SketchInv /\ [Sketch!Next]_Sketch!vars => Sketch!SketchInv'
<1> SUFFICES ASSUME Sketch!SketchInv, [Sketch!Next]_Sketch!vars PROVE Sketch!SketchInv'
  OBVIOUS
<1>1. CASE Sketch!DmpPacket
  BY <1>1, PacketKeeps
<1>2. CASE Sketch!GetFIFOBytes
  BY <1>2, TakeKeeps
<1>3. CASE Sketch!ResetFIFO
  BY <1>3, ResetKeeps
<1>4. CASE Sketch!SendAngles \/ Sketch!SendStreak
  BY <1>4, SendKeeps
<1>5. CASE Sketch!SendCoordinates
  BY <1>5, CoordinatesKeep
<1>6. CASE Sketch!ButtonDone
  BY <1>6, ButtonKeeps
<1>7. CASE Sketch!Press \/ Sketch!Elapse \/ Sketch!SendZeros \/ Sketch!Released \/ Sketch!ButtonPressed \/ Sketch!PlsLoop \/ UNCHANGED Sketch!vars
  BY <1>7, OtherSketchSteps
<1> QED
  BY <1>1, <1>2, <1>3, <1>4, <1>5, <1>6, <1>7 DEF Sketch!Next

-----------------------------------------------------------------------------
(* The way from the radio to the game.                                     *)

\* The bits of any number are a word for the pins.
LEMMA BitsType == \A v : Path!Bits(v) \in [Path!Pins -> {0, 1}]
BY DEF Path!Bits

\* So are no bits at all.
LEMMA DarkType == Path!Dark \in [Path!Pins -> {0, 1}]
BY DEF Path!Dark

\* What has been read is not changed by reading on.
LEMMA ReadStays ==
  ASSUME NEW S, NEW s \in Seq(S), NEW p \in S
  PROVE  /\ Append(s, p) \in Seq(S)
         /\ Len(Append(s, p)) = Len(s) + 1
         /\ Append(s, p)[Len(s) + 1] = p
         /\ \A n \in Nat : 0 < n /\ n <= Len(s) => Append(s, p)[n] = s[n]
OBVIOUS

\* At the start the pins are dark and the game has seen nothing.
LEMMA InitPathInv == Path!Init => Path!PathInv
<1> SUFFICES ASSUME Path!Init PROVE Path!PathInv
  OBVIOUS
<1>1. <<Boot>> \in Seq(Packages \cup {Boot}) /\ <<>> \in Seq(Packages)
      /\ Len(<<Boot>>) = 1 /\ <<Boot>>[1] = Boot
  OBVIOUS
<1>2. 0 \in Path!Pins
  BY CursorAssumption DEF Path!Bounds, Path!Pins
<1>3. Path!TypeOK
  BY <1>1, <1>2, DarkType DEF Path!Init, Path!TypeOK
<1>4. Path!LastRead /\ Path!AgesPast
  BY <1>1 DEF Path!Init, Path!LastRead, Path!AgesPast
<1>5. Path!PinsWritten /\ Path!EdgeDue /\ Path!StreakFollows /\ Path!StreakRead
  BY DEF Path!Init, Path!PinsWritten, Path!EdgeDue, Path!StreakFollows, Path!StreakRead
<1>6. Path!CoordinatesWhole /\ Path!StreakNotAhead
  BY DEF Path!Init, Path!CoordinatesWhole, Path!StreakNotAhead
<1> QED
  BY <1>3, <1>4, <1>5, <1>6 DEF Path!PathInv

\* What is in the air is not read yet.
LEMMA ArrivePathInv ==
  ASSUME Path!PathInv, NEW p \in Packages, Path!Arrive(p)
  PROVE  Path!PathInv'
<1>1. air' \in Seq(Packages)
  BY DEF Path!PathInv, Path!TypeOK, Path!Arrive
<1>2. UNCHANGED <<Path!receiver, Path!gpio, Path!registers, Path!game, read, Path!ages, Path!seen>>
  BY DEF Path!Arrive
<1> QED
  BY <1>1, <1>2 DEF Path!PathInv, Path!TypeOK, Path!receiver, Path!gpio, Path!registers,
    Path!game, Path!ages,
     Path!seen, Path!LastRead, Path!PinsWritten, Path!AgesPast, Path!EdgeDue,
     Path!StreakFollows,
     Path!StreakRead, Path!CoordinatesWhole, Path!StreakNotAhead, Path!Coordinate

\* A package is read and becomes the one to transmit.
LEMMA ReadRadioPathInv == ASSUME Path!PathInv, Path!ReadRadio PROVE Path!PathInv'
<1> DEFINE p == Head(air)
<1>1. /\ receiverAt = "loop" /\ air # <<>> /\ radioPackage' = p /\ air' = Tail(air)
      /\ read' = Append(read, p)
      /\ UNCHANGED <<receiverAt, bit, transmittedType, Path!gpio, Path!registers, Path!game, Path!ages,
                     Path!seen>>
  BY DEF Path!ReadRadio
<1>2. p \in Packages /\ air' \in Seq(Packages)
  BY <1>1 DEF Path!PathInv, Path!TypeOK
<1>3. read \in Seq(Packages \cup {Boot}) /\ Len(read) \in Nat
  BY DEF Path!PathInv, Path!TypeOK
<1> HIDE DEF p
<1>4. /\ read' \in Seq(Packages \cup {Boot})
      /\ Len(read') = Len(read) + 1 /\ read'[Len(read')] = p
      /\ \A n \in Nat : 0 < n /\ n <= Len(read) => read'[n] = read[n]
  BY <1>1, <1>2, <1>3, ReadStays
<1> USE DEF Path!gpio, Path!registers, Path!game, Path!ages, Path!seen
<1>5. Path!TypeOK'
  BY <1>1, <1>2, <1>4 DEF Path!PathInv, Path!TypeOK
<1>6. Path!LastRead' /\ Path!AgesPast'
  BY <1>1, <1>3, <1>4 DEF Path!PathInv, Path!TypeOK, Path!LastRead, Path!AgesPast
<1>7. Path!PinsWritten' /\ Path!EdgeDue' /\ Path!StreakFollows' /\ Path!StreakRead' /\ Path!StreakNotAhead'
  BY <1>1 DEF Path!PathInv, Path!PinsWritten, Path!EdgeDue, Path!StreakFollows,
    Path!StreakRead,
     Path!StreakNotAhead
<1>8. Path!CoordinatesWhole'
  BY <1>1, <1>4 DEF Path!PathInv, Path!TypeOK, Path!AgesPast, Path!CoordinatesWhole
<1> QED
  BY <1>5, <1>6, <1>7, <1>8 DEF Path!PathInv

\* One pin more holds its bit of the coordinate.
LEMMA WritePinPathInv == ASSUME Path!PathInv, Path!WritePin PROVE Path!PathInv'
<1>1. /\ receiverAt = "pins"
      /\ pins' = [pins EXCEPT ![bit] = Path!Bits(Path!Coordinate)[bit]]
      /\ IF bit + 1 < PINS THEN bit' = bit + 1 /\ receiverAt' = receiverAt
                           ELSE bit' = 0 /\ receiverAt' = "edge"
      /\ UNCHANGED <<air, radioPackage, transmittedType, xyPin, streakPin,
                     buttonPin, Path!registers, Path!game, read, Path!ages, Path!seen>>
  BY DEF Path!WritePin
<1>2. bit \in Path!Pins /\ pins \in [Path!Pins -> {0, 1}]
  BY DEF Path!PathInv, Path!TypeOK
<1>3. Path!Bits(Path!Coordinate) \in [Path!Pins -> {0, 1}] /\ Path!Coordinate' = Path!Coordinate
  BY <1>1, BitsType DEF Path!Coordinate
<1>4. pins' \in [Path!Pins -> {0, 1}]
  BY <1>1, <1>2, <1>3
<1>5. bit' \in Path!Pins
  BY <1>1, <1>2, CursorAssumption DEF Path!Bounds, Path!Pins
<1>6. \A i \in Path!Pins : i <= bit => pins'[i] = Path!Bits(Path!Coordinate)[i]
  BY <1>1, <1>2, <1>3 DEF Path!PathInv, Path!PinsWritten, Path!Pins
<1>7. Path!PinsWritten'
  <2>1. Path!Bits(Path!Coordinate)' = Path!Bits(Path!Coordinate)
    BY <1>3 DEF Path!Bits
  <2>2. CASE bit + 1 < PINS
    <3>1. \A i \in Path!Pins : i < bit' => i <= bit
      BY <1>1, <1>2, <2>2 DEF Path!Pins
    <3> QED
      BY <1>1, <1>6, <2>1, <2>2, <3>1 DEF Path!PinsWritten
  <2>3. CASE ~(bit + 1 < PINS)
    <3>1. \A i \in Path!Pins : i <= bit
      BY <1>2, <2>3, CursorAssumption DEF Path!Bounds, Path!Pins
    <3>2. pins' = Path!Bits(Path!Coordinate)
      BY <1>3, <1>4, <1>6, <3>1
    <3> QED
      BY <1>1, <2>1, <2>3, <3>2 DEF Path!PinsWritten
  <2> QED
    BY <2>2, <2>3
<1> USE DEF Path!registers, Path!game, Path!ages, Path!seen
<1>8. Path!TypeOK'
  BY <1>1, <1>4, <1>5 DEF Path!PathInv, Path!TypeOK
<1>9. receiverAt' \in {"pins", "edge"}
  BY <1>1
<1>10. Path!LastRead' /\ Path!AgesPast' /\ Path!EdgeDue' /\ Path!StreakFollows' /\ Path!StreakRead'
       /\ Path!CoordinatesWhole' /\ Path!StreakNotAhead'
  BY <1>1, <1>9 DEF Path!PathInv, Path!LastRead, Path!AgesPast, Path!EdgeDue,
    Path!StreakFollows,
     Path!StreakRead, Path!CoordinatesWhole, Path!StreakNotAhead
<1> QED
  BY <1>7, <1>8, <1>10 DEF Path!PathInv

\* The edge: the pins hold one whole coordinate, and go to its register.
LEMMA WriteXyPinPathInv == ASSUME Path!PathInv, Path!WriteXyPin PROVE Path!PathInv'
<1> DEFINE rises == xyPin = 0 /\ transmittedType = 1
           falls == xyPin = 1 /\ transmittedType = 0
<1>1. /\ receiverAt = "edge" /\ receiverAt' = "streak"
      /\ xyPin' = transmittedType
      /\ transmittedType' = 1 - transmittedType
      /\ xRegister' = IF rises THEN pins ELSE xRegister
      /\ xAge' = IF rises THEN Len(read) ELSE xAge
      /\ yRegister' = IF falls THEN pins ELSE yRegister
      /\ yAge' = IF falls THEN Len(read) ELSE yAge
      /\ UNCHANGED <<air, bit, radioPackage, pins, streakPin, buttonPin, Path!game,
                     read, streakAge, Path!seen>>
  BY DEF Path!WriteXyPin, Path!Capture, Path!Toggled
<1>2. Path!TypeOK /\ Path!LastRead /\ Path!AgesPast /\ Path!PinsWritten /\ Path!EdgeDue
      /\ Path!StreakFollows /\ Path!StreakRead /\ Path!CoordinatesWhole /\ Path!StreakNotAhead
  BY DEF Path!PathInv
<1>3. /\ transmittedType \in {0, 1} /\ xyPin \in {0, 1}
      /\ Len(read) \in Nat /\ xAge \in Nat /\ yAge \in Nat
      /\ streakAge \in Nat /\ streakSeen \in Nat /\ xSeen \in Nat
      /\ pins \in [Path!Pins -> {0, 1}]
  BY <1>2 DEF Path!TypeOK
<1> HIDE DEF rises, falls
<1> USE DEF Path!game, Path!seen
<1>4. Path!TypeOK'
  BY <1>1, <1>2, <1>3 DEF Path!TypeOK
<1>5. Path!LastRead' /\ Path!PinsWritten' /\ Path!EdgeDue'
  BY <1>1, <1>2, <1>3 DEF Path!LastRead, Path!PinsWritten, Path!EdgeDue
<1>6. Path!AgesPast' /\ xAge <= xAge' /\ yAge <= yAge'
  BY <1>1, <1>2, <1>3 DEF Path!AgesPast
<1>7. Path!StreakFollows'
  <2> SUFFICES ASSUME xAge' > 0
               PROVE  /\ xAge' = Len(read) \/ yAge' = Len(read)
                      /\ streakAge <= xAge' \/ streakAge <= yAge'
    BY <1>1 DEF Path!StreakFollows
  <2>1. rises \/ falls
    BY <1>1, <1>2, <1>3 DEF Path!EdgeDue, rises, falls
  <2>2. xAge' = Len(read) \/ yAge' = Len(read)
    BY <1>1, <2>1
  <2> QED
    BY <1>2, <2>2 DEF Path!AgesPast
<1>8. Path!StreakRead'
  <2>1. ASSUME cpu = "x", xAge' > 0
        PROVE  streakSeen <= xAge' \/ streakSeen <= yAge'
    <3>1. CASE rises
      BY <1>1, <1>2, <3>1 DEF Path!AgesPast
    <3>2. CASE ~rises
      <4>1. streakSeen <= xAge \/ streakSeen <= yAge
        BY <1>1, <1>2, <2>1, <3>2 DEF Path!StreakRead
      <4> QED
        BY <1>3, <1>6, <4>1, <1>4 DEF Path!TypeOK
    <3> QED
      BY <3>1, <3>2
  <2>2. ASSUME cpu = "y", xSeen > 0
        PROVE  streakSeen <= xSeen \/ streakSeen <= yAge'
    <3>1. streakSeen <= xSeen \/ streakSeen <= yAge
      BY <1>2, <2>2 DEF Path!StreakRead
    <3> QED
      BY <1>3, <1>6, <3>1, <1>4 DEF Path!TypeOK
  <2> QED
    BY <1>1, <2>1, <2>2 DEF Path!StreakRead
<1>9. Path!CoordinatesWhole'
  <2>1. Len(read) > 0 /\ radioPackage = read[Len(read)]
    BY <1>2, <1>3 DEF Path!LastRead
  <2>2. rises => pins = Path!Bits(read[Len(read)].xCoordinate)
    BY <1>1, <1>2, <2>1 DEF Path!PinsWritten, Path!Coordinate, rises
  <2>3. falls => pins = Path!Bits(read[Len(read)].yCoordinate)
    BY <1>1, <1>2, <2>1 DEF Path!PinsWritten, Path!Coordinate, falls
  <2> QED
    BY <1>1, <1>2, <1>3, <2>1, <2>2, <2>3 DEF Path!CoordinatesWhole
<1>10. Path!StreakNotAhead'
  BY <1>1, <1>2 DEF Path!StreakNotAhead
<1> QED
  BY <1>4, <1>5, <1>6, <1>7, <1>8, <1>9, <1>10 DEF Path!PathInv

\* The streak follows a coordinate of its package.
LEMMA WriteStreakPathInv == ASSUME Path!PathInv, Path!WriteStreak PROVE Path!PathInv'
<1>1. radioPackage.streakActive \in {0, 1}
  BY CursorAssumption DEF Path!Bounds, Path!PathInv, Path!TypeOK, Path!Package
<1> USE <1>1 DEF Path!WriteStreak, Path!registers, Path!game, Path!seen
<1>2. Path!TypeOK'
  BY DEF Path!PathInv, Path!TypeOK
<1>3. Path!LastRead' /\ Path!AgesPast' /\ Path!PinsWritten' /\ Path!EdgeDue'
  BY DEF Path!PathInv, Path!TypeOK, Path!LastRead, Path!AgesPast, Path!PinsWritten,
    Path!EdgeDue
<1>4. Path!StreakFollows'
  BY DEF Path!PathInv, Path!TypeOK, Path!StreakFollows
<1>5. Path!StreakRead' /\ Path!CoordinatesWhole' /\ Path!StreakNotAhead'
  BY DEF Path!PathInv, Path!StreakRead, Path!CoordinatesWhole, Path!StreakNotAhead
<1> QED
  BY <1>2, <1>3, <1>4, <1>5 DEF Path!PathInv

\* A transmission begins, the button is written, or nothing happens.
LEMMA IdlePathInv ==
  ASSUME Path!PathInv, Path!StartTransmission \/ Path!WriteButton \/ UNCHANGED Path!vars
  PROVE  Path!PathInv'
<1>1. radioPackage.buttonClicked \in {0, 1}
  BY CursorAssumption DEF Path!Bounds, Path!PathInv, Path!TypeOK, Path!Package
<1>2. 0 \in Path!Pins
  BY CursorAssumption DEF Path!Bounds, Path!Pins
<1> USE <1>1, <1>2 DEF Path!StartTransmission, Path!WriteButton, Path!vars, Path!receiver, Path!gpio,
        Path!registers, Path!game, Path!ages, Path!seen
<1>3. Path!TypeOK'
  <2> USE DEF Path!PathInv, Path!TypeOK
  <2>1. CASE Path!StartTransmission
    BY <2>1
  <2>2. CASE Path!WriteButton
    BY <2>2
  <2>3. CASE UNCHANGED Path!vars
    BY <2>3
  <2> QED
    BY <2>1, <2>2, <2>3
<1>4. Path!PinsWritten'
  <2>1. (bit' = 0 /\ receiverAt' = "pins") \/ receiverAt' = "loop" \/ UNCHANGED Path!vars
    OBVIOUS
  <2> QED
    BY <2>1 DEF Path!PathInv, Path!PinsWritten, Path!Pins, Path!Coordinate
<1>5. Path!LastRead' /\ Path!AgesPast' /\ Path!EdgeDue'
  BY DEF Path!PathInv, Path!LastRead, Path!AgesPast, Path!EdgeDue
<1>6. Path!StreakFollows' /\ Path!StreakRead' /\ Path!CoordinatesWhole' /\ Path!StreakNotAhead'
  BY DEF Path!PathInv, Path!StreakFollows, Path!StreakRead, Path!CoordinatesWhole,
    Path!StreakNotAhead
<1> QED
  BY <1>3, <1>4, <1>5, <1>6 DEF Path!PathInv

\* The game reads streak, x and y, which do not get older meanwhile.
LEMMA GamePathInv == ASSUME Path!PathInv, Path!Game PROVE Path!PathInv'
<1> USE DEF Path!Game, Path!ReadPort2, Path!ReadX, Path!ReadY, Path!receiver, Path!gpio, Path!registers, Path!ages
<1>1. Path!TypeOK'
  <2> USE DEF Path!PathInv, Path!TypeOK
  <2>1. CASE Path!ReadPort2
    BY <2>1
  <2>2. CASE Path!ReadX
    BY <2>2
  <2>3. CASE Path!ReadY
    BY <2>3
  <2> QED
    BY <2>1, <2>2, <2>3
<1>2. Path!LastRead' /\ Path!PinsWritten' /\ Path!EdgeDue' /\ Path!StreakFollows'
  BY DEF Path!PathInv, Path!LastRead, Path!PinsWritten, Path!EdgeDue, Path!StreakFollows,
    Path!Coordinate
<1>3. Path!AgesPast'
  BY DEF Path!PathInv, Path!AgesPast
<1>4. Path!StreakRead'
  BY DEF Path!PathInv, Path!StreakRead, Path!StreakFollows
<1>5. Path!CoordinatesWhole'
  BY DEF Path!PathInv, Path!CoordinatesWhole
<1>6. Path!StreakNotAhead'
  BY DEF Path!PathInv, Path!StreakRead, Path!StreakNotAhead
<1> QED
  BY <1>1, <1>2, <1>3, <1>4, <1>5, <1>6 DEF Path!PathInv

\* Every step on the way.
LEMMA PathSteps == Path!PathInv /\ [Path!Next]_Path!vars => Path!PathInv'
<1> SUFFICES ASSUME Path!PathInv, [Path!Next]_Path!vars PROVE Path!PathInv'
  OBVIOUS
<1>1. CASE \E p \in Packages : Path!Arrive(p)
  BY <1>1, ArrivePathInv
<1>2. CASE Path!ReadRadio
  BY <1>2, ReadRadioPathInv
<1>3. CASE Path!WritePin
  BY <1>3, WritePinPathInv
<1>4. CASE Path!WriteXyPin
  BY <1>4, WriteXyPinPathInv
<1>5. CASE Path!WriteStreak
  BY <1>5, WriteStreakPathInv
<1>6. CASE Path!StartTransmission \/ Path!WriteButton \/ UNCHANGED Path!vars
  BY <1>6, IdlePathInv
<1>7. CASE Path!Game
  BY <1>7, GamePathInv
<1> QED
  BY <1>1, <1>2, <1>3, <1>4, <1>5, <1>6, <1>7 DEF Path!Next, Path!Receiver

-----------------------------------------------------------------------------
(* The parts together: one runs, the others stand still.                   *)

CursorInv == SwordInv /\ Sketch!SketchInv /\ Path!PathInv

\* A part that stands still keeps its invariant: the sketches,
LEMMA SketchStands == Sketch!SketchInv /\ UNCHANGED sketches => Sketch!SketchInv'
<1>1. UNCHANGED sketches => UNCHANGED Sketch!vars
  BY DEF sketches, Sketch!vars, Sketch!sensor, Sketch!pls, Sketch!clock
<1> QED
  BY <1>1, SketchStep

\* and the way to the game.
LEMMA PathStands == Path!PathInv /\ UNCHANGED path => Path!PathInv'
<1>1. UNCHANGED path => UNCHANGED Path!vars
  BY DEF path, Path!vars, Path!receiver, Path!gpio, Path!registers, Path!game, Path!ages,
     Path!seen
<1> QED
  BY <1>1, PathSteps

\* Every step of one part keeps the invariants of all.
LEMMA CursorStep == CursorInv /\ [CursorNext]_all => CursorInv'
<1> SUFFICES ASSUME CursorInv, [CursorNext]_all PROVE CursorInv'
  OBVIOUS
<1>1. SwordInv'
  <2>1. Next \/ UNCHANGED vars
    BY DEF CursorNext, all
  <2> QED
    BY <2>1, NextInv DEF CursorInv
<1>2. Sketch!SketchInv'
  <2>1. Sketch!Next \/ UNCHANGED sketches
    BY DEF CursorNext, all
  <2> QED
    BY <2>1, SketchStands, SketchStep DEF CursorInv
<1>3. Path!PathInv'
  <2>1. Path!Next \/ UNCHANGED path
    BY DEF CursorNext, all
  <2> QED
    BY <2>1, PathStands, PathSteps DEF CursorInv
<1> QED
  BY <1>1, <1>2, <1>3 DEF CursorInv

\* The invariants of the three parts, whichever of them runs.
THEOREM CursorInvariant == CursorSpec => []CursorInv
<1>1. CursorInit => CursorInv
  BY InitInv, SketchAtStart, InitPathInv DEF CursorInit, CursorInv
<1> QED
  BY <1>1, CursorStep, PTL DEF CursorSpec

\* Every variable stays in its range, the cursor on the screen.
THEOREM TypeCorrect == CursorSpec => [](TypeOK /\ Sketch!TypeOK /\ Path!TypeOK)
<1>1. CursorInv => TypeOK /\ Sketch!TypeOK /\ Path!TypeOK
  BY DEF CursorInv, SwordInv, Sketch!SketchInv, Path!PathInv
<1> QED
  BY <1>1, CursorInvariant, PTL

\* After PATIENCE + 1 equal readings the cursor is where the sword points
\* (MPU_unit.ino, the glitch filter).
THEOREM CursorArrivesHolds == CursorSpec => []CursorArrives
<1>1. CursorInv => CursorArrives
  BY DEF CursorInv, SwordInv
<1> QED
  BY <1>1, CursorInvariant, PTL

\* A leap is a trip that believes everything, and those are PATIENCE trips
\* apart (MPU_unit.ino, the glitch filter).
THEOREM LeapsRareHolds == CursorSpec => LeapsRare
<1> DEFINE Rare ==
      pc = "sense" /\ Far(xCoordinate', yCoordinate') => calm >= PATIENCE - 1
<1>1. CursorInv /\ [CursorNext]_all => [Rare]_vars
  <2>1. SUFFICES ASSUME SwordInv, [Next]_vars, pc = "sense",
                        Far(xCoordinate', yCoordinate')
                 PROVE  calm >= PATIENCE - 1
    BY DEF CursorInv, CursorNext, all
  <2>2. CASE \E r \in Readings, ms \in Steps : Sense(r, ms)
    <3>1. deGlitchMode = 0
      BY <2>1, <2>2, TripCases DEF SwordInv, TypeOK
    <3> QED
      BY <3>1, <2>1 DEF SwordInv, CalmCounted
  <2>3. CASE NotReady \/ UNCHANGED vars
    <3>1. xCoordinate' = xCoordinate /\ yCoordinate' = yCoordinate
      BY <2>3 DEF NotReady, vars, package
    <3>2. ~Far(xCoordinate', yCoordinate')
      BY <3>1, <2>1, FilterAssumption DEF Far, Abs, SwordInv, TypeOK
    <3> QED
      BY <3>2, <2>1
  <2> QED
    BY <2>1, <2>2, <2>3 DEF Next, NotPressed, Pressed, Restart
<1>2. CursorSpec => [][Rare]_vars
  BY <1>1, CursorInvariant, PTL DEF CursorSpec
<1> QED
  BY <1>2 DEF LeapsRare

\* An earlier sketch works on nothing that was queued before the clearing of
\* its queue before the last one; the last sketch (MPU_unitblargh.ino) sends
\* coordinates on the screen only, and a streak exactly while it is due; and
\* nothing is sent without a sensor.
THEOREM SketchesSoundHolds == CursorSpec => []SketchesSound
<1>1. CursorInv => SketchesSound
  BY DEF CursorInv, Sketch!SketchInv, SketchesSound
<1> QED
  BY <1>1, CursorInvariant, PTL

\* No coordinate is a mixture of two words (FPGA_unit.ino,
\* Arduino_FPGA_Comm.sv, main.c).
THEOREM CoordinatesWholeHolds == CursorSpec => []CoordinatesWhole
<1>1. CursorInv => CoordinatesWhole
  BY DEF CursorInv, Path!PathInv, CoordinatesWhole
<1> QED
  BY <1>1, CursorInvariant, PTL

\* The streak the game cuts with is not newer than both coordinates
\* (FPGA_unit.ino, port2Unpackager of main.c).
THEOREM StreakNotAheadHolds == CursorSpec => []StreakNotAhead
<1>1. CursorInv => StreakNotAhead
  BY DEF CursorInv, Path!PathInv, StreakNotAhead
<1> QED
  BY <1>1, CursorInvariant, PTL
=============================================================================
