---------------------------- MODULE ObjectProofs ----------------------------
(***************************************************************************)
(* Proofs about the objects of a round: VeggieFlight, for every number of  *)
(* slots, every screen and every throw the assumptions allow, and          *)
(* FrameDisplayer, for all frames.  The two are apart from one another:    *)
(* each has its own variables and its own specification.                   *)
(***************************************************************************)
EXTENDS VeggieFlight, FrameDisplayer, FiniteSetTheorems, TLAPS

-----------------------------------------------------------------------------
(* The flight.                                                             *)

\* How many there are of some slots is a number.
LEMMA SomeSlots == ASSUME NEW S, S \subseteq Slots PROVE Cardinality(S) \in Nat
<1>1. IsFiniteSet(Slots)
  BY SlotAssumption, FS_AddElement DEF Slots
<1> QED
  BY <1>1, FS_Subset, FS_CardinalityType

\* v(v+1) is never negative, and grows with the speed of a fall.
LEMMA SpeedFacts ==
  /\ \A v \in Int : v * (v + 1) >= 0
  /\ \A v \in Int : v < -FALL => v * (v + 1) > 2 * HEIGHT
<1>1. ASSUME NEW v \in Int PROVE v * (v + 1) >= 0
  BY Z3
<1>2. ASSUME NEW v \in Int, v < -FALL PROVE v * (v + 1) > 2 * HEIGHT
  <2>1. \E d \in Nat : v = -(FALL + 1) - d
    <3>1. -(FALL + 1) - v \in Nat /\ v = -(FALL + 1) - (-(FALL + 1) - v)
      BY <1>2, HeightAssumption
    <3> QED
      BY <3>1
  <2>2. PICK d \in Nat : v = -(FALL + 1) - d
    BY <2>1
  <2>3. v * (v + 1) = FALL * (FALL + 1) + d * (2 * FALL + 1 + d)
    BY <2>2, HeightAssumption
  <2>4. d * (2 * FALL + 1 + d) >= 0
    BY <2>2, HeightAssumption
  <2>5. FALL * (FALL + 1) \in Int /\ d * (2 * FALL + 1 + d) \in Int
    BY HeightAssumption
  <2> QED
    BY <2>3, <2>4, <2>5, HeightAssumption, ScreenAssumption
<1> QED
  BY <1>1, <1>2

\* A move under gravity leaves 2y + v(v+1) as it is.
LEMMA EnergyKept ==
  ASSUME NEW y \in Int, NEW v \in Int
  PROVE  2 * (y + v) + (v - 1) * ((v - 1) + 1) = 2 * y + v * (v + 1)
OBVIOUS

\* An unsigned difference below zero is beyond every coordinate.
LEMMA WrapsBeyond ==
  ASSUME NEW y \in Nat, NEW b \in Nat, NEW u \in Nat, u >= b + 1024, y < b
  PROVE  (y - b) % u >= 1024
<1>1. y - b \in Int /\ y - b < 0 /\ 0 - u <= y - b /\ u > 0
  OBVIOUS
<1>2. ASSUME NEW a \in Int, a < 0, 0 - u <= a
      PROVE  a % u = a + u
  BY <1>1, <1>2, Z3T(30)
<1>3. (y - b) % u = y - b + u
  BY <1>1, <1>2
<1> QED
  BY <1>1, <1>3

\* Below BELOW no cursor is in the hitbox.
LEMMA HitFromHeight ==
  ASSUME TypeOK, NEW i \in Slots, Hit(i)
  PROVE  yPosition[i] >= BELOW
<1>1. yPosition[i] \in Nat
  BY DEF TypeOK
<1>2. cursor[2] \in Int /\ cursor[2] <= 1023
  <2>1. cursor[2] \in TenBits
    BY CursorAssumption DEF TypeOK
  <2>2. \A c \in TenBits : c \in Int /\ c <= 1023
    BY DEF TenBits
  <2> QED
    BY <2>1, <2>2
<1>3. SUFFICES ASSUME yPosition[i] < BELOW PROVE FALSE
  BY <1>1, BoxAssumption
<1>4. /\ (yPosition[i] - BELOW) % UINT \in Int
      /\ (yPosition[i] - BELOW) % UINT >= 1024
  BY <1>1, <1>3, BoxAssumption, WrapsBeyond
<1>5. (yPosition[i] - BELOW) % UINT < cursor[2]
  BY DEF Hit
<1> QED
  BY <1>2, <1>4, <1>5

-----------------------------------------------------------------------------
(* FlightInv holds initially and every engine preserves it.                *)

LEMMA FlightAtStart == FlightInit => FlightInv
<1> SUFFICES ASSUME FlightInit PROVE FlightInv
  OBVIOUS
<1> USE SlotAssumption, MenuAssumption, ScreenAssumption, BoundAssumption
    DEF FlightInit
<1>1. TypeOK
  <2>1. \A i \in Menu : MenuX[i] \in 0 .. WIDTH /\ MenuY[i] \in Nat
    BY ScreenAssumption
  <2>2. xPosition \in [Slots -> 0 .. WIDTH] /\ yPosition \in [Slots -> Nat]
    BY <2>1
  <2>3. /\ objectState \in [Slots -> 0 .. 4]
        /\ xVelocity \in [Slots -> Int] /\ yVelocity \in [Slots -> Int]
        /\ moves \in [Slots -> Nat] /\ cuts \in [Slots -> Nat]
    OBVIOUS
  <2> QED
    BY <2>2, <2>3 DEF TypeOK
<1>2. EnergyBounded
  <2>1. \A i \in Slots : yPosition[i] \in 0 .. HEIGHT /\ yVelocity[i] = 0
    OBVIOUS
  <2> QED
    BY <2>1 DEF EnergyBounded, Energy
<1>3. MovesCounted /\ CutsCounted /\ EmptyAtRest
  BY ThrowAssumption DEF MovesCounted, CutsCounted, EmptyAtRest
<1>4. ScoreSentNotNegative
  BY DEF ScoreSentNotNegative
<1> QED
  BY <1>1, <1>2, <1>3, <1>4 DEF FlightInv

\* A move keeps every object either on the screen or out of its slot.
LEMMA PhysicsFlightInv == ASSUME FlightInv, Physics PROVE FlightInv'
<1> DEFINE x(i) == xPosition[i] + xVelocity[i]
           y(i) == yPosition[i] + yVelocity[i]
           moved == {i \in Slots : objectState[i] # 0}
           gone == {i \in moved : Outside(x(i), y(i))}
           kept == moved \ gone
<1>1. TypeOK /\ EnergyBounded /\ MovesCounted /\ CutsCounted /\ EmptyAtRest
  BY DEF FlightInv
<1>2. ASSUME NEW i \in Slots
      PROVE  /\ objectState[i] \in 0 .. 4 /\ xPosition[i] \in 0 .. WIDTH
             /\ yPosition[i] \in Nat /\ xVelocity[i] \in Int
             /\ yVelocity[i] \in Int /\ moves[i] \in Nat /\ cuts[i] \in Nat
  BY <1>1 DEF TypeOK
<1>3. ASSUME NEW i \in kept
      PROVE  x(i) \in 0 .. WIDTH /\ y(i) \in Nat
  BY <1>2, ScreenAssumption DEF Outside
<1>4. /\ objectState' = [i \in Slots |-> IF i \in kept THEN objectState[i]
                                                        ELSE 0]
      /\ xPosition' = [i \in Slots |-> IF i \in kept THEN x(i)
                               ELSE IF i \in gone THEN 0 ELSE xPosition[i]]
      /\ yPosition' = [i \in Slots |-> IF i \in kept THEN y(i)
                               ELSE IF i \in gone THEN 0 ELSE yPosition[i]]
      /\ xVelocity' = [i \in Slots |-> IF i \in gone THEN 0
                                                     ELSE xVelocity[i]]
      /\ yVelocity' = [i \in Slots |-> IF i \in kept THEN yVelocity[i] - 1
                               ELSE IF i \in gone THEN 0 ELSE yVelocity[i]]
      /\ moves' = [i \in Slots |-> IF i \in kept THEN moves[i] + 1 ELSE 0]
      /\ cuts' = [i \in Slots |-> IF i \in gone THEN 0 ELSE cuts[i]]
  BY DEF Physics, Pulled, Without
<1>5. score' \in Int /\ pc' = "spawn"
  <2>1. Cardinality(gone \ {Bomb}) \in Nat
    BY SomeSlots
  <2> QED
    BY <1>1, <2>1 DEF Physics, TypeOK
<1>6. UNCHANGED <<comboFruit, cursorStreak, cursor, throws>>
  BY DEF Physics
<1> HIDE DEF x, y, gone, kept
<1>7. TypeOK'
  <2>1. 0 \in 0 .. WIDTH /\ kept \subseteq Slots
    BY ScreenAssumption DEF kept
  <2>2. xPosition' \in [Slots -> 0 .. WIDTH]
    BY <1>2, <1>3, <1>4, <2>1
  <2>3. yPosition' \in [Slots -> Nat] /\ yVelocity' \in [Slots -> Int]
    BY <1>2, <1>3, <1>4, <2>1
  <2>4. /\ objectState' \in [Slots -> 0 .. 4]
        /\ xVelocity' \in [Slots -> Int]
        /\ moves' \in [Slots -> Nat] /\ cuts' \in [Slots -> Nat]
    BY <1>2, <1>4
  <2> QED
    BY <1>1, <1>5, <1>6, <2>2, <2>3, <2>4 DEF TypeOK
<1>8. EnergyBounded'
  <2> SUFFICES ASSUME NEW i \in Slots PROVE Energy(i)' <= 2 * HEIGHT
    BY DEF EnergyBounded
  <2>1. CASE i \in kept
    <3>1. yPosition'[i] = yPosition[i] + yVelocity[i]
          /\ yVelocity'[i] = yVelocity[i] - 1
      BY <1>4, <2>1 DEF y
    <3>2. Energy(i)' = Energy(i)
      BY <1>2, <3>1, EnergyKept DEF Energy
    <3> QED
      BY <1>1, <3>2 DEF EnergyBounded
  <2>2. CASE i \in gone
    <3>1. yPosition'[i] = 0 /\ yVelocity'[i] = 0
      BY <1>4, <2>2 DEF kept
    <3> QED
      BY <3>1, ScreenAssumption DEF Energy
  <2>3. CASE i \notin kept /\ i \notin gone
    <3>1. yPosition'[i] = yPosition[i] /\ yVelocity'[i] = yVelocity[i]
      BY <1>4, <2>3
    <3> QED
      BY <1>1, <3>1 DEF EnergyBounded, Energy
  <2> QED
    BY <2>1, <2>2, <2>3
<1>9. MovesCounted' /\ CutsCounted'
  <2>1. \A i \in kept : objectState[i] # 0
    BY DEF kept
  <2>2. MovesCounted'
    BY <1>1, <1>2, <1>4, <2>1 DEF MovesCounted
  <2>3. CutsCounted'
    BY <1>1, <1>2, <1>4 DEF CutsCounted
  <2> QED
    BY <2>2, <2>3
<1>10. EmptyAtRest'
  <2> SUFFICES ASSUME NEW i \in Slots, objectState'[i] = 0
               PROVE  /\ xPosition'[i] = 0 /\ yPosition'[i] = 0
                      /\ xVelocity'[i] = 0 /\ yVelocity'[i] = 0
    BY DEF EmptyAtRest
  <2>1. i \notin kept
    BY <1>4 DEF kept
  <2>2. CASE i \in gone
    BY <1>4, <2>1, <2>2
  <2>3. CASE i \notin gone
    <3>1. objectState[i] = 0
      BY <2>1, <2>3 DEF kept
    <3> QED
      BY <1>1, <1>4, <2>1, <2>3, <3>1 DEF EmptyAtRest
  <2> QED
    BY <2>2, <2>3
<1> QED
  BY <1>5, <1>7, <1>8, <1>9, <1>10 DEF FlightInv, ScoreSentNotNegative

\* What is thrown starts at the bottom with no more than MAXVY.
LEMMA SpawnFlightInv ==
  ASSUME FlightInv, NEW S, NEW throw \in [S -> XS \X VXS \X VYS],
         Spawn(S, throw)
  PROVE  FlightInv'
<1>1. TypeOK /\ EnergyBounded /\ MovesCounted /\ CutsCounted /\ EmptyAtRest
  BY DEF FlightInv
<1>2. ASSUME NEW i \in S
      PROVE  /\ throw[i][1] \in 0 .. WIDTH /\ throw[i][2] \in Int
             /\ throw[i][3] \in 0 .. MAXVY
  <2>1. throw[i] \in XS \X VXS \X VYS
    BY <1>2
  <2> QED
    BY <2>1, ThrowAssumption
<1>3. /\ S \subseteq Slots
      /\ objectState' = [i \in Slots |-> IF i \in S THEN 1
                                                     ELSE objectState[i]]
      /\ xPosition' = [i \in Slots |-> IF i \in S THEN throw[i][1]
                                                   ELSE xPosition[i]]
      /\ yPosition' = [i \in Slots |-> IF i \in S THEN 0 ELSE yPosition[i]]
      /\ xVelocity' = [i \in Slots |-> IF i \in S THEN throw[i][2]
                                                   ELSE xVelocity[i]]
      /\ yVelocity' = [i \in Slots |-> IF i \in S THEN throw[i][3]
                                                   ELSE yVelocity[i]]
      /\ moves' = [i \in Slots |-> IF i \in S THEN 0 ELSE moves[i]]
      /\ cuts' = [i \in Slots |-> IF i \in S THEN 0 ELSE cuts[i]]
  BY DEF Spawn
<1>4. /\ throws' = throws + Cardinality(S) /\ pc' = "disintegrate"
      /\ UNCHANGED <<score, comboFruit, cursorStreak, cursor>>
  BY DEF Spawn
<1>5. ASSUME NEW i \in Slots
      PROVE  /\ objectState[i] \in 0 .. 4 /\ xPosition[i] \in 0 .. WIDTH
             /\ yPosition[i] \in Nat /\ xVelocity[i] \in Int
             /\ yVelocity[i] \in Int /\ moves[i] \in Nat /\ cuts[i] \in Nat
  BY <1>1 DEF TypeOK
<1>6. TypeOK'
  <2>1. xPosition' \in [Slots -> 0 .. WIDTH]
    BY <1>2, <1>3, <1>5
  <2>2. xVelocity' \in [Slots -> Int]
    BY <1>2, <1>3, <1>5
  <2>3. yVelocity' \in [Slots -> Int]
    BY <1>2, <1>3, <1>5, ThrowAssumption
  <2>4. /\ objectState' \in [Slots -> 0 .. 4]
        /\ yPosition' \in [Slots -> Nat]
        /\ moves' \in [Slots -> Nat] /\ cuts' \in [Slots -> Nat]
    BY <1>3, <1>5
  <2>5. throws' \in Nat
    BY <1>1, <1>3, <1>4, SomeSlots DEF TypeOK
  <2> QED
    BY <1>1, <1>4, <2>1, <2>2, <2>3, <2>4, <2>5 DEF TypeOK
<1>7. EnergyBounded'
  <2> SUFFICES ASSUME NEW i \in Slots PROVE Energy(i)' <= 2 * HEIGHT
    BY DEF EnergyBounded
  <2>1. CASE i \in S
    <3> DEFINE v == throw[i][3]
    <3>1. yPosition'[i] = 0 /\ yVelocity'[i] = v /\ v \in 0 .. MAXVY
      BY <1>2, <1>3, <2>1
    <3> HIDE DEF v
    <3>2. v * (v + 1) <= MAXVY * (MAXVY + 1)
      BY <3>1, ThrowAssumption, Z3T(30)
    <3>3. v * (v + 1) \in Int /\ MAXVY * (MAXVY + 1) \in Int
      BY <3>1, ThrowAssumption
    <3> QED
      BY <3>1, <3>2, <3>3, HeightAssumption, ScreenAssumption DEF Energy
  <2>2. CASE i \notin S
    <3>1. yPosition'[i] = yPosition[i] /\ yVelocity'[i] = yVelocity[i]
      BY <1>3, <2>2
    <3> QED
      BY <1>1, <3>1 DEF EnergyBounded, Energy
  <2> QED
    BY <2>1, <2>2
<1>8. MovesCounted'
  BY <1>1, <1>2, <1>3, ThrowAssumption DEF MovesCounted
<1>9. CutsCounted' /\ EmptyAtRest'
  BY <1>1, <1>3 DEF CutsCounted, EmptyAtRest
<1> QED
  BY <1>4, <1>6, <1>7, <1>8, <1>9 DEF FlightInv, ScoreSentNotNegative

LEMMA DisintegrateFlightInv == ASSUME FlightInv, Disintegrate PROVE FlightInv'
<1> DEFINE gone == {i \in Slots : objectState[i] # 0 /\ Disintegrated(i) = 0}
<1>1. TypeOK /\ EnergyBounded /\ MovesCounted /\ CutsCounted /\ EmptyAtRest
  BY DEF FlightInv
<1>2. /\ objectState' = [i \in Slots |-> Disintegrated(i)]
      /\ xPosition' = [i \in Slots |-> IF i \in gone THEN 0 ELSE xPosition[i]]
      /\ yPosition' = [i \in Slots |-> IF i \in gone THEN 0 ELSE yPosition[i]]
      /\ xVelocity' = [i \in Slots |-> IF i \in gone THEN 0 ELSE xVelocity[i]]
      /\ yVelocity' = [i \in Slots |-> IF i \in gone THEN 0 ELSE yVelocity[i]]
      /\ moves' = [i \in Slots |-> IF i \in gone THEN 0 ELSE moves[i]]
      /\ cuts' = [i \in Slots |-> IF i \in gone THEN 0 ELSE cuts[i]]
  BY DEF Disintegrate, Emptied, Without
<1>3. pc' = "slice" /\ UNCHANGED <<score, comboFruit, cursorStreak, cursor, throws>>
  BY DEF Disintegrate
<1>4. ASSUME NEW i \in Slots
      PROVE  /\ Disintegrated(i) \in 0 .. 4
             /\ Disintegrated(i) = 1 => objectState[i] = 1
             /\ Disintegrated(i) = 0 => i \in gone \/ objectState[i] = 0
             /\ objectState[i] = 0 => Disintegrated(i) = 0
  <2>1. objectState[i] \in 0 .. 4
    BY <1>1 DEF TypeOK
  <2> QED
    BY <2>1 DEF Disintegrated
<1>5. ASSUME NEW i \in Slots
      PROVE  /\ xPosition[i] \in 0 .. WIDTH /\ yPosition[i] \in Nat
             /\ xVelocity[i] \in Int /\ yVelocity[i] \in Int
             /\ moves[i] \in Nat /\ cuts[i] \in Nat
  BY <1>1 DEF TypeOK
<1> HIDE DEF gone
<1>6. TypeOK'
  <2>1. /\ xPosition' \in [Slots -> 0 .. WIDTH] /\ yPosition' \in [Slots -> Nat]
        /\ xVelocity' \in [Slots -> Int] /\ yVelocity' \in [Slots -> Int]
        /\ moves' \in [Slots -> Nat] /\ cuts' \in [Slots -> Nat]
    BY <1>2, <1>5, ScreenAssumption
  <2>2. objectState' \in [Slots -> 0 .. 4]
    BY <1>2, <1>4
  <2> QED
    BY <1>1, <1>3, <2>1, <2>2 DEF TypeOK
<1>7. EnergyBounded'
  <2> SUFFICES ASSUME NEW i \in Slots PROVE Energy(i)' <= 2 * HEIGHT
    BY DEF EnergyBounded
  <2>1. CASE i \in gone
    <3>1. yPosition'[i] = 0 /\ yVelocity'[i] = 0
      BY <1>2, <2>1
    <3> QED
      BY <3>1, ScreenAssumption DEF Energy
  <2>2. CASE i \notin gone
    <3>1. yPosition'[i] = yPosition[i] /\ yVelocity'[i] = yVelocity[i]
      BY <1>2, <2>2
    <3> QED
      BY <1>1, <3>1 DEF EnergyBounded, Energy
  <2> QED
    BY <2>1, <2>2
<1>8. MovesCounted'
  <2> SUFFICES ASSUME NEW i \in Slots, objectState'[i] # 0
               PROVE  moves'[i] + yVelocity'[i] <= MAXVY
    BY DEF MovesCounted
  <2>1. objectState[i] # 0 /\ i \notin gone
    BY <1>2, <1>4 DEF gone
  <2> QED
    BY <1>1, <1>2, <2>1 DEF MovesCounted
<1>9. CutsCounted'
  BY <1>1, <1>2, <1>4 DEF CutsCounted
<1>10. EmptyAtRest'
  BY <1>1, <1>2, <1>4 DEF EmptyAtRest
<1> QED
  BY <1>3, <1>6, <1>7, <1>8, <1>9, <1>10 DEF FlightInv, ScoreSentNotNegative

LEMMA SliceFlightInv == ASSUME FlightInv, Slice PROVE FlightInv'
<1> DEFINE cut == {i \in Slots : Cuttable(i)}
           n == Cardinality(cut \ {Bomb})
<1>1. TypeOK /\ EnergyBounded /\ MovesCounted /\ CutsCounted /\ EmptyAtRest
  BY DEF FlightInv
<1>2. /\ objectState' = [i \in Slots |-> IF i \in cut THEN 2
                                                       ELSE objectState[i]]
      /\ cuts' = [i \in Slots |-> IF i \in cut THEN cuts[i] + 1 ELSE cuts[i]]
      /\ score' = score + Reward(n) - (IF Bomb \in cut THEN 15 ELSE 0)
      /\ comboFruit' = IF Bomb \in cut THEN 0 ELSE comboFruit + n
      /\ pc' = "unpack"
      /\ UNCHANGED <<xPosition, yPosition, xVelocity, yVelocity,
                     cursorStreak, cursor, throws, moves>>
  BY DEF Slice
<1>3. n \in Nat
  BY SomeSlots
<1>4. \A i \in cut : objectState[i] = 1
  BY DEF Cuttable
<1> HIDE DEF cut, n
<1>5. TypeOK'
  <2>1. objectState' \in [Slots -> 0 .. 4] /\ cuts' \in [Slots -> Nat]
    BY <1>1, <1>2 DEF TypeOK
  <2>2. comboFruit' \in Nat
    BY <1>1, <1>2, <1>3 DEF TypeOK
  <2>3. Reward(n) \in Int
    BY <1>1, <1>3 DEF TypeOK, Reward
  <2>4. score' \in Int
    BY <1>1, <1>2, <2>3 DEF TypeOK
  <2> QED
    BY <1>1, <1>2, <2>1, <2>2, <2>4 DEF TypeOK
<1>6. EnergyBounded'
  BY <1>1, <1>2 DEF EnergyBounded, Energy
<1>7. MovesCounted' /\ EmptyAtRest'
  BY <1>1, <1>2, <1>4 DEF MovesCounted, EmptyAtRest
<1>8. CutsCounted'
  BY <1>1, <1>2, <1>4 DEF CutsCounted, TypeOK
<1> QED
  BY <1>2, <1>5, <1>6, <1>7, <1>8 DEF FlightInv, ScoreSentNotNegative

\* The score is clamped before it is sent, and not touched in between.
LEMMA UnpackFlightInv ==
  ASSUME FlightInv, NEW s \in {0, 1}, NEW c \in Cursors, Unpack(s, c)
  PROVE  FlightInv'
BY DEF FlightInv, Unpack, Clamp, TypeOK, EnergyBounded, Energy, MovesCounted,
   CutsCounted, EmptyAtRest, ScoreSentNotNegative, objects

LEMMA IdleFlightInv ==
  ASSUME FlightInv,
         Send \/ NoPhysics \/ NoSpawn \/ NoDisintegrate \/ UNCHANGED flightVars
  PROVE  FlightInv'
BY DEF FlightInv, Send, NoPhysics, NoSpawn, NoDisintegrate, Skip, flightVars,
   TypeOK, EnergyBounded, Energy, MovesCounted, CutsCounted, EmptyAtRest,
   ScoreSentNotNegative, objects

-----------------------------------------------------------------------------
(* The theorems.                                                           *)

\* FlightInv is an invariant of the objects of a round.
THEOREM FlightInvariant == FlightSpec => []FlightInv
<1>1. FlightInit => FlightInv
  BY FlightAtStart
<1>2. FlightInv /\ [FlightNext]_flightVars => FlightInv'
  <2> SUFFICES ASSUME FlightInv, [FlightNext]_flightVars PROVE FlightInv'
    OBVIOUS
  <2>1. CASE Physics
    BY <2>1, PhysicsFlightInv
  <2>2. CASE \E S \in Batches : \E throw \in [S -> XS \X VXS \X VYS] :
               Spawn(S, throw)
    BY <2>2, SpawnFlightInv
  <2>3. CASE Disintegrate
    BY <2>3, DisintegrateFlightInv
  <2>4. CASE Slice
    BY <2>4, SliceFlightInv
  <2>5. CASE \E s \in {0, 1}, c \in Cursors : Unpack(s, c)
    BY <2>5, UnpackFlightInv
  <2>6. CASE Send \/ NoPhysics \/ NoSpawn \/ NoDisintegrate \/ UNCHANGED flightVars
    BY <2>6, IdleFlightInv
  <2> QED
    BY <2>1, <2>2, <2>3, <2>4, <2>5, <2>6 DEF FlightNext
<1> QED
  BY <1>1, <1>2, PTL DEF FlightSpec

\* Every variable keeps its range; in particular every object is on the
\* screen or gone.
THEOREM FlightTypes == FlightSpec => []TypeOK
BY FlightInvariant, PTL DEF FlightInv

\* A frame never carries a score below zero.
THEOREM ScoreSentNotNegativeHolds == FlightSpec => []ScoreSentNotNegative
BY FlightInvariant, PTL DEF FlightInv

\* An empty slot is at rest in the corner.
THEOREM EmptyAtRestHolds == FlightSpec => []EmptyAtRest
BY FlightInvariant, PTL DEF FlightInv

\* No object earns or costs its points twice.
THEOREM CutOnceHolds == FlightSpec => []CutOnce
<1>1. FlightInv => CutOnce
  BY DEF FlightInv, CutsCounted, CutOnce
<1> QED
  BY <1>1, FlightInvariant, PTL

\* No object is ever above the screen.
THEOREM BelowTheTopHolds == FlightSpec => []BelowTheTop
<1>1. FlightInv => BelowTheTop
  <2> SUFFICES ASSUME FlightInv, NEW i \in Slots PROVE yPosition[i] <= HEIGHT
    BY DEF BelowTheTop
  <2>1. yPosition[i] \in Nat /\ yVelocity[i] \in Int
    BY DEF FlightInv, TypeOK
  <2>2. yVelocity[i] * (yVelocity[i] + 1) >= 0
        /\ yVelocity[i] * (yVelocity[i] + 1) \in Int
    BY <2>1, SpeedFacts
  <2>3. 2 * yPosition[i] + yVelocity[i] * (yVelocity[i] + 1) <= 2 * HEIGHT
    BY DEF FlightInv, EnergyBounded, Energy
  <2> QED
    BY <2>1, <2>2, <2>3, ScreenAssumption
<1> QED
  BY <1>1, FlightInvariant, PTL

\* Every flight ends within MAXVY + FALL moves.
THEOREM FlightEndsHolds == FlightSpec => []FlightEnds
<1>1. FlightInv => FlightEnds
  <2> SUFFICES ASSUME FlightInv, NEW i \in Slots, objectState[i] # 0
               PROVE  moves[i] <= MAXVY + FALL
    BY DEF FlightEnds
  <2>1. yPosition[i] \in Nat /\ yVelocity[i] \in Int /\ moves[i] \in Nat
    BY DEF FlightInv, TypeOK
  <2>2. moves[i] + yVelocity[i] <= MAXVY
    BY DEF FlightInv, MovesCounted
  <2>3. 2 * yPosition[i] + yVelocity[i] * (yVelocity[i] + 1) <= 2 * HEIGHT
    BY DEF FlightInv, EnergyBounded, Energy
  <2>4. yVelocity[i] >= -FALL
    <3>1. SUFFICES ASSUME yVelocity[i] < -FALL PROVE FALSE
      BY <2>1, HeightAssumption
    <3>2. yVelocity[i] * (yVelocity[i] + 1) > 2 * HEIGHT
          /\ yVelocity[i] * (yVelocity[i] + 1) \in Int
      BY <2>1, <3>1, SpeedFacts
    <3> QED
      BY <2>1, <2>3, <3>2, ScreenAssumption
  <2> QED
    BY <2>1, <2>2, <2>4, HeightAssumption, ThrowAssumption
<1> QED
  BY <1>1, FlightInvariant, PTL

\* Nothing is cut while the lower edge of its hitbox is below the floor.
THEOREM CutFromHeightHolds == FlightSpec => CutFromHeight
<1> DEFINE A == \A i \in Slots :
                  objectState[i] = 1 /\ objectState'[i] = 2 =>
                    yPosition[i] >= BELOW
<1>1. FlightInv /\ [FlightNext]_flightVars => [A]_flightVars
  <2> SUFFICES ASSUME FlightInv, FlightNext, NEW i \in Slots,
                      objectState[i] = 1, objectState'[i] = 2
               PROVE  yPosition[i] >= BELOW
    OBVIOUS
  <2>1. TypeOK
    BY DEF FlightInv
  <2>2. CASE Slice
    <3>1. Hit(i)
      BY <2>2 DEF Slice, Cuttable
    <3> QED
      BY <2>1, <3>1, HitFromHeight
  <2>3. CASE ~Slice
    <3>1. objectState'[i] \in {0, 1, 3, 4}
      BY <2>3 DEF FlightNext, Physics, Spawn, Disintegrate, Disintegrated, Unpack,
         Send, NoPhysics, NoSpawn, NoDisintegrate, Skip, objects
    <3> QED
      BY <3>1
  <2> QED
    BY <2>2, <2>3
<1> QED
  BY <1>1, FlightInvariant, PTL DEF FlightSpec, CutFromHeight

-----------------------------------------------------------------------------
(* The display.  The invariant is that the registers hold what belongs to  *)
(* the pixels one and two to the left.  Nothing in it depends on which     *)
(* layer is topmost; that every layer reads its own part of the memory is  *)
(* a fact about the tables, proved apart.                                  *)

(* The tables.                                                             *)

Room(i, s) == IF i = 9 /\ s = 4 THEN 110912 ELSE 110656

\* The words of a sprite, from the first of the sprites on: all before the
\* texts, but for the last picture of the explosion.
LEMMA SpriteRoom ==
  ASSUME NEW i \in Objects, NEW s \in 0 .. 7
  PROVE  /\ SpriteOffset(i, s) \in Nat /\ SpriteHeight(i, s) \in Nat
         /\ SpriteOffset(i, s) + 64 * SpriteHeight(i, s) <= Room(i, s)
<1>1. CASE i = 9
  BY <1>1 DEF SpriteOffset, SpriteHeight, BombOffset, BombHeight, Room
<1>2. CASE i # 9
  <2>1. i = 1 \/ i = 2 \/ i = 3 \/ i = 4 \/ i = 5 \/ i = 6 \/ i = 7 \/ i = 8
    BY <1>2 DEF Objects
  <2>2. SpriteHeight(i, s) = Heights[i]
    BY <1>2 DEF SpriteHeight
  <2>3. CASE s = 2
    <3>1. SpriteOffset(i, s) = CutOffsets[i]
      BY <1>2, <2>3 DEF SpriteOffset
    <3> QED BY <1>2, <2>1, <2>2, <3>1 DEF Heights, CutOffsets, Room
  <2>4. CASE s = 3
    <3>1. SpriteOffset(i, s) = CrumbledOffsets[i]
      BY <1>2, <2>4 DEF SpriteOffset
    <3> QED BY <1>2, <2>1, <2>2, <3>1 DEF Heights, CrumbledOffsets, Room
  <2>5. CASE s \notin {2, 3}
    <3>1. SpriteOffset(i, s) = WholeOffsets[i]
      BY <1>2, <2>5 DEF SpriteOffset
    <3> QED BY <1>2, <2>1, <2>2, <3>1 DEF Heights, WholeOffsets, Room
  <2> QED BY <2>3, <2>4, <2>5
<1> QED BY <1>1, <1>2

\* The layers of a screen are layers, and 'Continue' is one of two screens.
LEMMA OrderLayers ==
  ASSUME NEW screen \in 0 .. 7, NEW k \in 1 .. Len(Order(screen))
  PROVE  /\ Order(screen)[k] \in 1 .. 17
         /\ Order(screen)[k] = Continue => screen \in {4, 5}
<1> USE DEF Veggie, Viking, Farmer, VikingLevel, Thor, Yay, Aww, Continue
<1>1. CASE screen = 0
  <2>1. Order(screen) = <<10, 11, 12, 13, 14, 1, 2, 3>>
    BY <1>1 DEF Order
  <2> QED BY <2>1
<1>2. CASE screen = 4
  <2>1. Order(screen) = <<10, 11, 15, 17, 9, 4>>
    BY <1>2 DEF Order
  <2> QED BY <2>1, <1>2
<1>3. CASE screen = 5
  <2>1. Order(screen) = <<10, 11, 4, 9, 16, 17>>
    BY <1>3 DEF Order
  <2> QED BY <2>1, <1>3
<1>4. CASE screen \notin {0, 4, 5}
  <2>1. Order(screen) = <<1, 2, 3, 4, 5, 6, 7, 8, 9>>
    BY <1>4 DEF Order
  <2> QED BY <2>1
<1> QED BY <1>1, <1>2, <1>3, <1>4

\* What is topmost covers the pixel.
LEMMA TopmostCovers ==
  ASSUME NEW f \in Frames, NEW l \in Layers \ {Background}, NEW x, NEW y,
         Topmost(f, l, x, y)
  PROVE  /\ Covers(f, l, x, y)
         /\ l = Continue => f.screen \in {4, 5}
<1>1. PICK k \in 1 .. Len(Order(f.screen)) :
        l = Order(f.screen)[k] /\ Covers(f, l, x, y)
  BY DEF Topmost
<1>2. f.screen \in 0 .. 7
  BY FrameAssumption
<1> QED BY <1>1, <1>2, OrderLayers

-----------------------------------------------------------------------------
(* Addresses.                                                              *)

LEMMA CoordinatesNat == \A c \in Coordinates : c \in Nat
BY DEF Coordinates

LEMMA ObjectReadsOwnPart ==
  ASSUME NEW f \in Frames, NEW l \in Objects, NEW x \in Nat, NEW y \in Nat,
         Covers(f, l, x, y)
  PROVE  ReadsOwnPart(f, l, x, y) /\ Address(f, l, x, y) \in Int
<1> DEFINE s == f.state[l]
           h == SpriteHeight(l, s)
           o == SpriteOffset(l, s)
<1>1. s \in 0 .. 7 /\ f.x[l] \in Nat /\ f.y[l] \in Nat
  <2>1. f.state[l] \in 0 .. 7 /\ f.x[l] \in Coordinates /\ f.y[l] \in Coordinates
    BY FrameAssumption
  <2> QED BY <2>1, CoordinatesNat, Zenon
<1> HIDE DEF s
<1>2. o \in Nat /\ h \in Nat /\ o + 64 * h <= Room(l, s)
  BY <1>1, SpriteRoom, Zenon
<1>3. /\ f.x[l] <= x /\ x < f.x[l] + 64
      /\ f.y[l] <= y /\ y < f.y[l] + h
  BY DEF Covers, Box, Sprite, s
<1>4. Address(f, l, x, y) = 307200 + o + (x - f.x[l]) + (y - f.y[l]) * 64
  BY DEF Address, Box, Sprite, spriteOffset, Objects, Background, s
<1> DEFINE a == Address(f, l, x, y)
<1> HIDE DEF h, o
<1>5. a >= 307200 /\ a < 307200 + o + 64 * h
  BY <1>1, <1>2, <1>3, <1>4
<1> HIDE DEF a
<1>6. a \in Int
  BY <1>1, <1>2, <1>4 DEF a
<1>7. InSprites(a) \/ (l = 9 /\ s = 4 /\ IntoTexts(a))
  BY <1>2, <1>5, <1>6 DEF Room, InSprites, IntoTexts, spriteOffset, textOffset
<1>8. l # Background /\ l \notin Veggie .. Continue
  BY DEF Objects, Background, Veggie, Continue
<1> QED BY <1>6, <1>7, <1>8, Zenon DEF ReadsOwnPart, a, s

LEMMA TextReadsOwnPart ==
  ASSUME NEW f \in Frames, NEW l \in Veggie .. Continue, NEW x \in Nat, NEW y \in Nat,
         Covers(f, l, x, y), l = Continue => f.screen \in {4, 5}
  PROVE  ReadsOwnPart(f, l, x, y) /\ Address(f, l, x, y) \in Int
<1> DEFINE a == Address(f, l, x, y)
<1>1. l \notin Objects /\ l # Background
  BY DEF Veggie, Continue, Objects, Background
<1>2. Box(f, l) = Text(l)
  BY <1>1 DEF Box
<1>3. a = Text(l).start + (x - Text(l).left) + (y - Text(l).top) * Text(l).width
  BY <1>1, <1>2 DEF Address
<1>4. /\ Text(l).left <= x /\ x < Text(l).left + Text(l).width
      /\ Text(l).top <= y /\ y < Text(l).top + Text(l).height
  BY <1>2 DEF Covers
<1> HIDE DEF a
<1>5. ASSUME NEW left \in Nat, NEW top \in Nat, NEW height \in Nat, NEW offset \in Nat,
             Text(l) = Line(left, top, height, offset)
      PROVE  /\ a \in Int /\ a >= 417856 + offset
             /\ a < 417856 + offset + 114 * height
             /\ y < top + 14 => a < 417856 + offset + 114 * 14
  BY <1>3, <1>4, <1>5 DEF Line, textOffset
<1>6. CASE l # Continue
  <2>1. a \in Int /\ a >= 417856 /\ a < 434044
    <3> USE DEF Veggie, Viking, Farmer, VikingLevel, Thor, Yay, Aww, Continue
    <3>1. CASE l = Veggie
      <4>1. Text(l) = Line(10, 10, 27, 0) BY <3>1 DEF Text
      <4> QED BY <4>1, <1>5
    <3>2. CASE l = Viking
      <4>1. Text(l) = Line(85, 39, 28, 3192) BY <3>2 DEF Text
      <4> QED BY <4>1, <1>5
    <3>3. CASE l = Farmer
      <4>1. Text(l) = Line(114, 400, 13, 9918) BY <3>3 DEF Text
      <4> QED BY <4>1, <1>5
    <3>4. CASE l = VikingLevel
      <4>1. Text(l) = Line(200, 230, 15, 11400) BY <3>4 DEF Text
      <4> QED BY <4>1, <1>5
    <3>5. CASE l = Thor
      <4>1. Text(l) = Line(460, 230, 15, 13110) BY <3>5 DEF Text
      <4> QED BY <4>1, <1>5
    <3>6. CASE l = Yay
      <4>1. Text(l) = Line(350, 240, 18, 6270) BY <3>6 DEF Text
      <4> QED BY <4>1, <1>5
    <3>7. CASE l = Aww
      <4>1. Text(l) = Line(350, 240, 17, 8322) BY <3>7 DEF Text
      <4> QED BY <4>1, <1>5
    <3> QED BY <1>6, <3>1, <3>2, <3>3, <3>4, <3>5, <3>6, <3>7
  <2>2. InTexts(a) /\ a \in Int
    BY <2>1, SMT DEF InTexts, textOffset, numwords
  <2> QED BY <1>1, <2>2, Zenon DEF ReadsOwnPart, a
<1>7. CASE l = Continue
  <2>1. Text(l) = Line(300, 340, 27, 14592)
    BY <1>7 DEF Text, Veggie, Viking, Farmer, VikingLevel, Thor, Yay, Aww, Continue
  <2>2. /\ a \in Int /\ a >= 417856 + 14592
        /\ a < 417856 + 14592 + 114 * 27
        /\ y < 340 + 14 => a < 417856 + 14592 + 114 * 14
    BY <2>1, <1>5
  <2>3. a \in Int /\ (InTexts(a) \/ (y >= 340 + 14 /\ BeyondContinue(a)))
    BY <2>2, SMT DEF InTexts, BeyondContinue, textOffset, numwords
  <2> QED BY <1>1, <1>7, <2>3, Zenon DEF ReadsOwnPart, a
<1> QED BY <1>6, <1>7

\* Any layer, anywhere in the picture.
LEMMA EachReadsOwnPart ==
  ASSUME NEW f \in Frames, NEW l \in Layers, NEW x \in Nat, NEW y \in Nat,
         InPicture(x, y), Topmost(f, l, x, y)
  PROVE  ReadsOwnPart(f, l, x, y) /\ Address(f, l, x, y) \in Int
<1>1. CASE l = Background
  <2>1. Address(f, l, x, y) = BackgroundAddress(x, y)
    BY <1>1 DEF Address
  <2>2. BackgroundAddress(x, y) \in Int /\ BackgroundAddress(x, y) >= 0 /\ BackgroundAddress(x, y) < 307200
    BY DEF BackgroundAddress, ScreenX, InPicture
  <2>3. InBackground(Address(f, l, x, y)) /\ Address(f, l, x, y) \in Int
    BY <2>1, <2>2, SMT DEF InBackground, spriteOffset
  <2>4. l \notin Objects /\ l \notin Veggie .. Continue
    BY <1>1 DEF Background, Objects, Veggie, Continue
  <2> QED BY <2>3, <2>4, Zenon DEF ReadsOwnPart
<1>2. CASE l \in Objects
  <2>1. l \in Layers \ {Background}
    BY <1>2 DEF Objects, Background
  <2> QED BY <1>2, <2>1, TopmostCovers, ObjectReadsOwnPart
<1>3. CASE l \in Veggie .. Continue
  <2>1. l \in Layers \ {Background}
    BY <1>3 DEF Veggie, Continue, Background
  <2> QED BY <1>3, <2>1, TopmostCovers, TextReadsOwnPart
<1> QED BY <1>1, <1>2, <1>3 DEF Layers, Background, Objects, Veggie, Continue

\* So an address tells the background from the pictures.
LEMMA PicturesAboveBackground ==
  ASSUME NEW f \in Frames, NEW l \in Layers, NEW x \in Nat, NEW y \in Nat,
         InPicture(x, y), Topmost(f, l, x, y)
  PROVE  l = Background <=> Address(f, l, x, y) < spriteOffset
<1>1. ReadsOwnPart(f, l, x, y) /\ Address(f, l, x, y) \in Int
  BY EachReadsOwnPart
<1> DEFINE a == Address(f, l, x, y)
<1>2. CASE l = Background
  <2>1. InBackground(a)
    BY <1>1, <1>2, Zenon DEF ReadsOwnPart
  <2> QED BY <1>2, <2>1, Zenon DEF InBackground
<1>3. CASE l \in Objects
  <2>1. a \in Int /\ (InSprites(a) \/ IntoTexts(a))
    BY <1>1, <1>3, Zenon DEF ReadsOwnPart
  <2> HIDE DEF a
  <2>2. ~ (a < spriteOffset)
    BY <2>1, SMT DEF InSprites, IntoTexts, spriteOffset, textOffset
  <2>3. l # Background
    BY <1>3 DEF Objects, Background
  <2> QED BY <2>2, <2>3, Zenon DEF a
<1>4. CASE l \in Veggie .. Continue
  <2>1. a \in Int /\ (InTexts(a) \/ BeyondContinue(a))
    BY <1>1, <1>4, Zenon DEF ReadsOwnPart
  <2> HIDE DEF a
  <2>2. ~ (a < spriteOffset)
    BY <2>1, SMT DEF InTexts, BeyondContinue, spriteOffset, textOffset, numwords
  <2>3. l # Background
    BY <1>4 DEF Veggie, Continue, Background
  <2> QED BY <2>2, <2>3, Zenon DEF a
<1> QED BY <1>2, <1>3, <1>4 DEF Layers, Background, Objects, Veggie, Continue

\* Where the background is topmost there is no picture.
LEMMA BackgroundAlone ==
  ASSUME NEW f \in Frames, NEW x, NEW y, Topmost(f, Background, x, y)
  PROVE  ~ Pictured(f, x, y)
<1> SUFFICES ASSUME NEW l \in Layers \ {Background}, Topmost(f, l, x, y)
             PROVE  FALSE
  BY Zenon DEF Pictured
<1>1. f.screen \in 0 .. 7
  BY FrameAssumption
<1>2. PICK k \in 1 .. Len(Order(f.screen)) :
        l = Order(f.screen)[k] /\ Covers(f, l, x, y)
  BY DEF Topmost
<1>3. \A j \in 1 .. Len(Order(f.screen)) : Order(f.screen)[j] # Background
  <2>1. \A j \in 1 .. Len(Order(f.screen)) : Order(f.screen)[j] \in 1 .. 17
    BY <1>1, OrderLayers
  <2>2. \A n \in 1 .. 17 : n # Background
    BY DEF Background
  <2> QED BY <2>1, <2>2, Zenon
<1>4. \A j \in 1 .. Len(Order(f.screen)) : ~ Covers(f, Order(f.screen)[j], x, y)
  BY <1>3, Zenon DEF Topmost
<1> QED BY <1>2, <1>4

-----------------------------------------------------------------------------
(* The invariant is inductive.                                             *)

\* A line after a line, and the beam in numbers.
LEMMA BeamInts ==
  ASSUME BeamTypeOK
  PROVE  hc \in Nat /\ hc <= 799 /\ vc \in Nat /\ vc <= 524
BY DEF BeamTypeOK, hpixels, vlines

LEMMA CountKeepsBeam ==
  ASSUME BeamTypeOK, Count
  PROVE  BeamTypeOK' /\ SyncOutsidePicture'
<1>1. hc \in Nat /\ hc <= 799 /\ vc \in Nat /\ vc <= 524
  BY BeamInts
<1>2. /\ hc' = IF hc = 799 THEN 0 ELSE hc + 1
      /\ vc' = IF hc = 799 THEN IF vc = 524 THEN 0 ELSE vc + 1 ELSE vc
      /\ hs' = IF hc + 1 >= 656 /\ hc + 1 < 752 THEN 0 ELSE 1
      /\ vs' = IF vc + 1 = 490 \/ vc + 1 = 491 THEN 0 ELSE 1
  BY DEF Count, NextLine, LineSync, FrameSync, hpixels, vlines
<1>3. hc' \in Nat /\ hc' <= 799 /\ vc' \in Nat /\ vc' <= 524
  BY <1>1, <1>2
<1>4. hs' = 0 <=> hc' >= 656 /\ hc' < 752
  BY <1>1, <1>2
<1>5. vs' = 0 <=> \/ hc' > 0 /\ (vc' = 489 \/ vc' = 490)
                  \/ hc' = 0 /\ (vc' = 490 \/ vc' = 491)
  BY <1>1, <1>2
<1>6. BeamTypeOK'
  BY <1>2, <1>3 DEF BeamTypeOK, hpixels, vlines
<1>7. SyncOutsidePicture'
  BY <1>4, <1>5, Zenon DEF SyncOutsidePicture
<1> QED BY <1>6, <1>7

LEMMA InitInv == Init => DisplayInv
<1> SUFFICES ASSUME Init PROVE DisplayInv
  OBVIOUS
<1>1. vc \in Lines /\ vc \in 0 .. vlines
  BY LineAssumption, Zenon DEF Init
<1>2. hc = 0 /\ hs = 1 /\ vs = IF vc \in {490, 491} THEN 0 ELSE 1
  BY DEF Init
<1>3. BeamTypeOK
  BY <1>1, <1>2 DEF BeamTypeOK, hpixels
<1>4. SyncOutsidePicture
  BY <1>2 DEF SyncOutsidePicture
<1>5. ~ Ago(1) /\ ~ Ago(2)
  BY <1>2 DEF Ago
<1>6. Addressed /\ Fetched
  BY <1>5 DEF Init, Addressed, Fetched
<1>7. frame \in Frames /\ palette \in 0 .. 1 /\ steady \in 0 .. 2
  BY DEF Init
<1> QED BY <1>1, <1>3, <1>4, <1>6, <1>7 DEF DisplayInv

LEMMA PixelClockInv == DisplayInv /\ PixelClock => DisplayInv'
<1> SUFFICES ASSUME DisplayInv, PixelClock PROVE DisplayInv'
  OBVIOUS
<1>1. BeamTypeOK' /\ SyncOutsidePicture'
  BY CountKeepsBeam DEF DisplayInv, PixelClock
<1>2. hc \in Nat /\ hc <= 799 /\ vc \in Nat
  BY BeamInts DEF DisplayInv
<1>3. vc' \in Lines \cup {0}
  BY DEF DisplayInv, PixelClock, Count
<1>4. frame' = frame
  BY DEF PixelClock
<1>5. palette' \in 0 .. 1
  <2>1. CASE Draw
    BY <2>1 DEF Draw, Reads
  <2>2. CASE Blank
    BY <2>2 DEF Blank, DisplayInv
  <2> QED BY <2>1, <2>2 DEF PixelClock
<1>6. steady' \in 0 .. 2
  BY DEF PixelClock, DisplayInv
<1>7. CASE hc = hpixels
  <2>1. hc = 799 /\ hc' = 0
    BY <1>7 DEF PixelClock, Count, hpixels
  <2>2. ~ Ago(1)' /\ ~ Ago(2)'
    BY <2>1 DEF Ago
  <2>3. ~ Display /\ ~ Ago(1)
    BY <2>1 DEF Display, Ago, InPicture
  <2>4. frame_rdAddress' = 0 /\ bgFrame_rdAddress' = 0
    BY <2>3 DEF PixelClock, Draw, Blank
  <2>5. Addressed'
    BY <2>2, <2>4 DEF Addressed
  <2>6. ASSUME steady >= 1 PROVE Fetched'
    <3>1. frame_rdAddress = 0 /\ bgFrame_rdAddress = 0
      BY <2>3, <2>6 DEF DisplayInv, Addressed
    <3> QED BY <2>2, <3>1 DEF Fetched, PixelClock, Fetch
  <2>7. steady' = 2 => steady >= 1
    BY DEF PixelClock, DisplayInv
  <2> QED BY <1>1, <1>3, <1>4, <1>5, <1>6, <2>5, <2>6, <2>7 DEF DisplayInv
<1>8. CASE hc # hpixels
  <2>1. hc' = hc + 1 /\ vc' = vc
    BY <1>8 DEF PixelClock, Count
  <2>2. /\ hc' - 1 = hc /\ hc' - 2 = hc - 1
        /\ hc' >= 1 /\ (hc' >= 2 <=> hc >= 1)
    BY <1>2, <2>1
  <2>3. Ago(1)' <=> Display
    BY <2>1, <2>2 DEF Ago, Display
  <2>4. Ago(2)' <=> Ago(1)
    BY <2>1, <2>2 DEF Ago
  <2>5. Addressed'
    <3>1. CASE Draw
      BY <1>4, <2>1, <2>2, <2>3, <3>1 DEF Draw, Addressed
    <3>2. CASE Blank
      BY <2>3, <3>2 DEF Blank, Addressed
    <3> QED BY <3>1, <3>2 DEF PixelClock
  <2>6. ASSUME steady >= 1 PROVE Fetched'
    <3>1. Addressed
      BY <2>6 DEF DisplayInv
    <3>2. frame_output' = frame_rdAddress /\ bgFrame_output' = bgFrame_rdAddress
      BY DEF PixelClock, Fetch
    <3>3. CASE Ago(1)
      <4>1. palette \in 0 .. 1
        BY DEF DisplayInv
      <4>2. /\ Reads(frame, hc - 1, vc, frame_rdAddress, palette)
            /\ bgFrame_rdAddress = BackgroundAddress(hc - 1, vc)
        BY <3>1, <3>3 DEF Addressed
      <4>3. \E table \in 0 .. 1 : Reads(frame', hc' - 2, vc', frame_output', table)
        BY <1>4, <2>1, <2>2, <3>2, <4>1, <4>2
      <4>4. bgFrame_output' = BackgroundAddress(hc' - 2, vc')
        BY <2>1, <2>2, <3>2, <4>2
      <4> QED BY <2>4, <3>3, <4>3, <4>4 DEF Fetched
    <3>4. CASE ~ Ago(1)
      BY <2>4, <3>1, <3>2, <3>4 DEF Addressed, Fetched
    <3> QED BY <3>3, <3>4
  <2>7. steady' = 2 => steady >= 1
    BY DEF PixelClock, DisplayInv
  <2> QED BY <1>1, <1>3, <1>4, <1>5, <1>6, <2>5, <2>6, <2>7 DEF DisplayInv
<1> QED BY <1>7, <1>8

\* The facts about the beam are kept with it.
LEMMA SameBeam ==
  ASSUME BeamTypeOK, SyncOutsidePicture, UNCHANGED <<hc, vc, hs, vs>>
  PROVE  BeamTypeOK' /\ SyncOutsidePicture'
<1>1. hc' = hc /\ vc' = vc /\ hs' = hs /\ vs' = vs
  OBVIOUS
<1>2. BeamTypeOK'
  BY <1>1 DEF BeamTypeOK, hpixels, vlines
<1>3. SyncOutsidePicture'
  BY <1>1 DEF SyncOutsidePicture
<1> QED BY <1>2, <1>3

LEMMA LatchInv == DisplayInv /\ Latch => DisplayInv'
<1> SUFFICES ASSUME DisplayInv, Latch PROVE DisplayInv'
  OBVIOUS
<1>1. hc' = hc /\ vc' = vc /\ hs' = hs /\ vs' = vs
  BY DEF Latch, beam
<1>2. BeamTypeOK' /\ SyncOutsidePicture' /\ vc' \in Lines \cup {0}
  BY <1>1, SameBeam DEF DisplayInv
<1>3. frame' \in Frames /\ palette' \in 0 .. 1 /\ steady' = 0
  BY DEF Latch, DisplayInv
<1> QED BY <1>2, <1>3 DEF DisplayInv

LEMMA ResetInv == DisplayInv /\ Reset => DisplayInv'
<1> SUFFICES ASSUME DisplayInv, Reset PROVE DisplayInv'
  OBVIOUS
<1>1. hc' = 0 /\ vc' = 0 /\ hs' = 0 /\ vs' = 0
  BY DEF Reset, ResetBeam
<1>2. BeamTypeOK' /\ SyncOutsidePicture' /\ vc' \in Lines \cup {0}
  BY <1>1 DEF BeamTypeOK, SyncOutsidePicture, hpixels, vlines
<1>3. frame' \in Frames /\ palette' \in 0 .. 1 /\ steady' = 0
  BY DEF Reset, DisplayInv
<1> QED BY <1>2, <1>3 DEF DisplayInv

LEMMA StutterInv == DisplayInv /\ UNCHANGED vars => DisplayInv'
<1> SUFFICES ASSUME DisplayInv, UNCHANGED vars PROVE DisplayInv'
  OBVIOUS
<1>1. /\ hc' = hc /\ vc' = vc /\ hs' = hs /\ vs' = vs
      /\ frame' = frame /\ palette' = palette /\ steady' = steady
      /\ frame_rdAddress' = frame_rdAddress /\ bgFrame_rdAddress' = bgFrame_rdAddress
      /\ frame_output' = frame_output /\ bgFrame_output' = bgFrame_output
  BY DEF vars
<1>2. BeamTypeOK' /\ SyncOutsidePicture'
  BY <1>1, SameBeam DEF DisplayInv
<1>3. (Ago(1)' <=> Ago(1)) /\ (Ago(2)' <=> Ago(2))
  BY <1>1 DEF Ago
<1>4. (Addressed => Addressed') /\ (Fetched => Fetched')
  BY <1>1, <1>3 DEF Addressed, Fetched
<1> QED BY <1>1, <1>2, <1>4 DEF DisplayInv

LEMMA NextInv == DisplayInv /\ [Next]_vars => DisplayInv'
<1>1. DisplayInv /\ OutOfSight => DisplayInv'
  BY StutterInv DEF OutOfSight
<1> QED BY <1>1, PixelClockInv, LatchInv, ResetInv, StutterInv, Zenon DEF Next

-----------------------------------------------------------------------------
(* Theorems.                                                               *)

\* Registers and words belong to the pixels one and two to the left whenever
\* the latches have been quiet that long, for any frames and lines; the pulses
\* are outside the picture.
THEOREM DisplayInvariant == Spec => []DisplayInv
<1>1. Init => DisplayInv
  BY InitInv
<1>2. DisplayInv /\ [Next]_vars => DisplayInv'
  BY NextInv
<1> QED BY <1>1, <1>2, PTL DEF Spec

LEMMA InvTwoLate == DisplayInv => PictureTwoLate
<1> SUFFICES ASSUME DisplayInv, Display, steady = 2, Pixel.table # "cursor"
             PROVE  IF hc < 2 THEN Pixel.word = 0
                    ELSE CASE Pixel.table = "background" ->
                                Pixel.word = BackgroundAddress(hc - 2, vc)
                           [] Pixel.table = "pictures" ->
                                \E l \in Layers :
                                  /\ Topmost(frame, l, hc - 2, vc)
                                  /\ Pixel.word = Address(frame, l, hc - 2, vc)
  BY DEF PictureTwoLate
<1>1. Fetched /\ hc \in Nat
  BY BeamInts DEF DisplayInv
<1>2. \/ Pixel.table = "background" /\ Pixel.word = bgFrame_output
      \/ Pixel.table = "pictures" /\ Pixel.word = frame_output
  BY DEF Pixel
<1>3. CASE hc < 2
  <2>1. ~ Ago(2)
    BY <1>1, <1>3 DEF Ago
  <2> QED BY <1>1, <1>2, <1>3, <2>1 DEF Fetched
<1>4. CASE ~ (hc < 2)
  <2>1. Ago(2)
    BY <1>1, <1>4 DEF Ago, Display, InPicture
  <2>2. /\ \E l \in Layers : /\ Topmost(frame, l, hc - 2, vc)
                             /\ frame_output = Address(frame, l, hc - 2, vc)
        /\ bgFrame_output = BackgroundAddress(hc - 2, vc)
    BY <1>1, <2>1, Zenon DEF Fetched, Reads
  <2>3. CASE Pixel.table = "background"
    BY <1>2, <1>4, <2>2, <2>3
  <2>4. CASE Pixel.table = "pictures"
    BY <1>2, <1>4, <2>2, <2>4
  <2> QED BY <1>2, <2>3, <2>4
<1> QED BY <1>3, <1>4

\* What a pixel shows is a word of one line and one frame.
THEOREM PictureTwoLateHolds == Spec => []PictureTwoLate
<1>1. DisplayInv => PictureTwoLate
  BY InvTwoLate
<1> QED BY <1>1, DisplayInvariant, PTL

LEMMA InvWrongColour == DisplayInv => WrongColourAtEdges
<1> SUFFICES ASSUME DisplayInv, Display, steady = 2, hc >= 2
             PROVE  /\ palette = 1 /\ frame_output < spriteOffset =>
                         Pictured(frame, hc - 1, vc) /\ ~ Pictured(frame, hc - 2, vc)
                    /\ palette = 0 /\ frame_output >= spriteOffset =>
                         ~ Pictured(frame, hc - 1, vc) /\ Pictured(frame, hc - 2, vc)
  BY Zenon DEF WrongColourAtEdges
<1>1. Addressed /\ Fetched /\ frame \in Frames
  BY DEF DisplayInv
<1>2. hc \in Nat /\ vc \in Nat /\ hc - 1 \in Nat /\ hc - 2 \in Nat
  BY BeamInts DEF DisplayInv
<1>3. Ago(1) /\ Ago(2) /\ InPicture(hc - 2, vc)
  BY <1>2 DEF Ago, Display, InPicture
<1>4. PICK m \in Layers : /\ Topmost(frame, m, hc - 1, vc)
                          /\ palette = IF m = Background THEN 0 ELSE 1
  BY <1>1, <1>3, Zenon DEF Addressed, Reads
<1>5. PICK l \in Layers : /\ Topmost(frame, l, hc - 2, vc)
                          /\ frame_output = Address(frame, l, hc - 2, vc)
  BY <1>1, <1>3, Zenon DEF Fetched, Reads
<1>6. l = Background <=> frame_output < spriteOffset
  BY <1>1, <1>2, <1>3, <1>5, PicturesAboveBackground, Zenon
<1>7. frame_output \in Int
  BY <1>1, <1>2, <1>3, <1>5, EachReadsOwnPart, Zenon
<1>8. frame_output >= spriteOffset => l # Background
  BY <1>6, <1>7, SMT DEF spriteOffset
<1>9. m = Background => ~ Pictured(frame, hc - 1, vc)
  BY <1>1, <1>4, BackgroundAlone
<1>10. m # Background => Pictured(frame, hc - 1, vc)
  BY <1>4, Zenon DEF Pictured
<1>11. l = Background => ~ Pictured(frame, hc - 2, vc)
  BY <1>1, <1>5, BackgroundAlone
<1>12. l # Background => Pictured(frame, hc - 2, vc)
  BY <1>5, Zenon DEF Pictured
<1>13. (palette = 1 => m # Background) /\ (palette = 0 => m = Background)
  BY <1>4
<1> QED BY <1>6, <1>8, <1>9, <1>10, <1>11, <1>12, <1>13, Zenon

\* A word meets the wrong table only where a picture begins or ends.
THEOREM WrongColourAtEdgesHolds == Spec => []WrongColourAtEdges
<1>1. DisplayInv => WrongColourAtEdges
  BY InvWrongColour
<1> QED BY <1>1, DisplayInvariant, PTL

\* No layer reads another part of the memory, but for the two named, for any
\* frames with coordinates of ten bits.
THEOREM PartsKeptApartHolds == Spec => []PartsKeptApart
<1>1. DisplayInv => PartsKeptApart
  <2> SUFFICES ASSUME DisplayInv, Display, NEW l \in Layers, Topmost(frame, l, hc, vc)
               PROVE  ReadsOwnPart(frame, l, hc, vc)
    BY Zenon DEF PartsKeptApart
  <2>1. hc \in Nat /\ vc \in Nat /\ frame \in Frames
    BY BeamInts DEF DisplayInv
  <2> QED BY <2>1, EachReadsOwnPart, Zenon DEF Display
<1> QED BY <1>1, DisplayInvariant, PTL
=============================================================================
