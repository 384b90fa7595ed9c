-------------------------- MODULE LoopClockProofs --------------------------
(***************************************************************************)
(* Proofs about LoopClock, for every counter, every start and all lengths  *)
(* of time.  The arithmetic is that of remainders: two differences to the  *)
(* same start differ by the ticks between them, in whatever range they     *)
(* wrap.  One invariant says of each reading when it was taken, the other  *)
(* that no engine sees less time than has passed, unless its gate is open. *)
(***************************************************************************)
EXTENDS LoopClock, TLAPS

-----------------------------------------------------------------------------
(* Remainders.                                                             *)

\* Two unsigned differences to the same start, of moments n ticks apart,
\* differ by n.
LEMMA SameStart ==
  ASSUME NEW u \in Nat \ {0}, NEW c \in Int, NEW s \in Int, NEW n \in 0 .. u - 1
  PROVE  (((c - s) % u) - ((c - n - s) % u)) % u = n
<1> DEFINE x == (c - s) % u
           y == (c - n - s) % u
           p == (c - s) \div u
           q == (c - n - s) \div u
<1>1. /\ x \in 0 .. u - 1 /\ p \in Int
      /\ c - s = u * p + x
  OBVIOUS
<1>2. /\ y \in 0 .. u - 1 /\ q \in Int
      /\ c - n - s = u * q + y
  OBVIOUS
<1> HIDE DEF x, y, p, q
<1>3. /\ p - q \in Int
      /\ u * (p - q) = u * p - u * q
  BY <1>1, <1>2
<1>4. x - y = n - u * (p - q)
  BY <1>1, <1>2, <1>3
<1>5. p - q = 0 \/ p - q = 1
  <2>1. u * (p - q) > - u /\ u * (p - q) < 2 * u
    BY <1>1, <1>2, <1>4
  <2> QED
    BY <2>1, <1>3
<1>6. (x - y) % u = n
  <2>1. CASE p - q = 0
    BY <2>1, <1>1, <1>2, <1>4
  <2>2. CASE p - q = 1
    <3>1. x - y = n - u
      BY <2>2, <1>4
    <3> QED
      BY <3>1
  <2> QED
    BY <2>1, <2>2, <1>5
<1> QED
  BY <1>6 DEF x, y

\* Quotient and remainder.
LEMMA DivMod ==
  ASSUME NEW u \in Nat \ {0}, NEW z \in Int
  PROVE  /\ z % u \in 0 .. u - 1 /\ z \div u \in Int
         /\ u * (z \div u) \in Int /\ z = u * (z \div u) + (z % u)
OBVIOUS

\* A difference of unsigned numbers is one.
LEMMA MinusType ==
  ASSUME NEW a \in Int, NEW b \in Int
  PROVE  Minus(a, b) \in 0 .. UINT - 1
BY ClockAssumption DEF Minus

-----------------------------------------------------------------------------
(* The invariant.                                                          *)

LEMMA TypeInit == Init => TypeOK
<1> SUFFICES ASSUME Init PROVE TypeOK
  OBVIOUS
<1>1. Clk_100 \in 0 .. TOP /\ processorStart \in Starts
  BY ClockAssumption DEF Init
<1>2. reading \in [Timers -> 0 .. UINT - 1]
  BY <1>1, ClockAssumption DEF Init
<1>3. age \in [Timers -> 0 .. OLD] /\ stale \subseteq Timers
  BY AgeAssumption DEF Init
<1>4. trip \in 0 .. MAXTRIP
  BY GateAssumption DEF Init
<1>5. nextSpawnTime \in Starts \cup SpawnTimes
  BY <1>1 DEF Init
<1>6. /\ gstate \in {Menu, Round, Won}
      /\ nextState \in {Menu, Won, NoChange}
  BY DEF Init
<1>7. physixOn \in BOOLEAN
  BY DEF Init
<1>8. spawnOn \in BOOLEAN
  BY DEF Init
<1>9. thrown \in BOOLEAN
  BY DEF Init
<1>10. Clk_100 \in 0 .. TOP + 1
  BY <1>1, ClockAssumption
<1> QED
  BY <1>1, <1>2, <1>3, <1>4, <1>5, <1>6, <1>7, <1>8, <1>9, <1>10 DEF TypeOK

\* A trip leaves every reading in its range.
LEMMA TypeTrip ==
  ASSUME TypeOK, NEW slices \in BOOLEAN, Trip(slices)
  PROVE  TypeOK'
<1>1. Now \in 0 .. UINT - 1
  <2>1. Clk_100 \in Int /\ processorStart \in Int
    BY ClockAssumption DEF TypeOK
  <2> QED
    BY <2>1, MinusType DEF Now, elapsedTime
<1>2. reading' \in [Timers -> 0 .. UINT - 1]
  BY <1>1 DEF TypeOK, Trip, Take
<1>3. age' \in [Timers -> 0 .. OLD]
  BY AgeAssumption DEF TypeOK, Trip, Take
<1>4. stale' \subseteq Timers
  BY DEF TypeOK, Trip, Take
<1>5. nextSpawnTime' \in Starts \cup SpawnTimes
  BY DEF TypeOK, Trip
<1>6. Decided \in {Menu, Won, NoChange}
  BY DEF TypeOK, Decided
<1>7. /\ nextState' \in {Menu, Won, NoChange}
      /\ gstate' \in {Menu, Round, Won}
  <2>1. nextState' \in {Menu, Won, NoChange}
    BY <1>6 DEF Trip
  <2>2. Shown \in {Menu, Round, Won}
    BY <1>6 DEF TypeOK, Shown, Changes, Decided, Menu, Round, Won, NoChange
  <2>3. gstate' \in {Menu, Round, Won}
    BY <2>2 DEF Trip
  <2> QED
    BY <2>1, <2>3
<1>8. physixOn' \in BOOLEAN
  BY Zenon DEF Trip
<1>9. spawnOn' \in BOOLEAN
  BY Zenon DEF Trip
<1>10. thrown' \in BOOLEAN
  BY Zenon DEF Trip
<1>11. /\ Clk_100' \in 0 .. TOP + 1
       /\ processorStart' \in Starts
       /\ trip' \in 0 .. MAXTRIP
  BY GateAssumption DEF TypeOK, Trip
<1> QED
  BY <1>2, <1>3, <1>4, <1>5, <1>7, <1>8, <1>9, <1>10, <1>11 DEF TypeOK

LEMMA TypeStep == TypeOK /\ [Next]_vars => TypeOK'
<1> SUFFICES ASSUME TypeOK, [Next]_vars PROVE TypeOK'
  OBVIOUS
<1>1. CASE Count
  <2>1. age' \in [Timers -> 0 .. OLD]
    BY <1>1, AgeAssumption DEF Count, TypeOK, Older
  <2>2. Clk_100' \in 0 .. TOP + 1 /\ trip' \in 0 .. MAXTRIP
    BY <1>1, ClockAssumption, GateAssumption DEF Count, TypeOK
  <2> QED
    BY <2>1, <2>2, <1>1 DEF Count, TypeOK
<1>2. CASE Restart
  <2>1. Clk_100' \in 0 .. TOP + 1
    BY <1>2, ClockAssumption DEF Restart
  <2> QED
    BY <2>1, <1>2 DEF Restart, TypeOK
<1>3. ASSUME NEW slices \in BOOLEAN, Trip(slices) PROVE TypeOK'
  BY <1>3, TypeTrip
<1>4. CASE UNCHANGED vars
  BY <1>4 DEF vars, TypeOK
<1> QED
  BY <1>1, <1>2, <1>3, <1>4 DEF Next

LEMMA ReadingsInit == Init => ReadingsTrue
<1> SUFFICES ASSUME Init, NEW t \in Timers \ stale PROVE
      /\ age[t] <= Clk_100
      /\ reading[t] = Minus(Clk_100 - age[t], processorStart)
  BY DEF ReadingsTrue
<1>1. t = "changeTimer"
  BY DEF Init
<1>2. age[t] = 0 /\ reading[t] = 0
  BY <1>1 DEF Init, Timers
<1>3. Clk_100 \in Nat /\ processorStart = Clk_100
  BY ClockAssumption DEF Init
<1> QED
  BY <1>2, <1>3, ClockAssumption DEF Minus

LEMMA ReadingsStep == ClockInv /\ [Next]_vars => ReadingsTrue'
<1> SUFFICES ASSUME ClockInv, [Next]_vars,
                    NEW t \in Timers \ stale', age'[t] < OLD PROVE
      /\ age'[t] <= Clk_100'
      /\ reading'[t] = Minus(Clk_100' - age'[t], processorStart')
  BY DEF ReadingsTrue, Minus
<1>1. /\ Clk_100 \in Int /\ processorStart \in Int
      /\ age[t] \in 0 .. OLD
  BY ClockAssumption DEF ClockInv, TypeOK
<1>2. CASE Count
  <2>1. t \notin stale /\ reading'[t] = reading[t] /\ processorStart' = processorStart
    BY <1>2 DEF Count
  <2>2. age[t] < OLD /\ age'[t] = age[t] + 1 /\ Clk_100' = Clk_100 + 1
    BY <1>1, <1>2, AgeAssumption DEF Count, Older
  <2>3. age[t] <= Clk_100 /\ reading[t] = Minus(Clk_100 - age[t], processorStart)
    BY <2>1, <2>2 DEF ClockInv, ReadingsTrue
  <2>4. Clk_100' - age'[t] = Clk_100 - age[t]
    BY <2>2, <1>1
  <2> QED
    BY <2>1, <2>2, <2>3, <2>4, <1>1
<1>3. CASE Restart
  BY <1>3 DEF Restart
<1>4. ASSUME NEW slices \in BOOLEAN, Trip(slices) PROVE
        /\ age'[t] <= Clk_100'
        /\ reading'[t] = Minus(Clk_100' - age'[t], processorStart')
  <2>1. PICK taken \in SUBSET Timers : Take(taken)
    BY <1>4 DEF Trip
  <2>2. Clk_100' = Clk_100 /\ processorStart' = processorStart
    BY <1>4 DEF Trip
  <2>3. CASE t \in taken
    <3>1. age'[t] = 0 /\ reading'[t] = Minus(Clk_100, processorStart)
      BY <2>1, <2>3 DEF Take, Now, elapsedTime
    <3>2. Clk_100 - 0 = Clk_100 /\ 0 <= Clk_100
      BY <1>1 DEF ClockInv, TypeOK
    <3> QED
      BY <3>1, <3>2, <2>2
  <2>4. CASE t \notin taken
    <3>1. t \notin stale /\ age'[t] = age[t] /\ reading'[t] = reading[t]
      BY <2>1, <2>4 DEF Take
    <3> QED
      BY <3>1, <2>2 DEF ClockInv, ReadingsTrue
  <2> QED
    BY <2>3, <2>4
<1>5. CASE UNCHANGED vars
  BY <1>5 DEF vars, ClockInv, ReadingsTrue
<1> QED
  BY <1>2, <1>3, <1>4, <1>5 DEF Next

\* At the start nothing has been thrown.
LEMMA WaitInit == Init => WaitDrawn
BY DEF Init, WaitDrawn, Timers

\* A throw takes its reading and draws the next wait in the same trip.
LEMMA WaitStep == WaitDrawn /\ [Next]_vars => WaitDrawn'
<1> SUFFICES ASSUME WaitDrawn, [Next]_vars, "lastSpawned" \notin stale'
             PROVE  nextSpawnTime' \in SpawnTimes
  BY DEF WaitDrawn
<1>1. CASE Count
  BY <1>1 DEF Count, WaitDrawn
<1>2. CASE Restart
  BY <1>2 DEF Restart, Timers
<1>3. ASSUME NEW slices \in BOOLEAN, Trip(slices)
      PROVE  nextSpawnTime' \in SpawnTimes
  <2>1. CASE Throws
    BY <1>3, <2>1 DEF Trip
  <2>2. CASE ~Throws
    <3>1. nextSpawnTime' = nextSpawnTime
      BY <1>3, <2>2 DEF Trip
    <3>2. "lastSpawned" \notin stale
      BY <1>3, <2>2 DEF Trip, Take
    <3> QED
      BY <3>1, <3>2 DEF WaitDrawn
  <2> QED
    BY <2>1, <2>2
<1>4. CASE UNCHANGED vars
  BY <1>4 DEF vars, WaitDrawn
<1> QED
  BY <1>1, <1>2, <1>3, <1>4 DEF Next

\* The variables stay in their ranges and every reading that is not stale is
\* what the counter showed as many ticks ago as have been counted since.
THEOREM ClockInvariant == Spec => []ClockInv
<1>1. Init => ClockInv
  BY TypeInit, ReadingsInit, WaitInit DEF ClockInv
<1>2. ClockInv /\ [Next]_vars => ClockInv'
  <2>1. ClockInv => TypeOK
    BY DEF ClockInv
  <2> QED
    BY <2>1, TypeStep, ReadingsStep, WaitStep DEF ClockInv
<1> QED
  BY <1>1, <1>2, PTL DEF Spec

-----------------------------------------------------------------------------
(* What it is for.                                                         *)

LEMMA InvGivesDifferences == ClockInv => DifferencesTrue
<1> SUFFICES ASSUME ClockInv, NEW t \in Timers \ stale, age[t] < OLD
             PROVE  Since(t) = age[t]
  BY DEF DifferencesTrue
<1>1. reading[t] = Minus(Clk_100 - age[t], processorStart)
  BY DEF ClockInv, ReadingsTrue
<1>2. Clk_100 \in Int /\ processorStart \in Int /\ age[t] \in 0 .. UINT - 1
  BY ClockAssumption, AgeAssumption DEF ClockInv, TypeOK
<1>3. UINT \in Nat \ {0}
  BY ClockAssumption
<1>4. (((Clk_100 - processorStart) % UINT)
         - ((Clk_100 - age[t] - processorStart) % UINT)) % UINT = age[t]
  BY <1>2, <1>3, SameStart
<1> QED
  BY <1>1, <1>4 DEF Since, elapsedTime, Minus

\* The differences the program takes between restarts of the counter are the
\* ticks that have passed, whatever the counter showed when it started.
THEOREM DifferencesTrueHolds == Spec => []DifferencesTrue
BY ClockInvariant, InvGivesDifferences, PTL

\* A gate that opens on a reading that is not stale has waited.
LEMMA DueHasWaited ==
  ASSUME ClockInv, NEW t \in Timers, t \notin stale,
         NEW wait \in Nat, wait < OLD, Due(t, wait)
  PROVE  age[t] > wait
<1>1. age[t] \in 0 .. OLD
  BY DEF ClockInv, TypeOK
<1>2. CASE age[t] < OLD
  <2>1. Since(t) = age[t]
    BY <1>2, InvGivesDifferences DEF DifferencesTrue
  <2> QED
    BY <2>1 DEF Due
<1>3. CASE age[t] = OLD
  BY <1>3
<1> QED
  BY <1>1, <1>2, <1>3, AgeAssumption

\* A reading becomes younger only in a trip that has reason to take it.
LEMMA YoungerByTrip ==
  ASSUME ClockInv, [Next]_vars, NEW t \in Timers, age'[t] < age[t]
  PROVE  /\ t = "lastPhysixed" => Moves
         /\ t = "lastSpawned" => Throws
         /\ t = "lastDisintegrated" => Crumbles
<1>1. age[t] \in 0 .. OLD
  BY DEF ClockInv, TypeOK
<1>2. ~Count
  BY <1>1, AgeAssumption DEF Count, Older
<1>3. ~Restart
  BY <1>1 DEF Restart
<1>4. ~UNCHANGED vars
  BY <1>1 DEF vars
<1>5. PICK slices \in BOOLEAN : Trip(slices)
  BY <1>2, <1>3, <1>4 DEF Next
<1> DEFINE taken == {u \in Timers :
              \/ u = "changeTimer" /\ nextState = NoChange
              \/ u = "lastPhysixed" /\ Moves
              \/ u = "lastSpawned" /\ Throws
              \/ u = "lastDisintegrated" /\ Crumbles
              \/ u = "roundStart" /\ slices /\ Shown = Menu}
<1>6. age' = [u \in Timers |-> IF u \in taken THEN 0 ELSE age[u]]
  BY <1>5 DEF Trip, Take
<1>7. t \in taken
  BY <1>6, <1>1
<1> QED
  BY <1>7

\* A pending screen is shown only in a trip whose last gate is open.
LEMMA ShownByTrip ==
  ASSUME ClockInv, [Next]_vars, nextState # NoChange, nextState' = NoChange
  PROVE  Changes
<1>1. ~Count /\ ~Restart /\ ~UNCHANGED vars
  BY DEF Count, Restart, vars
<1>2. PICK slices \in BOOLEAN : Trip(slices)
  BY <1>1 DEF Next
<1>3. Decided # NoChange
  BY DEF Decided, Won, NoChange
<1>4. nextState' = IF Changes THEN NoChange ELSE Decided
  BY <1>2 DEF Trip
<1> QED
  BY <1>3, <1>4

\* A round is won only in a trip that finds its timer at zero.
LEMMA WonByTrip ==
  ASSUME ClockInv, [Next]_vars, gstate = Round, nextState # Won,
         Won \in {nextState', gstate'}
  PROVE  TimeUp
<1>1. ~Count /\ ~Restart /\ ~UNCHANGED vars
  BY DEF Count, Restart, vars, Round, Won
<1>2. PICK slices \in BOOLEAN : Trip(slices)
  BY <1>1 DEF Next
<1>3. Decided = Won
  BY <1>2 DEF Trip, Shown, Menu, Round, Won, NoChange
<1> QED
  BY <1>3 DEF Decided

\* A timer at zero has run for the seconds of a round.
LEMMA TimeHasRun ==
  ASSUME ClockInv, TimeUp, "roundStart" \notin stale
  PROVE  age["roundStart"] >= ROUND * SECOND
<1> DEFINE t == "roundStart"
<1>1. t \in Timers /\ age[t] \in 0 .. OLD
  BY DEF ClockInv, TypeOK, Timers
<1>2. SECOND \in Nat \ {0} /\ ROUND \in Nat /\ OLD \in Nat
  BY GateAssumption, AgeAssumption
<1>3. ROUND * SECOND \in Nat /\ (ROUND + 1) * SECOND = ROUND * SECOND + SECOND
  BY <1>2
<1>4. CASE age[t] < OLD
  <2>1. Since(t) = age[t]
    BY <1>1, <1>4, InvGivesDifferences DEF DifferencesTrue
  <2>2. age[t] \div SECOND = ROUND
    BY <2>1 DEF TimeUp
  <2>3. PICK n \in Nat : n = age[t]
    BY <1>1
  <2>4. /\ n % SECOND \in 0 .. SECOND - 1
        /\ n = SECOND * (n \div SECOND) + (n % SECOND)
    <3>1. n \in Int
      OBVIOUS
    <3> QED
      BY <3>1, <1>2, DivMod, Zenon
  <2>5. n = SECOND * ROUND + (n % SECOND) /\ SECOND * ROUND = ROUND * SECOND
    BY <1>2, <2>2, <2>3, <2>4
  <2> QED
    BY <1>2, <1>3, <2>3, <2>4, <2>5
<1>5. CASE age[t] = OLD
  BY <1>2, <1>3, <1>5, AgeAssumption, GateAssumption
<1> QED
  BY <1>1, <1>2, <1>4, <1>5

\* No object is moved, thrown or crumbled, no screen changes and no round is
\* won before its time; but a gate may be open on a reading that was never
\* taken, or was taken before the counter restarted.
THEOREM NotEarlyHolds == Spec => NotEarly
<1> DEFINE NotEarlyStep ==
      /\ age'["lastPhysixed"] < age["lastPhysixed"] =>
           "lastPhysixed" \in stale \/ age["lastPhysixed"] > PACE
      /\ age'["lastSpawned"] < age["lastSpawned"] =>
           "lastSpawned" \in stale \/ age["lastSpawned"] > nextSpawnTime
      /\ age'["lastDisintegrated"] < age["lastDisintegrated"] =>
           "lastDisintegrated" \in stale \/ age["lastDisintegrated"] > SMOKE
      /\ nextState # NoChange /\ nextState' = NoChange =>
           "changeTimer" \in stale \/ age["changeTimer"] > DELAY
      /\ gstate = Round /\ nextState # Won /\ Won \in {nextState', gstate'} =>
           "roundStart" \in stale \/ age["roundStart"] >= ROUND * SECOND
<1>1. ClockInv /\ [Next]_vars => NotEarlyStep
  <2> SUFFICES ASSUME ClockInv, [Next]_vars PROVE NotEarlyStep
    OBVIOUS
  <2>1. /\ PACE \in Nat /\ PACE < OLD
        /\ SMOKE \in Nat /\ SMOKE < OLD
        /\ DELAY \in Nat /\ DELAY < OLD
        /\ MAXSPAWN \in Nat /\ MAXSPAWN < OLD
    BY AgeAssumption, GateAssumption
  <2>2. /\ "lastPhysixed" \in Timers
        /\ "lastSpawned" \in Timers
        /\ "lastDisintegrated" \in Timers
        /\ "changeTimer" \in Timers
    BY DEF Timers
  <2>3. ASSUME age'["lastPhysixed"] < age["lastPhysixed"], "lastPhysixed" \notin stale
        PROVE  age["lastPhysixed"] > PACE
    <3>1. Due("lastPhysixed", PACE)
      BY <2>3, <2>2, YoungerByTrip DEF Moves
    <3> QED
      BY <3>1, <2>1, <2>2, <2>3, DueHasWaited
  <2>4. ASSUME age'["lastSpawned"] < age["lastSpawned"], "lastSpawned" \notin stale
        PROVE  age["lastSpawned"] > nextSpawnTime
    <3>1. Due("lastSpawned", nextSpawnTime)
      BY <2>4, <2>2, YoungerByTrip DEF Throws
    <3>2. nextSpawnTime \in 0 .. MAXSPAWN
      <4>1. nextSpawnTime \in SpawnTimes
        BY <2>4, Zenon DEF ClockInv, WaitDrawn
      <4> QED
        BY <4>1, GateAssumption
    <3>3. nextSpawnTime \in Nat /\ nextSpawnTime < OLD
      BY <2>1, <3>2, AgeAssumption
    <3> QED
      BY <3>1, <3>3, <2>2, <2>4, DueHasWaited
  <2>5. ASSUME age'["lastDisintegrated"] < age["lastDisintegrated"],
               "lastDisintegrated" \notin stale
        PROVE  age["lastDisintegrated"] > SMOKE
    <3>1. Due("lastDisintegrated", SMOKE)
      BY <2>5, <2>2, YoungerByTrip DEF Crumbles
    <3> QED
      BY <3>1, <2>1, <2>2, <2>5, DueHasWaited
  <2>6. ASSUME nextState # NoChange, nextState' = NoChange, "changeTimer" \notin stale
        PROVE  age["changeTimer"] > DELAY
    <3>1. Due("changeTimer", DELAY)
      BY <2>6, ShownByTrip DEF Changes
    <3> QED
      BY <3>1, <2>1, <2>2, <2>6, DueHasWaited
  <2>7. ASSUME gstate = Round, nextState # Won, Won \in {nextState', gstate'},
               "roundStart" \notin stale
        PROVE  age["roundStart"] >= ROUND * SECOND
    BY <2>7, WonByTrip, TimeHasRun, Zenon
  <2> QED
    BY <2>3, <2>4, <2>5, <2>6, <2>7
<1>2. NotEarly <=> [][NotEarlyStep]_vars
  BY DEF NotEarly
<1> QED
  BY <1>1, <1>2, ClockInvariant, PTL DEF Spec

-----------------------------------------------------------------------------
(* The gates are opened in time.  Differences follow the counter, and go   *)
(* round with it.                                                          *)

\* Two differences of r to the clock's readings c and d, with start s.
Differ(u, c, d, s, r) ==
  LET a == (((c - s) % u) - r) % u
      b == (((d - s) % u) - r) % u
  IN  /\ a \in 0 .. u - 1 /\ b \in 0 .. u - 1
      /\ b = a + (d - c) \/ b = a + (d - c) - u \/ b = a + (d - c) + u

\* They are as far apart as the readings, but for the range.
LEMMA Shifted ==
  ASSUME NEW u \in Nat \ {0}, NEW c \in Int, NEW d \in Int, NEW s \in Int,
         NEW r \in 0 .. u - 1, - u < d - c, d - c < u
  PROVE  Differ(u, c, d, s, r)
<1> DEFINE x == (c - s) % u
           y == (d - s) % u
           a == (x - r) % u
           b == (y - r) % u
           p == (c - s) \div u
           q == (d - s) \div u
           m == (x - r) \div u
           n == (y - r) \div u
<1>0. c - s \in Int /\ d - s \in Int
  OBVIOUS
<1>1. x \in 0 .. u - 1 /\ p \in Int /\ u * p \in Int /\ c - s = u * p + x
  BY <1>0, DivMod, Zenon
<1>2. y \in 0 .. u - 1 /\ q \in Int /\ u * q \in Int /\ d - s = u * q + y
  BY <1>0, DivMod, Zenon
<1> HIDE DEF x, y, p, q
<1>3. a \in 0 .. u - 1 /\ m \in Int /\ u * m \in Int /\ x - r = u * m + a
  <2>1. x - r \in Int
    BY <1>1
  <2> QED
    BY <2>1, DivMod, Zenon
<1>4. b \in 0 .. u - 1 /\ n \in Int /\ u * n \in Int /\ y - r = u * n + b
  <2>1. y - r \in Int
    BY <1>2
  <2> QED
    BY <2>1, DivMod, Zenon
<1> HIDE DEF a, b, m, n
<1> DEFINE j == (q - p) + (n - m)
<1>5. j \in Int /\ u * j = (u * q - u * p) + (u * n - u * m)
  BY <1>1, <1>2, <1>3, <1>4
<1> HIDE DEF j
<1>6. b = a + (d - c) - u * j
  <2> DEFINE up == u * p
             uq == u * q
             um == u * m
             un == u * n
             uj == u * j
  <2>1. /\ up \in Int /\ uq \in Int /\ um \in Int /\ un \in Int
        /\ c - s = up + x /\ d - s = uq + y /\ x - r = um + a /\ y - r = un + b
        /\ uj = (uq - up) + (un - um)
    BY <1>1, <1>2, <1>3, <1>4, <1>5
  <2> HIDE DEF up, uq, um, un, uj
  <2>2. b = a + (d - c) - uj
    BY <1>1, <1>2, <1>3, <1>4, <2>1
  <2> QED
    BY <2>2 DEF uj
<1>7. j = 0 \/ j = 1 \/ j = -1
  <2> DEFINE uj == u * j
  <2>1. uj \in Int /\ b = a + (d - c) - uj
    BY <1>5, <1>6
  <2> HIDE DEF uj
  <2>2. uj < 2 * u /\ uj > - (2 * u)
    BY <1>3, <1>4, <2>1
  <2>3. u * j < 2 * u /\ u * j > - (2 * u)
    BY <2>2 DEF uj
  <2> QED
    BY <1>5, <2>3
<1>8. b = a + (d - c) \/ b = a + (d - c) - u \/ b = a + (d - c) + u
  <2>1. CASE j = 0
    BY <1>3, <1>4, <1>6, <2>1
  <2>2. CASE j = 1
    BY <1>3, <1>4, <1>6, <2>2
  <2>3. CASE j = -1
    BY <1>3, <1>4, <1>6, <2>3
  <2> QED
    BY <1>7, <2>1, <2>2, <2>3
<1> QED
  BY <1>3, <1>4, <1>8 DEF Differ, a, b, x, y

\* What the assumptions say of the lengths of time.
LEMMA Lengths ==
  /\ TOP \in Nat /\ UINT \in Nat /\ OLD \in Nat /\ MAXTRIP \in Nat
  /\ PACE \in Nat /\ SMOKE \in Nat /\ DELAY \in Nat /\ MAXSPAWN \in Nat
  /\ UINT > 3 * TOP + 3 /\ OLD < TOP /\ 2 * MAXTRIP <= TOP /\ MAXTRIP < OLD
  /\ PACE + MAXTRIP <= TOP /\ SMOKE + MAXTRIP <= TOP
  /\ DELAY + MAXTRIP <= TOP /\ MAXSPAWN + MAXTRIP <= TOP
  /\ PACE < OLD /\ SMOKE < OLD /\ DELAY < OLD /\ MAXSPAWN < OLD
BY ClockAssumption, GateAssumption, AgeAssumption, PaceAssumption

\* The types, as the steps below need them.
LEMMA ClockTypes ==
  ASSUME TypeOK
  PROVE  /\ Clk_100 \in 0 .. TOP + 1 /\ processorStart \in 0 .. TOP
         /\ trip \in 0 .. MAXTRIP
         /\ \A t \in Timers : /\ reading[t] \in 0 .. UINT - 1 /\ age[t] \in 0 .. OLD
                              /\ Since(t) \in 0 .. UINT - 1
<1>1. Clk_100 \in 0 .. TOP + 1 /\ processorStart \in 0 .. TOP /\ trip \in 0 .. MAXTRIP
  BY ClockAssumption DEF TypeOK
<1>2. \A t \in Timers : reading[t] \in 0 .. UINT - 1 /\ age[t] \in 0 .. OLD
  BY DEF TypeOK
<1>3. ASSUME NEW t \in Timers PROVE Since(t) \in 0 .. UINT - 1
  <2>1. elapsedTime \in 0 .. UINT - 1
    BY <1>1, Lengths, MinusType DEF elapsedTime
  <2>2. elapsedTime \in Int /\ reading[t] \in Int
    BY <1>2, <2>1, Lengths
  <2> QED
    BY <2>2, MinusType DEF Since
<1> QED
  BY <1>1, <1>2, <1>3

\* A tick: every difference and every age is one more.
LEMMA SinceCount ==
  ASSUME TypeOK, Count, NEW t \in Timers
  PROVE  /\ Since(t)' = IF Since(t) = UINT - 1 THEN 0 ELSE Since(t) + 1
         /\ trip' = trip + 1 /\ trip < MAXTRIP /\ Clk_100' = Clk_100 + 1
         /\ age'[t] <= age[t] + 1 /\ age'[t] \in 0 .. OLD
<1>1. /\ Clk_100' = Clk_100 + 1 /\ trip' = trip + 1 /\ trip < MAXTRIP
      /\ reading'[t] = reading[t] /\ processorStart' = processorStart
      /\ age'[t] = Older(age[t])
  BY DEF Count
<1>2. age'[t] <= age[t] + 1 /\ age'[t] \in 0 .. OLD
  BY <1>1, ClockTypes, Lengths DEF Older
<1> DEFINE a == Since(t)
           b == Since(t)'
<1>3. /\ a = (((Clk_100 - processorStart) % UINT) - reading[t]) % UINT
      /\ b = (((Clk_100' - processorStart) % UINT) - reading[t]) % UINT
  BY <1>1 DEF Since, elapsedTime, Minus
<1> HIDE DEF a, b
<1>4. /\ Clk_100 \in Int /\ Clk_100' \in Int /\ processorStart \in Int
      /\ reading[t] \in 0 .. UINT - 1 /\ UINT \in Nat \ {0}
      /\ Clk_100' - Clk_100 = 1
      /\ - UINT < Clk_100' - Clk_100 /\ Clk_100' - Clk_100 < UINT
  BY <1>1, ClockTypes, Lengths
<1>5. a \in 0 .. UINT - 1 /\ b \in 0 .. UINT - 1
      /\ (b = a + 1 \/ b = a + 1 - UINT \/ b = a + 1 + UINT)
  <2> DEFINE k == Clk_100' - Clk_100
  <2>0. Differ(UINT, Clk_100, Clk_100', processorStart, reading[t])
    BY <1>4, Shifted, Zenon
  <2>1. a \in 0 .. UINT - 1 /\ b \in 0 .. UINT - 1
        /\ (b = a + k \/ b = a + k - UINT \/ b = a + k + UINT)
    BY <2>0, <1>3 DEF Differ
  <2> HIDE DEF k
  <2>2. k = 1
    BY <1>4 DEF k
  <2> QED
    BY <2>1, <2>2
<1>6. b = IF a = UINT - 1 THEN 0 ELSE a + 1
  BY <1>5, Lengths
<1> QED
  BY <1>1, <1>2, <1>6 DEF a, b

\* A restart: every difference goes back by the counter's range.
LEMMA SinceRestart ==
  ASSUME TypeOK, Restart, NEW t \in Timers
  PROVE  /\ Since(t)' = IF Since(t) >= TOP + 1 THEN Since(t) - (TOP + 1)
                        ELSE Since(t) - (TOP + 1) + UINT
         /\ Clk_100 = TOP + 1 /\ Clk_100' = 0
         /\ UNCHANGED <<trip, age>> /\ stale' = Timers
<1>1. /\ Clk_100 = TOP + 1 /\ Clk_100' = 0
      /\ UNCHANGED <<reading, processorStart, trip, age>> /\ stale' = Timers
  BY ClockTypes, Lengths DEF Restart
<1> DEFINE a == Since(t)
           b == Since(t)'
<1>2. /\ a = (((Clk_100 - processorStart) % UINT) - reading[t]) % UINT
      /\ b = (((Clk_100' - processorStart) % UINT) - reading[t]) % UINT
  BY <1>1 DEF Since, elapsedTime, Minus
<1> HIDE DEF a, b
<1>3. /\ Clk_100 \in Int /\ Clk_100' \in Int /\ processorStart \in Int
      /\ reading[t] \in 0 .. UINT - 1 /\ UINT \in Nat \ {0}
  BY <1>1, ClockTypes, Lengths
<1>4. /\ Clk_100' - Clk_100 = - (TOP + 1)
      /\ - UINT < Clk_100' - Clk_100 /\ Clk_100' - Clk_100 < UINT
  BY <1>1, Lengths
<1>5. a \in 0 .. UINT - 1 /\ b \in 0 .. UINT - 1
      /\ \/ b = a + (- (TOP + 1)) \/ b = a + (- (TOP + 1)) - UINT
         \/ b = a + (- (TOP + 1)) + UINT
  <2> DEFINE k == Clk_100' - Clk_100
  <2>0. Differ(UINT, Clk_100, Clk_100', processorStart, reading[t])
    BY <1>3, <1>4, Shifted, Zenon
  <2>1. a \in 0 .. UINT - 1 /\ b \in 0 .. UINT - 1
        /\ (b = a + k \/ b = a + k - UINT \/ b = a + k + UINT)
    BY <2>0, <1>2 DEF Differ
  <2> HIDE DEF k
  <2>2. k = - (TOP + 1)
    BY <1>4 DEF k
  <2> QED
    BY <2>1, <2>2
<1>6. b = IF a >= TOP + 1 THEN a - (TOP + 1) ELSE a - (TOP + 1) + UINT
  BY <1>5, Lengths
<1> QED
  BY <1>1, <1>6 DEF a, b

\* A trip: what is taken starts again, the rest stays.
LEMMA SinceTrip ==
  ASSUME TypeOK, NEW taken \in SUBSET Timers, Take(taken),
         UNCHANGED <<Clk_100, processorStart>>, NEW t \in Timers
  PROVE  /\ t \in taken => Since(t)' = 0 /\ age'[t] = 0
         /\ t \notin taken => Since(t)' = Since(t) /\ age'[t] = age[t]
<1>1. elapsedTime' = elapsedTime /\ elapsedTime \in Int
  BY ClockTypes, Lengths, MinusType DEF elapsedTime
<1>2. CASE t \in taken
  <2>1. reading'[t] = elapsedTime /\ age'[t] = 0
    BY <1>2 DEF Take, Now
  <2>2. Minus(elapsedTime, elapsedTime) = 0
    BY <1>1, Lengths DEF Minus
  <2> QED
    BY <1>1, <1>2, <2>1, <2>2 DEF Since
<1>3. CASE t \notin taken
  BY <1>1, <1>3 DEF Take, Since
<1> QED
  BY <1>2, <1>3

-----------------------------------------------------------------------------
(* Waiting, step by step.                                                  *)

\* The waits there are.
Wait(w) == w \in Nat /\ w < OLD /\ w + MAXTRIP <= TOP

\* A tick leaves a gate open that is.
LEMMA CountFar ==
  ASSUME TypeOK, Count, NEW t \in Timers, Far(t)
  PROVE  Far(t)'
<1>1. Since(t)' = Since(t) + 1 /\ trip' = trip + 1 /\ trip < MAXTRIP /\ Clk_100' = Clk_100 + 1
  BY SinceCount, ClockTypes, Lengths DEF Far
<1>2. Since(t) \in Nat /\ trip \in Nat /\ Clk_100 \in Nat
  BY ClockTypes, Lengths
<1> QED
  BY <1>1, <1>2, Lengths DEF Far

\* A tick is one more of everything.
LEMMA CountWaits ==
  ASSUME TypeOK, Count, NEW t \in Timers, NEW wait \in Nat, Wait(wait), Waits(t, wait)
  PROVE  Waits(t, wait)'
<1>1. CASE age[t] <= Since(t) /\ Since(t) <= wait + trip
  <2>1. Since(t)' = Since(t) + 1
    BY <1>1, SinceCount, ClockTypes, Lengths DEF Wait
  <2> QED
    BY <1>1, <2>1, SinceCount, ClockTypes, Lengths DEF Waits
<1>2. CASE Far(t) /\ age[t] <= wait + trip
  BY <1>2, CountFar, SinceCount, ClockTypes, Lengths DEF Waits
<1> QED
  BY <1>1, <1>2 DEF Waits

\* And so in a round.
LEMMA CountWaitsInRound ==
  ASSUME TypeOK, Count, NEW t \in Timers, NEW wait \in Nat, Wait(wait), WaitsInRound(t, wait)
  PROVE  WaitsInRound(t, wait)'
<1> DEFINE r == age["roundStart"]
<1>1. "roundStart" \in Timers
  BY DEF Timers
<1>2. r' <= r + 1 /\ r \in Nat /\ r' \in Nat
  BY <1>1, SinceCount, ClockTypes, Lengths
<1>3. trip' = trip + 1 /\ trip \in Nat
  BY SinceCount, ClockTypes, Lengths
<1> HIDE DEF r
<1>4. CASE Waits(t, wait)
  BY <1>4, CountWaits DEF WaitsInRound
<1>5. CASE r <= trip
  BY <1>2, <1>3, <1>5 DEF WaitsInRound, r
<1>6. CASE Since(t) <= wait + trip /\ r <= Since(t) + MAXTRIP
  <2>1. Since(t)' = Since(t) + 1 /\ Since(t) \in Nat
    BY <1>6, SinceCount, ClockTypes, Lengths DEF Wait
  <2>2. Since(t)' <= wait + trip' /\ r' <= Since(t)' + MAXTRIP
    BY <1>2, <1>3, <1>6, <2>1, Lengths
  <2> QED
    BY <2>2 DEF WaitsInRound, r
<1>7. CASE Far(t) /\ r <= wait + MAXTRIP + trip
  <2>1. r' <= wait + MAXTRIP + trip'
    BY <1>2, <1>3, <1>7, Lengths
  <2> QED
    BY <1>7, <2>1, CountFar DEF WaitsInRound, r
<1> QED
  BY <1>4, <1>5, <1>6, <1>7 DEF WaitsInRound, r

\* After a restart of the counter a small difference is beyond every wait.
LEMMA RestartNear ==
  ASSUME TypeOK, Restart, NEW t \in Timers, NEW wait \in Nat, Wait(wait),
         Since(t) <= wait + trip
  PROVE  Far(t)'
<1>1. Since(t) \in Nat /\ Since(t) < TOP + 1 /\ trip \in Nat /\ trip <= MAXTRIP
  BY ClockTypes, Lengths DEF Wait
<1>2. /\ Since(t)' = Since(t) - (TOP + 1) + UINT
      /\ trip' = trip /\ Clk_100' = 0
  BY <1>1, SinceRestart, Lengths
<1> QED
  BY <1>1, <1>2, Lengths DEF Far, Wait

\* A large one has as much to spare.
LEMMA RestartFar ==
  ASSUME TypeOK, Restart, NEW t \in Timers, Far(t)
  PROVE  Far(t)'
<1>1. Clk_100 = TOP + 1 /\ Clk_100' = 0 /\ trip' = trip /\ trip \in Nat /\ trip <= MAXTRIP
  BY SinceRestart, ClockTypes, Lengths
<1>2. Since(t) >= OLD + TOP + 1 /\ Since(t) \in Nat
  BY <1>1, ClockTypes, Lengths DEF Far
<1>3. Since(t)' = Since(t) - (TOP + 1)
  BY <1>2, SinceRestart, Lengths
<1> QED
  BY <1>1, <1>2, <1>3, Lengths DEF Far

\* A restart opens every gate.
LEMMA RestartWaits ==
  ASSUME TypeOK, Restart, NEW t \in Timers, NEW wait \in Nat, Wait(wait), Waits(t, wait)
  PROVE  Waits(t, wait)'
<1>1. UNCHANGED <<trip, age>>
  BY SinceRestart
<1>2. age[t] <= wait + trip
  BY ClockTypes, Lengths DEF Waits
<1>3. Far(t)'
  BY RestartNear, RestartFar DEF Waits
<1> QED
  BY <1>1, <1>2, <1>3 DEF Waits

\* And so in a round.
LEMMA RestartWaitsInRound ==
  ASSUME TypeOK, Restart, NEW t \in Timers, NEW wait \in Nat, Wait(wait), WaitsInRound(t, wait)
  PROVE  WaitsInRound(t, wait)'
<1> DEFINE r == age["roundStart"]
<1>1. r' = r /\ trip' = trip /\ r \in Nat /\ trip \in Nat
  BY SinceRestart, ClockTypes, Lengths DEF Timers
<1> HIDE DEF r
<1>2. CASE Waits(t, wait)
  BY <1>2, RestartWaits DEF WaitsInRound
<1>3. CASE r <= trip
  BY <1>1, <1>3 DEF WaitsInRound, r
<1>4. CASE Since(t) <= wait + trip /\ r <= Since(t) + MAXTRIP
  <2>1. Far(t)'
    BY <1>4, RestartNear
  <2>2. r <= wait + MAXTRIP + trip
    BY <1>1, <1>4, ClockTypes, Lengths
  <2> QED
    BY <1>1, <2>1, <2>2 DEF WaitsInRound, r
<1>5. CASE Far(t) /\ r <= wait + MAXTRIP + trip
  BY <1>1, <1>5, RestartFar DEF WaitsInRound, r
<1> QED
  BY <1>2, <1>3, <1>4, <1>5 DEF WaitsInRound, r

\* In a trip an engine whose gate is open starts to wait anew, and one whose
\* gate is not goes on waiting.
LEMMA TripWaits ==
  ASSUME TypeOK, NEW taken \in SUBSET Timers, Take(taken),
         UNCHANGED <<Clk_100, processorStart>>, trip' = 0,
         NEW t \in Timers, NEW wait \in Nat, Wait(wait), Waits(t, wait),
         t \notin taken => Since(t) <= wait
  PROVE  Waits(t, wait)'
<1>1. CASE t \in taken
  BY <1>1, SinceTrip, Lengths DEF Waits
<1>2. CASE t \notin taken
  <2>1. Since(t)' = Since(t) /\ age'[t] = age[t] /\ Since(t) \in Nat
    BY <1>2, SinceTrip, ClockTypes, Lengths
  <2>2. age[t] <= Since(t)
    BY <1>2, <2>1, Lengths DEF Waits, Far, Wait
  <2> QED
    BY <1>2, <2>1, <2>2 DEF Waits
<1> QED
  BY <1>1, <1>2

\* And so in a round, of which the first trip decides.
LEMMA TripWaitsInRound ==
  ASSUME TypeOK, NEW taken \in SUBSET Timers, Take(taken),
         UNCHANGED <<Clk_100, processorStart>>, trip' = 0,
         NEW t \in Timers, NEW wait \in Nat, Wait(wait), WaitsInRound(t, wait),
         t \notin taken => Since(t) <= wait
  PROVE  WaitsInRound(t, wait)'
<1> DEFINE r == age["roundStart"]
<1>1. r \in Nat /\ trip \in Nat /\ trip <= MAXTRIP
  BY ClockTypes, Lengths DEF Timers
<1>2. r' = r \/ r' = 0
  BY SinceTrip DEF Timers
<1> HIDE DEF r
<1>3. CASE t \in taken
  BY <1>3, SinceTrip, Lengths DEF WaitsInRound, Waits
<1>4. CASE t \notin taken
  <2>1. Since(t)' = Since(t) /\ age'[t] = age[t] /\ Since(t) \in Nat /\ Since(t) <= wait
    BY <1>4, SinceTrip, ClockTypes, Lengths
  <2>2. ~Far(t)
    BY <2>1, Lengths DEF Far, Wait
  <2>3. CASE Waits(t, wait)
    BY <1>4, <2>3, TripWaits DEF WaitsInRound
  <2>4. CASE r <= Since(t) + MAXTRIP
    <3>1. Since(t)' <= wait + trip' /\ r' <= Since(t)' + MAXTRIP
      BY <1>1, <1>2, <2>1, <2>4, Lengths
    <3> QED
      BY <3>1 DEF WaitsInRound, r
  <2>5. CASE r <= trip
    BY <1>1, <2>1, <2>4, <2>5, Lengths
  <2> QED
    BY <2>2, <2>3, <2>4, <2>5 DEF WaitsInRound, r
<1> QED
  BY <1>3, <1>4

-----------------------------------------------------------------------------
(* PaceInv holds at the start, and every step preserves it.                *)

\* The waits of the four engines.
LEMMA GateWaits == Wait(PACE) /\ Wait(SMOKE) /\ Wait(DELAY) /\ Wait(MAXSPAWN)
BY Lengths DEF Wait

\* At the start, where what crumbles has a reading of its own.
LEMMA PaceInit == Init => PaceInv
<1> SUFFICES ASSUME Init PROVE PaceInv
  OBVIOUS
<1>1. TypeOK
  BY TypeInit
<1>2. /\ Clk_100 = processorStart /\ trip = 0 /\ processorStart \in 0 .. TOP
      /\ \A t \in Timers : age[t] = 0
      /\ reading["changeTimer"] = 0 /\ reading["lastDisintegrated"] = processorStart
      /\ "lastDisintegrated" \in stale
  BY <1>1, ClockTypes DEF Init, Timers
<1>3. elapsedTime = 0
  BY <1>2, Lengths DEF elapsedTime, Minus
<1>4. Waits("changeTimer", DELAY)
  <2>1. Since("changeTimer") = 0
    BY <1>2, <1>3, Lengths DEF Since, Minus
  <2> QED
    BY <1>2, <2>1, Lengths DEF Waits, Timers
<1>5. CrumblesInTime
  <2> DEFINE D == "lastDisintegrated"
  <2>1. Since(D) = (0 - processorStart) % UINT /\ age[D] = 0
    BY <1>2, <1>3 DEF Since, Minus, Timers
  <2>2. CASE processorStart = 0
    <3>1. Since(D) = 0
      BY <2>1, <2>2, Lengths
    <3> QED
      BY <1>2, <2>1, <3>1, Lengths DEF CrumblesInTime, Waits
  <2>3. CASE processorStart # 0
    <3>1. Since(D) = UINT - processorStart
      BY <1>2, <2>1, <2>3, Lengths
    <3>2. CASE processorStart <= MAXTRIP
      BY <1>2, <2>1, <2>3, <3>1, <3>2, Lengths DEF CrumblesInTime, NotYetLate, Late
    <3>3. CASE processorStart > MAXTRIP
      BY <1>2, <2>1, <3>1, <3>3, Lengths DEF CrumblesInTime, Waits, Far
    <3> QED
      BY <1>2, <3>2, <3>3, Lengths
  <2> QED
    BY <2>2, <2>3
<1> QED
  BY <1>1, <1>4, <1>5 DEF PaceInv, Init, Menu, Round

\* A tick.
LEMMA PaceCount ==
  ASSUME PaceInv, TypeOK', Count
  PROVE  PaceInv'
<1>1. TypeOK /\ UNCHANGED <<processorStart, nextSpawnTime, gstate, nextState, spawnOn, stale, thrown>>
  BY DEF PaceInv, Count
<1>2. PACE \in Nat /\ SMOKE \in Nat /\ DELAY \in Nat /\ MAXSPAWN \in Nat
  BY Lengths
<1>3. nextState # NoChange => Waits("changeTimer", DELAY)'
  BY <1>1, <1>2, CountWaits, GateWaits DEF PaceInv, Timers
<1>4. gstate = Round => WaitsInRound("lastPhysixed", PACE)'
  BY <1>1, <1>2, CountWaitsInRound, GateWaits DEF PaceInv, Timers
<1>5. spawnOn /\ thrown => WaitsInRound("lastSpawned", MAXSPAWN)'
  BY <1>1, <1>2, CountWaitsInRound, GateWaits DEF PaceInv, Timers
<1>6. CrumblesInTime'
  <2> DEFINE D == "lastDisintegrated"
             g == age[D]
             d == Since(D)
  <2>1. /\ D \in Timers /\ Late' = Late
        /\ trip' = trip + 1 /\ trip \in Nat /\ trip < MAXTRIP
        /\ processorStart' = processorStart /\ processorStart \in Nat
        /\ Clk_100' = Clk_100 + 1 /\ Clk_100 \in Nat
    BY <1>1, SinceCount, ClockTypes, Lengths DEF Timers, Late
  <2>2. /\ g \in Nat /\ g' \in Nat /\ g' <= g + 1 /\ d \in Nat
        /\ d' = IF d = UINT - 1 THEN 0 ELSE d + 1
    BY <1>1, <2>1, SinceCount, ClockTypes, Lengths
  <2>3. g < OLD => g' = g + 1
    BY <1>1, <2>1, Lengths DEF Count, Older
  <2> HIDE DEF g, d
  <2>4. CASE Waits(D, SMOKE)
    BY <1>1, <1>2, <2>1, <2>4, CountWaits, GateWaits DEF CrumblesInTime
  <2>5. CASE NotYetLate
    <3>1. /\ Late /\ processorStart <= MAXTRIP /\ trip < processorStart /\ g = trip
          /\ d = UINT - processorStart + trip /\ Clk_100 = processorStart + trip
      BY <2>5 DEF NotYetLate, Late, g, d
    <3>2. CASE trip + 1 < processorStart
      <4>1. d' = d + 1
        BY <2>1, <2>2, <3>1, <3>2, Lengths
      <4>2. g' = trip'
        BY <2>1, <2>2, <2>3, <3>1, Lengths
      <4> QED
        BY <2>1, <3>1, <3>2, <4>1, <4>2, Lengths DEF CrumblesInTime, NotYetLate, g, d
    <3>3. CASE trip + 1 = processorStart
      <4>1. d' = 0 /\ g' <= 0 + processorStart /\ 0 <= SMOKE + trip'
        BY <2>1, <2>2, <3>1, <3>3, Lengths
      <4> QED
        BY <2>1, <3>1, <4>1 DEF CrumblesInTime, g, d
    <3> QED
      BY <2>1, <3>1, <3>2, <3>3
  <2>6. CASE Late /\ g <= d + processorStart /\ d <= SMOKE + trip
    <3>1. d' = d + 1
      BY <2>1, <2>2, <2>6, Lengths
    <3>2. g' <= d' + processorStart /\ d' <= SMOKE + trip'
      BY <2>1, <2>2, <2>6, <3>1, Lengths
    <3> QED
      BY <2>1, <2>6, <3>2 DEF CrumblesInTime, g, d
  <2>7. CASE Late /\ Far(D) /\ g <= SMOKE + processorStart + trip
    <3>1. g' <= SMOKE + processorStart + trip'
      BY <2>1, <2>2, <2>7, Lengths
    <3> QED
      BY <1>1, <2>1, <2>7, <3>1, CountFar DEF CrumblesInTime, g
  <2> QED
    BY <2>4, <2>5, <2>6, <2>7 DEF PaceInv, CrumblesInTime, g, d
<1> QED
  BY <1>1, <1>3, <1>4, <1>5, <1>6 DEF PaceInv

\* A restart.
LEMMA PaceRestart ==
  ASSUME PaceInv, TypeOK', Restart
  PROVE  PaceInv'
<1>1. TypeOK /\ UNCHANGED <<processorStart, nextSpawnTime, gstate, nextState, spawnOn, thrown>>
  BY DEF PaceInv, Restart
<1>2. PACE \in Nat /\ SMOKE \in Nat /\ DELAY \in Nat /\ MAXSPAWN \in Nat
  BY Lengths
<1>3. nextState # NoChange => Waits("changeTimer", DELAY)'
  BY <1>1, <1>2, RestartWaits, GateWaits DEF PaceInv, Timers
<1>4. gstate = Round => WaitsInRound("lastPhysixed", PACE)'
  BY <1>1, <1>2, RestartWaitsInRound, GateWaits DEF PaceInv, Timers
<1>5. spawnOn /\ thrown => WaitsInRound("lastSpawned", MAXSPAWN)'
  BY <1>1, <1>2, RestartWaitsInRound, GateWaits DEF PaceInv, Timers
<1>6. CrumblesInTime'
  <2> DEFINE D == "lastDisintegrated"
  <2>1. /\ D \in Timers /\ Clk_100 = TOP + 1 /\ UNCHANGED <<trip, age, processorStart>>
        /\ stale' = Timers
    BY <1>1, SinceRestart DEF Timers
  <2>2. Late => Late'
    BY <2>1 DEF Late
  <2>3. /\ age[D] \in Nat /\ Since(D) \in Nat /\ trip \in Nat /\ processorStart \in Nat
        /\ trip <= MAXTRIP
    BY <1>1, <2>1, ClockTypes, Lengths
  <2>4. CASE Waits(D, SMOKE)
    BY <1>1, <1>2, <2>1, <2>4, RestartWaits, GateWaits DEF CrumblesInTime
  <2>5. ~NotYetLate
    BY <2>1, <2>3, Lengths DEF NotYetLate, Late
  <2>6. CASE Late /\ age[D] <= Since(D) + processorStart /\ Since(D) <= SMOKE + trip
    <3>1. Far(D)'
      BY <1>1, <1>2, <2>1, <2>6, RestartNear, GateWaits
    <3>2. age[D] <= SMOKE + processorStart + trip
      BY <1>2, <2>3, <2>6
    <3> QED
      BY <2>1, <2>2, <2>6, <3>1, <3>2 DEF CrumblesInTime
  <2>7. CASE Late /\ Far(D) /\ age[D] <= SMOKE + processorStart + trip
    BY <1>1, <2>1, <2>2, <2>7, RestartFar DEF CrumblesInTime
  <2> QED
    BY <2>4, <2>5, <2>6, <2>7 DEF PaceInv, CrumblesInTime
<1> QED
  BY <1>1, <1>3, <1>4, <1>5, <1>6 DEF PaceInv

\* A trip: each engine looks at its gate, and begins again if it is open.
LEMMA PaceTrip ==
  ASSUME PaceInv, TypeOK', NEW slices \in BOOLEAN, Trip(slices)
  PROVE  PaceInv'
<1> DEFINE starts == slices /\ Shown = Menu
           taken == {t \in Timers :
                       \/ t = "changeTimer" /\ nextState = NoChange
                       \/ t = "lastPhysixed" /\ Moves
                       \/ t = "lastSpawned" /\ Throws
                       \/ t = "lastDisintegrated" /\ Crumbles
                       \/ t = "roundStart" /\ starts}
<1>1. /\ TypeOK /\ taken \in SUBSET Timers /\ Take(taken)
      /\ UNCHANGED <<Clk_100, processorStart>> /\ trip' = 0
  BY DEF PaceInv, Trip
<1>2. /\ "changeTimer" \in taken <=> nextState = NoChange
      /\ "lastPhysixed" \in taken <=> Moves
      /\ "lastSpawned" \in taken <=> Throws
      /\ "lastDisintegrated" \in taken <=> Crumbles
      /\ "roundStart" \in taken <=> starts
  BY DEF Timers
<1> HIDE DEF taken
<1>3. PACE \in Nat /\ SMOKE \in Nat /\ DELAY \in Nat /\ MAXSPAWN \in Nat
  BY Lengths
<1>4. \A t \in Timers : Since(t) \in Nat
  BY <1>1, ClockTypes, Lengths
<1>5. thrown' => nextSpawnTime' \in SpawnTimes
  BY DEF PaceInv, Trip
<1>6. starts => age'["roundStart"] = 0
  BY <1>1, <1>2, SinceTrip DEF Timers
<1>7. nextState' # NoChange => Waits("changeTimer", DELAY)'
  <2> SUFFICES ASSUME nextState' # NoChange PROVE Waits("changeTimer", DELAY)'
    OBVIOUS
  <2>1. CASE nextState = NoChange
    BY <1>1, <1>2, <1>3, <2>1, SinceTrip DEF Waits, Timers
  <2>2. CASE nextState # NoChange
    <3>1. ~Changes
      BY DEF Trip
    <3>2. Since("changeTimer") <= DELAY
      BY <1>3, <1>4, <2>2, <3>1 DEF Changes, Due, Timers
    <3> QED
      BY <1>1, <1>3, <2>2, <3>2, TripWaits, GateWaits DEF PaceInv, Timers
  <2> QED
    BY <2>1, <2>2
<1>8. gstate' = Round => WaitsInRound("lastPhysixed", PACE)'
  <2> SUFFICES ASSUME gstate' = Round PROVE WaitsInRound("lastPhysixed", PACE)'
    OBVIOUS
  <2>1. CASE starts
    BY <1>1, <1>6, <2>1 DEF WaitsInRound
  <2>2. CASE ~starts
    <3>1. Shown = Round
      BY <2>2 DEF Trip, Menu, Round
    <3>2. gstate = Round
      BY <1>1, <3>1 DEF Shown, Decided, TypeOK, Menu, Round, Won, NoChange
    <3>3. "lastPhysixed" \notin taken => Since("lastPhysixed") <= PACE
      BY <1>2, <1>3, <1>4, <3>2 DEF Moves, PhysixOn, Due, Timers
    <3> QED
      BY <1>1, <1>3, <3>2, <3>3, TripWaitsInRound, GateWaits DEF PaceInv, Timers
  <2> QED
    BY <2>1, <2>2
<1>9. spawnOn' /\ thrown' => WaitsInRound("lastSpawned", MAXSPAWN)'
  <2> SUFFICES ASSUME spawnOn', thrown' PROVE WaitsInRound("lastSpawned", MAXSPAWN)'
    OBVIOUS
  <2>1. CASE starts
    BY <1>1, <1>6, <2>1 DEF WaitsInRound
  <2>2. CASE Throws
    BY <1>1, <1>2, <1>3, <2>2, SinceTrip DEF WaitsInRound, Waits, Timers
  <2>3. CASE ~starts /\ ~Throws
    <3>1. SpawnOn /\ spawnOn /\ thrown
      BY <2>3 DEF Trip, SpawnOn
    <3>2. nextSpawnTime \in SpawnTimes
      BY <3>1 DEF PaceInv
    <3>3. nextSpawnTime \in Nat /\ nextSpawnTime <= MAXSPAWN
      BY <3>2, GateAssumption
    <3>4. Since("lastSpawned") <= MAXSPAWN
      BY <1>3, <1>4, <2>3, <3>1, <3>3 DEF Throws, Due, Timers
    <3> QED
      BY <1>1, <1>3, <3>1, <3>4, TripWaitsInRound, GateWaits DEF PaceInv, Timers
  <2> QED
    BY <2>1, <2>2, <2>3
<1>10. CrumblesInTime'
  <2> DEFINE D == "lastDisintegrated"
  <2>1. D \in Timers
    BY DEF Timers
  <2>2. CASE D \in taken
    BY <1>1, <1>3, <2>1, <2>2, SinceTrip DEF CrumblesInTime, Waits
  <2>3. CASE D \notin taken
    <3>1. Since(D) <= SMOKE
      BY <1>2, <1>3, <1>4, <2>1, <2>3 DEF Crumbles, Due
    <3>2. /\ Since(D)' = Since(D) /\ age'[D] = age[D] /\ Since(D) \in Nat
          /\ processorStart' = processorStart
      BY <1>1, <1>4, <2>1, <2>3, SinceTrip
    <3>3. Late => Late'
      BY <1>1, <2>3 DEF Late, Take
    <3>4. ~Far(D)
      BY <3>1, <3>2, Lengths DEF Far
    <3>5. ~NotYetLate
      <4>1. processorStart <= MAXTRIP /\ trip \in Nat => UINT - processorStart + trip > SMOKE
        BY <1>1, ClockTypes, Lengths
      <4> QED
        BY <1>1, <3>1, <4>1, ClockTypes, Lengths DEF NotYetLate, Late
    <3>6. CASE Waits(D, SMOKE)
      BY <1>1, <1>3, <2>1, <3>1, <3>6, TripWaits, GateWaits DEF CrumblesInTime
    <3>7. CASE Late /\ age[D] <= Since(D) + processorStart
      BY <1>1, <1>3, <3>1, <3>2, <3>3, <3>7 DEF CrumblesInTime
    <3> QED
      BY <3>4, <3>5, <3>6, <3>7 DEF PaceInv, CrumblesInTime
  <2> QED
    BY <2>2, <2>3
<1> QED
  BY <1>5, <1>7, <1>8, <1>9, <1>10 DEF PaceInv

\* A stutter changes nothing.
LEMMA PaceStutter == PaceInv /\ UNCHANGED vars => PaceInv'
<1> SUFFICES ASSUME PaceInv, UNCHANGED vars PROVE PaceInv'
  OBVIOUS
<1>1. \A t \in Timers : Since(t)' = Since(t)
  BY DEF vars, Since, elapsedTime
<1>2. TypeOK'
  BY DEF PaceInv, TypeOK, vars
<1>3. /\ "changeTimer" \in Timers /\ "lastPhysixed" \in Timers /\ "lastSpawned" \in Timers
      /\ "lastDisintegrated" \in Timers
  BY DEF Timers
<1> QED
  BY <1>1, <1>2, <1>3
     DEF PaceInv, vars, Waits, WaitsInRound, Far, CrumblesInTime, NotYetLate, Late

\* Every engine waits for no more than its time and is looked at every trip.
THEOREM PaceInvariant == Spec => []PaceInv
<1>1. Init => PaceInv
  BY PaceInit
<1>2. PaceInv /\ [Next]_vars => PaceInv'
  <2> SUFFICES ASSUME PaceInv, [Next]_vars PROVE PaceInv'
    OBVIOUS
  <2>1. TypeOK'
    BY TypeStep DEF PaceInv
  <2>2. CASE Count
    BY <2>1, <2>2, PaceCount
  <2>3. CASE Restart
    BY <2>1, <2>3, PaceRestart
  <2>4. CASE \E slices \in BOOLEAN : Trip(slices)
    BY <2>1, <2>4, PaceTrip
  <2>5. CASE UNCHANGED vars
    BY <2>5, PaceStutter
  <2> QED
    BY <2>2, <2>3, <2>4, <2>5 DEF Next
<1> QED
  BY <1>1, <1>2, PTL DEF Spec

\* Between two trips: no gate has stayed shut for longer than its time.
LEMMA PaceGivesGates == PaceInv => GatesOpen
<1> SUFFICES ASSUME PaceInv, trip = 0 PROVE GatesOpen
  BY DEF GatesOpen
<1>1. /\ \A t \in Timers : age[t] \in Nat /\ Since(t) \in Nat
      /\ processorStart \in Nat
  BY ClockTypes, Lengths DEF PaceInv
<1>2. ASSUME NEW t \in Timers, NEW wait \in Nat, Waits(t, wait) PROVE age[t] <= wait
  BY <1>1, <1>2 DEF Waits
<1>3. ASSUME NEW t \in Timers, NEW wait \in Nat, WaitsInRound(t, wait)
      PROVE  age[t] <= wait \/ age["roundStart"] <= wait + MAXTRIP
  <2>1. age["roundStart"] \in Nat /\ Since(t) \in Nat /\ MAXTRIP \in Nat
    BY <1>1, Lengths DEF Timers
  <2>2. CASE Waits(t, wait)
    BY <1>2, <2>2
  <2>3. CASE ~Waits(t, wait)
    BY <1>3, <2>1, <2>3 DEF WaitsInRound
  <2> QED
    BY <2>2, <2>3
<1>4. \/ age["lastDisintegrated"] <= SMOKE
      \/ Late /\ age["lastDisintegrated"] <= SMOKE + processorStart
  <2> DEFINE D == "lastDisintegrated"
  <2>1. D \in Timers /\ age[D] \in Nat /\ Since(D) \in Nat /\ SMOKE \in Nat
    BY <1>1, Lengths DEF Timers
  <2>2. CASE Waits(D, SMOKE)
    BY <1>2, <2>1, <2>2, Zenon
  <2>3. CASE ~Waits(D, SMOKE)
    BY <1>1, <2>1, <2>3 DEF PaceInv, CrumblesInTime, NotYetLate
  <2> QED
    BY <2>2, <2>3
<1>5. PACE \in Nat /\ DELAY \in Nat /\ MAXSPAWN \in Nat
  BY Lengths
<1>6. gstate = Round => age["lastPhysixed"] <= PACE \/ age["roundStart"] <= PACE + MAXTRIP
  BY <1>3, <1>5 DEF PaceInv, Timers
<1>7. nextState # NoChange => age["changeTimer"] <= DELAY
  BY <1>2, <1>5 DEF PaceInv, Timers
<1>8. spawnOn /\ thrown =>
        age["lastSpawned"] <= MAXSPAWN \/ age["roundStart"] <= MAXSPAWN + MAXTRIP
  BY <1>3, <1>5 DEF PaceInv, Timers
<1> QED
  BY <1>4, <1>6, <1>7, <1>8 DEF GatesOpen, Late

\* After every trip each gate has been open in time, restarts of the counter
\* included, for every counter and all lengths of time.
THEOREM GatesOpenHolds == Spec => []GatesOpen
BY PaceInvariant, PaceGivesGates, PTL
=============================================================================
