----------------------------- MODULE LoopClock -----------------------------
(***************************************************************************)
(* The clock of the game and what the main loop makes of it.  system_clock *)
(* counts hundredths of a second and restarts after TOP + 1.  main() reads *)
(* it once a trip, takes the difference to its own start, and keeps five   *)
(* such readings; an engine runs when the difference to its last reading,  *)
(* in unsigned arithmetic, is large enough.                                *)
(* A trip is one action, as the clock is read once in it.  Of the game     *)
(* only what the gates depend on is kept: the menu, a round (that is not   *)
(* lost) and its end.  GameLoop has the rest, and takes the differences    *)
(* for the time that has passed.                                           *)
(***************************************************************************)
EXTENDS Integers

CONSTANTS
  TOP,             \* 1000000
  UINT,            \* the number of values of an unsigned long, 2^32
  Starts,          \* what the clock may read when the program starts
  PACE,            \* ticks between two moves, 5
  SMOKE,           \* between two steps of crumbling, 20
  SpawnTimes,      \* between two throws, what rand() may give
  MAXSPAWN,        \* the longest of them, 99
  DELAY,           \* of a change of screen, 100
  SECOND, ROUND,   \* ticks in a second, 100; seconds in a round, 60
  MAXTRIP,         \* bound on the ticks in a trip round the loop
  OLD              \* bound on the history: ages are counted up to OLD

Timers == {"lastPhysixed", "lastSpawned", "lastDisintegrated",
           "roundStart", "changeTimer"}

\* The program never sees the whole range of its unsigned differences in one
\* round of the counter, nor a round of the counter in one trip.
ASSUME ClockAssumption ==
  /\ TOP \in Nat /\ UINT \in Nat /\ UINT > 2 * (TOP + 1)
  /\ Starts \subseteq 0 .. TOP

ASSUME GateAssumption ==
  /\ PACE \in Nat /\ SMOKE \in Nat /\ DELAY \in Nat
  /\ MAXSPAWN \in Nat /\ SpawnTimes \subseteq 0 .. MAXSPAWN
  /\ SECOND \in Nat \ {0} /\ ROUND \in Nat
  /\ MAXTRIP \in Nat \ {0}

ASSUME AgeAssumption ==
  /\ OLD \in Nat /\ OLD < TOP
  /\ OLD > PACE /\ OLD > SMOKE /\ OLD > DELAY + MAXTRIP
  /\ OLD > MAXSPAWN + MAXTRIP
  /\ OLD > (ROUND + 1) * SECOND + DELAY + MAXTRIP

\* A trip, with the waits of the engines, is short beside the counter, and the
\* counter short beside the range of the differences.
ASSUME PaceAssumption ==
  /\ UINT > 3 * (TOP + 1)
  /\ 2 * MAXTRIP <= TOP /\ PACE + MAXTRIP <= TOP /\ SMOKE + MAXTRIP <= TOP

VARIABLES
  Clk_100,          \* the counter
  processorStart,
  reading,          \* the five readings, each a difference to processorStart
  nextSpawnTime,
  gstate, nextState,
  physixOn, spawnOn,
  trip,             \* ticks since the clock was last read
  age,              \* history: ticks since each reading was taken, up to OLD
  stale,            \* history: readings never taken, or taken before the
                    \* counter last restarted
  thrown            \* history: something has been thrown

vars == <<Clk_100, processorStart, reading, nextSpawnTime, gstate, nextState,
          physixOn, spawnOn, trip, age, stale, thrown>>

Menu == 0
Round == 1
Won == 4
NoChange == -1

-----------------------------------------------------------------------------
\* Subtraction of unsigned numbers.
Minus(a, b) == (a - b) % UINT

elapsedTime == Minus(Clk_100, processorStart)

Since(t) == Minus(elapsedTime, reading[t])

\* The first three readings are started with the time of day in place of a
\* difference, and nextSpawnTime, a length of time, with it too.  A change
\* to the menu is pending from the start, as of time 0.
Init ==
  /\ Clk_100 \in Starts
  /\ processorStart = Clk_100
  /\ reading = [t \in Timers |-> IF t \in {"roundStart", "changeTimer"}
                                 THEN 0 ELSE processorStart]
  /\ nextSpawnTime = processorStart
  /\ gstate = Menu /\ nextState = Menu
  /\ physixOn = FALSE /\ spawnOn = FALSE
  /\ trip = 0
  /\ age = [t \in Timers |-> 0]
  /\ stale = Timers \ {"changeTimer"}
  /\ thrown = FALSE

-----------------------------------------------------------------------------
(* The counter.                                                            *)

Older(n) == IF n < OLD THEN n + 1 ELSE OLD

\* A hundredth of a second.  (The loop is never longer than MAXTRIP.)
Count ==
  /\ Clk_100 <= TOP
  /\ trip < MAXTRIP
  /\ Clk_100' = Clk_100 + 1
  /\ trip' = trip + 1
  /\ age' = [t \in Timers |-> Older(age[t])]
  /\ UNCHANGED <<processorStart, reading, nextSpawnTime, gstate, nextState,
                 physixOn, spawnOn, stale, thrown>>

\* One cycle of 50 MHz after TOP + 1 has been reached.
Restart ==
  /\ Clk_100 > TOP
  /\ Clk_100' = 0
  /\ stale' = Timers
  /\ UNCHANGED <<processorStart, reading, nextSpawnTime, gstate, nextState,
                 physixOn, spawnOn, trip, age, thrown>>

-----------------------------------------------------------------------------
(* A trip round the loop.                                                  *)

\* Mutant: a gate opens one tick early.
DueEarly(t, wait) == Since(t) >= wait

\* Mutant: the difference is taken for a signed number.
DueSigned(t, wait) == Since(t) < UINT \div 2 /\ Since(t) > wait

Due(t, wait) == Since(t) > wait

\* statusEngine(): the timer of the round has reached zero.
TimeUp == gstate = Round /\ Since("roundStart") \div SECOND = ROUND

Decided == IF TimeUp THEN Won ELSE nextState

\* Physics is switched on in a round and off in the menu.
PhysixOn == gstate = Round \/ (gstate # Menu /\ physixOn)

SpawnOn == spawnOn /\ ~TimeUp

\* The gates, in the order of main().
Moves == PhysixOn /\ Due("lastPhysixed", PACE)
Throws == SpawnOn /\ Due("lastSpawned", nextSpawnTime)
Crumbles == Due("lastDisintegrated", SMOKE)
Changes == nextState # NoChange /\ Due("changeTimer", DELAY)

Shown == IF Changes THEN Decided ELSE gstate

\* What is kept of the moment.
Now == elapsedTime

Take(taken) ==
  /\ reading' = [t \in Timers |-> IF t \in taken THEN Now ELSE reading[t]]
  /\ age' = [t \in Timers |-> IF t \in taken THEN 0 ELSE age[t]]
  /\ stale' = stale \ taken

\* The player may slice a fruit of the menu, which starts a round, or the
\* fruit of the end screen, which leaves it.
Trip(slices) ==
  LET starts == slices /\ Shown = Menu
      leaves == slices /\ Shown = Won
  IN /\ Take({t \in Timers :
                \/ t = "changeTimer" /\ nextState = NoChange
                \/ t = "lastPhysixed" /\ Moves
                \/ t = "lastSpawned" /\ Throws
                \/ t = "lastDisintegrated" /\ Crumbles
                \/ t = "roundStart" /\ starts})
     /\ \/ Throws /\ nextSpawnTime' \in SpawnTimes
        \/ ~Throws /\ UNCHANGED nextSpawnTime
     /\ nextState' = IF Changes THEN NoChange ELSE Decided
     /\ gstate' = IF starts THEN Round ELSE IF leaves THEN Menu ELSE Shown
     /\ physixOn' = (starts \/ leaves \/ (PhysixOn /\ ~Changes))
     /\ spawnOn' = (starts \/ (SpawnOn /\ ~Changes))
     /\ trip' = 0
     /\ thrown' = (thrown \/ Throws)
     /\ UNCHANGED <<Clk_100, processorStart>>

Next == Count \/ Restart \/ \E slices \in BOOLEAN : Trip(slices)

Spec == Init /\ [][Next]_vars

-----------------------------------------------------------------------------
\* Every variable is in its range.
TypeOK ==
  /\ Clk_100 \in 0 .. TOP + 1
  /\ processorStart \in Starts
  /\ reading \in [Timers -> 0 .. UINT - 1]
  /\ nextSpawnTime \in Starts \cup SpawnTimes
  /\ gstate \in {Menu, Round, Won}
  /\ nextState \in {Menu, Won, NoChange}
  /\ physixOn \in BOOLEAN /\ spawnOn \in BOOLEAN
  /\ trip \in 0 .. MAXTRIP
  /\ age \in [Timers -> 0 .. OLD]
  /\ stale \subseteq Timers
  /\ thrown \in BOOLEAN

\* As long as the counter does not restart, the differences the program
\* takes are the ticks that have passed, whatever its start was: this is
\* what GameLoop takes for granted.
DifferencesTrue ==
  \A t \in Timers \ stale : age[t] < OLD => Since(t) = age[t]

\* No engine runs, nothing is thrown, no screen changes and no round is won
\* before its time, which for a throw is the wait the last throw asked for.
\* Excepted is a reading never taken, as at the first throw, or taken before
\* the counter restarted: on such a one a gate may be open at any moment.
NotEarly ==
  [][/\ age'["lastPhysixed"] < age["lastPhysixed"] =>
          "lastPhysixed" \in stale \/ age["lastPhysixed"] > PACE
     /\ age'["lastSpawned"] < age["lastSpawned"] =>
          "lastSpawned" \in stale \/ age["lastSpawned"] > nextSpawnTime
     /\ age'["lastDisintegrated"] < age["lastDisintegrated"] =>
          "lastDisintegrated" \in stale \/ age["lastDisintegrated"] > SMOKE
     /\ nextState # NoChange /\ nextState' = NoChange =>
          "changeTimer" \in stale \/ age["changeTimer"] > DELAY
     /\ gstate = Round /\ nextState # Won /\ Won \in {nextState', gstate'} =>
          "roundStart" \in stale \/ age["roundStart"] >= ROUND * SECOND]_vars

\* And after every trip each gate has been open in time, restarts included:
\* objects move, crumble and are thrown, and a pending screen is shown.  A
\* round may begin when its engine's last reading, one of before a restart or
\* the first one, has just come up again: it then waits as if that were new;
\* and so does what crumbles when the program starts with the counter.  (The
\* very first throw is excepted, see ThrowsSoon.)
GatesOpen ==
  trip = 0 =>
    /\ physixOn /\ gstate = Round =>
         age["lastPhysixed"] <= PACE \/ age["roundStart"] <= PACE + MAXTRIP
    /\ \/ age["lastDisintegrated"] <= SMOKE
       \/ "lastDisintegrated" \in stale /\ processorStart <= MAXTRIP
            /\ age["lastDisintegrated"] <= SMOKE + processorStart
    /\ nextState # NoChange => age["changeTimer"] <= DELAY
    /\ spawnOn /\ thrown =>
         \/ age["lastSpawned"] <= MAXSPAWN
         \/ age["roundStart"] <= MAXSPAWN + MAXTRIP

-----------------------------------------------------------------------------
(* Why they hold.                                                          *)

\* A reading that is not stale is the counter's value of age ticks ago.
ReadingsTrue ==
  \A t \in Timers \ stale :
    age[t] < OLD =>
      /\ age[t] <= Clk_100
      /\ reading[t] = Minus(Clk_100 - age[t], processorStart)

\* The wait is one of those that are drawn, no more a time of day, once the
\* reading it goes with is one of the game's own.
WaitDrawn == "lastSpawned" \notin stale => nextSpawnTime \in SpawnTimes

ClockInv == TypeOK /\ ReadingsTrue /\ WaitDrawn

\* A difference that is beyond every wait, and stays so until the next trip:
\* the counter restarts at most once in a trip, and if it has not yet, there
\* is as much to spare as it goes back by.
Far(t) ==
  /\ Since(t) >= OLD /\ Since(t) + (MAXTRIP - trip) < UINT
  /\ Clk_100 <= trip \/ Since(t) >= OLD + TOP + 1

\* An engine that waits sees no less time than has passed, or its gate is
\* open already.
Waits(t, wait) ==
  \/ age[t] <= Since(t) /\ Since(t) <= wait + trip
  \/ Far(t) /\ age[t] <= wait + trip

\* In a round one may also wait on a reading of before it: until the first
\* trip of the round nothing is known of it, afterwards it came up again in
\* the trip in which the round began.
WaitsInRound(t, wait) ==
  \/ Waits(t, wait)
  \/ age["roundStart"] <= trip
  \/ Since(t) <= wait + trip /\ age["roundStart"] <= Since(t) + MAXTRIP
  \/ Far(t) /\ age["roundStart"] <= wait + MAXTRIP + trip

\* What crumbles is started with the counter's value in place of a difference,
\* processorStart too much: its gate is open at once, unless the first trip
\* is as late as that.
Late == "lastDisintegrated" \in stale /\ processorStart <= MAXTRIP

NotYetLate ==
  /\ Late /\ trip < processorStart
  /\ Clk_100 = processorStart + trip /\ age["lastDisintegrated"] = trip
  /\ Since("lastDisintegrated") = UINT - processorStart + trip

CrumblesInTime ==
  \/ Waits("lastDisintegrated", SMOKE)
  \/ NotYetLate
  \/ /\ Late
     /\ age["lastDisintegrated"] <= Since("lastDisintegrated") + processorStart
     /\ Since("lastDisintegrated") <= SMOKE + trip
  \/ /\ Late /\ Far("lastDisintegrated")
     /\ age["lastDisintegrated"] <= SMOKE + processorStart + trip

\* GatesOpen between two trips as well: what every step preserves.
PaceInv ==
  /\ TypeOK
  /\ thrown => nextSpawnTime \in SpawnTimes
  /\ nextState # NoChange => Waits("changeTimer", DELAY)
  /\ gstate = Round => WaitsInRound("lastPhysixed", PACE)
  /\ spawnOn /\ thrown => WaitsInRound("lastSpawned", MAXSPAWN)
  /\ CrumblesInTime

-----------------------------------------------------------------------------
(* What comments of the source say and the clock does not keep.            *)

\* "check if our timer ended" (main.c): a round would be over ROUND seconds
\* after it began, and what it takes to notice and to show that.
RoundEndsInTime ==
  gstate = Round =>
    age["roundStart"] <= (ROUND + 1) * SECOND + DELAY + MAXTRIP

\* "greater than random time" (main.c): the first throw would come within the
\* longest of the random times, and a trip, after the first round has begun.
ThrowsSoon ==
  spawnOn /\ ~thrown => age["roundStart"] <= MAXSPAWN + MAXTRIP
=============================================================================
