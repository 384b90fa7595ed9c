------------------------------ MODULE GameLoop ------------------------------
(***************************************************************************)
(* The game's main loop, software/Vegetable-Viking/main.c, as the          *)
(* sequential program it is: one action per engine, in the order main()    *)
(* calls them.  Kept: the game state machine, the delayed state change,    *)
(* the round's clock, the lives, the life cycle of every object slot and   *)
(* the two switches (physics, spawning).  Abstracted: positions and        *)
(* velocities (which objects leave the screen or lie under the cursor is   *)
(* any subset), score and combo, and the pacing of the physics, spawning   *)
(* and disintegration engines (each loop they may or may not be due).      *)
(* The 100 Hz counter is read once per loop; only the two differences the  *)
(* control depends on are kept, so the model covers a run during which     *)
(* the counter does not wrap.                                              *)
(***************************************************************************)
EXTENDS Integers, FiniteSets

CONSTANTS
  NVEG,          \* vegetable slots: objects 1..8 of veggieObject
  SECOND,        \* ticks of the 100 Hz counter in a second (100)
  ROUND,         \* length of a round in seconds (60)
  DELAY,         \* ticks a state change is delayed by (100)
  MAXSTEP,       \* most ticks between two readings of the counter
  MEDIUMLIVES,   \* lives of a medium round (5)
  HARDLIVES      \* lives of a hard round (3)

\* The menu uses slots 1 to 3 and the end screens slot 4.  One trip round the
\* loop takes at most a second: the equality test on the timer relies on it.
ASSUME ConstantsAssumption ==
  /\ NVEG \in Nat /\ NVEG >= 4
  /\ SECOND \in Nat \ {0}
  /\ ROUND \in Nat \ {0}
  /\ DELAY \in Nat
  /\ MAXSTEP \in Nat \ {0} /\ MAXSTEP <= SECOND
  /\ MEDIUMLIVES \in Nat \ {0}
  /\ HARDLIVES \in Nat \ {0}

VARIABLES
  pc,            \* the engine the loop is about to call
  gstate,        \* veggieObject[0].objectState
  lives,         \* veggieObject[0].objectType
  timer,         \* veggieObject[0].yPosition
  ostate,        \* veggieObject[1..9].objectState
  nextState,     \* the delayed state change, -1 when there is none
  changeAge,     \* elapsedTime - changeTimer
  roundAge,      \* elapsedTime - roundStart while a round is played, else 0
  physixOn,
  spawnOn

vars == <<pc, gstate, lives, timer, ostate, nextState, changeAge, roundAge,
          physixOn, spawnOn>>

Veggies      == 1 .. NVEG
Bomb         == NVEG + 1
Slots        == 1 .. Bomb
MenuSlots    == 1 .. 3
ContinueSlot == 4

\* Values of veggieObject[0].objectState; round m is started by menu slot m.
Menu   == 0
Easy   == 1
Medium == 2
Hard   == 3
Won    == 4
Lost   == 5
NoChange == -1

\* Values of the objectState of an object.  Only a bomb reaches BombSmoke.
Empty     == 0
Whole     == 1
Cut       == 2
Crumbling == 3
BombSmoke == 4

Engines == {"clock", "status", "physics", "spawn", "disintegrate", "change",
            "slice", "send"}

Playing    == gstate \in {Easy, Medium, Hard}
RoundTicks == ROUND * SECOND

-----------------------------------------------------------------------------
(* The steps of one trip round the loop.                                   *)

\* At the loop's head main() is set up: three menu fruits, and a change to
\* the menu (nextState = 0) pending since time 0.
Init ==
  /\ pc = "clock"
  /\ gstate = Menu
  /\ lives = 0
  /\ timer = 0
  /\ ostate = [i \in Slots |-> IF i \in MenuSlots THEN Whole ELSE Empty]
  /\ nextState = Menu
  /\ changeAge = 0
  /\ roundAge = 0
  /\ physixOn = FALSE
  /\ spawnOn = FALSE

Call(from, to) == pc = from /\ pc' = to

\* Mutant: changeTimer follows the clock whether or not a change is pending.
AgeOfChangeAlwaysReset(d) == 0

\* changeTimer follows the clock for as long as no change is pending.
AgeOfChange(d) == IF nextState = NoChange THEN 0 ELSE changeAge + d

\* Mutant: roundStart follows the clock too.
AgeOfRoundAlwaysReset(d) == 0

AgeOfRound(d) == IF Playing THEN roundAge + d ELSE 0

\* The counter is read, d ticks after the last reading.
ReadClock(d) ==
  /\ Call("clock", "status")
  /\ changeAge' = AgeOfChange(d)
  /\ roundAge' = AgeOfRound(d)
  /\ UNCHANGED <<gstate, lives, timer, ostate, nextState, physixOn, spawnOn>>

\* Mutant: the round is one second short.
TimeLeftShort(age) == ROUND - 1 - (age \div SECOND)

\* The timer the status engine computes: it may be negative.
TimeLeft(age) == ROUND - (age \div SECOND)

OutOfLives == gstate \in {Medium, Hard} /\ lives <= 0

\* Mutants: the verdict is reached and spawning goes on; every verdict sends
\* the player straight to the menu.
DecideAndSpawnOn(verdict) == nextState' = verdict /\ UNCHANGED spawnOn
DecideMenu(verdict) == nextState' = Menu /\ spawnOn' = FALSE

Decide(verdict) == nextState' = verdict /\ spawnOn' = FALSE

\* statusEngine() during a round.  The timer is tested before the lives.
StatusOfRound ==
  /\ Call("status", "physics")
  /\ Playing
  /\ physixOn' = TRUE
  /\ timer' = TimeLeft(roundAge)
  /\ \/ timer' = 0 /\ Decide(Won)
     \/ timer' # 0 /\ OutOfLives /\ Decide(Lost)
     \/ timer' # 0 /\ ~OutOfLives /\ UNCHANGED <<nextState, spawnOn>>
  /\ UNCHANGED <<gstate, lives, ostate, changeAge, roundAge>>

\* statusEngine() in the menu: the status and the three fruits are reset.
StatusOfMenu ==
  /\ Call("status", "physics")
  /\ gstate = Menu
  /\ physixOn' = FALSE
  /\ timer' = 0
  /\ lives' = 0
  /\ ostate' = [i \in Slots |-> IF i \in MenuSlots THEN Whole ELSE ostate[i]]
  /\ UNCHANGED <<gstate, nextState, changeAge, roundAge, spawnOn>>

\* statusEngine() on an end screen does nothing.
StatusOfEnd ==
  /\ Call("status", "physics")
  /\ gstate \in {Won, Lost}
  /\ UNCHANGED <<gstate, lives, timer, ostate, nextState, changeAge, roundAge,
                 physixOn, spawnOn>>

\* physicsEngine(): the objects that leave the screen are removed, whole or
\* cut.  Not called, or nothing leaves: out is empty.
Physics(out) ==
  /\ Call("physics", "spawn")
  /\ out # {} => physixOn
  /\ ostate' = [i \in Slots |-> IF i \in out THEN Empty ELSE ostate[i]]
  /\ UNCHANGED <<gstate, lives, timer, nextState, changeAge, roundAge,
                 physixOn, spawnOn>>

\* The patterns main() draws from, rand() % 5, % 7 or % 9.
Patterns(g) ==
  CASE g = Easy -> 0 .. 4 [] g = Medium -> 0 .. 6 [] g = Hard -> 0 .. 8

FreeVeggies == {i \in Veggies : ostate[i] = Empty}

\* Vegetables asked for by a pattern: one, and one more for each of 4..p-1.
Batch(p) == IF p >= 5 THEN p - 3 ELSE 1

ThrowsBomb(p) == p > 6 /\ ostate[Bomb] = Empty

\* The slots spawningEngine(p) may fill.  Each vegetable tries eight random
\* slots and may find none, unless all are free.
Spawnable(p) ==
  IF p = 0 THEN {{}}
  ELSE IF ThrowsBomb(p) THEN {{Bomb}}
  ELSE {s \in SUBSET FreeVeggies :
          /\ Cardinality(s) <= Batch(p)
          /\ FreeVeggies = Veggies => s # {}}

Spawn ==
  /\ Call("spawn", "disintegrate")
  /\ spawnOn
  /\ \E p \in Patterns(gstate) : \E s \in Spawnable(p) :
       ostate' = [i \in Slots |-> IF i \in s THEN Whole ELSE ostate[i]]
  /\ UNCHANGED <<gstate, lives, timer, nextState, changeAge, roundAge,
                 physixOn, spawnOn>>

\* Spawning is switched off, or the random time has not passed.
NoSpawn ==
  /\ Call("spawn", "disintegrate")
  /\ UNCHANGED <<gstate, lives, timer, ostate, nextState, changeAge, roundAge,
                 physixOn, spawnOn>>

\* What disintegrateEngine() makes of one object: cut, crumbling, gone; the
\* bomb has one stage more.
Disintegrated(i) ==
  CASE ostate[i] = Cut -> Crumbling
    [] ostate[i] = Crumbling /\ i = Bomb -> BombSmoke
    [] ostate[i] = Crumbling /\ i # Bomb -> Empty
    [] ostate[i] = BombSmoke -> Empty
    [] OTHER -> ostate[i]

Disintegrate ==
  /\ Call("disintegrate", "change")
  /\ \/ ostate' = [i \in Slots |-> Disintegrated(i)]
     \/ UNCHANGED ostate
  /\ UNCHANGED <<gstate, lives, timer, nextState, changeAge, roundAge,
                 physixOn, spawnOn>>

\* Mutant: the clearing loop stops one short and leaves the bomb.
ClearedOneShort == ContinueSlot .. NVEG

Cleared == ContinueSlot .. Bomb

\* The delayed change is made: slots 4 to 9 are cleared, an end screen puts
\* the Continue fruit in slot 4.  Slots 1 to 3 keep what they hold.
ChangeState ==
  /\ Call("change", "slice")
  /\ nextState # NoChange /\ changeAge > DELAY
  /\ gstate' = nextState
  /\ nextState' = NoChange
  /\ physixOn' = FALSE
  /\ spawnOn' = FALSE
  /\ ostate' = [i \in Slots |->
                  IF i = ContinueSlot /\ nextState \in {Won, Lost} THEN Whole
                  ELSE IF i \in Cleared THEN Empty ELSE ostate[i]]
  /\ timer' = IF nextState = Won THEN 0 ELSE timer
  /\ roundAge' = 0
  /\ UNCHANGED <<lives, changeAge>>

NoStateChange ==
  /\ Call("change", "slice")
  /\ nextState = NoChange \/ changeAge <= DELAY
  /\ UNCHANGED <<gstate, lives, timer, ostate, nextState, changeAge, roundAge,
                 physixOn, spawnOn>>

\* Mutant: medium rounds forget to set the lives.
LivesOfForgetsMedium(m) ==
  CASE m = Easy -> 0 [] m = Medium -> lives [] m = Hard -> HARDLIVES

LivesOf(m) ==
  CASE m = Easy -> 0 [] m = Medium -> MEDIUMLIVES [] m = Hard -> HARDLIVES

\* slicingEngine() in the menu, the cursor streaking over a start region.
SliceStart(m) ==
  /\ Call("slice", "send")
  /\ gstate = Menu
  /\ gstate' = m
  /\ lives' = LivesOf(m)
  /\ physixOn' = TRUE
  /\ spawnOn' = TRUE
  /\ ostate' = [ostate EXCEPT ![m] = Cut]
  /\ roundAge' = 0
  /\ UNCHANGED <<timer, nextState, changeAge>>

\* slicingEngine() on an end screen, the cursor in the Continue region.
SliceContinue ==
  /\ Call("slice", "send")
  /\ gstate \in {Won, Lost}
  /\ gstate' = Menu
  /\ physixOn' = TRUE
  /\ ostate' = [ostate EXCEPT ![ContinueSlot] = Cut]
  /\ UNCHANGED <<lives, timer, nextState, changeAge, roundAge, spawnOn>>

SliceNothing ==
  /\ Call("slice", "send")
  /\ UNCHANGED <<gstate, lives, timer, ostate, nextState, changeAge, roundAge,
                 physixOn, spawnOn>>

\* Mutant: an object already cut can be cut again.
CuttableAgain(i) == ostate[i] \in {Whole, Cut}

Cuttable(i) == ostate[i] = Whole

Targets == {i \in Slots : Cuttable(i)}

\* slicingEngine() in a round, and in the menu while the cursor has no
\* streak: every whole object under the cursor is cut, the bomb costs a life.
SliceObjects(hit) ==
  /\ Call("slice", "send")
  /\ gstate \notin {Won, Lost}
  /\ ostate' = [i \in Slots |-> IF i \in hit THEN Cut ELSE ostate[i]]
  /\ lives' = IF Bomb \in hit THEN lives - 1 ELSE lives
  /\ UNCHANGED <<gstate, timer, nextState, changeAge, roundAge, physixOn,
                 spawnOn>>

\* port2Unpackager() samples the cursor, FPGAcommunicator() sends the frame;
\* neither changes the state kept here.  HwSwLink models the sending.
UnpackAndSend ==
  /\ Call("send", "clock")
  /\ UNCHANGED <<gstate, lives, timer, ostate, nextState, changeAge, roundAge,
                 physixOn, spawnOn>>

Occupied == {i \in Slots : ostate[i] # Empty}

Next ==
  \/ \E d \in 0 .. MAXSTEP : ReadClock(d)
  \/ StatusOfRound \/ StatusOfMenu \/ StatusOfEnd
  \/ \E out \in SUBSET Occupied : Physics(out)
  \/ Spawn \/ NoSpawn
  \/ Disintegrate
  \/ ChangeState \/ NoStateChange
  \/ \E m \in {Easy, Medium, Hard} : SliceStart(m)
  \/ SliceContinue \/ SliceNothing
  \/ \E hit \in SUBSET Targets : SliceObjects(hit)
  \/ UnpackAndSend

Spec == Init /\ [][Next]_vars

\* The loop never stops, and the counter is free-running: however many trips
\* fit in a tick, some later trip finds it advanced.
Fairness ==
  /\ WF_vars(Next)
  /\ SF_vars(\E d \in 1 .. MAXSTEP : ReadClock(d))

FairSpec == Spec /\ Fairness

-----------------------------------------------------------------------------
(* What the loop must keep.                                                *)

\* Every variable holds a value of its range.
TypeOK ==
  /\ pc \in Engines
  /\ gstate \in Menu .. Lost
  /\ lives \in Int
  /\ timer \in Int
  /\ ostate \in [Slots -> Empty .. BombSmoke]
  /\ nextState \in {NoChange, Menu, Won, Lost}
  /\ changeAge \in Nat
  /\ roundAge \in Nat
  /\ physixOn \in BOOLEAN
  /\ spawnOn \in BOOLEAN

\* However bombs are spawned, cut and blown up while a verdict is pending,
\* the lives sent to the display are never negative: messagePackager() could
\* not pack them, and its "<= 0" test would hide it.
LivesNeverNegative == lives >= 0

\* A bomb exists in a hard round only, in any state, and none is left over
\* when the round is followed by another one.
BombOnlyInHard == ostate[Bomb] # Empty => gstate = Hard

\* A pending verdict is earned: a round is won after its full time only, and
\* lost only in hard mode with no lives left.
VerdictEarned ==
  /\ nextState = Won => Playing /\ roundAge >= RoundTicks
  /\ nextState = Lost => gstate = Hard /\ lives = 0

\* An end screen is at rest: the Continue fruit is whole until it is sliced,
\* no other object of slots 5 to 9 is on the screen, physics and spawning are
\* off and nothing is pending.  A won round shows no time left.
EndScreenAtRest ==
  gstate \in {Won, Lost} =>
    /\ ostate[ContinueSlot] = Whole
    /\ \A i \in Slots : i > ContinueSlot => ostate[i] = Empty
    /\ ~physixOn /\ ~spawnOn
    /\ nextState = NoChange
    /\ gstate = Won => timer = 0

\* A round ends within its time, the second during which the timer reads
\* zero, the delay of the change and one late trip round the loop.
RoundBounded ==
  Playing => roundAge < RoundTicks + SECOND + DELAY + MAXSTEP

\* While the last screen is fading nothing new is thrown: once a round has a
\* verdict, no empty slot is filled until the verdict is shown.
NothingThrownAfterVerdict ==
  [][(nextState \in {Won, Lost} /\ gstate' = gstate) =>
       \A i \in Slots : ostate[i] = Empty => ostate'[i] = Empty]_vars

\* Only the verdict of the round ends a round.  The one exception is the
\* change to the menu pending since boot, which takes back a round started in
\* the first DELAY ticks.
RoundsEndByVerdict ==
  [][(Playing /\ gstate' # gstate) =>
       \/ gstate' \in {Won, Lost}
       \/ gstate' = Menu /\ roundAge <= changeAge]_vars

\* Every round ends, whatever the player does.
RoundEnds == Playing ~> ~Playing

\* The loop implements the game of GameFlow.
ScreenOf(g) ==
  CASE g = Menu -> "menu" [] g = Easy -> "easy" [] g = Medium -> "medium"
    [] g = Hard -> "hard" [] g = Won -> "won" [] g = Lost -> "lost"

Flow == INSTANCE GameFlow WITH
  screen  <- ScreenOf(gstate),
  verdict <- IF nextState = NoChange THEN "none" ELSE ScreenOf(nextState),
  lives   <- IF Playing THEN lives ELSE 0

\* Safety and liveness of GameFlow: every step of the loop is one of its
\* steps or none, the round's time runs out and every verdict is shown.
ImplementsGameFlow == Flow!FlowSpec

-----------------------------------------------------------------------------
(* Why they hold: the invariant that every step preserves.                 *)

\* The lives follow the mode.
LivesOfMode ==
  /\ lives >= 0
  /\ gstate = Easy => lives = 0
  /\ gstate = Medium => lives = MEDIUMLIVES

\* When the last life is lost the one bomb is no longer whole, and spawning
\* is switched off before the spawning engine is reached again.
LastBombGone ==
  gstate = Hard /\ lives = 0 =>
    /\ ostate[Bomb] # Whole
    /\ spawnOn => pc \in {"send", "clock", "status"}

\* Objects are thrown in a round that has no verdict yet, and there only.
SpawningInRound ==
  spawnOn => Playing /\ nextState \notin {Won, Lost}

\* The ages of the round and of the pending change: an undecided round has
\* not used its time, the status engine decides at the latest one trip after
\* it has, and from then on the two ages grow together.
AgesBounded ==
  /\ nextState = NoChange /\ pc = "status" => changeAge = 0
  /\ nextState # NoChange => changeAge <= DELAY + MAXSTEP
  /\ nextState # NoChange /\ pc \in {"slice", "send", "clock"} =>
       changeAge <= DELAY
  /\ Playing /\ nextState = NoChange =>
       /\ roundAge < RoundTicks + SECOND
       /\ pc # "status" => roundAge < RoundTicks
  /\ Playing /\ nextState # NoChange =>
       roundAge < RoundTicks + SECOND + changeAge
  /\ Playing /\ nextState = Menu => roundAge <= changeAge

LoopInv ==
  /\ TypeOK
  /\ LivesOfMode
  /\ BombOnlyInHard
  /\ LastBombGone
  /\ SpawningInRound
  /\ VerdictEarned
  /\ EndScreenAtRest
  /\ AgesBounded

-----------------------------------------------------------------------------
(* What comments of the source say and the loop does not keep.             *)

\* "this means we're game over :(" (main.c, where the lives have run out): a
\* lost round would be shown as lost.
GameOverStands ==
  [][nextState = Lost => nextState' = Lost \/ gstate' = Lost]_vars
=============================================================================
