--------------------------- MODULE GameLoopProofs ---------------------------
(***************************************************************************)
(* Proofs about GameLoop, for every number of slots, length of round, delay *)
(* and number of lives that ConstantsAssumption allows.                    *)
(***************************************************************************)
EXTENDS GameLoop, TLAPS

\* Where the slots with a role of their own lie.
LEMMA SlotFacts ==
  /\ Bomb \in Slots /\ Bomb \in Int /\ Bomb > ContinueSlot
  /\ MenuSlots \subseteq Slots
  /\ ContinueSlot \in Slots
  /\ Bomb \notin MenuSlots /\ ContinueSlot \notin MenuSlots
  /\ Bomb \in Cleared
  /\ \A i \in Slots : i > ContinueSlot => i \in Cleared /\ i \notin MenuSlots
  /\ \A i \in Veggies : i # Bomb
BY ConstantsAssumption
   DEF Bomb, Slots, MenuSlots, ContinueSlot, Cleared, Veggies

\* The timer reads zero during exactly one second, the one that begins when
\* the round has used its time.
LEMMA TimeLeftZero ==
  ASSUME NEW age \in Nat
  PROVE  /\ TimeLeft(age) \in Int
         /\ TimeLeft(age) = 0 <=> RoundTicks <= age /\ age < RoundTicks + SECOND
BY ConstantsAssumption, SMTT(30) DEF TimeLeft, RoundTicks

\* RoundTicks is a product: the proofs use only that it is a positive number.
LEMMA RoundTicksNat == RoundTicks \in Nat /\ RoundTicks > 0
BY ConstantsAssumption, SMTT(30) DEF RoundTicks

-----------------------------------------------------------------------------
(* LoopInv holds initially and every engine preserves it.                  *)

LEMMA InitLoopInv == Init => LoopInv
<1> SUFFICES ASSUME Init PROVE LoopInv
  OBVIOUS
<1> USE SlotFacts, RoundTicksNat, ConstantsAssumption
    DEF Init, Menu, Easy, Medium, Hard, Won, Lost, NoChange, Empty, Whole,
        BombSmoke, Playing
<1>1. TypeOK
  <2>1. ostate \in [Slots -> Empty .. BombSmoke]
    OBVIOUS
  <2>2. pc \in Engines /\ gstate \in Menu .. Lost
    BY DEF Engines
  <2>3. physixOn \in BOOLEAN /\ spawnOn \in BOOLEAN
    BY Zenon
  <2> QED
    BY <2>1, <2>2, <2>3 DEF TypeOK
<1>2. LivesOfMode /\ BombOnlyInHard /\ LastBombGone /\ SpawningInRound
  BY DEF LivesOfMode, BombOnlyInHard, LastBombGone, SpawningInRound
<1>3. VerdictEarned /\ EndScreenAtRest /\ AgesBounded
  BY DEF VerdictEarned, EndScreenAtRest, AgesBounded
<1> QED
  BY <1>1, <1>2, <1>3 DEF LoopInv

LEMMA ReadClockLoopInv ==
  ASSUME LoopInv, NEW d \in 0 .. MAXSTEP, ReadClock(d)
  PROVE  LoopInv'
<1> USE SlotFacts, RoundTicksNat, ConstantsAssumption
    DEF LoopInv, ReadClock, Call, AgeOfChange, AgeOfRound, Playing, Menu, Easy,
        Medium, Hard, Won, Lost, NoChange
<1>1. TypeOK'
  BY DEF TypeOK, Engines
<1>2. LivesOfMode' /\ BombOnlyInHard' /\ LastBombGone' /\ SpawningInRound'
  BY DEF LivesOfMode, BombOnlyInHard, LastBombGone, SpawningInRound, TypeOK
<1>3. VerdictEarned' /\ EndScreenAtRest'
  BY DEF VerdictEarned, EndScreenAtRest, TypeOK
<1>4. AgesBounded'
  BY DEF AgesBounded, TypeOK
<1> QED
  BY <1>1, <1>2, <1>3, <1>4

LEMMA StatusOfRoundLoopInv ==
  ASSUME LoopInv, StatusOfRound
  PROVE  LoopInv'
<1> USE SlotFacts, RoundTicksNat, ConstantsAssumption
    DEF LoopInv, StatusOfRound, Call, Decide, Playing, Menu, Easy, Medium,
        Hard, Won, Lost, NoChange
<1>0. /\ TimeLeft(roundAge) \in Int
      /\ timer' = 0 <=> RoundTicks <= roundAge /\ roundAge < RoundTicks + SECOND
  BY TimeLeftZero DEF TypeOK
<1>1. TypeOK'
  BY <1>0 DEF TypeOK, Engines
<1>2. LivesOfMode' /\ BombOnlyInHard' /\ SpawningInRound'
  BY DEF LivesOfMode, BombOnlyInHard, SpawningInRound, TypeOK
<1>3. LastBombGone'
  BY DEF LastBombGone, OutOfLives, LivesOfMode, TypeOK
<1>4. VerdictEarned'
  BY <1>0 DEF VerdictEarned, OutOfLives, LivesOfMode, TypeOK
<1>5. EndScreenAtRest'
  BY DEF EndScreenAtRest
<1>6. AgesBounded'
  BY <1>0 DEF AgesBounded, TypeOK
<1> QED
  BY <1>1, <1>2, <1>3, <1>4, <1>5, <1>6

LEMMA StatusOfMenuLoopInv ==
  ASSUME LoopInv, StatusOfMenu
  PROVE  LoopInv'
<1> USE SlotFacts, RoundTicksNat, ConstantsAssumption
    DEF LoopInv, StatusOfMenu, Call, Playing, Menu, Easy, Medium, Hard, Won,
        Lost, NoChange, Empty, Whole, BombSmoke
<1>1. TypeOK'
  <2>1. ostate' \in [Slots -> Empty .. BombSmoke]
    BY DEF TypeOK
  <2>2. physixOn' \in BOOLEAN
    BY Zenon
  <2> QED
    BY <2>1, <2>2 DEF TypeOK, Engines
<1>2. LivesOfMode' /\ BombOnlyInHard' /\ LastBombGone' /\ SpawningInRound'
  BY DEF LivesOfMode, BombOnlyInHard, LastBombGone, SpawningInRound, TypeOK
<1>3. VerdictEarned' /\ EndScreenAtRest' /\ AgesBounded'
  BY DEF VerdictEarned, EndScreenAtRest, AgesBounded, TypeOK
<1> QED
  BY <1>1, <1>2, <1>3

LEMMA PhysicsLoopInv ==
  ASSUME LoopInv, NEW out \in SUBSET Occupied, Physics(out)
  PROVE  LoopInv'
<1> USE SlotFacts, RoundTicksNat, ConstantsAssumption
    DEF LoopInv, Physics, Call, Playing, Menu, Easy, Medium, Hard, Won, Lost,
        NoChange, Empty, Whole, BombSmoke
<1>1. TypeOK'
  BY DEF TypeOK, Engines
<1>2. LivesOfMode' /\ BombOnlyInHard' /\ LastBombGone' /\ SpawningInRound'
  BY DEF LivesOfMode, BombOnlyInHard, LastBombGone, SpawningInRound, TypeOK
<1>3. EndScreenAtRest'
  BY DEF EndScreenAtRest, TypeOK
<1>4. VerdictEarned' /\ AgesBounded'
  BY DEF VerdictEarned, AgesBounded, TypeOK
<1> QED
  BY <1>1, <1>2, <1>3, <1>4

\* A bomb is thrown only by a pattern above 6, which only a hard round draws.
LEMMA SpawnableFacts ==
  ASSUME NEW p \in Patterns(gstate), NEW s \in Spawnable(p), Playing
  PROVE  Bomb \in s => gstate = Hard /\ ostate[Bomb] = Empty
<1>1. CASE p = 0
  BY <1>1 DEF Spawnable
<1>2. CASE p # 0 /\ ThrowsBomb(p)
  BY <1>2 DEF Spawnable, ThrowsBomb, Patterns, Playing, Easy, Medium, Hard
<1>3. CASE p # 0 /\ ~ThrowsBomb(p)
  <2>1. s \subseteq Veggies
    BY <1>3 DEF Spawnable, FreeVeggies
  <2> QED
    BY <2>1, SlotFacts
<1> QED
  BY <1>1, <1>2, <1>3

LEMMA SpawnLoopInv ==
  ASSUME LoopInv, Spawn
  PROVE  LoopInv'
<1> USE SlotFacts, RoundTicksNat, ConstantsAssumption
    DEF LoopInv, Spawn, Call, Playing, Menu, Easy, Medium, Hard, Won, Lost,
        NoChange, Empty, Whole, BombSmoke
<1>0. Playing
  BY DEF SpawningInRound
<1>1. PICK s : /\ ostate' = [i \in Slots |-> IF i \in s THEN Whole ELSE ostate[i]]
               /\ Bomb \in s => gstate = Hard
  BY <1>0, SpawnableFacts
<1>2. TypeOK'
  BY <1>1 DEF TypeOK, Engines
<1>3. BombOnlyInHard'
  BY <1>1 DEF BombOnlyInHard, TypeOK
<1>4. LastBombGone'
  BY DEF LastBombGone, TypeOK
<1>5. LivesOfMode' /\ SpawningInRound' /\ VerdictEarned' /\ AgesBounded'
  BY DEF LivesOfMode, SpawningInRound, VerdictEarned, AgesBounded, TypeOK
<1>6. EndScreenAtRest'
  BY <1>0 DEF EndScreenAtRest
<1> QED
  BY <1>2, <1>3, <1>4, <1>5, <1>6

LEMMA DisintegrateLoopInv ==
  ASSUME LoopInv, Disintegrate
  PROVE  LoopInv'
<1> USE SlotFacts, RoundTicksNat, ConstantsAssumption
    DEF LoopInv, Disintegrate, Call, Playing, Menu, Easy, Medium, Hard, Won,
        Lost, NoChange, Empty, Whole, Cut, Crumbling, BombSmoke
<1>1. \A i \in Slots : /\ ostate'[i] \in Empty .. BombSmoke
                       /\ ostate'[i] = Whole <=> ostate[i] = Whole
                       /\ ostate[i] = Empty => ostate'[i] = Empty
  BY DEF Disintegrated, TypeOK
<1>2. TypeOK'
  BY <1>1 DEF TypeOK, Engines
<1>3. LivesOfMode' /\ BombOnlyInHard' /\ LastBombGone' /\ SpawningInRound'
  BY <1>1 DEF LivesOfMode, BombOnlyInHard, LastBombGone, SpawningInRound
<1>4. VerdictEarned' /\ EndScreenAtRest' /\ AgesBounded'
  BY <1>1 DEF VerdictEarned, EndScreenAtRest, AgesBounded, TypeOK
<1> QED
  BY <1>2, <1>3, <1>4

LEMMA ChangeStateLoopInv ==
  ASSUME LoopInv, ChangeState
  PROVE  LoopInv'
<1> USE SlotFacts, RoundTicksNat, ConstantsAssumption
    DEF LoopInv, ChangeState, Call, Playing, Menu, Easy, Medium, Hard, Won,
        Lost, NoChange, Empty, Whole, BombSmoke
<1>0. gstate' \in {Menu, Won, Lost} /\ nextState' = NoChange
  BY DEF TypeOK
<1>1. TypeOK'
  <2>1. ostate' \in [Slots -> Empty .. BombSmoke]
    BY DEF TypeOK
  <2>2. physixOn' \in BOOLEAN /\ spawnOn' \in BOOLEAN
    BY Zenon
  <2> QED
    BY <1>0, <2>1, <2>2 DEF TypeOK, Engines
<1>2. BombOnlyInHard'
  BY DEF BombOnlyInHard, TypeOK
<1>3. LivesOfMode' /\ LastBombGone' /\ SpawningInRound' /\ VerdictEarned'
  BY <1>0 DEF LivesOfMode, LastBombGone, SpawningInRound, VerdictEarned, TypeOK
<1>4. EndScreenAtRest'
  <2> SUFFICES ASSUME gstate' \in {Won, Lost}
               PROVE  EndScreenAtRest'
    BY DEF EndScreenAtRest
  <2>1. ostate'[ContinueSlot] = Whole
    OBVIOUS
  <2>2. \A i \in Slots : i > ContinueSlot => ostate'[i] = Empty
    BY DEF ContinueSlot
  <2>3. gstate' = Won => timer' = 0
    OBVIOUS
  <2> QED
    BY <1>0, <2>1, <2>2, <2>3 DEF EndScreenAtRest
<1>5. AgesBounded'
  BY <1>0 DEF AgesBounded, TypeOK
<1> QED
  BY <1>1, <1>2, <1>3, <1>4, <1>5

LEMMA SliceStartLoopInv ==
  ASSUME LoopInv, NEW m \in {Easy, Medium, Hard}, SliceStart(m)
  PROVE  LoopInv'
<1> USE SlotFacts, RoundTicksNat, ConstantsAssumption
    DEF LoopInv, SliceStart, Call, Playing, Menu, Easy, Medium, Hard, Won,
        Lost, NoChange, Empty, Whole, Cut, BombSmoke
<1>0. m \in MenuSlots /\ LivesOf(m) \in Nat
  BY DEF MenuSlots, LivesOf
<1>1. TypeOK'
  <2>1. ostate \in [Slots -> Empty .. BombSmoke] /\ m \in Slots
    BY <1>0 DEF TypeOK
  <2>2. ostate' \in [Slots -> Empty .. BombSmoke]
    BY <2>1
  <2>3. physixOn' \in BOOLEAN /\ spawnOn' \in BOOLEAN
    BY Zenon
  <2> QED
    BY <1>0, <2>2, <2>3 DEF TypeOK, Engines
<1>2. LivesOfMode' /\ LastBombGone'
  BY <1>0 DEF LivesOfMode, LastBombGone, LivesOf, TypeOK
<1>3. BombOnlyInHard'
  BY <1>0 DEF BombOnlyInHard, TypeOK
<1>4. nextState \notin {Won, Lost}
  BY DEF VerdictEarned
<1>5. SpawningInRound' /\ VerdictEarned' /\ EndScreenAtRest'
  BY <1>4 DEF SpawningInRound, VerdictEarned, EndScreenAtRest
<1>6. AgesBounded'
  BY DEF AgesBounded, TypeOK
<1> QED
  BY <1>1, <1>2, <1>3, <1>5, <1>6

LEMMA SliceContinueLoopInv ==
  ASSUME LoopInv, SliceContinue
  PROVE  LoopInv'
<1> USE SlotFacts, RoundTicksNat, ConstantsAssumption
    DEF LoopInv, SliceContinue, Call, Playing, Menu, Easy, Medium, Hard, Won,
        Lost, NoChange, Empty, Whole, Cut, BombSmoke
<1>1. TypeOK'
  <2>1. ostate' \in [Slots -> Empty .. BombSmoke]
    BY DEF TypeOK
  <2>2. physixOn' \in BOOLEAN
    BY Zenon
  <2> QED
    BY <2>1, <2>2 DEF TypeOK, Engines
<1>2. BombOnlyInHard'
  BY DEF BombOnlyInHard, TypeOK
<1>3. LivesOfMode' /\ LastBombGone' /\ SpawningInRound'
  BY DEF LivesOfMode, LastBombGone, SpawningInRound, EndScreenAtRest
<1>4. VerdictEarned' /\ EndScreenAtRest' /\ AgesBounded'
  BY DEF VerdictEarned, EndScreenAtRest, AgesBounded, TypeOK
<1> QED
  BY <1>1, <1>2, <1>3, <1>4

\* The heart of LivesNeverNegative: the last life goes with the only bomb.
LEMMA SliceObjectsLoopInv ==
  ASSUME LoopInv, NEW hit \in SUBSET Targets, SliceObjects(hit)
  PROVE  LoopInv'
<1> USE SlotFacts, RoundTicksNat, ConstantsAssumption
    DEF LoopInv, SliceObjects, Call, Playing, Menu, Easy, Medium, Hard, Won,
        Lost, NoChange, Empty, Whole, Cut, BombSmoke
<1>0. \A i \in hit : i \in Slots /\ ostate[i] = Whole
  BY DEF Targets, Cuttable
<1>1. TypeOK'
  BY DEF TypeOK, Engines
<1>2. BombOnlyInHard'
  BY <1>0 DEF BombOnlyInHard, TypeOK
<1>3. Bomb \in hit => gstate = Hard /\ lives > 0
  BY <1>0 DEF BombOnlyInHard, LastBombGone, LivesOfMode, TypeOK
<1>4. LivesOfMode'
  BY <1>3 DEF LivesOfMode, TypeOK
<1>5. LastBombGone'
  BY <1>0 DEF LastBombGone, TypeOK
<1>6. VerdictEarned'
  <2>1. nextState = Lost => Bomb \notin hit
    BY <1>3 DEF VerdictEarned
  <2> QED
    BY <2>1 DEF VerdictEarned
<1>7. SpawningInRound' /\ EndScreenAtRest' /\ AgesBounded'
  BY DEF SpawningInRound, EndScreenAtRest, AgesBounded
<1> QED
  BY <1>1, <1>2, <1>4, <1>5, <1>6, <1>7

\* The engines that find nothing to do only move the loop on.
LEMMA IdleLoopInv ==
  ASSUME LoopInv, StatusOfEnd \/ NoSpawn \/ NoStateChange \/ SliceNothing \/ UnpackAndSend
  PROVE  LoopInv'
<1> USE ConstantsAssumption, RoundTicksNat
    DEF LoopInv, Call, StatusOfEnd, NoSpawn, NoStateChange, SliceNothing,
        UnpackAndSend, Playing, Menu, Easy, Medium, Hard, Won, Lost, NoChange
<1>1. TypeOK'
  BY DEF TypeOK, Engines
<1>2. LivesOfMode' /\ BombOnlyInHard' /\ LastBombGone' /\ SpawningInRound'
  BY DEF LivesOfMode, BombOnlyInHard, LastBombGone, SpawningInRound
<1>3. VerdictEarned' /\ EndScreenAtRest'
  BY DEF VerdictEarned, EndScreenAtRest
<1>4. AgesBounded'
  BY DEF AgesBounded, TypeOK
<1> QED
  BY <1>1, <1>2, <1>3, <1>4

-----------------------------------------------------------------------------
(* The theorems.                                                           *)

\* LoopInv is an invariant of the main loop.
THEOREM LoopInvariant == Spec => []LoopInv
<1>1. Init => LoopInv
  BY InitLoopInv
<1>2. LoopInv /\ [Next]_vars => LoopInv'
  <2> SUFFICES ASSUME LoopInv, [Next]_vars PROVE LoopInv'
    OBVIOUS
  <2>1. CASE \E d \in 0 .. MAXSTEP : ReadClock(d)
    BY <2>1, ReadClockLoopInv
  <2>2. CASE StatusOfRound
    BY <2>2, StatusOfRoundLoopInv
  <2>3. CASE StatusOfMenu
    BY <2>3, StatusOfMenuLoopInv
  <2>4. CASE \E out \in SUBSET Occupied : Physics(out)
    BY <2>4, PhysicsLoopInv
  <2>5. CASE Spawn
    BY <2>5, SpawnLoopInv
  <2>6. CASE Disintegrate
    BY <2>6, DisintegrateLoopInv
  <2>7. CASE ChangeState
    BY <2>7, ChangeStateLoopInv
  <2>8. CASE \E m \in {Easy, Medium, Hard} : SliceStart(m)
    BY <2>8, SliceStartLoopInv
  <2>9. CASE SliceContinue
    BY <2>9, SliceContinueLoopInv
  <2>10. CASE \E hit \in SUBSET Targets : SliceObjects(hit)
    BY <2>10, SliceObjectsLoopInv
  <2>11. CASE StatusOfEnd \/ NoSpawn \/ NoStateChange \/ SliceNothing \/ UnpackAndSend
    BY <2>11, IdleLoopInv
  <2>12. CASE UNCHANGED vars
    BY <2>12 DEF vars, LoopInv, TypeOK, LivesOfMode, BombOnlyInHard,
       LastBombGone, SpawningInRound, VerdictEarned, EndScreenAtRest,
       AgesBounded, Playing
  <2> QED
    BY <2>1, <2>2, <2>3, <2>4, <2>5, <2>6, <2>7, <2>8, <2>9, <2>10, <2>11,
       <2>12 DEF Next
<1> QED
  BY <1>1, <1>2, PTL DEF Spec

\* Every variable keeps its range.
THEOREM TypeCorrect == Spec => []TypeOK
BY LoopInvariant, PTL DEF LoopInv

\* The lives shown are never negative, whatever is cut when.
THEOREM LivesNeverNegativeHolds == Spec => []LivesNeverNegative
<1>1. LoopInv => LivesNeverNegative
  BY DEF LoopInv, LivesOfMode, LivesNeverNegative
<1> QED
  BY <1>1, LoopInvariant, PTL

\* Bombs exist in hard rounds only.
THEOREM BombOnlyInHardHolds == Spec => []BombOnlyInHard
BY LoopInvariant, PTL DEF LoopInv

\* No round is declared won before its time or lost with lives left.
THEOREM VerdictEarnedHolds == Spec => []VerdictEarned
BY LoopInvariant, PTL DEF LoopInv

\* An end screen stays at rest until the player continues.
THEOREM EndScreenAtRestHolds == Spec => []EndScreenAtRest
BY LoopInvariant, PTL DEF LoopInv

\* No round lasts longer than its time, the second at zero, the delay and one
\* trip round the loop.
THEOREM RoundBoundedHolds == Spec => []RoundBounded
<1>1. LoopInv => RoundBounded
  BY ConstantsAssumption, RoundTicksNat
     DEF LoopInv, AgesBounded, RoundBounded, TypeOK
<1> QED
  BY <1>1, LoopInvariant, PTL

\* From the verdict of a round until it is shown no empty slot is filled.
THEOREM NothingThrownAfterVerdictHolds == Spec => NothingThrownAfterVerdict
<1>1. ASSUME LoopInv, [Next]_vars
      PROVE  (nextState \in {Won, Lost} /\ gstate' = gstate) =>
               \A i \in Slots : ostate[i] = Empty => ostate'[i] = Empty
  <2> SUFFICES ASSUME nextState \in {Won, Lost}, gstate' = gstate,
                      NEW i \in Slots, ostate[i] = Empty
               PROVE  ostate'[i] = Empty
    OBVIOUS
  <2> USE DEF Menu, Easy, Medium, Hard, Won, Lost, Empty, Whole, Cut,
          Crumbling, BombSmoke
  <2>0. Playing /\ ~spawnOn /\ gstate # Menu
    BY <1>1 DEF LoopInv, VerdictEarned, SpawningInRound, Playing
  <2>1. CASE \E out \in SUBSET Occupied : Physics(out)
    BY <2>1 DEF Physics
  <2>2. CASE Disintegrate
    BY <2>2 DEF Disintegrate, Disintegrated
  <2>3. CASE \E hit \in SUBSET Targets : SliceObjects(hit)
    BY <2>3 DEF SliceObjects, Targets, Cuttable
  <2>4. CASE ChangeState \/ SliceContinue
    BY <2>0, <2>4 DEF ChangeState, SliceContinue, Playing
  <2>5. CASE Spawn \/ StatusOfMenu \/ \E m \in {Easy, Medium, Hard} : SliceStart(m)
    BY <2>0, <2>5 DEF Spawn, StatusOfMenu, SliceStart
  <2>6. CASE UNCHANGED ostate
    BY <2>6
  <2> QED
    BY <1>1, <2>1, <2>2, <2>3, <2>4, <2>5, <2>6
       DEF Next, vars, ReadClock, StatusOfRound, StatusOfEnd, NoSpawn,
           NoStateChange, SliceNothing, UnpackAndSend
<1> QED
  BY <1>1, LoopInvariant, PTL DEF Spec, NothingThrownAfterVerdict

\* Only a verdict, or the change pending since boot, ends a round.
THEOREM RoundsEndByVerdictHolds == Spec => RoundsEndByVerdict
<1>1. ASSUME LoopInv, [Next]_vars
      PROVE  (Playing /\ gstate' # gstate) =>
               \/ gstate' \in {Won, Lost}
               \/ gstate' = Menu /\ roundAge <= changeAge
  <2> SUFFICES ASSUME Playing, gstate' # gstate
               PROVE  \/ gstate' \in {Won, Lost}
                      \/ gstate' = Menu /\ roundAge <= changeAge
    OBVIOUS
  <2> USE DEF Playing, Menu, Easy, Medium, Hard, Won, Lost, NoChange
  <2>1. CASE ChangeState
    BY <1>1, <2>1 DEF ChangeState, LoopInv, TypeOK, AgesBounded
  <2>2. CASE SliceContinue \/ \E m \in {Easy, Medium, Hard} : SliceStart(m)
    BY <2>2 DEF SliceContinue, SliceStart
  <2> QED
    BY <1>1, <2>1, <2>2
       DEF Next, vars, ReadClock, StatusOfRound, StatusOfMenu, StatusOfEnd,
           Physics, Spawn, NoSpawn, Disintegrate, NoStateChange, SliceNothing,
           SliceObjects, UnpackAndSend
<1> QED
  BY <1>1, LoopInvariant, PTL DEF Spec, RoundsEndByVerdict

-----------------------------------------------------------------------------
(* The loop implements GameFlow, as far as safety goes: it starts as the   *)
(* game does, and each of its steps is one of the game's or none.          *)

\* The screens by their names.
LEMMA ScreenFacts ==
  /\ ScreenOf(Menu) = "menu" /\ ScreenOf(Easy) = "easy" /\ ScreenOf(Medium) = "medium"
  /\ ScreenOf(Hard) = "hard" /\ ScreenOf(Won) = "won" /\ ScreenOf(Lost) = "lost"
BY DEF ScreenOf, Menu, Easy, Medium, Hard, Won, Lost

\* A round on the screen is a round in the loop.
LEMMA RoundScreens ==
  ASSUME TypeOK
  PROVE  /\ ScreenOf(gstate) \in Flow!Rounds <=> Playing
         /\ nextState # NoChange => ScreenOf(nextState) \in {"menu", "won", "lost"}
BY ScreenFacts DEF TypeOK, Flow!Rounds, Playing, ScreenOf, Menu, Easy, Medium, Hard, Won,
                   Lost, NoChange

\* The first state is the game's.
LEMMA FlowStarts == Init => Flow!FlowInit
BY ScreenFacts DEF Init, Flow!FlowInit, Playing, Menu, Easy, Medium, Hard, NoChange

\* The decision of the status engine: time is up, or there are no lives left.
LEMMA FlowStatusOfRound ==
  ASSUME LoopInv, StatusOfRound
  PROVE  [Flow!FlowNext]_(Flow!flowVars)
<1>1. Playing /\ ScreenOf(gstate) \in Flow!Rounds
  BY RoundScreens DEF LoopInv, StatusOfRound
<1>2. gstate' = gstate /\ lives' = lives /\ Playing'
  BY <1>1 DEF StatusOfRound, Playing
<1>3. CASE Decide(Won)
  <2>1. Flow!TimeUp
    BY <1>1, <1>2, <1>3, ScreenFacts DEF Decide, Flow!TimeUp, Won, NoChange
  <2> QED
    BY <2>1 DEF Flow!FlowNext
<1>4. CASE OutOfLives /\ Decide(Lost)
  <2>1. gstate = Hard /\ lives = 0
    BY <1>4, ConstantsAssumption DEF OutOfLives, LoopInv, LivesOfMode, TypeOK, Medium, Hard
  <2>2. Flow!OutOfLives
    BY <1>1, <1>2, <1>4, <2>1, ScreenFacts DEF Decide, Flow!OutOfLives, Lost, NoChange
  <2> QED
    BY <2>2 DEF Flow!FlowNext
<1>5. CASE UNCHANGED nextState
  BY <1>1, <1>2, <1>5 DEF Flow!flowVars
<1> QED
  BY <1>3, <1>4, <1>5 DEF StatusOfRound

\* The delayed change shows the verdict.
LEMMA FlowChangeState ==
  ASSUME LoopInv, ChangeState
  PROVE  Flow!ShowVerdict
<1>1. nextState \in {Menu, Won, Lost} /\ gstate' = nextState /\ nextState' = NoChange
  BY DEF LoopInv, TypeOK, ChangeState
<1>2. ~Playing'
  BY <1>1 DEF Playing, Menu, Easy, Medium, Hard, Won, Lost
<1>3. ScreenOf(nextState) # "none"
  BY <1>1, ScreenFacts
<1>4. ScreenOf(nextState) \in Flow!Ends => ScreenOf(gstate) \in Flow!Rounds
  <2>1. nextState \in {Won, Lost} => Playing
    BY DEF LoopInv, VerdictEarned, Playing
  <2> QED
    BY <1>1, <2>1, ScreenFacts, RoundScreens DEF LoopInv, Flow!Ends
<1> QED
  BY <1>1, <1>2, <1>3, <1>4 DEF Flow!ShowVerdict, ChangeState

\* A fruit of the menu starts its round.
LEMMA FlowSliceStart ==
  ASSUME LoopInv, NEW m \in {Easy, Medium, Hard}, SliceStart(m)
  PROVE  Flow!FlowNext
<1>1. gstate = Menu /\ gstate' = m /\ lives' = LivesOf(m) /\ nextState' = nextState
  BY DEF SliceStart
<1>2. Playing'
  BY <1>1 DEF Playing
<1>3. ScreenOf(m) \in Flow!Rounds /\ LivesOf(m) = Flow!LivesAtStart(ScreenOf(m))
  BY ScreenFacts DEF Flow!Rounds, Flow!LivesAtStart, LivesOf, Easy, Medium, Hard
<1>4. Flow!StartRound(ScreenOf(m))
  BY <1>1, <1>2, <1>3, ScreenFacts DEF Flow!StartRound
<1> QED
  BY <1>3, <1>4 DEF Flow!FlowNext

\* The fruit of an end screen leads to the menu.
LEMMA FlowSliceContinue ==
  ASSUME LoopInv, SliceContinue
  PROVE  Flow!Continue
<1>1. gstate \in {Won, Lost} /\ gstate' = Menu /\ UNCHANGED <<lives, nextState>>
  BY DEF SliceContinue
<1>2. ~Playing /\ ~Playing'
  BY <1>1 DEF Playing, Menu, Easy, Medium, Hard, Won, Lost
<1>3. ScreenOf(gstate) \in Flow!Ends
  BY <1>1, ScreenFacts DEF Flow!Ends
<1> QED
  BY <1>1, <1>2, <1>3, ScreenFacts DEF Flow!Continue

\* A bomb that is cut costs a life of a hard round; all else costs nothing.
LEMMA FlowSliceObjects ==
  ASSUME LoopInv, NEW hit \in SUBSET Targets, SliceObjects(hit)
  PROVE  [Flow!FlowNext]_(Flow!flowVars)
<1>1. UNCHANGED <<gstate, nextState>>
  BY DEF SliceObjects
<1>2. CASE Bomb \in hit
  <2>1. ostate[Bomb] = Whole
    BY <1>2 DEF Targets, Cuttable
  <2>2. gstate = Hard /\ lives > 0
    BY <2>1 DEF LoopInv, BombOnlyInHard, LastBombGone, LivesOfMode, TypeOK, Whole, Empty
  <2>3. Playing /\ Playing' /\ lives' = lives - 1
    BY <1>1, <1>2, <2>2 DEF Playing, SliceObjects
  <2>4. Flow!LoseLife
    BY <1>1, <2>2, <2>3, ScreenFacts DEF Flow!LoseLife
  <2> QED
    BY <2>4 DEF Flow!FlowNext
<1>3. CASE Bomb \notin hit
  <2>1. lives' = lives
    BY <1>3 DEF SliceObjects
  <2> QED
    BY <1>1, <2>1 DEF Flow!flowVars, Playing
<1> QED
  BY <1>2, <1>3

\* What shows nothing new to the player.
LEMMA FlowStutter ==
  ASSUME UNCHANGED <<gstate, nextState>>, Playing => UNCHANGED lives
  PROVE  UNCHANGED Flow!flowVars
BY DEF Flow!flowVars, Playing

\* Every step of the loop is a step of the game or none.
LEMMA FlowStep == LoopInv /\ [Next]_vars => [Flow!FlowNext]_(Flow!flowVars)
<1> SUFFICES ASSUME LoopInv, [Next]_vars PROVE [Flow!FlowNext]_(Flow!flowVars)
  OBVIOUS
<1>1. CASE StatusOfRound
  BY <1>1, FlowStatusOfRound
<1>2. CASE ChangeState
  BY <1>2, FlowChangeState DEF Flow!FlowNext
<1>3. CASE \E m \in {Easy, Medium, Hard} : SliceStart(m)
  BY <1>3, FlowSliceStart
<1>4. CASE SliceContinue
  BY <1>4, FlowSliceContinue DEF Flow!FlowNext
<1>5. CASE \E hit \in SUBSET Targets : SliceObjects(hit)
  BY <1>5, FlowSliceObjects
<1>6. CASE StatusOfMenu
  <2>1. UNCHANGED <<gstate, nextState>> /\ ~Playing
    BY <1>6 DEF StatusOfMenu, Playing, Menu, Easy, Medium, Hard
  <2> QED
    BY <2>1, FlowStutter
<1>7. CASE UNCHANGED <<gstate, nextState, lives>>
  BY <1>7, FlowStutter
<1> QED
  BY <1>1, <1>2, <1>3, <1>4, <1>5, <1>6, <1>7
     DEF Next, vars, ReadClock, StatusOfEnd, Physics, Spawn, NoSpawn, Disintegrate,
         NoStateChange, SliceNothing, UnpackAndSend

\* The loop implements the game of GameFlow, for every number of slots, length
\* of round and number of lives; that the game also goes on, ImplementsGameFlow,
\* is left to the runs.
THEOREM KeepsToGameFlow == Spec => Flow!FlowInit /\ [][Flow!FlowNext]_(Flow!flowVars)
<1>1. Init => Flow!FlowInit
  BY FlowStarts
<1>2. LoopInv /\ [Next]_vars => [Flow!FlowNext]_(Flow!flowVars)
  BY FlowStep
<1> QED
  BY <1>1, <1>2, LoopInvariant, PTL DEF Spec
=============================================================================
