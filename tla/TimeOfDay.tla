------------------------------ MODULE TimeOfDay ------------------------------
(***************************************************************************)
(* What the board support package tells a program about time:              *)
(* settimeofday(), gettimeofday(), times() (alt_settod.c, alt_gettod.c,    *)
(* alt_times.c) over the tick counter, and usleep() (alt_busy_sleep.c),    *)
(* which counts instructions instead.                                      *)
(***************************************************************************)
EXTENDS Integers

CONSTANTS WIDTH,        \* 2^32; INT_MAX is one less than its half
          ALT_US,       \* microseconds in a second, 1000000
          RATE,         \* ticks in a second, if there is a system clock
          PER_US,       \* trips of the waiting loop in a microsecond, 5
          Times,        \* bound: times given to settimeofday()
          Naps          \* bound: microseconds given to usleep()

(* What is taken for granted of the constants.                             *)
Bounds ==
  /\ WIDTH \in Nat /\ WIDTH > 3 /\ WIDTH % 2 = 0
  /\ ALT_US \in Nat \ {0} /\ RATE \in 1 .. ALT_US
  /\ ALT_US % RATE = 0
  /\ PER_US \in 1 .. WIDTH \div 2 - 1 /\ Naps \subseteq 0 .. WIDTH - 1
  /\ \A t \in Times : t.tv_sec \in Nat /\ t.tv_usec \in 0 .. ALT_US - 1

VARIABLES tick_rate,        \* 0 or RATE
          nticks,           \* _alt_nticks
          alt_resettime,    \* what the time was when nticks was 0
          answer,           \* of the last call
          asked, slept,     \* usleep(): microseconds, trips of the loop
          true_time         \* history: the time in ticks, or unknown

vars == <<tick_rate, nticks, alt_resettime, answer, asked, slept, true_time>>

INT_MAX  == WIDTH \div 2 - 1
Tick_us  == ALT_US \div RATE
Unknown  == -1
(* A time in microseconds.                                                 *)
Us(t) == t.tv_sec * ALT_US + t.tv_usec

Init ==
  /\ tick_rate \in {0, RATE}
  /\ nticks = 0
  /\ alt_resettime = [tv_sec |-> 0, tv_usec |-> 0]
  /\ answer = "ok" /\ asked = 0 /\ slept = 0
  /\ true_time = 0

-----------------------------------------------------------------------------
(* The counter starts again after WIDTH ticks, and the time with it.       *)
Tick ==
  /\ tick_rate # 0
  /\ nticks' = (nticks + 1) % WIDTH
  /\ true_time' = IF true_time = Unknown \/ nticks + 1 = WIDTH THEN Unknown
                  ELSE true_time + Tick_us
  /\ UNCHANGED <<tick_rate, alt_resettime, answer, asked, slept>>

\* Mutant: the fraction of a second since the start is forgotten.
ResetSeconds(t) == [tv_sec |-> t.tv_sec - nticks \div tick_rate, tv_usec |-> t.tv_usec]

(* The product has 32 bits.  The difference of microseconds may be         *)
(* negative, and is kept so.                                               *)
ResetTime(t) ==
  [tv_sec  |-> t.tv_sec - nticks \div tick_rate,
   tv_usec |-> t.tv_usec - (((nticks * Tick_us) % WIDTH) % ALT_US)]

Settimeofday ==
  /\ IF tick_rate = 0 THEN answer' = "ENOSYS" /\ UNCHANGED <<alt_resettime, true_time>>
     ELSE \E t \in Times :
            /\ alt_resettime' = ResetTime(t)
            /\ true_time' = IF nticks * Tick_us < WIDTH THEN Us(t) ELSE Unknown
            /\ answer' = "ok"
  /\ UNCHANGED <<tick_rate, nticks, asked, slept>>

(* Here the product has 64 bits.  A negative number of microseconds        *)
(* borrows a second, or is cut to nothing when there is none; a second     *)
(* that is full is carried.                                                *)
Gettimeofday ==
  LET sec  == alt_resettime.tv_sec + nticks \div tick_rate
      usec == alt_resettime.tv_usec + ((nticks * Tick_us) % ALT_US)
      cut  == usec < 0 /\ sec <= 0
      s    == IF cut THEN 0 ELSE IF usec < 0 THEN sec - 1 ELSE sec
      u    == IF cut THEN 0 ELSE IF usec < 0 THEN usec + ALT_US ELSE usec
  IN  [tv_sec |-> s + u \div ALT_US, tv_usec |-> u % ALT_US]

(* gettimeofday() returns its error, times() sets errno.                   *)
AskTime ==
  /\ answer' \in IF tick_rate = 0 THEN {"ENOTSUP", "ENOSYS"} ELSE {"ok"}
  /\ UNCHANGED <<tick_rate, nticks, alt_resettime, asked, slept, true_time>>

(* Naps too long for the counter are taken in parts of INT_MAX trips.  The *)
(* loop of the last part tests for zero after it has counted down, so that *)
(* nothing left to wait for becomes WIDTH trips.  The loop of a short nap  *)
(* tests for positive.                                                     *)
Trips(us) ==
  LET part == INT_MAX \div PER_US
      big_loops == us \div part
      rest == (us - big_loops * part) * PER_US
  IN  IF big_loops > 0
        THEN big_loops * INT_MAX + (IF rest % WIDTH = 0 THEN WIDTH ELSE rest % WIDTH)
        ELSE IF rest = 0 THEN 1 ELSE rest

Usleep ==
  /\ \E us \in Naps : asked' = us /\ slept' = Trips(us)
  /\ answer' = "ok"
  /\ UNCHANGED <<tick_rate, nticks, alt_resettime, true_time>>

Next == Tick \/ Settimeofday \/ AskTime \/ Usleep

Spec == Init /\ [][Next]_vars
-----------------------------------------------------------------------------
(* Until the counter starts again, the time is what was set plus what has  *)
(* passed, whatever the fraction of a second at either moment (and was set *)
(* while the narrow product of settimeofday() still had room).  A nap is   *)
(* never too short, and too long by less than a trip for each part and one *)
(* part's remainder, unless it is a whole number of parts.                 *)
TimeTold ==
  /\ tick_rate # 0 /\ true_time # Unknown => Us(Gettimeofday) = true_time
  /\ LET part == INT_MAX \div PER_US
         whole == asked >= part /\ asked % part = 0
     IN  /\ slept >= asked * PER_US
         /\ ~whole => slept <= asked * PER_US + (asked \div part) * PER_US + 1
-----------------------------------------------------------------------------
(* What TimeTold rests on.                                                 *)

TypeOK ==
  /\ tick_rate \in {0, RATE} /\ nticks \in 0 .. WIDTH - 1
  /\ alt_resettime \in [tv_sec : Int, tv_usec : 1 - ALT_US .. ALT_US - 1]
  /\ true_time \in Nat \cup {Unknown}
  /\ asked \in 0 .. WIDTH - 1 /\ slept \in Nat

(* The time that has passed is the one at the start and the ticks since.   *)
Counted ==
  tick_rate # 0 /\ true_time # Unknown => true_time = Us(alt_resettime) + nticks * Tick_us

Slept == slept = Trips(asked) \/ (asked = 0 /\ slept = 0)

TimeInv == TypeOK /\ Counted /\ Slept
=============================================================================
