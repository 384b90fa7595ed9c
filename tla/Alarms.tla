------------------------------- MODULE Alarms -------------------------------
(***************************************************************************)
(* The alarms of the board support package (alt_tick.c, alt_alarm_start.c, *)
(* alt_llist.h): a ring of alarms, each with the tick it is due at.  The   *)
(* clock's interrupt walks the ring and calls what is due; the program,    *)
(* with interrupts off, and the callbacks themselves change the ring.      *)
(* Ticks are counted modulo WIDTH, so an alarm due after the counter has   *)
(* started again carries the mark rollover.                                *)
(***************************************************************************)
EXTENDS Integers

CONSTANTS Alarm,        \* alarm structures
          WIDTH,        \* 2^32
          Requests,     \* bound: ticks asked of alt_alarm_start(), all but
                        \* 2^32 - 1, to which it adds one and gets none
          Intervals     \* bound: what a callback answers, 0 for "no more"

VARIABLES _alt_tick_rate,   \* 0: there is no system clock
          _alt_nticks,
          next, previous,   \* the ring
          time, rollover,   \* of each alarm
          alarm,            \* where the walk of alt_tick() is
          left              \* history: ticks an alarm has still to wait

clock == <<_alt_tick_rate, _alt_nticks>>
ring  == <<next, previous>>
due   == <<time, rollover, left>>
vars  == <<clock, ring, due, alarm>>

alt_alarm_list == "alt_alarm_list"     \* the head of the ring
Idle == "idle"                         \* alt_tick() is not running
Nodes == Alarm \cup {alt_alarm_list}

(* What is taken for granted of the constants.                               *)
Bounds ==
  /\ WIDTH \in Nat /\ WIDTH > 1
  /\ Requests \subseteq 0 .. WIDTH - 2
  /\ Intervals \subseteq 0 .. WIDTH - 1
  /\ alt_alarm_list \notin Alarm /\ Idle \notin Alarm

(* A removed entry points to itself; one that never was in the ring is     *)
(* taken to do so as well, since nobody follows it.                        *)
Armed(a) == next[a] # a

Init ==
  /\ _alt_tick_rate = 0 /\ _alt_nticks = 0
  /\ next = [n \in Nodes |-> n] /\ previous = [n \in Nodes |-> n]
  /\ time = [a \in Alarm |-> 0] /\ rollover = [a \in Alarm |-> FALSE]
  /\ left = [a \in Alarm |-> 0]
  /\ alarm = Idle

-----------------------------------------------------------------------------
alt_llist_insert(entry) ==
  LET first == next[alt_alarm_list]
  IN  /\ next' = [next EXCEPT ![entry] = first, ![alt_alarm_list] = entry]
      /\ previous' = [previous EXCEPT ![entry] = alt_alarm_list, ![first] = entry]

alt_llist_remove(entry) ==
  /\ next' = [[next EXCEPT ![previous[entry]] = next[entry]] EXCEPT ![entry] = entry]
  /\ previous' = [[previous EXCEPT ![next[entry]] = previous[entry]] EXCEPT ![entry] = entry]

\* Mutant: the overflow of the counter is forgotten.
DueUnmarked(a, ticks, now) ==
  /\ time' = [time EXCEPT ![a] = ticks % WIDTH]
  /\ rollover' = [rollover EXCEPT ![a] = FALSE]

(* The mark compares the sum, as it is after the overflow, with now.       *)
Due(a, ticks, now) ==
  LET t == ticks % WIDTH
  IN  /\ time' = [time EXCEPT ![a] = t]
      /\ rollover' = [rollover EXCEPT ![a] = t < now]

(* One tick more than was asked, since the present one has begun.          *)
alt_alarm_start(a, nticks) ==
  /\ ~Armed(a)
  /\ \/ /\ _alt_tick_rate = 0                             \* -ENOTSUP
        /\ UNCHANGED <<ring, due>>
     \/ /\ _alt_tick_rate # 0
        /\ Due(a, nticks + _alt_nticks + 1, _alt_nticks)
        /\ left' = [left EXCEPT ![a] = nticks + 1]
        /\ alt_llist_insert(a)

alt_alarm_stop(a) == alt_llist_remove(a) /\ left' = [left EXCEPT ![a] = 0]

(* The program, between two interrupts.                                    *)
Start == /\ alarm = Idle
         /\ \E a \in Alarm, nticks \in Requests : alt_alarm_start(a, nticks)
         /\ UNCHANGED <<clock, alarm>>

Stop == /\ alarm = Idle
        /\ \E a \in Alarm : alt_alarm_stop(a)
        /\ UNCHANGED <<clock, time, rollover, alarm>>

alt_sysclk_init == /\ alarm = Idle /\ _alt_tick_rate = 0
                   /\ _alt_tick_rate' = 1
                   /\ UNCHANGED <<_alt_nticks, ring, due, alarm>>

-----------------------------------------------------------------------------
(* alt_tick()                                                              *)

Tick ==
  /\ alarm = Idle /\ _alt_tick_rate # 0
  /\ _alt_nticks' = (_alt_nticks + 1) % WIDTH
  /\ alarm' = next[alt_alarm_list]
  /\ left' = [a \in Alarm |-> IF Armed(a) THEN left[a] - 1 ELSE 0]
  /\ UNCHANGED <<_alt_tick_rate, ring, time, rollover>>

(* The mark as the walk finds it, cleared when the counter starts again.   *)
Marked(a) == rollover[a] /\ _alt_nticks # 0
Expired(a) == time[a] <= _alt_nticks /\ ~Marked(a)

Visiting(a) == alarm = a /\ a \in Alarm

Pass(a) ==
  /\ Visiting(a) /\ ~Expired(a)
  /\ rollover' = [rollover EXCEPT ![a] = Marked(a)]
  /\ alarm' = next[a]
  /\ UNCHANGED <<clock, ring, time, left>>

(* The callback wants to be called again, or not.                          *)
Again(a, interval) ==
  /\ Visiting(a) /\ Expired(a) /\ interval # 0
  /\ Due(a, time[a] + interval, _alt_nticks)
  /\ left' = [left EXCEPT ![a] = interval]
  /\ alarm' = next[a]
  /\ UNCHANGED <<clock, ring>>

NoMore(a) ==
  /\ Visiting(a) /\ Expired(a)
  /\ alt_alarm_stop(a)
  /\ rollover' = [rollover EXCEPT ![a] = Marked(a)]
  /\ alarm' = next[a]
  /\ UNCHANGED <<clock, time>>

(* A callback may start and stop others, any number of times before it     *)
(* ends.  It must not stop the alarm after its own: the walk has noted it, *)
(* and would find it pointing to itself for ever.                          *)
CallbackStarts(a) ==
  /\ Visiting(a) /\ Expired(a)
  /\ \E b \in Alarm \ {a}, nticks \in Requests : alt_alarm_start(b, nticks)
  /\ UNCHANGED <<clock, alarm>>

CallbackStops(a) ==
  /\ Visiting(a) /\ Expired(a)
  /\ \E b \in Alarm \ {a, next[a]} : Armed(b) /\ alt_alarm_stop(b)
  /\ UNCHANGED <<clock, time, rollover, alarm>>

TickEnds == /\ alarm = alt_alarm_list
            /\ alarm' = Idle
            /\ UNCHANGED <<clock, ring, due>>

alt_tick == \/ Tick \/ TickEnds
            \/ \E a \in Alarm : \/ Pass(a) \/ NoMore(a)
                                \/ CallbackStarts(a) \/ CallbackStops(a)
                                \/ \E interval \in Intervals : Again(a, interval)

Next == alt_sysclk_init \/ Start \/ Stop \/ alt_tick

Spec == Init /\ [][Next]_vars
-----------------------------------------------------------------------------
(* An alarm is called at the very tick that was asked for and at no other, *)
(* wherever the counter started again, in whatever order alarms were       *)
(* linked, unlinked and put off, also by one another during the walk: who  *)
(* is called has waited, and nobody is left waiting when a tick is over.   *)
Punctual ==
  \A a \in Alarm :
    /\ Visiting(a) /\ Expired(a) => left[a] = 0
    /\ alarm = alt_alarm_list /\ Armed(a) => left[a] > 0
-----------------------------------------------------------------------------
(* What Punctual rests on.                                                 *)

TypeOK ==
  /\ _alt_tick_rate \in {0, 1} /\ _alt_nticks \in 0 .. WIDTH - 1
  /\ next \in [Nodes -> Nodes] /\ previous \in [Nodes -> Nodes]
  /\ time \in [Alarm -> 0 .. WIDTH - 1] /\ rollover \in [Alarm -> BOOLEAN]
  /\ left \in [Alarm -> Int]
  /\ alarm \in Nodes \cup {Idle}

(* The two links of the ring agree, and it goes through its head: no alarms *)
(* follow one another in a circle of their own.                            *)
RingSound ==
  /\ \A n \in Nodes : previous[next[n]] = n /\ next[previous[n]] = n
  /\ \A S \in SUBSET {a \in Alarm : Armed(a)} : S # {} => \E a \in S : previous[a] \notin S

(* The ticks until the counter says time and the mark is gone.             *)
Waits(a) == time[a] - _alt_nticks + (IF Marked(a) THEN WIDTH ELSE 0)

(* Whoever the walk has still to look at may be due, the others are not.   *)
DueSound(ahead) ==
  \A a \in Alarm :
    Armed(a) => /\ left[a] = Waits(a)
                /\ IF a \in ahead THEN left[a] >= 0
                   ELSE left[a] > 0 /\ (rollover[a] => _alt_nticks # 0)

(* The walk goes on along the ring, and nobody before it is looked at.     *)
Walking(ahead) ==
  /\ alarm \in Alarm => alarm \in ahead /\ previous[alarm] \notin ahead
  /\ alarm \notin Alarm => ahead = {}
  /\ \A a \in ahead : next[a] \in ahead \cup {alt_alarm_list}
  /\ \A a \in ahead \ {alarm} : previous[a] \in ahead

WalkSound ==
  \E ahead \in SUBSET {a \in Alarm : Armed(a)} : Walking(ahead) /\ DueSound(ahead)

AlarmInv == TypeOK /\ RingSound /\ WalkSound
=============================================================================
