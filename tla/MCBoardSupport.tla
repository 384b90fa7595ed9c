--------------------------- MODULE MCBoardSupport ---------------------------
(* What the board support package offers a program beside the console's    *)
(* driver, and the ports (PortMap) through which the program meets the     *)
(* hardware: one of these parts runs from start to end, the others stand   *)
(* still, each in one of its first states.  None writes what another reads,*)
(* but for the tick counter, which TimeOfDay and Alarms count each for     *)
(* itself.                                                                 *)
EXTENDS PortMap, ConsoleText

CONSTANTS
  ALT_MAX_FD, ALT_STDIN, ALT_STDOUT, ALT_STDERR, FileSystems, Constructors, Modes, Flagged,
  Alarm, Requests, Intervals, TICKS,
  ALT_US, RATE, PER_US, WORD, Times, Naps,
  Pcs, HEAP, SLAB, BUCKET, Texts, LEVELS, MAXCALLS

VARIABLES
  part,
  stage, alt_dev_list, alt_fs_list, alt_fd_list, alt_max_fd, ctors, answer,
  _alt_tick_rate, _alt_nticks, next, previous, time, rollover, alarm, left,
  tick_rate, nticks, alt_resettime, told, asked, slept, true_time,
  heap_end, mcount_slab_size, mcount_slab_bad, fns, arcs, pcsample_need_init, prof_rate,
  text, s_pcsamples, beyond, counting, calls, interrupted

(* A time between two ticks, one with a fraction that borrows, and the     *)
(* start; naps of none, of less and more than one part, and of whole parts.*)
Moment(sec, usec) == [tv_sec |-> sec, tv_usec |-> usec]
MCTimes == {Moment(0, 0), Moment(1, 5), Moment(2, 1)}
MCNaps  == {0, 1, 2, 3, 4, 6, 7, 12, 31}

(* Texts with the characters that are treated apart, in several places.    *)
MCWrites == {<<"a">>, <<"a", "b">>, <<"a", "0x04", "b", "c">>, <<"a", "0x00", "b", "c", "d">>}

MCCharacters == STRING

Files   == INSTANCE Descriptors
Clock   == INSTANCE Alarms WITH WIDTH <- TICKS
Time    == INSTANCE TimeOfDay WITH WIDTH <- WORD, answer <- told
Profile == INSTANCE Profiler WITH frames <- counting, interrupts <- interrupted

ASSUME BoardAssumption == /\ Files!Bounds /\ Clock!Bounds /\ Time!Bounds
                          /\ Profile!Bounds /\ Bounds

files   == <<stage, alt_dev_list, alt_fs_list, alt_fd_list, alt_max_fd, ctors, answer>>
clock   == <<_alt_tick_rate, _alt_nticks, next, previous, time, rollover, alarm, left>>
tod     == <<tick_rate, nticks, alt_resettime, told, asked, slept, true_time>>
profile == <<heap_end, mcount_slab_size, mcount_slab_bad, fns, arcs, pcsample_need_init,
             prof_rate, text, s_pcsamples, beyond, counting, calls, interrupted>>
all     == <<part, files, clock, tod, profile, vars, textVars>>

BoardInit ==
  /\ part \in {"files", "clock", "time", "profile", "ports", "text"}
  /\ Files!Init /\ Clock!Init /\ Time!Init /\ Profile!Init /\ Init /\ TextInit
  /\ part # "time" => tick_rate = 0
  /\ part # "profile" => text \in Texts /\ \A t \in Texts : text <= t
  /\ part # "text" => ALT_LOG_FLAGS = 0

BoardNext ==
  /\ UNCHANGED part
  /\ \/ /\ part = "files" /\ Files!Next
        /\ UNCHANGED <<clock, tod, profile, vars, textVars>>
     \/ /\ part = "clock" /\ Clock!Next
        /\ UNCHANGED <<files, tod, profile, vars, textVars>>
     \/ /\ part = "time" /\ Time!Next
        /\ UNCHANGED <<files, clock, profile, vars, textVars>>
     \/ /\ part = "profile" /\ Profile!Next
        /\ UNCHANGED <<files, clock, tod, vars, textVars>>
     \/ /\ part = "ports" /\ Next
        /\ UNCHANGED <<files, clock, tod, profile, textVars>>
     \/ /\ part = "text" /\ TextNext
        /\ UNCHANGED <<files, clock, tod, profile, vars>>

BoardSpec == BoardInit /\ [][BoardNext]_all

(* A locked device is not opened (Descriptors).                            *)
LockRespected == [][part = "files" => Files!OpensUnlocked]_all

(* A locked device has at most two descriptors (Descriptors).              *)
LockOfTwo == part = "files" => Files!LockOfTwo

(* Alarms are called at their tick (Alarms).                               *)
Punctual == part = "clock" => Clock!Punctual

(* The time that is told, and the time that is slept (TimeOfDay).          *)
TimeTold == part = "time" => Time!TimeTold

(* What the profiler's tables say of the calls (Profiler).                 *)
ProfileSound == part = "profile" => Profile!ProfileSound
=============================================================================
