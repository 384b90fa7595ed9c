------------------------------ MODULE Profiler ------------------------------
(***************************************************************************)
(* The profiler of the board support package (alt_gmon.c) and the memory   *)
(* it lives on (alt_sbrk.c).  Every function that is called first runs     *)
(* mcount(), which looks for the arc of its caller and counts it, or hands *)
(* it to __mcount_record().  Interrupt handlers are counted in the same    *)
(* tables, so every look at them and every count can be interrupted by     *)
(* another.                                                                *)
(*                                                                         *)
(* Chains grow at their head only, and a walk sees what was there when it  *)
(* read the head: entries are numbered in order of their making, and the   *)
(* first of a chain is the one with the highest number.  The table has one *)
(* chain.  Memory is measured in entries, which are all of one size.       *)
(***************************************************************************)
EXTENDS Integers, Sequences, FiniteSets, FiniteSetsExt, SequencesExt

CONSTANTS Pcs,              \* places a function may be called from or begin at
          HEAP,             \* room between __alt_heap_start and __alt_heap_limit
          SLAB,             \* entries in MCOUNT_SLAB_INCREMENT bytes (85)
          BUCKET,           \* PCSAMPLE_BYTES_PER_BUCKET
          Texts,            \* bound: sizes of the text section
          LEVELS,           \* bound: handlers in one another, and the program
          MAXCALLS          \* bound: calls that are counted

(* What is taken for granted of the constants.                               *)
Bounds ==
  /\ HEAP \in Nat /\ SLAB \in Nat \ {0} /\ BUCKET \in Nat \ {0}
  /\ Texts \subseteq Nat /\ LEVELS \in Nat \ {0} /\ MAXCALLS \in Nat

VARIABLES heap_end,                 \* alt_sbrk(): the break
          mcount_slab_size,         \* entries left of the slab
          mcount_slab_bad,          \* its address is the -1 of an sbrk() that failed
          fns, arcs,                \* the tables
          pcsample_need_init, prof_rate,
          text, s_pcsamples,        \* size of the text, and of the histogram
          beyond,                   \* history: a sample missed the histogram
          frames,                   \* calls of mcount() in progress
          calls,                    \* history: calls of each arc
          interrupts                \* history: calls that were interrupted

memory  == <<heap_end, mcount_slab_size, mcount_slab_bad>>
tables  == <<fns, arcs>>
sampler == <<pcsample_need_init, prof_rate, text, s_pcsamples, beyond>>
history == <<calls, interrupts>>
vars    == <<memory, tables, sampler, frames, history>>

None == 0
Arc  == Pcs \X Pcs          \* self_pc, from_pc

Init ==
  /\ heap_end = 0 /\ mcount_slab_size = 0 /\ mcount_slab_bad = FALSE
  /\ fns = <<>> /\ arcs = <<>>
  /\ pcsample_need_init = TRUE /\ prof_rate = 0
  /\ text \in Texts /\ s_pcsamples = None /\ beyond = FALSE
  /\ frames = <<>>
  /\ calls = [a \in Arc |-> 0] /\ interrupts = 0

-----------------------------------------------------------------------------
(* alt_sbrk(): whole words, and -1 beyond the limit.                       *)
Fits(incr) == heap_end + incr <= HEAP

(* The program's own use of it; a block may be given back.                 *)
Sbrk ==
  /\ frames = <<>>
  /\ \E incr \in {-1, 1} : /\ Fits(incr) /\ heap_end + incr >= 0 /\ mcount_slab_size = 0
                           /\ heap_end' = heap_end + incr
  /\ UNCHANGED <<mcount_slab_size, mcount_slab_bad, tables, sampler, frames, history>>

(* mcount_allocate(), so many times: a new slab when there is none, its    *)
(* address not looked at.                                                  *)
Allocate(entries) ==
  LET short == entries > mcount_slab_size
  IN  /\ mcount_slab_size' = mcount_slab_size + (IF short THEN SLAB ELSE 0) - entries
      /\ heap_end' = IF short /\ Fits(SLAB) THEN heap_end + SLAB ELSE heap_end
      /\ mcount_slab_bad' = (mcount_slab_bad \/ (short /\ ~Fits(SLAB)))

-----------------------------------------------------------------------------
(* mcount(), its accesses to the tables one by one.                        *)

Top == Head(frames)
At(at) == frames # <<>> /\ Top.at = at
Go(at) == frames' = [frames EXCEPT ![1].at = at]
Alive == ~mcount_slab_bad

Enter(arc) ==
  /\ calls' = [calls EXCEPT ![arc] = @ + 1]
  /\ frames' = <<[at |-> "fn", self_pc |-> arc[1], from_pc |-> arc[2],
                  fn |-> None, arc |-> None, count |-> 0]>> \o frames
  /\ UNCHANGED <<memory, tables, sampler>>

MayCall == Alive /\ FoldFunction(LAMBDA n, m : n + m, 0, calls) < MAXCALLS

Mcount == /\ MayCall /\ frames = <<>>
          /\ \E arc \in Arc : Enter(arc)
          /\ UNCHANGED interrupts

Interrupt == /\ MayCall /\ frames # <<>> /\ Len(frames) < LEVELS
             /\ \E arc \in Arc : Enter(arc)
             /\ interrupts' = interrupts + 1

(* The entries of a function, and those of an arc to it.                   *)
FnsOf(pc)        == {k \in DOMAIN fns : fns[k] = pc}
ArcsOf(fn, from) == {k \in DOMAIN arcs : arcs[k].fn = fn /\ arcs[k].from_pc = from}
Newest(S) == IF S = {} THEN None ELSE Max(S)

FindFn ==
  /\ Alive /\ At("fn")
  /\ LET fn == Newest(FnsOf(Top.self_pc))
     IN  frames' = [frames EXCEPT ![1].fn = fn,
                                  ![1].at = IF fn = None THEN "init" ELSE "arc"]
  /\ UNCHANGED <<memory, tables, sampler, history>>

\* Mutant: the first arc of the function is taken, whoever called it.
FindAnyArc ==
  /\ Alive /\ At("arc")
  /\ LET arc == Newest({k \in DOMAIN arcs : arcs[k].fn = Top.fn})
     IN  frames' = [frames EXCEPT ![1].arc = arc,
                                  ![1].at = IF arc = None THEN "init" ELSE "load"]
  /\ UNCHANGED <<memory, tables, sampler, history>>

FindArc ==
  /\ Alive /\ At("arc")
  /\ LET arc == Newest(ArcsOf(Top.fn, Top.from_pc))
     IN  frames' = [frames EXCEPT ![1].arc = arc,
                                  ![1].at = IF arc = None THEN "init" ELSE "load"]
  /\ UNCHANGED <<memory, tables, sampler, history>>

(* The count is read, and later written.                                   *)
LoadCount ==
  /\ Alive /\ At("load")
  /\ frames' = [frames EXCEPT ![1].count = arcs[Top.arc].count, ![1].at = "store"]
  /\ UNCHANGED <<memory, tables, sampler, history>>

StoreCount ==
  /\ Alive /\ At("store")
  /\ arcs' = [arcs EXCEPT ![Top.arc].count = Top.count + 1]
  /\ frames' = Tail(frames)
  /\ UNCHANGED <<memory, fns, sampler, history>>

(* __mcount_record() tries to start the sampler until there is a clock.    *)
(* The flag is down meanwhile, for mcount() of what it calls.              *)
StartSampler ==
  /\ Alive /\ At("init")
  /\ IF pcsample_need_init
       THEN pcsample_need_init' = FALSE /\ Go("sampler")
       ELSE UNCHANGED pcsample_need_init /\ Go("record")
  /\ UNCHANGED <<memory, tables, prof_rate, text, s_pcsamples, beyond, history>>

(* nios2_pcsample_init(); an sbrk() that fails leaves an address to use.   *)
PcsampleInit ==
  /\ Alive /\ At("sampler")
  /\ Go("record")
  /\ IF prof_rate = 0 THEN pcsample_need_init' = TRUE /\ UNCHANGED <<memory, s_pcsamples>>
     ELSE /\ s_pcsamples' = (text \div BUCKET) + 1
          /\ IF Fits(1) THEN heap_end' = heap_end + 1 /\ UNCHANGED mcount_slab_bad
             ELSE mcount_slab_bad' = TRUE /\ UNCHANGED heap_end
          /\ UNCHANGED <<pcsample_need_init, mcount_slab_size>>
  /\ UNCHANGED <<tables, prof_rate, text, beyond, history>>

(* With interrupts off: the function, if mcount() has found none, and the  *)
(* arc, as mcount() has found none.                                        *)
Record ==
  /\ Alive /\ At("record")
  /\ LET new == Top.fn = None
         fn  == IF new THEN Len(fns) + 1 ELSE Top.fn
     IN  /\ fns' = IF new THEN Append(fns, Top.self_pc) ELSE fns
         /\ arcs' = Append(arcs, [fn |-> fn, from_pc |-> Top.from_pc, count |-> 1])
         /\ Allocate(IF new THEN 2 ELSE 1)
  /\ frames' = Tail(frames)
  /\ UNCHANGED <<sampler, history>>

-----------------------------------------------------------------------------
(* The system clock's driver comes up; and the alarm, once every tick.     *)
ClockStarts == /\ prof_rate = 0 /\ prof_rate' = 1
               /\ UNCHANGED <<memory, tables, pcsample_need_init, text, s_pcsamples, beyond,
                              frames, history>>

Buckets == s_pcsamples - 1

nios2_pcsample ==
  /\ s_pcsamples # None
  /\ \E pc \in 0 .. text - 1 : beyond' = (beyond \/ pc \div BUCKET >= Buckets)
  /\ UNCHANGED <<memory, tables, pcsample_need_init, prof_rate, text, s_pcsamples, frames, history>>

Counting == FindFn \/ FindArc \/ LoadCount \/ StoreCount \/ StartSampler \/ PcsampleInit \/ Record

Next == Sbrk \/ Mcount \/ Interrupt \/ Counting \/ ClockStarts \/ nios2_pcsample

Spec == Init /\ [][Next]_vars
-----------------------------------------------------------------------------
(* What the tables say of an arc.                                          *)
CopiesOf(arc) == {k \in DOMAIN arcs : fns[arcs[k].fn] = arc[1] /\ arcs[k].from_pc = arc[2]}
Total(f, n)   == LET sum[m \in 0 .. n] == IF m = 0 THEN 0 ELSE sum[m - 1] + f[m] IN sum[n]
CountOf(arc)  == Total([k \in DOMAIN arcs |-> IF k \in CopiesOf(arc) THEN arcs[k].count ELSE 0],
                       Len(arcs))
InProgress(arc) == {k \in DOMAIN frames : <<frames[k].self_pc, frames[k].from_pc>> = arc}

(* No call is counted twice, and each one that is missed, or that makes    *)
(* another copy of an arc, takes an interrupt of its own: between the      *)
(* reading and the writing of a count, or between the search and the       *)
(* making of an entry.  A sample misses the histogram only if the text     *)
(* does not fill its last bucket.                                          *)
ProfileSound ==
  /\ \A arc \in Arc :
       LET ended == calls[arc] - Cardinality(InProgress(arc))
       IN  /\ CountOf(arc) <= ended
           /\ CountOf(arc) >= ended - interrupts
           /\ Cardinality(CopiesOf(arc)) <= 1 + interrupts
  /\ beyond => text % BUCKET # 0
-----------------------------------------------------------------------------
(* What ProfileSound rests on.                                             *)

Making == {"init", "sampler", "record"}         \* an entry is to be made
Using  == {"load", "store"}                     \* an arc has been found
Pair(f) == <<f.self_pc, f.from_pc>>

Entry == [fn : 1 .. Len(fns), from_pc : Pcs, count : Nat]
Frame == [at : {"fn", "arc"} \cup Making \cup Using, self_pc : Pcs, from_pc : Pcs,
          fn : 0 .. Len(fns), arc : 0 .. Len(arcs), count : Nat]

TypeOK ==
  /\ fns \in Seq(Pcs) /\ arcs \in Seq(Entry) /\ frames \in Seq(Frame)
  /\ calls \in [Arc -> Nat] /\ interrupts \in Nat

(* The histogram is short of the text by what its division loses.          *)
HistogramSound ==
  /\ text \in Nat /\ s_pcsamples \in {None, (text \div BUCKET) + 1}
  /\ beyond => text % BUCKET # 0

(* What a call has found is the newest there is, as long as it lasts: who  *)
(* interrupts it finds the same, and makes no entry of that kind.          *)
Found(f) ==
  /\ f.at \in {"arc"} \cup Using => f.fn # None
  /\ f.fn # None => f.at # "fn" /\ FnsOf(f.self_pc) # {} /\ f.fn = Newest(FnsOf(f.self_pc))
  /\ f.at \in Using => /\ ArcsOf(f.fn, f.from_pc) # {}
                       /\ f.arc = Newest(ArcsOf(f.fn, f.from_pc))
  /\ f.at = "store" => f.count <= arcs[f.arc].count

FollowsOn(f, g) ==                              \* f has interrupted g
  f.self_pc = g.self_pc =>
    /\ g.fn # None => f.at = "fn" \/ f.fn # None
    /\ g.at \in Using /\ f.from_pc = g.from_pc => f.at \notin Making
    /\ g.at = "store" /\ f.at = "store" /\ f.from_pc = g.from_pc => g.count <= f.count

FramesSound ==
  \A j \in DOMAIN frames : Found(frames[j]) /\ \A i \in 1 .. j - 1 : FollowsOn(frames[i], frames[j])

(* Every call in progress but the first has taken an interrupt, and owes   *)
(* it to those below: the difference a stale count makes when it is        *)
(* written.                                                                *)
Deep == IF frames = <<>> THEN 0 ELSE Len(frames) - 1
Missing(arc) == calls[arc] - Cardinality(InProgress(arc)) - CountOf(arc)

MissesPaid ==
  /\ \A arc \in Arc : Missing(arc) >= 0 /\ Missing(arc) + Deep <= interrupts
  /\ \A j \in DOMAIN frames : LET f == frames[j] IN
       f.at = "store" => Missing(Pair(f)) + (arcs[f.arc].count - f.count) + Deep <= interrupts

(* So has one that is about to make an entry which has been made since it  *)
(* looked.                                                                 *)
Stale(f) == /\ f.at \in Making
            /\ IF f.fn = None THEN FnsOf(f.self_pc) # {} ELSE ArcsOf(f.fn, f.from_pc) # {}
Owed == Deep + (IF frames # <<>> /\ Stale(Top) THEN 1 ELSE 0)

Doubles(arc) ==
  {k \in CopiesOf(arc) : \E j \in 1 .. k - 1 : arcs[j].fn = arcs[k].fn /\ arcs[j].from_pc = arcs[k].from_pc}

DoublesPaid ==
  /\ Owed <= interrupts
  /\ \A arc \in Arc :
       Cardinality(FnsOf(arc[1])) + Cardinality(Doubles(arc)) + Owed <= 1 + interrupts

ProfileInv == TypeOK /\ HistogramSound /\ FramesSound /\ MissesPaid /\ DoublesPaid
=============================================================================
