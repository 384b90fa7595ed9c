---------------------------- MODULE MCHwSwLink ----------------------------
(* HwSwLink with three objects: the status and two that come and go.       *)
EXTENDS HwSwLink

Row(a, b, c) == [i \in Objects |-> CASE i = 0 -> a [] i = 1 -> b [] i = 2 -> c]

\* The menu; a round with a fresh object, an object in flight and a score
\* that needs eleven bits; the same object cut, another thrown, the timer at
\* -1 and no lives left.
MCFrames ==
  { [x |-> Row(0, 30, 0),     y |-> Row(0, 100, 0),  state |-> Row(0, 1, 0), type |-> 0],
    [x |-> Row(1029, 30, 77), y |-> Row(59, 0, 465), state |-> Row(3, 1, 1), type |-> 3],
    [x |-> Row(2, 0, 640),    y |-> Row(-1, 0, 7),   state |-> Row(3, 0, 2), type |-> 0] }
=============================================================================
