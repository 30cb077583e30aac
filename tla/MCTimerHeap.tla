---------------------------- MODULE MCTimerHeap ----------------------------
(* Instances of TimerHeap for TLC.                                         *)
EXTENDS TimerHeap, TLC

(* The timers that differ in nothing.                                      *)
Alike == Permutations(Senders) \cup Permutations(Timers \ (Senders \cup {Send}))
=============================================================================
