----------------------------- MODULE MCMsgQueue -----------------------------
(* Instances of MsgQueue for TLC.                                          *)
EXTENDS MsgQueue

(* Free handles are interchangeable, so with numbers for handles it is     *)
(* enough to let the memory manager hand out the smallest free one.        *)
LowestFree == \A h \in alloc' \ alloc : \A i \in Handles \ alloc : h <= i
=============================================================================
