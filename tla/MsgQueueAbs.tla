---------------------------- MODULE MsgQueueAbs ----------------------------
(***************************************************************************)
(* What MsgQueue.h promises a client, without the ring: a first-in         *)
(* first-out queue of handles, the handles the client has taken and not    *)
(* yet reported as processed, and the memory behind them.  A message may   *)
(* only be refused when the queue is at its limit, and flushing touches    *)
(* nothing the client is still processing.                                 *)
(***************************************************************************)
EXTENDS Naturals, Sequences, FiniteSets

CONSTANTS Handles, \* the memory handles (or command values) that exist
          None,    \* "no handle"
          Limit    \* number of messages at which new ones may be refused

VARIABLES queued,  \* messages waiting, oldest first
          held,    \* messages taken by MsgGet and not yet MsgProcessed
          offered  \* the message MsgAddHandle is working on

avars == <<queued, held, offered>>

AbsInit == queued = <<>> /\ held = {} /\ offered = None

Offer(h)  == offered = None /\ offered' = h /\ UNCHANGED <<queued, held>>

Accept    == /\ offered # None
             /\ queued' = Append(queued, offered)
             /\ offered' = None
             /\ UNCHANGED held

Refuse    == /\ offered # None
             /\ Len(queued) + Cardinality(held) >= Limit
             /\ offered' = None
             /\ UNCHANGED <<queued, held>>

(* A message added from inside a callback is accepted in the same step.   *)
Insert(h) == queued' = Append(queued, h) /\ UNCHANGED <<held, offered>>

Take      == /\ queued # <<>>
             /\ held' = held \cup {Head(queued)}
             /\ queued' = Tail(queued)
             /\ UNCHANGED offered

Finish(h) == h \in held /\ held' = held \ {h} /\ UNCHANGED <<queued, offered>>

TakeAndFinish == queued # <<>> /\ queued' = Tail(queued) /\ UNCHANGED <<held, offered>>

Flush     == queued' = <<>> /\ UNCHANGED <<held, offered>>

(* MsgFreeQueue abandons both regions.                                    *)
Free      == queued' = <<>> /\ held' = {} /\ UNCHANGED offered

AbsNext == \/ \E h \in Handles : Offer(h) \/ Insert(h) \/ Finish(h)
           \/ Accept \/ Refuse \/ Take \/ TakeAndFinish \/ Flush \/ Free

AbsSpec == AbsInit /\ [][AbsNext]_avars
=============================================================================
