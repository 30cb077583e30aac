------------------------------ MODULE MsgQueue ------------------------------
(***************************************************************************)
(* src/MsgQueue.c: the ring of message handles behind the command queue,   *)
(* the four Bluetooth queues, the log queue and the timer queue.  The      *)
(* oldest part of the ring holds messages the client has taken and is      *)
(* still processing, the rest messages still waiting:                      *)
(*                                                                         *)
(*      . . P P P Q Q Q Q . . .                                            *)
(*          ^process    ^end                                               *)
(*                ^front                                                   *)
(*                                                                         *)
(* MsgAddHandle and MsgFlush call the client back while they work, so one  *)
(* call is several steps here: `phase` says which callback is running, and *)
(* the client may use the queue inside it.  The queue is locked while a    *)
(* message is being added, and its callback is disabled while it runs.     *)
(***************************************************************************)
EXTENDS Integers, Sequences, FiniteSets

CONSTANTS
    Handles,      \* the handles (or the 32-bit values) that can be queued
    None,         \* the null handle, an empty slot
    InitialSize,  \* `size` of MsgNewQueue
    MaxQueueSize, \* MAX_QUEUE_SIZE
    ChunkSlots,   \* slots that fit the largest memory chunk; a larger resize fails
    Growing,      \* `growing` of MsgNewQueue
    IsHandles,    \* `handles` of MsgNewQueue: the slots own memory
    HasCallback,  \* whether the queue was created with a callback
    MaxHeld       \* messages a client takes before it reports one as processed

(* Every queue of the program is created with at least ten slots and its   *)
(* client holds one message, or two (LogFlush); the only queue of plain    *)
(* values is read with CmdGet, which holds one.  The largest chunk of the  *)
(* Palm memory manager is below 64 KB, 16384 slots.                        *)
ASSUME QueueAssumption ==
    /\ None \notin Handles
    /\ InitialSize \in Nat /\ MaxQueueSize \in Nat /\ ChunkSlots \in Nat
    /\ InitialSize >= 2 /\ InitialSize <= MaxQueueSize /\ InitialSize <= ChunkSlots
    /\ 3 * ChunkSlots < 65536
    /\ MaxHeld \in Nat /\ MaxHeld >= 1 /\ MaxHeld < InitialSize
    /\ {Growing, IsHandles, HasCallback} \subseteq BOOLEAN
    /\ IsHandles \/ MaxHeld = 1

VARIABLES
    q,       \* struct MsgQueue: buf, bufsize, process, front, end, processing, waiting
    alive,   \* FALSE once MsgFreeQueue has run
    phase,   \* "idle", or the callback that is running: "full", "added", "flush"
    pending, \* the handle MsgAddHandle has not stored yet while in "full"
    held,    \* messages the client got from MsgGet and has not reported
    alloc,   \* handles whose memory is allocated
    fault    \* "none", or the PANIC (or failed allocation) that reset the device

vars == <<q, alive, phase, pending, held, alloc, fault>>

-----------------------------------------------------------------------------
(* Index arithmetic on a ring of n slots.                                  *)
IncPast(n, v) == v + 1 \* mutant: no wrap-around
Inc(n, v)    == IF v = n - 1 THEN 0 ELSE v + 1
Dec(n, v)    == IF v = 0 THEN n - 1 ELSE v - 1
Add(n, a, b) == IF a + b >= n THEN a + b - n ELSE a + b
Sub(n, a, b) == IF a >= b THEN a - b ELSE n - b + a

Used(r) == r.processing + r.waiting
Full(r) == r.bufsize = r.processing + r.waiting

(* The consistency checks at the top of MsgAddHandle and after growing.    *)
OutOfStep(r) ==
    \/ Sub(r.bufsize, r.end, r.process) # (r.processing + r.waiting) % r.bufsize
    \/ Sub(r.bufsize, r.end, r.front) # r.waiting % r.bufsize

Broken(r) == OutOfStep(r) \/ (~ Full(r) /\ r.buf[r.end] # None)

(* The product is computed in 16 bits.                                     *)
QueueGrowth(size) ==
    LET grown == ((size * 3) % 65536) \div 2
    IN  IF grown < MaxQueueSize THEN grown ELSE MaxQueueSize

NewRing == [buf |-> [i \in 0 .. InitialSize - 1 |-> None], bufsize |-> InitialSize,
            process |-> 0, front |-> 0, end |-> 0, processing |-> 0, waiting |-> 0]

(* The slots whose content MsgAddHandle clears while it enlarges a ring to *)
(* n slots: from the new end up to the start of the processed region.      *)
ClearedNone(r, n) == {} \* mutant: moved slots keep their old content
Cleared(r, n) ==
    LET newEnd == Add(n, r.bufsize, r.end)
    IN  {k \in 0 .. n - 1 : Sub(n, k, newEnd) < Sub(n, r.process, newEnd)}

GrownFront(r, n) ==
    IF r.front < r.process THEN Sub(n, r.front, n - r.bufsize) ELSE r.front

(* mutant: only what fits behind the old last slot is moved                *)
GrowForgetsRest(r, n) ==
    [r EXCEPT
        !.bufsize = n,
        !.buf = [k \in 0 .. n - 1 |->
                    IF k \in Cleared(r, n) THEN None
                    ELSE IF k >= r.bufsize THEN r.buf[k - r.bufsize]
                    ELSE r.buf[k]],
        !.end = Add(n, r.bufsize, r.end),
        !.front = GrownFront(r, n)]

(* The part of a full ring that had wrapped to the low slots moves behind  *)
(* the old last slot, as far as the new ones reach, the rest of it down.   *)
Grow(r, n) ==
    LET inc == n - r.bufsize
    IN  [r EXCEPT
            !.bufsize = n,
            !.buf = [k \in 0 .. n - 1 |->
                        IF k \in Cleared(r, n) THEN None
                        ELSE IF k >= r.bufsize THEN r.buf[k - r.bufsize]
                        ELSE IF k + inc < r.end THEN r.buf[k + inc]
                        ELSE r.buf[k]],
            !.end = Add(n, r.bufsize, r.end),
            !.front = GrownFront(r, n)]

Put(r, h) == [r EXCEPT !.buf[r.end] = h, !.end = Inc(r.bufsize, r.end),
                       !.waiting = @ + 1]

Front(r) == r.buf[r.front]

Taken(r) == [r EXCEPT !.front = Inc(r.bufsize, r.front),
                      !.waiting = @ - 1, !.processing = @ + 1]

(* The distances from `process` at which the processed region holds h.     *)
Places(r, h) ==
    {c \in 0 .. r.processing - 1 : r.buf[Add(r.bufsize, r.process, c)] = h}

(* mutant: the region does not shrink at its start                         *)
RemovedProcessStays(r, c) ==
    [r EXCEPT !.buf = [k \in 0 .. r.bufsize - 1 |->
                          IF k = r.process THEN None
                          ELSE IF Sub(r.bufsize, k, r.process) <= c
                               THEN r.buf[Dec(r.bufsize, k)]
                               ELSE r.buf[k]],
              !.processing = @ - 1]

(* Removes the entry at distance c: the older ones move up one slot.       *)
Removed(r, c) ==
    [r EXCEPT !.buf = [k \in 0 .. r.bufsize - 1 |->
                          IF k = r.process THEN None
                          ELSE IF Sub(r.bufsize, k, r.process) <= c
                               THEN r.buf[Dec(r.bufsize, k)]
                               ELSE r.buf[k]],
              !.process = Inc(r.bufsize, r.process),
              !.processing = @ - 1]

WaitingSlots(r) == {Add(r.bufsize, r.front, c) : c \in 0 .. r.waiting - 1}

Flushed(r) ==
    [r EXCEPT !.buf = [k \in 0 .. r.bufsize - 1 |->
                          IF k \in WaitingSlots(r) THEN None ELSE r.buf[k]],
              !.end = r.front, !.waiting = 0]

FlushedHandles(r) == {r.buf[k] : k \in WaitingSlots(r)}

(* mutant: forgets the messages that are being processed                   *)
MsgIsProcessedSkips(r, h) == \A k \in WaitingSlots(r) : r.buf[k] # h

MsgIsProcessed(r, h) ==
    \A c \in 0 .. r.processing + r.waiting - 1 :
        r.buf[Add(r.bufsize, r.process, c)] # h

MsgIsInQueue(r, h) == \E k \in WaitingSlots(r) : r.buf[k] = h

MsgLast(r) == IF r.waiting = 0 THEN None ELSE r.buf[Sub(r.bufsize, r.end, 1)]
-----------------------------------------------------------------------------
Running   == fault = "none" /\ alive
Locked    == phase \in {"full", "added"}
(* The client acts between calls and inside its callback.                  *)
Client    == Running /\ (phase = "idle" \/ HasCallback)
Own(s)    == IF IsHandles THEN s ELSE {}

Panic(what) == fault' = what /\ UNCHANGED <<q, alive, phase, pending, held, alloc>>

Init == /\ q = NewRing /\ alive = TRUE /\ phase = "idle" /\ pending = None
        /\ held = {} /\ alloc = {} /\ fault = "none"

MsgNewQueue == /\ ~ alive /\ fault = "none"
               /\ q' = NewRing /\ alive' = TRUE
               /\ UNCHANGED <<phase, pending, held, alloc, fault>>

(* The second half of MsgAddHandle, after the callback for a full queue:   *)
(* refuse h, or enlarge the ring if there is still no room, and store it.  *)
Refused  == Full(q) /\ (~ Growing \/ q.bufsize = MaxQueueSize)

(* mutant: the memory of a refused message is not released                 *)
RefuseLeaks(h) == /\ Refused
                  /\ phase' = IF phase = "flush" THEN "flush" ELSE "idle"
                  /\ UNCHANGED <<q, alloc>>

Refuse(h) == /\ Refused
             /\ alloc' = alloc \ {h}
             /\ phase' = IF phase = "flush" THEN "flush" ELSE "idle"
             /\ UNCHANGED q

Store(h) ==
    LET r == IF Full(q) THEN Grow(q, QueueGrowth(q.bufsize)) ELSE q
    IN  /\ ~ Refused
        /\ q' = Put(r, h)
        /\ alloc' = alloc \cup Own({h})
        /\ phase' = IF phase = "flush" THEN "flush" ELSE "added"

CannotGrow ==
    IF ~ Full(q) \/ Refused THEN "none"
    ELSE LET n == QueueGrowth(q.bufsize)
         IN  IF n = q.bufsize THEN "zero increment"
             ELSE IF n > ChunkSlots THEN "out of memory"
             ELSE IF OutOfStep(Grow(q, n)) \/ Grow(q, n).buf[Grow(q, n).end] # None
                  THEN "broken grow algorithm"
             ELSE "none"

AddNow(h) == \/ CannotGrow # "none" /\ Panic(CannotGrow)
             \/ /\ CannotGrow = "none"
                /\ Refuse(h) \/ Store(h)
                /\ pending' = None
                /\ UNCHANGED <<alive, held, fault>>

(* MsgAddHandle, and MsgAddPtr, which allocates the handle it adds: on a   *)
(* locked queue the message is dropped; a full queue first calls its       *)
(* client.  During MsgFlush the callback is disabled.                      *)
MsgAddHandle(h) ==
    /\ Client /\ (IsHandles => h \notin alloc)
    /\ \/ Locked /\ UNCHANGED vars
       \/ ~ Locked /\ Broken(q) /\ Panic("broken queue")
       \/ /\ ~ Locked /\ ~ Broken(q) /\ Full(q) /\ q.waiting = 0
          /\ Panic("client does not process")
       \/ /\ ~ Locked /\ ~ Broken(q) /\ ~ (Full(q) /\ q.waiting = 0)
          /\ IF Full(q) /\ phase = "idle"
             THEN /\ phase' = "full" /\ pending' = h
                  /\ alloc' = alloc \cup Own({h})
                  /\ UNCHANGED <<q, alive, held, fault>>
             ELSE AddNow(h)

(* Callback (q, true) returns to MsgAddHandle.                             *)
FullReturn == Running /\ phase = "full" /\ AddNow(pending)

(* Callback (q, false) returns to MsgAddHandle, which unlocks.             *)
AddedReturn == /\ Running /\ phase = "added" /\ phase' = "idle"
               /\ UNCHANGED <<q, alive, pending, held, alloc, fault>>

MsgGet == /\ Client /\ q.waiting > 0 /\ q.processing < MaxHeld
          /\ q' = Taken(q)
          /\ held' = held \cup {Front(q)}
          /\ UNCHANGED <<alive, phase, pending, alloc, fault>>

(* The client has released the memory of h by the time it reports it.      *)
MsgProcessed(h) ==
    /\ Client /\ h \in held
    /\ \/ Places(q, h) = {} /\ Panic("invalid handle")
       \/ \E c \in Places(q, h) :
             /\ \A d \in Places(q, h) : c <= d
             /\ q' = Removed(q, c)
             /\ held' = held \ {h}
             /\ alloc' = alloc \ {h}
             /\ UNCHANGED <<alive, phase, pending, fault>>

(* Only the timer queue is read this way, and never with MsgGet.          *)
MsgGetAndProcess ==
    /\ Client /\ q.waiting > 0 /\ held = {} /\ q.processing < MaxHeld
    /\ LET h == Front(q)
           r == Taken(q)
       IN  IF MsgIsProcessed(r, h) \/ Places(r, h) = {}
           THEN Panic("invalid handle")
           ELSE \E c \in Places(r, h) :
                   /\ \A d \in Places(r, h) : c <= d
                   /\ q' = Removed(r, c)
                   /\ alloc' = alloc \ {h}
                   /\ UNCHANGED <<alive, phase, pending, held, fault>>

FlushNow == q' = Flushed(q) /\ alloc' = alloc \ FlushedHandles(q)

(* MsgFlush calls the client first, unless the queue is locked or a        *)
(* callback is running already.                                            *)
MsgFlush ==
    /\ Client /\ q.waiting > 0
    /\ IF phase = "idle" /\ HasCallback
       THEN phase' = "flush" /\ UNCHANGED <<q, alloc>>
       ELSE FlushNow /\ UNCHANGED phase
    /\ UNCHANGED <<alive, pending, held, fault>>

FlushReturn == /\ Running /\ phase = "flush" /\ phase' = "idle"
               /\ FlushNow
               /\ UNCHANGED <<alive, pending, held, fault>>

(* What the client still holds stays its own affair.                       *)
MsgFreeQueue == /\ Running /\ phase = "idle"
                /\ q' = [Flushed(q) EXCEPT !.process = 0, !.front = 0, !.end = 0,
                                           !.processing = 0]
                /\ alive' = FALSE /\ held' = {} /\ alloc' = {}
                /\ UNCHANGED <<phase, pending, fault>>

Next == \/ MsgNewQueue \/ MsgFreeQueue
        \/ \E h \in Handles : MsgAddHandle(h) \/ MsgProcessed(h)
        \/ FullReturn \/ AddedReturn
        \/ MsgGet \/ MsgGetAndProcess
        \/ MsgFlush \/ FlushReturn

Spec == Init /\ [][Next]_vars
-----------------------------------------------------------------------------
Slots(r) == 0 .. r.bufsize - 1
Faults   == {"none", "out of memory", "broken queue", "client does not process",
             "zero increment", "broken grow algorithm", "invalid handle"}

Struct(slots) == [buf : [slots -> Handles \cup {None}], bufsize : Nat, process : slots,
                  front : slots, end : slots, processing : Nat, waiting : Nat]

RingType(r) == r.bufsize \in InitialSize .. ChunkSlots /\ r \in Struct(Slots(r))

TypeOK ==
    /\ RingType(q)
    /\ alive \in BOOLEAN /\ phase \in {"idle", "full", "added", "flush"}
    /\ pending \in Handles \cup {None} /\ (phase = "full" => pending # None)
    /\ held \subseteq Handles /\ alloc \subseteq Handles /\ fault \in Faults

(* The two counters and the three indices describe the same region.        *)
InStep(r) == /\ r.processing + r.waiting <= r.bufsize
             /\ r.front = Add(r.bufsize, r.process, r.processing)
             /\ r.end = Add(r.bufsize, r.front, r.waiting)

(* Exactly the slots outside the region are empty.                         *)
Filled(r) ==
    \A k \in Slots(r) : (r.buf[k] = None) <=> Sub(r.bufsize, k, r.process) >= Used(r)

(* The indices and the counters describe the same region of the ring, and  *)
(* exactly the slots outside it are empty: the picture above struct        *)
(* MsgQueue, through every growth, out-of-order MsgProcessed and flush.    *)
RingOK == InStep(q) /\ (alive => Filled(q))

(* No consistency PANIC of MsgQueue.c ever fires, whatever the client does *)
(* inside callbacks, as long as it takes at most MaxHeld messages at once. *)
NoPanic == fault \in {"none", "out of memory"}

(* A message's memory is owned exactly as long as the queue or its client  *)
(* still has it: nothing leaks when messages are refused, flushed or moved *)
(* by a growing ring, and nothing waiting has been released.               *)
NoLeak ==
    IsHandles => alloc = FlushedHandles(q) \cup held \cup ({pending} \ {None})

(* MsgIsProcessed, which WaitForQueue polls, turns TRUE exactly when the   *)
(* message is gone, and MsgIsInQueue while nobody has taken it.            *)
QueriesAgree ==
    (IsHandles /\ alive /\ fault = "none") =>
        \A h \in Handles :
            /\ MsgIsProcessed(q, h) <=> h \notin alloc \ {pending}
            /\ MsgIsInQueue(q, h) <=> h \in alloc \ (held \cup {pending})

WaitingMessages == [c \in 1 .. q.waiting |-> q.buf[Add(q.bufsize, q.front, c - 1)]]

(* The ring implements the promise of MsgQueue.h: first in first out, no   *)
(* loss before the limit, no flush of messages being processed.            *)
Abstract == INSTANCE MsgQueueAbs WITH
    queued <- WaitingMessages, offered <- pending,
    Limit <- IF Growing THEN MaxQueueSize ELSE InitialSize
ImplementsQueue == Abstract!AbsSpec
=============================================================================
