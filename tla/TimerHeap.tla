----------------------------- MODULE TimerHeap -----------------------------
(***************************************************************************)
(* src/Timer.c and the binary heap of src/Heap.c it keeps its timers in,   *)
(* with the triggers of the program as far as they touch timers.           *)
(*                                                                         *)
(* A timer that is created stays in the heap, armed or not; a time of zero *)
(* means not armed and sorts behind every other.  TimerTick takes all      *)
(* timers that are due out of the heap before it triggers the first one.   *)
(* A trigger that makes a report uses the channel, if it is idle, and      *)
(* SendNext of Bluetooth.c reschedules the send timer.                     *)
(***************************************************************************)
EXTENDS Integers, Sequences, FiniteSets

CONSTANTS
    Timers,      \* the timers of the program
    Send,        \* the send timer of the interrupt channel
    Senders,     \* the timers that make reports: sticky modifiers, hard keys
    Delays,      \* how far ahead the other timers are set
    SendTimeout, \* SEND_TIMEOUT
    Resolution,  \* TIMER_RESOLUTION
    MaxTime      \* bound: the clock stops there

ASSUME TimerAssumption ==
    /\ Send \in Timers /\ Senders \subseteq Timers \ {Send}
    /\ Delays \subseteq Nat \ {0} /\ SendTimeout \in Nat \ {0} /\ Resolution \in Nat \ {0}
    /\ MaxTime \in Nat \ {0}

VARIABLES
    heap,        \* impl->data[0 .. size - 1]
    time,        \* the time of every timer
    reinstate,   \* g_reinstatequeue
    nexttrigger, \* g_nexttrigger
    now,         \* TimGetTicks()
    ticks,       \* the time TimerTick took, 0 when it does not run
    channel,     \* the interrupt channel: "closed", "idle" or "busy" (c->data)
    panic,       \* whether an ASSERT has failed
    forgotten    \* history: the send timer may run for a message that
                 \* Disconnect forgot

vars == <<heap, time, reinstate, nexttrigger, now, ticks, channel, panic, forgotten>>

Elements(s) == {s[i] : i \in 1 .. Len(s)}

-----------------------------------------------------------------------------
(* Heap.c.  Its index i is i + 1 here, so UP is i \div 2 and LEFT is 2 * i.*)

(* TriggerCompare is negative.                                             *)
Before(tm, a, b) == tm[a] # 0 /\ (tm[b] = 0 \/ tm[a] < tm[b])

Swap(h, i, j) == [h EXCEPT ![i] = h[j], ![j] = h[i]]

(* The loops are recursive functions of the heap and the place in it.      *)
Places == {x \in Seq(Timers) \X Nat : x[2] \in 1 .. Len(x[1])}

RaiseUp(h, tm, i) ==
    LET up[x \in Places] ==
            LET g == x[1]
                j == x[2]
            IN  IF j > 1 /\ Before(tm, g[j], g[j \div 2])
                THEN up[<<Swap(g, j, j \div 2), j \div 2>>]
                ELSE g
    IN  up[<<h, i>>]

(* The child that the element at i changes places with, or i.              *)
Below(h, tm, i) ==
    LET left  == 2 * i
        right == 2 * i + 1
        l == left  <= Len(h) /\ Before(tm, h[left], h[i])
        r == right <= Len(h) /\ Before(tm, h[right], h[i])
    IN  IF l /\ (~ r \/ Before(tm, h[left], h[right])) THEN left
        ELSE IF r THEN right ELSE i

FloatDown(h, tm, i) ==
    LET down[x \in Places] ==
            LET g == x[1]
                j == x[2]
                k == Below(g, tm, j)
            IN  IF k # j THEN down[<<Swap(g, j, k), k>>] ELSE g
    IN  down[<<h, i>>]

Adjust(h, tm, i) ==
    IF h = <<>> THEN h
    ELSE IF i > 1 /\ Before(tm, h[i], h[i \div 2]) THEN RaiseUp(h, tm, i)
    ELSE FloatDown(h, tm, i)

IndexOf(h, t) == CHOOSE i \in 1 .. Len(h) : h[i] = t
Shorter(h)    == SubSeq(h, 1, Len(h) - 1)

HeapAdd(h, tm, t)    == Adjust(Append(h, t), tm, Len(h) + 1)
HeapChange(h, tm, t) == Adjust(h, tm, IndexOf(h, t))

HeapRemove(h, tm) ==
    Adjust(IF Len(h) = 1 THEN <<>> ELSE [Shorter(h) EXCEPT ![1] = h[Len(h)]], tm, 1)

HeapDelete(h, tm, t) ==
    LET i == IndexOf(h, t)
    IN  IF i = Len(h) THEN Shorter(h) ELSE Adjust([Shorter(h) EXCEPT ![i] = h[Len(h)]], tm, i)

-----------------------------------------------------------------------------
(* Timer.c.                                                                *)
NextTrigger(h, tm) == IF h = <<>> THEN 0 ELSE tm[h[1]]

Init ==
    /\ heap = <<>> /\ time = [t \in Timers |-> 0] /\ reinstate = <<>> /\ nexttrigger = 0
    /\ now = 1 /\ ticks = 0 /\ channel = "closed" /\ panic = FALSE
    /\ forgotten = FALSE

Running == ~ panic /\ ticks = 0

(* Whoever sets, cancels, creates or frees the send timer, or runs it, ends*)
(* what Disconnect left behind.                                            *)
Settles(b) == forgotten' = (forgotten /\ ~ b)

(* Every timer of the program is created unarmed.                          *)
TimerNew(t) ==
    /\ Running /\ t \notin Elements(heap)
    /\ time' = [time EXCEPT ![t] = 0]
    /\ heap' = HeapAdd(heap, time', t)
    /\ nexttrigger' = NextTrigger(heap', time') /\ Settles(t = Send)
    /\ UNCHANGED <<reinstate, now, ticks, channel, panic>>

(* BTClose frees the output queue before the send timer.                   *)
TimerFree(t) ==
    /\ Running /\ t \in Elements(heap)
    /\ heap' = HeapDelete(heap, time, t)
    /\ time' = [time EXCEPT ![t] = 0]
    /\ nexttrigger' = NextTrigger(heap', time') /\ Settles(t = Send)
    /\ channel' = IF t = Send THEN "closed" ELSE channel
    /\ UNCHANGED <<reinstate, now, ticks, panic>>

(* mutant: the next trigger is only ever moved to an earlier time          *)
TimerRescheduleEarlier(t, at) ==
    /\ time' = [time EXCEPT ![t] = at]
    /\ IF t \in Elements(heap)
       THEN heap' = HeapChange(heap, time', t) /\ UNCHANGED panic
       ELSE panic' = TRUE /\ UNCHANGED heap
    /\ nexttrigger' = IF at < nexttrigger THEN at ELSE nexttrigger

(* Also TimerCancel, where at is zero.  HeapChange asserts that it finds   *)
(* the timer.                                                              *)
TimerReschedule(t, at) ==
    /\ time' = [time EXCEPT ![t] = at]
    /\ IF t \in Elements(heap)
       THEN heap' = HeapChange(heap, time', t) /\ UNCHANGED panic
       ELSE panic' = TRUE /\ UNCHANGED heap
    /\ nexttrigger' = NextTrigger(heap', time')

Times == {0} \cup {now + d : d \in Delays}

(* Taps of modifiers, hard keys, animations.                               *)
Reschedule(t) ==
    /\ Running /\ t \in Elements(heap) \ {Send}
    /\ \E at \in Times : TimerReschedule(t, at)
    /\ UNCHANGED <<reinstate, now, ticks, channel, forgotten>>

(* SendNext, called outside of a trigger.                                  *)
SendNext ==
    /\ Running /\ Send \in Elements(heap) /\ channel = "idle"
    /\ channel' = "busy" /\ TimerReschedule(Send, now + SendTimeout) /\ Settles(TRUE)
    /\ UNCHANGED <<reinstate, now, ticks>>

(* mutant: the send timer goes on                                          *)
DataCleanupUntimed ==
    /\ Running /\ Send \in Elements(heap) /\ channel \in {"idle", "busy"}
    /\ channel' \in {"idle", "closed"}
    /\ UNCHANGED <<heap, time, reinstate, nexttrigger, now, ticks, panic, forgotten>>

(* DataCleanup, of a message that is complete or a connection that broke.  *)
DataCleanup ==
    /\ Running /\ Send \in Elements(heap) /\ channel \in {"idle", "busy"}
    /\ channel' \in {"idle", "closed"} /\ TimerReschedule(Send, 0) /\ Settles(TRUE)
    /\ UNCHANGED <<reinstate, now, ticks>>

Connect ==
    /\ Running /\ Send \in Elements(heap) /\ channel = "closed" /\ channel' = "idle"
    /\ UNCHANGED <<heap, time, reinstate, nexttrigger, now, ticks, panic, forgotten>>

(* Disconnect of Bluetooth.c forgets a message that is being sent, and     *)
(* leaves its timer running.                                               *)
Disconnect ==
    /\ Running /\ channel # "closed" /\ channel' = "closed"
    /\ forgotten' = (forgotten \/ channel = "busy")
    /\ UNCHANGED <<heap, time, reinstate, nexttrigger, now, ticks, panic>>

Clock ==
    /\ ~ panic /\ now < MaxTime /\ now' = now + 1
    /\ UNCHANGED <<heap, time, reinstate, nexttrigger, ticks, channel, panic, forgotten>>

(* The first loop of TimerTick, which takes out what is due at time at.    *)
Due(h, at) == h # <<>> /\ time[h[1]] # 0 /\ time[h[1]] <= at
TakeDue(at) ==
    LET take[x \in Seq(Timers) \X Seq(Timers)] ==
            IF Due(x[1], at) THEN take[<<HeapRemove(x[1], time), Append(x[2], x[1][1])>>] ELSE x
    IN  take[<<heap, <<>>>>]

(* mutant: a timer is due after its time, not at it                        *)
TimerTickLate ==
    /\ Running /\ nexttrigger # 0 /\ nexttrigger <= now
    /\ LET due == TakeDue(now - 1)
       IN  heap' = due[1] /\ reinstate' = due[2]
    /\ ticks' = now /\ nexttrigger' = NextTrigger(heap', time)
    /\ UNCHANGED <<time, now, channel, panic, forgotten>>

TimerTick ==
    /\ Running /\ nexttrigger # 0 /\ nexttrigger <= now
    /\ LET due == TakeDue(now)
       IN  heap' = due[1] /\ reinstate' = due[2]
    /\ ticks' = now /\ nexttrigger' = NextTrigger(heap', time)
    /\ UNCHANGED <<time, now, channel, panic, forgotten>>

(* The second loop: t->trigger returned at.                                *)
Later(a, b) == IF a > b THEN a ELSE b
Reinstated(at) == IF at = 0 THEN 0 ELSE Later(at, now + Resolution)

Triggered(t, sends, at) ==
    LET touched == IF sends THEN [time EXCEPT ![Send] = now + SendTimeout] ELSE time
        changed == IF sends THEN HeapChange(heap, touched, Send) ELSE heap
    IN  IF sends /\ Send \notin Elements(heap)
        THEN panic' = TRUE /\ UNCHANGED <<heap, time, reinstate, channel, forgotten>>
        ELSE /\ time' = [touched EXCEPT ![t] = Reinstated(at)]
             /\ heap' = HeapAdd(changed, time', t)
             /\ reinstate' = Tail(reinstate)
             /\ channel' = IF sends THEN "busy" ELSE channel
             /\ Settles(sends \/ t = Send) /\ UNCHANGED panic

Trigger(sends, at) ==
    /\ ~ panic /\ reinstate # <<>>
    /\ sends => Head(reinstate) \in Senders /\ channel = "idle"
    /\ Head(reinstate) = Send => at = 0
    /\ Triggered(Head(reinstate), sends, at)
    /\ ticks' = IF Len(reinstate) = 1 /\ ~ panic' THEN 0 ELSE ticks
    /\ nexttrigger' = IF ticks' = 0 THEN NextTrigger(heap', time') ELSE nexttrigger
    /\ UNCHANGED now

Next ==
    \/ \E t \in Timers : TimerNew(t) \/ TimerFree(t) \/ Reschedule(t)
    \/ SendNext \/ DataCleanup \/ Connect \/ Disconnect \/ Clock \/ TimerTick
    \/ \E sends \in BOOLEAN, at \in Times : Trigger(sends, at)

Spec == Init /\ [][Next]_vars

-----------------------------------------------------------------------------
(* The types of the state.                                                 *)
TypeOK ==
    /\ heap \in Seq(Timers) /\ reinstate \in Seq(Timers)
    /\ time \in [Timers -> Nat] /\ {nexttrigger, now, ticks} \subseteq Nat
    /\ channel \in {"closed", "idle", "busy"} /\ panic \in BOOLEAN
    /\ forgotten \in BOOLEAN
    /\ reinstate # <<>> <=> ticks # 0

Armed == {t \in Elements(heap) : time[t] # 0}

(* No timer is behind its children, whatever order timers are set,         *)
(* canceled, triggered and freed in, and between ticks g_nexttrigger is    *)
(* the earliest time of an armed timer, so that TimerTimeout lets no event *)
(* loop sleep past it.                                                     *)
HeapOrdered ==
    /\ TypeOK
    /\ \A i \in 2 .. Len(heap) : ~ Before(time, heap[i], heap[i \div 2])
    /\ ticks = 0 /\ ~ panic =>
          IF Armed = {} THEN nexttrigger = 0
          ELSE /\ \A t \in Armed : nexttrigger <= time[t]
               /\ \E t \in Armed : nexttrigger = time[t]

(* No timer is in two places, and only unarmed ones are in none.           *)
NoneLost ==
    /\ \A i, j \in 1 .. Len(heap) : heap[i] = heap[j] => i = j
    /\ \A i, j \in 1 .. Len(reinstate) : reinstate[i] = reinstate[j] => i = j
    /\ Elements(heap) \cap Elements(reinstate) = {}
    /\ \A t \in Timers : time[t] # 0 => t \in Elements(heap) \cup Elements(reinstate)

(* No timer is lost, and while TimerTick runs none is still to be taken:   *)
(* each is triggered at most once in a tick, in the order of their times   *)
(* ("Later timers will get a chance to run at the next TimerTick           *)
(* invocation", Timer.c).                                                  *)
OncePerTick ==
    /\ NoneLost
    /\ ticks # 0 =>
          /\ \A t \in Armed : time[t] > ticks
          /\ ~ panic => \A i \in 1 .. Len(reinstate) - 1 :
                            time[reinstate[i]] <= time[reinstate[i + 1]]

(* The assertion of HeapChange (Heap.c:349, "ASSERT (i != impl->size)")    *)
(* fails only where a trigger sends while the send timer is due with it    *)
(* and still runs for a message that Disconnect forgot (Bluetooth.c:1168): *)
(* no other order of messages, connections and triggers leads there.       *)
AssertsHold == panic => forgotten
=============================================================================
