---------------------------- MODULE ChannelProofs ----------------------------
(***************************************************************************)
(* For every bound on what waits: the buffer of the channel has one owner, *)
(* no message is sent twice, a message that is on its way is timed while   *)
(* the program counts as connected, and no report waits on an idle channel *)
(* if the host takes longer than one sleep to come back.                   *)
(*                                                                         *)
(* First what a change of the channel alone preserves, then each way in    *)
(* which a loop ends, then the actions.                                    *)
(***************************************************************************)
EXTENDS Channel, FiniteSetTheorems, SequenceTheorems, TLAPS

Channels == [connected : BOOLEAN, waiting : Seq(Ids), data : Ids \cup {None},
             sendTimer : BOOLEAN, lib : Ids \cup {None}, moved : BOOLEAN, cmds : Seq(Commands)]
Programs == [loop : Loops, state : {"Disconnected", "Waiting", "Connected"}, retry : BOOLEAN,
             connected : BOOLEAN, outbound : BOOLEAN, again : BOOLEAN, target : Ids \cup {None}]
Links    == {"down", "up", "dying"}

(* One of the commands of C waits.                                         *)
Has(s, C) == \E i \in 1 .. Len(s.cmds) : s.cmds[i] \in C

(* The channel by itself: one owner of the buffer, one place for a message.*)
Owned(s) ==
    /\ s \in Channels
    /\ s.lib # None => s.lib = s.data
    /\ ~ s.connected => s.data = None
    /\ \A i, j \in 1 .. Len(s.waiting) : s.waiting[i] = s.waiting[j] => i = j
    /\ s.data # None => \A i \in 1 .. Len(s.waiting) : s.waiting[i] # s.data

(* Disconnect adds two reports to a queue that is longest, others one or   *)
(* two to one below the bound.                                             *)
Most(loop) == IF loop = "drain" THEN MaxWaiting + 3 ELSE MaxWaiting + 1

Shape(s, r, l) ==
    /\ Owned(s) /\ r \in Programs /\ l \in Links
    /\ Len(s.waiting) <= Most(r.loop)
    /\ r.connected => s.connected /\ r.loop \in {"main", "exit"}
    /\ r.loop = "radio" => ~ s.connected
    /\ l = "dying" => ~ s.connected

(* A message on its way is timed, whatever is ignored by the main loop.    *)
Timely(s, r) ==
    r.loop = "main" /\ (r.state = "Connected" \/ r.connected) /\ s.data # None
        => s.sendTimer \/ Has(s, {"RadioError"})

(* The loop that waits for the first report notices its end as soon as it  *)
(* runs, so no command that it drops is about what was sent afterwards.    *)
Noticed(s, r, z) ==
    r.loop = "first" =>
        /\ ~ z => s.connected /\ ~ Processed(s, r.target)
        /\ Processed(s, r.target) /\ s.data # None => s.sendTimer

(* A connection that is over, or about to be, is known to be.              *)
Lost(s, l) == l = "dying" \/ Has(s, {"LinkUser", "LinkLost", "InitiateDisconnect",
                                     "ConnectionError"})
Over(s, l) == Lost(s, l) \/ Has(s, {"RadioError"})
Known(s, r, l, z) ==
    /\ r.loop = "main" /\ r.state = "Connected" /\ ~ r.connected
          => Over(s, l) \/ (~ z /\ ~ s.connected /\ Has(s, {"ExitApp"}))
    /\ r.loop = "first" /\ z /\ ~ s.connected => Lost(s, l)

(* What is left on an idle channel is left by an error the program has yet *)
(* to handle.                                                              *)
Idle(s) == s.connected /\ s.waiting # <<>> /\ s.data = None
Started(s, r) ==
    /\ r.loop = "main" /\ r.connected /\ Idle(s)
          => Has(s, {"SendError", "LinkUser", "LinkLost", "RadioError"})
    /\ r.loop = "first" /\ Idle(s) /\ Processed(s, r.target)
          => Has(s, {"SendError", "LinkUser", "LinkLost"})

World(s, r, l, z) ==
    /\ Shape(s, r, l) /\ Timely(s, r) /\ Noticed(s, r, z) /\ Known(s, r, l, z)
    /\ ~ QuickHost => Started(s, r)

IInv == World(c, p, link, asleep) /\ asleep \in BOOLEAN

-----------------------------------------------------------------------------
LEMMA AddedElement ==
    ASSUME NEW S, IsFiniteSet(S), NEW x
    PROVE  /\ IsFiniteSet(S \cup {x})
           /\ Cardinality(S \cup {x}) \in Nat /\ Cardinality(S \cup {x}) <= Cardinality(S) + 1
<1>1. Cardinality(S) \in Nat
  BY FS_CardinalityType
<1>2. CASE x \in S
  BY <1>1, <1>2, FS_AddElement
<1>3. CASE x \notin S
  BY <1>1, <1>3, FS_AddElement
<1>4. QED
  BY <1>2, <1>3

LEMMA UpTo == ASSUME NEW n \in Nat PROVE IsFiniteSet(1 .. n) /\ Cardinality(1 .. n) = n
<1>1. 1 \in Int /\ n \in Int
  OBVIOUS
<1>2. IsFiniteSet(1 .. n) /\ Cardinality(1 .. n) = IF 1 > n THEN 0 ELSE n - 1 + 1
  BY <1>1, FS_Interval, Zenon
<1>3. (IF 1 > n THEN 0 ELSE n - 1 + 1) = n
  OBVIOUS
<1>4. QED
  BY <1>2, <1>3

(* There is always a handle that is in no use.                             *)
LEMMA NewIdFree ==
    ASSUME NEW s \in Channels, Len(s.waiting) <= MaxWaiting + 3
    PROVE  NewId(s) \in Ids /\ NewId(s) \notin InQueue(s) /\ NewId(s) # None
<1> DEFINE Places == 1 .. Len(s.waiting)
           Waiting == {s.waiting[i] : i \in Places}
           Taken == InQueue(s) \cup {p.target}
<1>1. MaxWaiting \in Nat /\ Len(s.waiting) \in Nat
  BY ChannelAssumption DEF Channels
<1>2. IsFiniteSet(Places) /\ Cardinality(Places) = Len(s.waiting)
  BY <1>1, UpTo, Zenon
<1>3. IsFiniteSet(Waiting) /\ Cardinality(Waiting) <= Len(s.waiting)
  <2> DEFINE f == [i \in Places |-> s.waiting[i]]
  <2>1. f \in Surjection(Places, Waiting)
    BY DEF Surjection
  <2>2. QED
    BY <1>2, <2>1, FS_Surjection
<1>4. Taken = (Waiting \cup {s.data}) \cup {p.target}
  BY DEF InQueue
<1> HIDE DEF Waiting, Places, Taken
<1>5. /\ IsFiniteSet(Waiting \cup {s.data})
      /\ Cardinality(Waiting \cup {s.data}) <= Len(s.waiting) + 1
  <2>1. Cardinality(Waiting) \in Nat
    BY <1>3, FS_CardinalityType
  <2>2. /\ IsFiniteSet(Waiting \cup {s.data}) /\ Cardinality(Waiting \cup {s.data}) \in Nat
        /\ Cardinality(Waiting \cup {s.data}) <= Cardinality(Waiting) + 1
    BY <1>3, AddedElement, Zenon
  <2>3. QED
    BY <1>3, <1>1, <2>1, <2>2
<1>6. IsFiniteSet(Taken) /\ Cardinality(Taken) <= Len(s.waiting) + 2
  <2>1. Cardinality(Waiting \cup {s.data}) \in Nat
    BY <1>5, FS_CardinalityType
  <2>2. /\ IsFiniteSet(Taken) /\ Cardinality(Taken) \in Nat
        /\ Cardinality(Taken) <= Cardinality(Waiting \cup {s.data}) + 1
    BY <1>4, <1>5, AddedElement, Zenon
  <2>3. QED
    BY <1>5, <1>1, <2>1, <2>2
<1>7. IsFiniteSet(Ids) /\ Cardinality(Ids) = MaxWaiting + 7
  <2>1. 1 \in Int /\ MaxWaiting + 7 \in Int /\ ~ (1 > MaxWaiting + 7)
    BY <1>1
  <2>2. IsFiniteSet(1 .. MaxWaiting + 7) /\ Cardinality(1 .. MaxWaiting + 7) = MaxWaiting + 7
    BY <2>1, <1>1, FS_Interval
  <2>3. QED
    BY <2>2 DEF Ids
<1>8. ~ (Ids \subseteq Taken)
  <2>1. Cardinality(Taken) \in Nat
    BY <1>6, FS_CardinalityType
  <2>2. ASSUME Ids \subseteq Taken PROVE Cardinality(Ids) <= Cardinality(Taken)
    BY <2>2, <1>6, FS_Subset
  <2>3. QED
    BY <2>1, <2>2, <1>1, <1>6, <1>7
<1>9. NewId(s) \in Ids /\ NewId(s) \notin Taken
  BY <1>8 DEF NewId, Taken
<1>10. QED
  BY <1>9, <1>1 DEF Ids, None, Taken
-----------------------------------------------------------------------------
(* What a sequence of sends may do to the channel.                         *)
Extends(s, t) ==
    Len(s.cmds) <= Len(t.cmds) /\ \A i \in 1 .. Len(s.cmds) : t.cmds[i] = s.cmds[i]

Sends(s, t) ==
    /\ Owned(t) /\ t.connected = s.connected /\ Extends(s, t)
    /\ s.connected => InQueue(s) \ {None} \subseteq InQueue(t)
    /\ t.data # None => t.sendTimer \/ (t.data = s.data /\ t.sendTimer = s.sendTimer)
    /\ ~ Idle(s) => ~ Idle(t)

LEMMA EnqueueFacts ==
    ASSUME NEW s \in Channels, NEW cmd \in Commands
    PROVE  /\ Enqueue(s, cmd) \in Channels
           /\ Enqueue(s, cmd).connected = s.connected /\ Enqueue(s, cmd).waiting = s.waiting
           /\ Enqueue(s, cmd).data = s.data /\ Enqueue(s, cmd).sendTimer = s.sendTimer
           /\ Enqueue(s, cmd).lib = s.lib /\ Enqueue(s, cmd).moved = s.moved
           /\ Extends(s, Enqueue(s, cmd))
           /\ \A C : cmd \in C => Has(Enqueue(s, cmd), C)
<1>1. s.cmds \in Seq(Commands)
  BY DEF Channels
<1>2. Enqueue(s, cmd).cmds = Append(s.cmds, cmd)
  BY DEF Channels, Enqueue
<1>3. /\ Append(s.cmds, cmd) \in Seq(Commands) /\ Len(Append(s.cmds, cmd)) = Len(s.cmds) + 1
      /\ \A i \in 1 .. Len(s.cmds) : Append(s.cmds, cmd)[i] = s.cmds[i]
      /\ Append(s.cmds, cmd)[Len(s.cmds) + 1] = cmd /\ Len(s.cmds) \in Nat
  BY <1>1, AppendProperties, LenProperties
<1>4. Enqueue(s, cmd) \in Channels
  BY <1>3 DEF Channels, Enqueue
<1>5. Extends(s, Enqueue(s, cmd))
  BY <1>2, <1>3 DEF Extends
<1>6. \A C : cmd \in C => Has(Enqueue(s, cmd), C)
  BY <1>2, <1>3 DEF Has
<1>7. QED
  BY <1>4, <1>5, <1>6 DEF Channels, Enqueue

LEMMA EnqueueOwned ==
    ASSUME NEW s, Owned(s), NEW cmd \in Commands
    PROVE  Owned(Enqueue(s, cmd)) /\ Sends(s, Enqueue(s, cmd))
  BY EnqueueFacts DEF Owned, Sends, InQueue, Idle

LEMMA ExtendsHas ==
    ASSUME NEW s \in Channels, NEW t \in Channels, Extends(s, t), NEW C, Has(s, C)
    PROVE  Has(t, C)
  BY DEF Extends, Has, Channels

LEMMA SendsTransitive ==
    ASSUME NEW s, Owned(s), NEW t, NEW u, Sends(s, t), Sends(t, u)
    PROVE  Sends(s, u)
<1>1. Extends(s, u)
  BY DEF Sends, Extends, Owned, Channels
<1>2. s.connected => InQueue(s) \ {None} \subseteq InQueue(u)
  BY DEF Sends, InQueue
<1>3. QED
  BY <1>1, <1>2 DEF Sends

LEMMA SendsReflexive ==
    ASSUME NEW s, Owned(s)
    PROVE  Sends(s, s)
  BY DEF Sends, Extends, Owned, Channels

(* The head of the queue moves to c->data, and is timed.                   *)
LEMMA TransmitSends ==
    ASSUME NEW s, Owned(s), s.connected, s.data = None, s.waiting # <<>>, NEW a \in Answers
    PROVE  /\ Sends(s, Transmit(s, a)) /\ ~ Idle(Transmit(s, a))
           /\ Transmit(s, a).data # None
           /\ Len(Transmit(s, a).waiting) = Len(s.waiting) - 1
<1> DEFINE h == Head(s.waiting)
           t == [s EXCEPT !.waiting = Tail(s.waiting), !.data = h, !.sendTimer = TRUE,
                          !.lib = IF a = "pending" THEN h ELSE None]
<1>1. /\ s \in Channels /\ s.waiting \in Seq(Ids) /\ Len(s.waiting) \in Nat
      /\ \A i, j \in 1 .. Len(s.waiting) : s.waiting[i] = s.waiting[j] => i = j
  BY LenProperties DEF Owned, Channels
<1>2. /\ h \in Ids /\ h = s.waiting[1] /\ Len(s.waiting) >= 1
      /\ Tail(s.waiting) \in Seq(Ids) /\ Len(Tail(s.waiting)) = Len(s.waiting) - 1
      /\ \A i \in 1 .. Len(s.waiting) - 1 : Tail(s.waiting)[i] = s.waiting[i + 1]
  BY <1>1, HeadTailProperties, EmptySeq
<1>3. h # None
  BY <1>2 DEF Ids, None
<1> HIDE DEF h
<1>4. /\ t.connected = s.connected /\ t.waiting = Tail(s.waiting) /\ t.data = h /\ t.sendTimer
      /\ t.lib = (IF a = "pending" THEN h ELSE None) /\ t.moved = s.moved /\ t.cmds = s.cmds
  BY <1>1 DEF Channels
<1>5. t \in Channels
  BY <1>1, <1>2 DEF Channels
<1>6. Transmit(s, a) = IF a = "pending" THEN t ELSE Enqueue(t, "SendError")
  BY DEF Transmit, h
<1> HIDE DEF t
<1>7. \A i, j \in 1 .. Len(t.waiting) : t.waiting[i] = t.waiting[j] => i = j
  BY <1>1, <1>2, <1>4
<1>8. \A i \in 1 .. Len(t.waiting) : t.waiting[i] # t.data
  <2> SUFFICES ASSUME NEW i \in 1 .. Len(t.waiting), t.waiting[i] = t.data PROVE FALSE
    OBVIOUS
  <2>1. i + 1 \in 1 .. Len(s.waiting) /\ 1 \in 1 .. Len(s.waiting) /\ i + 1 # 1
    BY <1>1, <1>2, <1>4
  <2>2. s.waiting[i + 1] = s.waiting[1]
    BY <1>2, <1>4
  <2>3. QED
    BY <2>1, <2>2, <1>1
<1>9. InQueue(s) \ {None} \subseteq InQueue(t)
  <2> SUFFICES ASSUME NEW i \in 1 .. Len(s.waiting) PROVE s.waiting[i] \in InQueue(t)
    BY DEF InQueue
  <2>1. CASE i = 1
    BY <2>1, <1>2, <1>4 DEF InQueue
  <2>2. CASE i # 1
    <3>1. i - 1 \in 1 .. Len(t.waiting) /\ t.waiting[i - 1] = s.waiting[i]
      BY <2>2, <1>1, <1>2, <1>4
    <3>2. QED
      BY <3>1 DEF InQueue
  <2>3. QED
    BY <2>1, <2>2
<1>10. Owned(t)
  BY <1>3, <1>4, <1>5, <1>7, <1>8 DEF Owned
<1>11. Sends(s, t) /\ ~ Idle(t) /\ t.data # None
  BY <1>1, <1>3, <1>4, <1>9, <1>10 DEF Sends, Idle, Extends
<1>12. "SendError" \in Commands
  BY DEF Commands
<1>13. CASE a = "pending"
  BY <1>13, <1>6, <1>11, <1>4, <1>2
<1>14. CASE a # "pending"
  <2>1. Sends(t, Enqueue(t, "SendError"))
    BY <1>12, <1>10, EnqueueOwned
  <2>2. Sends(s, Enqueue(t, "SendError"))
    BY <2>1, <1>11, SendsTransitive
  <2>3. /\ Enqueue(t, "SendError").data = t.data
        /\ Enqueue(t, "SendError").waiting = t.waiting
    BY <1>5, <1>12, EnqueueFacts
  <2>4. QED
    BY <1>14, <1>6, <1>11, <2>1, <2>2, <2>3, <1>4, <1>2 DEF Sends
<1>15. QED
  BY <1>13, <1>14
(* SendNext leaves nothing on an idle channel.                             *)
LEMMA SendNextSends ==
    ASSUME NEW s, Owned(s), Len(s.waiting) <= MaxWaiting + 3,
           NEW a \in Answers, NEW d \in BOOLEAN
    PROVE  /\ Sends(s, SendNext(s, a, d)) /\ ~ Idle(SendNext(s, a, d))
           /\ Len(SendNext(s, a, d).waiting) <= Len(s.waiting)
           /\ s.connected /\ s.waiting # <<>> => SendNext(s, a, d).data # None
<1>1. s \in Channels /\ s.waiting \in Seq(Ids) /\ Len(s.waiting) \in Nat
  BY LenProperties DEF Owned, Channels
<1>2. CASE ~ s.connected
  <2> DEFINE t == [s EXCEPT !.waiting = <<>>]
  <2>1. /\ t \in Channels /\ t.waiting = <<>> /\ t.data = s.data /\ t.lib = s.lib
        /\ t.connected = s.connected /\ t.sendTimer = s.sendTimer /\ t.cmds = s.cmds
    BY <1>1, EmptySeq DEF Channels
  <2>2. SendNext(s, a, d) = t
    BY <1>2 DEF SendNext
  <2> HIDE DEF t
  <2>3. Sends(s, t) /\ ~ Idle(t)
    BY <1>1, <1>2, <2>1 DEF Owned, Sends, Extends, Idle, Channels
  <2>4. QED
    BY <1>1, <1>2, <2>1, <2>2, <2>3
<1>3. CASE s.connected /\ s.data # None
  BY <1>1, <1>3, SendsReflexive DEF SendNext, Idle
<1>4. CASE s.connected /\ s.data = None /\ s.waiting # <<>>
  BY <1>1, <1>4, TransmitSends DEF SendNext
<1>5. CASE s.connected /\ s.data = None /\ s.waiting = <<>> /\ ~ (s.moved /\ ~ d)
  BY <1>1, <1>5, SendsReflexive DEF SendNext, Idle
<1>6. CASE s.connected /\ s.data = None /\ s.waiting = <<>> /\ s.moved /\ ~ d
  <2> DEFINE t == [s EXCEPT !.waiting = <<NewId(s)>>, !.moved = FALSE]
  <2>1. NewId(s) \in Ids
    BY <1>1, NewIdFree
  <2>2. <<NewId(s)>> \in Seq(Ids) /\ Len(<<NewId(s)>>) = 1 /\ <<NewId(s)>> # <<>>
    BY <2>1
  <2>3. /\ t \in Channels /\ t.waiting = <<NewId(s)>> /\ t.data = s.data /\ t.lib = s.lib
        /\ t.connected = s.connected /\ t.sendTimer = s.sendTimer /\ t.cmds = s.cmds
    BY <1>1, <2>2 DEF Channels
  <2>4. SendNext(s, a, d) = Transmit(t, a)
    BY <1>6 DEF SendNext
  <2> HIDE DEF t
  <2>5. Owned(t)
    BY <1>6, <2>2, <2>3 DEF Owned
  <2>6. /\ Sends(t, Transmit(t, a)) /\ ~ Idle(Transmit(t, a)) /\ Transmit(t, a).data # None
        /\ Len(Transmit(t, a).waiting) = 0
    <3>1. t.connected /\ t.data = None /\ t.waiting # <<>> /\ Len(t.waiting) = 1
      BY <1>6, <2>2, <2>3
    <3>2. /\ Sends(t, Transmit(t, a)) /\ ~ Idle(Transmit(t, a)) /\ Transmit(t, a).data # None
          /\ Len(Transmit(t, a).waiting) = Len(t.waiting) - 1
      BY <2>5, <3>1, TransmitSends, Zenon
    <3>3. QED
      BY <3>1, <3>2
  <2>7. InQueue(s) = {None}
    BY <1>1, <1>6 DEF InQueue
  <2>8. Sends(s, Transmit(t, a))
    BY <1>6, <2>3, <2>6, <2>7 DEF Sends, Extends
  <2>9. QED
    BY <1>1, <1>6, <2>4, <2>6, <2>8
<1>7. QED
  BY <1>2, <1>3, <1>4, <1>5, <1>6

(* SendData adds one report; a connected channel is then busy.             *)
LEMMA SendDataSends ==
    ASSUME NEW s, Owned(s), Len(s.waiting) <= MaxWaiting + 2, NEW a \in Answers
    PROVE  /\ Sends(s, SendData(s, a)) /\ ~ Idle(SendData(s, a))
           /\ Len(SendData(s, a).waiting) <= Len(s.waiting) + 1
           /\ s.connected => SendData(s, a).data # None
           /\ s.connected /\ s.data # None => SendData(s, a).waiting # <<>>
<1> DEFINE t == [s EXCEPT !.waiting = Append(s.waiting, NewId(s))]
<1>1. s \in Channels /\ s.waiting \in Seq(Ids) /\ Len(s.waiting) \in Nat /\ MaxWaiting \in Nat
  BY LenProperties, ChannelAssumption DEF Owned, Channels
<1>2. NewId(s) \in Ids /\ NewId(s) \notin InQueue(s)
  BY <1>1, NewIdFree
<1>3. /\ Append(s.waiting, NewId(s)) \in Seq(Ids)
      /\ Len(Append(s.waiting, NewId(s))) = Len(s.waiting) + 1
      /\ \A i \in 1 .. Len(s.waiting) : Append(s.waiting, NewId(s))[i] = s.waiting[i]
      /\ Append(s.waiting, NewId(s))[Len(s.waiting) + 1] = NewId(s)
      /\ Append(s.waiting, NewId(s)) # <<>>
  BY <1>1, <1>2, AppendProperties
<1>4. /\ t \in Channels /\ t.waiting = Append(s.waiting, NewId(s)) /\ t.data = s.data
      /\ t.lib = s.lib /\ t.connected = s.connected /\ t.sendTimer = s.sendTimer
      /\ t.cmds = s.cmds
  BY <1>1, <1>3 DEF Channels
<1>5. SendData(s, a) = SendNext(t, a, FALSE)
  BY DEF SendData
<1> HIDE DEF t
<1>6. \A i \in 1 .. Len(s.waiting) : s.waiting[i] # NewId(s)
  BY <1>2 DEF InQueue
<1>7. \A i, j \in 1 .. Len(t.waiting) : t.waiting[i] = t.waiting[j] => i = j
  <2> SUFFICES ASSUME NEW i \in 1 .. Len(t.waiting), NEW j \in 1 .. Len(t.waiting),
                      t.waiting[i] = t.waiting[j], i < j
               PROVE  FALSE
    BY <1>1, <1>3, <1>4
  <2>1. i \in 1 .. Len(s.waiting) /\ t.waiting[i] = s.waiting[i]
    BY <1>1, <1>3, <1>4
  <2>2. CASE j \in 1 .. Len(s.waiting)
    <3>1. s.waiting[i] = s.waiting[j]
      BY <2>1, <2>2, <1>3, <1>4
    <3>2. QED
      BY <3>1, <2>1, <2>2, <1>1 DEF Owned
  <2>3. CASE j = Len(s.waiting) + 1
    BY <2>1, <2>3, <1>3, <1>4, <1>6
  <2>4. QED
    BY <2>2, <2>3, <1>1, <1>3, <1>4
<1>8. t.data # None => \A i \in 1 .. Len(t.waiting) : t.waiting[i] # t.data
  <2> SUFFICES ASSUME s.data # None, NEW i \in 1 .. Len(t.waiting) PROVE t.waiting[i] # s.data
    BY <1>4
  <2>1. CASE i \in 1 .. Len(s.waiting)
    BY <2>1, <1>3, <1>4 DEF Owned
  <2>2. CASE i = Len(s.waiting) + 1
    BY <2>2, <1>2, <1>3, <1>4 DEF InQueue
  <2>3. QED
    BY <2>1, <2>2, <1>1, <1>3, <1>4
<1>9. Owned(t)
  BY <1>4, <1>7, <1>8 DEF Owned
<1>10. InQueue(s) \subseteq InQueue(t)
  BY <1>1, <1>3, <1>4 DEF InQueue
<1> DEFINE u == SendNext(t, a, FALSE)
<1>11. /\ Sends(t, u) /\ ~ Idle(u) /\ Len(u.waiting) <= Len(s.waiting) + 1
       /\ s.connected => u.data # None
  <2>1. Len(t.waiting) <= MaxWaiting + 3 /\ Len(t.waiting) = Len(s.waiting) + 1 /\ t.waiting # <<>>
    BY <1>1, <1>3, <1>4
  <2>2. /\ Sends(t, u) /\ ~ Idle(u) /\ Len(u.waiting) <= Len(t.waiting)
        /\ t.connected /\ t.waiting # <<>> => u.data # None
    BY <1>9, <2>1, SendNextSends, Zenon
  <2>3. QED
    BY <1>4, <2>1, <2>2
<1>12. s.connected /\ s.data # None => u.waiting # <<>>
  BY <1>3, <1>4 DEF SendNext
<1> HIDE DEF u
<1>13. Sends(s, u)
  BY <1>4, <1>10, <1>11 DEF Sends, Extends
<1>14. QED
  BY <1>5, <1>11, <1>12, <1>13 DEF u

LEMMA FullReportSends ==
    ASSUME NEW s, Owned(s), Len(s.waiting) <= MaxWaiting + 1, NEW a \in Answers
    PROVE  /\ Sends(s, FullReport(s, a)) /\ ~ Idle(FullReport(s, a))
           /\ Len(FullReport(s, a).waiting) <= Len(s.waiting) + 2
           /\ s.connected => /\ FullReport(s, a).data # None
                             /\ FullReport(s, a).waiting # <<>>
<1> DEFINE m == [s EXCEPT !.moved = FALSE]
<1>1. s \in Channels /\ s.waiting \in Seq(Ids) /\ Len(s.waiting) \in Nat /\ MaxWaiting \in Nat
  BY LenProperties, ChannelAssumption DEF Owned, Channels
<1>2. /\ m \in Channels /\ m.waiting = s.waiting /\ m.data = s.data /\ m.lib = s.lib
      /\ m.connected = s.connected /\ m.sendTimer = s.sendTimer /\ m.cmds = s.cmds
  BY <1>1 DEF Channels
<1>3. FullReport(s, a) = SendData(SendData(m, a), a)
  BY DEF FullReport
<1> HIDE DEF m
<1>4. Owned(m) /\ Sends(s, m)
  BY <1>1, <1>2 DEF Owned, Sends, Extends, InQueue, Idle, Channels
<1> DEFINE t == SendData(m, a)
           u == SendData(t, a)
<1>5. /\ Sends(m, t) /\ Len(t.waiting) <= Len(s.waiting) + 1
      /\ s.connected => t.data # None
  BY <1>1, <1>2, <1>4, SendDataSends
<1>6. Owned(t) /\ Len(t.waiting) \in Nat /\ t.connected = s.connected
  BY <1>2, <1>5, LenProperties DEF Sends, Owned, Channels
<1> HIDE DEF t
<1>7. /\ Sends(t, u) /\ ~ Idle(u) /\ Len(u.waiting) <= Len(t.waiting) + 1
      /\ s.connected => u.data # None /\ u.waiting # <<>>
  BY <1>1, <1>5, <1>6, SendDataSends
<1>8. Len(u.waiting) \in Nat
  BY <1>7, LenProperties DEF Sends, Owned, Channels
<1>9. Sends(s, u)
  BY <1>4, <1>5, <1>6, <1>7, SendsTransitive
<1> HIDE DEF u
<1>10. QED
  BY <1>1, <1>3, <1>5, <1>6, <1>7, <1>8, <1>9 DEF t, u
-----------------------------------------------------------------------------
(* Where a loop of the program leads.                                      *)
Placed(s, l) ==
    /\ Owned(s) /\ p \in Programs /\ l \in Links
    /\ Len(s.waiting) <= MaxWaiting + 1
    /\ l = "dying" => ~ s.connected

LEMMA ClosedFacts ==
    ASSUME NEW s, Owned(s)
    PROVE  /\ Owned(Closed(s)) /\ ~ Closed(s).connected /\ Closed(s).data = None
           /\ Closed(s).waiting = <<>> /\ Len(Closed(s).waiting) = 0
           /\ Closed(s).cmds = s.cmds
<1> DEFINE t == Closed(s)
<1>1. /\ t \in Channels /\ ~ t.connected /\ t.data = None /\ t.lib = None /\ t.waiting = <<>>
      /\ t.cmds = s.cmds
  BY EmptySeq DEF Owned, Channels, Closed
<1> HIDE DEF t
<1>2. QED
  BY <1>1 DEF Owned, t

(* Loops that set a connection up or take it down have no more to keep.    *)
LEMMA Elsewhere ==
    ASSUME NEW s, NEW r \in Programs, NEW l, NEW z, Placed(s, l), ~ r.connected,
           \/ r.loop \in {"connect", "settle", "unlink"}
           \/ r.loop = "main" /\ r.state # "Connected"
    PROVE  World(s, r, l, z)
<1>1. Shape(s, r, l)
  BY DEF Shape, Placed, Most
<1>2. Timely(s, r) /\ Noticed(s, r, z) /\ Known(s, r, l, z) /\ Started(s, r)
  BY DEF Timely, Noticed, Known, Started
<1>3. QED
  BY <1>1, <1>2 DEF World

LEMMA MainOffline ==
    ASSUME NEW s, NEW retry \in BOOLEAN, Placed(s, link'), Main(s, "Disconnected", retry, FALSE)
    PROVE  World(c', p', link', FALSE)
<1>1. /\ c' = s /\ p' \in Programs /\ p'.loop = "main" /\ p'.state = "Disconnected"
      /\ ~ p'.connected
  BY DEF Main, Go, Placed, Programs, Loops, Ids, None
<1>2. QED
  BY <1>1, Elsewhere

LEMMA SetUpWorld ==
    ASSUME NEW s, NEW outbound \in BOOLEAN, NEW retry \in BOOLEAN, Placed(s, link'),
           SetUp(s, outbound, retry)
    PROVE  World(c', p', link', FALSE)
<1>1. c' = s /\ p' \in Programs /\ p'.loop \in {"connect", "settle"} /\ ~ p'.connected
  BY DEF SetUp, Go, Placed, Programs, Loops, Ids, None
<1>2. QED
  BY <1>1, Elsewhere

LEMMA FailedWorld ==
    ASSUME NEW s, NEW canceled, Placed(s, link), link' = link, Failed(s, canceled)
    PROVE  World(c', p', link', FALSE)
<1>1. Placed(s, link') /\ p.retry \in BOOLEAN
  BY DEF Placed, Programs
<1>2. Placed(Closed(s), link')
  BY <1>1, ClosedFacts, ChannelAssumption DEF Placed
<1>3. CASE p.outbound
  BY <1>3, <1>2, MainOffline DEF Failed
<1>4. CASE ~ p.outbound /\ canceled
  BY <1>4, <1>1, MainOffline DEF Failed
<1>5. CASE ~ p.outbound /\ ~ canceled
  BY <1>5, <1>1, SetUpWorld DEF Failed
<1>6. QED
  BY <1>3, <1>4, <1>5

LEMMA UnlinkedWorld ==
    ASSUME NEW s, NEW again, Placed(s, link'), Unlinked(s, again)
    PROVE  World(c', p', link', FALSE)
<1>1. p.retry \in BOOLEAN
  BY DEF Placed, Programs
<1>2. CASE again
  BY <1>1, <1>2, SetUpWorld DEF Unlinked
<1>3. CASE ~ again
  BY <1>3, MainOffline DEF Unlinked
<1>4. QED
  BY <1>2, <1>3

LEMMA DrainedWorld ==
    ASSUME NEW s, Owned(s), p \in Programs, link \in Links, NEW again \in BOOLEAN,
           Drained(s, again)
    PROVE  World(c', p', link', FALSE)
<1>1. \A l \in Links : Placed(Closed(s), l)
  BY ClosedFacts, ChannelAssumption DEF Placed
<1>2. CASE link = "down"
  BY <1>1, <1>2, UnlinkedWorld DEF Drained
<1>3. CASE link # "down"
  <2>1. /\ c' = Closed(s) /\ p' \in Programs /\ p'.loop = "unlink" /\ ~ p'.connected
        /\ link' = "dying"
    BY <1>3 DEF Drained, Go, Programs, Loops, Ids, None
  <2>2. QED
    BY <1>1, <2>1, Elsewhere DEF Links
<1>4. QED
  BY <1>2, <1>3

LEMMA LastFacts ==
    ASSUME NEW s, Owned(s), s.waiting # <<>>
    PROVE  /\ s.waiting[Len(s.waiting)] \in Ids /\ s.waiting[Len(s.waiting)] # None
           /\ ~ Processed(s, s.waiting[Len(s.waiting)])
<1>1. Len(s.waiting) \in 1 .. Len(s.waiting) /\ \A i \in 1 .. Len(s.waiting) : s.waiting[i] \in Ids
  BY EmptySeq, LenProperties DEF Owned, Channels
<1>2. None \notin Ids
  BY DEF None, Ids
<1>3. QED
  BY <1>1, <1>2 DEF Processed, InQueue

LEMMA DisconnectWorld ==
    ASSUME NEW s, Placed(s, link), NEW again \in BOOLEAN, NEW a \in Answers,
           Disconnect(s, a, again)
    PROVE  World(c', p', link', FALSE)
<1> DEFINE reset == IF p.connected THEN FullReport(s, a) ELSE s
           sent  == SendNext(reset, a, TRUE)
           last  == IF sent.waiting = <<>> THEN None ELSE sent.waiting[Len(sent.waiting)]
<1>1. Owned(reset) /\ Len(reset.waiting) <= MaxWaiting + 3 /\ reset.connected = s.connected
  <2>1. Len(s.waiting) \in Nat /\ MaxWaiting \in Nat
    BY ChannelAssumption, LenProperties DEF Placed, Owned, Channels
  <2>2. CASE p.connected
    <3>1. /\ Sends(s, FullReport(s, a)) /\ Len(FullReport(s, a).waiting) <= Len(s.waiting) + 2
      BY FullReportSends DEF Placed
    <3>2. Len(FullReport(s, a).waiting) \in Nat
      BY <3>1, LenProperties DEF Sends, Owned, Channels
    <3>3. QED
      BY <2>1, <2>2, <3>1, <3>2 DEF Sends, Placed
  <2>3. CASE ~ p.connected
    BY <2>1, <2>3 DEF Placed
  <2>4. QED
    BY <2>2, <2>3
<1> HIDE DEF reset
<1>2. Sends(reset, sent) /\ Len(sent.waiting) <= Len(reset.waiting)
  BY <1>1, SendNextSends, Zenon
<1>3. p \in Programs /\ link \in Links
  BY DEF Placed
<1>4. CASE s.connected /\ reset.waiting # <<>> /\ last # None
  <2>1. /\ c' = sent /\ p' = [p EXCEPT !.loop = "drain", !.target = last, !.again = again,
                                       !.connected = FALSE]
        /\ link' = link
    BY <1>4 DEF Disconnect, Go, reset
  <2> HIDE DEF sent
  <2>2. sent.waiting # <<>> /\ last = sent.waiting[Len(sent.waiting)]
    BY <1>4
  <2>3. last \in Ids
    BY <1>2, <2>2, LastFacts DEF Sends
  <2>4. p' \in Programs /\ p'.loop = "drain" /\ ~ p'.connected
    BY <1>3, <2>1, <2>3 DEF Programs, Loops
  <2>5. Len(sent.waiting) \in Nat /\ Len(reset.waiting) \in Nat /\ MaxWaiting \in Nat
    BY <1>1, <1>2, ChannelAssumption, LenProperties DEF Sends, Owned, Channels
  <2>6. Shape(c', p', link')
    BY <1>1, <1>2, <1>3, <1>4, <2>1, <2>4, <2>5 DEF Shape, Most, Sends, Placed
  <2>7. QED
    BY <2>4, <2>6 DEF World, Timely, Noticed, Known, Started
<1>5. CASE ~ (s.connected /\ reset.waiting # <<>> /\ last # None)
  <2>1. Drained(reset, again)
    BY <1>5 DEF Disconnect, reset
  <2>2. QED
    BY <1>1, <1>3, <2>1, DrainedWorld
<1>6. QED
  BY <1>4, <1>5

LEMMA FirstReportWorld ==
    ASSUME NEW s, Placed(s, link), link' = link, Len(s.waiting) < MaxWaiting, ~ p.connected,
           NEW a \in Answers, FirstReport(s, a)
    PROVE  World(c', p', link', FALSE)
<1> DEFINE sent == FullReport(s, a)
<1>1. Len(s.waiting) \in Nat /\ MaxWaiting \in Nat
  BY ChannelAssumption, LenProperties DEF Placed, Owned, Channels
<1>2. /\ Sends(s, sent) /\ Len(sent.waiting) <= Len(s.waiting) + 2
      /\ s.connected => sent.waiting # <<>>
  BY <1>1, FullReportSends DEF Placed
<1> HIDE DEF sent
<1>3. Len(sent.waiting) \in Nat
  BY <1>2, LenProperties DEF Sends, Owned, Channels
<1>4. Placed(sent, link)
  BY <1>1, <1>2, <1>3 DEF Placed, Sends
<1>5. CASE ~ s.connected
  BY <1>4, <1>5, FailedWorld DEF FirstReport, sent
<1>6. CASE s.connected
  <2>1. c' = sent /\ p' = [p EXCEPT !.loop = "first", !.target = sent.waiting[Len(sent.waiting)]]
    BY <1>6 DEF FirstReport, Go, sent
  <2>2. /\ sent.waiting[Len(sent.waiting)] \in Ids
        /\ ~ Processed(sent, sent.waiting[Len(sent.waiting)])
    BY <1>2, <1>6, LastFacts DEF Sends
  <2>3. /\ p' \in Programs /\ p'.loop = "first" /\ p'.target = sent.waiting[Len(sent.waiting)]
        /\ ~ p'.connected
    BY <2>1, <2>2 DEF Placed, Programs, Loops
  <2>4. Shape(c', p', link')
    BY <1>4, <2>1, <2>3 DEF Shape, Placed, Most
  <2>5. ~ Processed(c', p'.target) /\ c'.connected
    BY <1>2, <1>6, <2>1, <2>2, <2>3 DEF Sends
  <2>6. QED
    BY <2>3, <2>4, <2>5 DEF World, Timely, Noticed, Known, Started
<1>7. QED
  BY <1>5, <1>6
(* What an iteration needs to know of the channel s it ends with.          *)
Ready(s) ==
    /\ Shape(s, p, link) /\ Timely(s, p) /\ Noticed(s, p, TRUE) /\ Known(s, p, link, FALSE)
    /\ ~ QuickHost => Started(s, p)

LEMMA ShapePlaced ==
    ASSUME NEW s, Shape(s, p, link), p.loop # "drain"
    PROVE  Placed(s, link)
  BY DEF Shape, Placed, Most

LEMMA FirstEndsWorld ==
    ASSUME NEW s, Ready(s), p.loop = "first", link' = link, s.connected,
           Processed(s, p.target), Main(s, "Connected", p.outbound, TRUE)
    PROVE  World(c', p', link', FALSE)
<1>1. /\ c' = s /\ p' \in Programs /\ p'.loop = "main" /\ p'.connected
  BY DEF Ready, Shape, Main, Go, Programs, Loops, Ids, None
<1>2. Shape(c', p', link')
  BY <1>1 DEF Ready, Shape, Most
<1>3. Timely(c', p')
  BY <1>1 DEF Ready, Noticed, Timely
<1>4. Noticed(c', p', FALSE) /\ Known(c', p', link', FALSE)
  BY <1>1 DEF Noticed, Known
<1>5. ASSUME Started(s, p) PROVE Started(c', p')
  <2>1. /\ p'.loop # "first"
        /\ Idle(s) => Has(s, {"SendError", "LinkUser", "LinkLost"})
    BY <1>1, <1>5 DEF Started
  <2>2. Has(s, {"SendError", "LinkUser", "LinkLost"})
          => Has(s, {"SendError", "LinkUser", "LinkLost", "RadioError"})
    BY DEF Has
  <2>3. QED
    BY <1>1, <2>1, <2>2 DEF Started
<1>6. QED
  BY <1>2, <1>3, <1>4, <1>5 DEF World, Ready

LEMMA RadioEndsWorld ==
    ASSUME NEW s, Ready(s), p.loop = "radio", link' = link,
           \/ Main(Enqueue(s, "ExitApp"), p.state, p.retry, FALSE)
           \/ IF p.state = "Connected" THEN Unlinked(s, p.retry)
              ELSE Main(s, "Disconnected", p.retry, FALSE)
    PROVE  World(c', p', link', FALSE)
<1>1. Owned(s) /\ ~ s.connected /\ s.data = None /\ p \in Programs /\ p.retry \in BOOLEAN
  BY DEF Ready, Shape, Owned, Programs
<1>2. Placed(s, link')
  BY ShapePlaced DEF Ready
<1>3. CASE Main(Enqueue(s, "ExitApp"), p.state, p.retry, FALSE)
  <2> DEFINE t == Enqueue(s, "ExitApp")
  <2>1. "ExitApp" \in Commands /\ s \in Channels
    BY <1>1 DEF Commands, Owned
  <2>2. /\ Owned(t) /\ ~ t.connected /\ t.data = None /\ t.waiting = s.waiting
        /\ Has(t, {"ExitApp"})
    BY <1>1, <2>1, EnqueueOwned, EnqueueFacts
  <2>3. /\ c' = t /\ p' \in Programs /\ p'.loop = "main" /\ ~ p'.connected
    BY <1>1, <1>3 DEF Main, Go, Programs, Loops, Ids, None
  <2> HIDE DEF t
  <2>4. Shape(c', p', link')
    BY <1>1, <1>2, <2>2, <2>3 DEF Shape, Placed, Most
  <2>5. Timely(c', p') /\ Noticed(c', p', FALSE) /\ Known(c', p', link', FALSE) /\ Started(c', p')
    BY <2>2, <2>3 DEF Timely, Noticed, Known, Started
  <2>6. QED
    BY <2>4, <2>5 DEF World
<1>4. CASE Unlinked(s, p.retry)
  BY <1>2, <1>4, UnlinkedWorld
<1>5. CASE Main(s, "Disconnected", p.retry, FALSE)
  BY <1>1, <1>2, <1>5, MainOffline
<1>6. QED
  BY <1>3, <1>4, <1>5

LEMMA IteratedWorld ==
    ASSUME NEW s, Ready(s), NEW a \in Answers, Iterated(s, a)
    PROVE  World(c', p', link', FALSE)
<1>1. /\ Shape(s, p, link) /\ Owned(s) /\ p \in Programs /\ link \in Links
      /\ p.again \in BOOLEAN
  BY DEF Ready, Shape, Programs
<1>2. ASSUME Go(s, p), link' = link,
             p.loop = "first" => s.connected /\ ~ Processed(s, p.target)
      PROVE  World(c', p', link', FALSE)
  <2>1. c' = s /\ p' = p /\ link' = link
    BY <1>2 DEF Go
  <2>2. Noticed(s, p, FALSE)
    BY <1>2 DEF Noticed, Ready
  <2>3. QED
    BY <2>1, <2>2 DEF Ready, World
<1>3. CASE p.loop \in {"main", "unlink"} /\ Go(s, p) /\ link' = link
  BY <1>2, <1>3
<1>4. CASE p.loop = "connect" /\ (Go(s, p) \/ Failed(s, TRUE)) /\ link' = link
  <2>1. Placed(s, link)
    BY <1>1, <1>4, ShapePlaced
  <2>2. QED
    BY <1>2, <1>4, <2>1, FailedWorld, Zenon
<1>5. CASE /\ p.loop = "settle" /\ link' = link
           /\ Go(s, p) \/ (Len(s.waiting) < MaxWaiting /\ FirstReport(s, a))
  <2>1. Placed(s, link) /\ ~ p.connected
    BY <1>1, <1>5, ShapePlaced DEF Shape
  <2>2. CASE Go(s, p)
    BY <1>2, <1>5, <2>2
  <2>3. CASE Len(s.waiting) < MaxWaiting /\ FirstReport(s, a)
    BY <1>5, <2>1, <2>3, FirstReportWorld, Zenon
  <2>4. QED
    BY <1>5, <2>2, <2>3
<1>6. CASE /\ p.loop = "first" /\ link' = link
           /\ \/ ~ s.connected /\ Failed(s, FALSE)
              \/ s.connected /\ Processed(s, p.target) /\ Main(s, "Connected", p.outbound, TRUE)
              \/ s.connected /\ ~ Processed(s, p.target)
                 /\ (Go(s, p) \/ Failed(s, TRUE) \/ Failed(s, FALSE))
  <2>1. Placed(s, link)
    BY <1>1, <1>6, ShapePlaced
  <2>2. CASE Failed(s, TRUE) \/ Failed(s, FALSE)
    BY <1>6, <2>1, <2>2, FailedWorld, Zenon
  <2>3. CASE s.connected /\ Processed(s, p.target) /\ Main(s, "Connected", p.outbound, TRUE)
    BY <1>6, <2>3, FirstEndsWorld
  <2>4. CASE s.connected /\ ~ Processed(s, p.target) /\ Go(s, p)
    BY <1>2, <1>6, <2>4
  <2>5. QED
    BY <1>6, <2>2, <2>3, <2>4
<1>7. CASE /\ p.loop = "drain"
           /\ \/ s.connected /\ ~ Processed(s, p.target) /\ Go(s, p) /\ link' = link
              \/ Drained(s, p.again)
  <2>1. CASE Go(s, p) /\ link' = link
    BY <1>2, <1>7, <2>1
  <2>2. CASE Drained(s, p.again)
    BY <1>1, <2>2, DrainedWorld
  <2>3. QED
    BY <1>7, <2>1, <2>2
<1>8. CASE /\ p.loop = "radio" /\ link' = link
           /\ \/ Go(s, p)
              \/ Main(Enqueue(s, "ExitApp"), p.state, p.retry, FALSE)
              \/ IF p.state = "Connected" THEN Unlinked(s, p.retry)
                 ELSE Main(s, "Disconnected", p.retry, FALSE)
  <2>1. CASE Go(s, p)
    BY <1>2, <1>8, <2>1
  <2>2. CASE ~ Go(s, p)
    BY <1>8, <2>2, RadioEndsWorld
  <2>3. QED
    BY <2>1, <2>2
<1>9. QED
  BY <1>3, <1>4, <1>5, <1>6, <1>7, <1>8 DEF Iterated
-----------------------------------------------------------------------------
(* What sends and new commands alone keep.                                 *)
LEMMA SendsKeep ==
    ASSUME NEW s, NEW t, NEW r, NEW l, NEW z, World(s, r, l, z), Sends(s, t),
           Len(t.waiting) <= Most(r.loop)
    PROVE  World(t, r, l, z)
<1>1. s \in Channels /\ t \in Channels /\ Owned(t) /\ Extends(s, t) /\ t.connected = s.connected
  BY DEF World, Shape, Owned, Sends
<1>2. \A C : Has(s, C) => Has(t, C)
  BY <1>1, ExtendsHas
<1>3. s.connected /\ Processed(t, r.target) => Processed(s, r.target)
  BY DEF Sends, Processed
<1>4. Shape(t, r, l)
  BY <1>1 DEF World, Shape
<1>5. t.data # None => t.sendTimer \/ (s.data # None /\ (s.sendTimer => t.sendTimer))
  BY DEF Sends
<1>6. t.data # None => s.connected
  BY <1>1 DEF Owned
<1>7. Timely(t, r)
  BY <1>2, <1>5 DEF World, Timely
<1>8. Noticed(t, r, z)
  BY <1>1, <1>3, <1>5, <1>6 DEF World, Noticed
<1>9. Lost(s, l) => Lost(t, l)
  BY <1>2 DEF Lost
<1>10. Over(s, l) => Over(t, l)
  BY <1>2, <1>9 DEF Over
<1>11. Known(t, r, l, z)
  BY <1>1, <1>2, <1>9, <1>10 DEF World, Known
<1>12. ASSUME Started(s, r) PROVE Started(t, r)
  <2>1. Idle(t) => Idle(s) /\ s.connected
    BY DEF Sends, Idle
  <2>2. QED
    BY <1>2, <1>3, <1>12, <2>1 DEF Started
<1>13. QED
  BY <1>4, <1>7, <1>8, <1>11, <1>12 DEF World

LEMMA WorldReady ==
    ASSUME NEW s, World(s, p, link, TRUE)
    PROVE  Ready(s)
  BY DEF World, Ready, Known

LEMMA EnqueueKeeps ==
    ASSUME NEW s, NEW r, NEW l, NEW z, World(s, r, l, z), NEW cmd \in Commands
    PROVE  World(Enqueue(s, cmd), r, l, z)
<1>1. Owned(s) /\ s \in Channels /\ Len(s.waiting) <= Most(r.loop)
  BY DEF World, Shape, Owned
<1>2. Sends(s, Enqueue(s, cmd)) /\ Enqueue(s, cmd).waiting = s.waiting
  BY <1>1, EnqueueOwned, EnqueueFacts
<1>3. QED
  BY <1>1, <1>2, SendsKeep
-----------------------------------------------------------------------------
(* The command that is taken is gone, the others are not.                  *)
Taken == [c EXCEPT !.cmds = Tail(@)]

LEMMA TakenFacts ==
    ASSUME Owned(c), c.cmds # <<>>
    PROVE  /\ Owned(Taken) /\ Head(c.cmds) \in Commands
           /\ Taken.connected = c.connected /\ Taken.waiting = c.waiting /\ Taken.data = c.data
           /\ Taken.lib = c.lib /\ Taken.sendTimer = c.sendTimer /\ Taken.moved = c.moved
           /\ \A C : Has(c, C) /\ Head(c.cmds) \notin C => Has(Taken, C)
<1>1. c \in Channels /\ c.cmds \in Seq(Commands) /\ Len(c.cmds) \in Nat
  BY LenProperties DEF Owned, Channels
<1>2. /\ Head(c.cmds) \in Commands /\ Head(c.cmds) = c.cmds[1] /\ Len(c.cmds) >= 1
      /\ Tail(c.cmds) \in Seq(Commands) /\ Len(Tail(c.cmds)) = Len(c.cmds) - 1
      /\ \A i \in 1 .. Len(c.cmds) - 1 : Tail(c.cmds)[i] = c.cmds[i + 1]
  BY <1>1, HeadTailProperties, EmptySeq
<1>3. /\ Taken \in Channels /\ Taken.cmds = Tail(c.cmds)
      /\ Taken.connected = c.connected /\ Taken.waiting = c.waiting /\ Taken.data = c.data
      /\ Taken.lib = c.lib /\ Taken.sendTimer = c.sendTimer /\ Taken.moved = c.moved
  BY <1>1, <1>2 DEF Channels, Taken
<1>4. Owned(Taken)
  BY <1>3 DEF Owned
<1>5. ASSUME NEW C, Has(c, C), Head(c.cmds) \notin C PROVE Has(Taken, C)
  <2>1. PICK i \in 1 .. Len(c.cmds) : c.cmds[i] \in C
    BY <1>5 DEF Has
  <2>2. i # 1
    BY <2>1, <1>2, <1>5
  <2>3. i - 1 \in 1 .. Len(Taken.cmds) /\ Taken.cmds[i - 1] = c.cmds[i]
    BY <2>1, <2>2, <1>1, <1>2, <1>3
  <2>4. QED
    BY <2>1, <2>3 DEF Has
<1>6. QED
  BY <1>2, <1>3, <1>4, <1>5

LEMMA TakenShape ==
    ASSUME World(c, p, link, FALSE), c.cmds # <<>>
    PROVE  /\ Shape(Taken, p, link)
           /\ p.loop # "main" => Ready(Taken)
<1>1. /\ Owned(c) /\ Owned(Taken) /\ InQueue(Taken) = InQueue(c)
      /\ Taken.connected = c.connected /\ Taken.waiting = c.waiting /\ Taken.data = c.data
      /\ Taken.sendTimer = c.sendTimer
  BY TakenFacts DEF World, Shape, InQueue
<1>2. Shape(Taken, p, link)
  BY <1>1 DEF World, Shape
<1>3. ASSUME p.loop # "main" PROVE Ready(Taken)
  <2>1. p.loop = "first" => ~ Processed(Taken, p.target)
    BY <1>1 DEF World, Noticed, Processed
  <2>2. QED
    BY <1>2, <1>3, <2>1 DEF Ready, Timely, Noticed, Known, Started
<1>4. QED
  BY <1>2, <1>3

(* The program no longer counts as connected, and a command says so.       *)
LEMMA OverWorld ==
    ASSUME World(c, p, link, FALSE), c.cmds # <<>>, p.loop \in {"main", "first", "drain"},
           NEW over \in {"InitiateDisconnect", "ConnectionError", "RadioError"},
           Head(c.cmds) # "RadioError", link' = link,
           Go(Enqueue(Taken, over), [p EXCEPT !.connected = FALSE])
    PROVE  World(c', p', link', FALSE)
<1>1. /\ Shape(Taken, p, link) /\ Owned(Taken) /\ Owned(c) /\ Taken \in Channels
      /\ InQueue(Taken) = InQueue(c)
      /\ p.loop # "main" => Ready(Taken)
  <2>1. Shape(Taken, p, link) /\ (p.loop # "main" => Ready(Taken))
    BY TakenShape
  <2>2. Owned(c)
    BY DEF World, Shape
  <2>3. Taken.waiting = c.waiting /\ Taken.data = c.data
    BY <2>2, TakenFacts
  <2>4. QED
    BY <2>1, <2>2, <2>3 DEF Shape, Owned, InQueue
<1>2. over \in Commands
  BY DEF Commands
<1> DEFINE t == Enqueue(Taken, over)
<1>3. /\ Owned(t) /\ t.connected = Taken.connected /\ t.data = Taken.data
      /\ t.waiting = Taken.waiting /\ t.sendTimer = Taken.sendTimer /\ Extends(Taken, t)
      /\ t \in Channels /\ \A C : over \in C => Has(t, C)
  BY <1>1, <1>2, EnqueueOwned, EnqueueFacts
<1>4. c' = t /\ p' \in Programs /\ p'.loop = p.loop /\ ~ p'.connected /\ p'.target = p.target
      /\ p'.state = p.state
  BY <1>1 DEF Go, Shape, Programs
<1> HIDE DEF t
<1>5. Shape(c', p', link')
  BY <1>1, <1>3, <1>4 DEF Shape
<1>6. Lost(t, link) \/ Has(t, {"RadioError"})
  BY <1>3 DEF Lost
<1>7. Known(c', p', link', FALSE)
  BY <1>4, <1>6 DEF Known, Over
<1>8. CASE p.loop = "main"
  <2>1. Taken.data = c.data /\ Taken.sendTimer = c.sendTimer
    BY <1>1, TakenFacts
  <2>2. Has(c, {"RadioError"}) => Has(t, {"RadioError"})
    BY <1>1, <1>3, TakenFacts, ExtendsHas
  <2>3. Timely(c', p')
    BY <1>3, <1>4, <2>1, <2>2 DEF World, Timely
  <2>4. Noticed(c', p', FALSE) /\ Started(c', p')
    BY <1>4, <1>8 DEF Noticed, Started
  <2>5. QED
    BY <1>5, <1>7, <2>3, <2>4 DEF World
<1>9. CASE p.loop # "main"
  <2>1. p.loop = "first" => c.connected /\ ~ Processed(c, p.target)
    BY DEF World, Noticed
  <2>2. InQueue(t) = InQueue(c) /\ t.connected = c.connected
    BY <1>1, <1>3, TakenFacts DEF InQueue
  <2>3. p.loop = "first" => t.connected /\ ~ Processed(t, p.target)
    BY <2>1, <2>2 DEF Processed
  <2>4. Timely(c', p') /\ Noticed(c', p', FALSE) /\ Started(c', p')
    BY <1>4, <1>9, <2>3 DEF Timely, Noticed, Started
  <2>5. QED
    BY <1>5, <1>7, <2>4 DEF World
<1>10. QED
  BY <1>8, <1>9

LEMMA LinkClosedWorld ==
    ASSUME World(c, p, link, FALSE), c.cmds # <<>>, p.loop \in {"main", "first", "drain"},
           Head(c.cmds) \in {"LinkUser", "LinkLost"}, link' = link,
           LinkClosed(Taken, Head(c.cmds))
    PROVE  World(c', p', link', FALSE)
<1>1. PICK over \in {"InitiateDisconnect", "ConnectionError", "RadioError"} :
         Go(Enqueue(Taken, over), [p EXCEPT !.connected = FALSE])
  <2>1. CASE Head(c.cmds) = "LinkUser"
    BY <2>1 DEF LinkClosed
  <2>2. CASE Head(c.cmds) # "LinkUser" /\ CrashOnLinkError
    BY <2>2 DEF LinkClosed
  <2>3. CASE Head(c.cmds) # "LinkUser" /\ ~ CrashOnLinkError
    BY <2>3 DEF LinkClosed
  <2>4. QED
    BY <2>1, <2>2, <2>3
<1>2. QED
  BY <1>1, OverWorld
-----------------------------------------------------------------------------
(* What the main loop keeps when it does not act on a command.             *)
LEMMA MainKeeps ==
    ASSUME World(c, p, link, FALSE), c.cmds # <<>>, p.loop = "main", link' = link, c' = Taken,
           p' \in Programs, p'.loop = "main", p'.connected => p.connected,
           p'.state = "Connected" \/ p'.connected => p.state = "Connected" \/ p.connected,
           Head(c.cmds) # "RadioError",
           p'.connected => Head(c.cmds) \notin {"SendError", "LinkUser", "LinkLost"},
           p'.state = "Connected" /\ ~ p'.connected =>
               /\ p.state = "Connected" /\ ~ p.connected
               /\ Head(c.cmds) \notin {"LinkUser", "LinkLost", "InitiateDisconnect",
                                       "ConnectionError", "RadioError", "ExitApp"}
    PROVE  World(c', p', link', FALSE)
<1>1. /\ Shape(Taken, p, link) /\ Owned(c)
  BY TakenShape DEF World, Shape
<1>2. /\ Taken.connected = c.connected /\ Taken.data = c.data /\ Taken.waiting = c.waiting
      /\ Taken.sendTimer = c.sendTimer
      /\ \A C : Has(c, C) /\ Head(c.cmds) \notin C => Has(Taken, C)
  BY <1>1, TakenFacts
<1>3. Shape(c', p', link')
  BY <1>1, <1>2 DEF Shape
<1>4. Has(c, {"RadioError"}) => Has(Taken, {"RadioError"})
  BY <1>2
<1>5. Timely(c', p')
  BY <1>2, <1>4 DEF World, Timely
<1>6. Noticed(c', p', FALSE)
  BY DEF Noticed
<1>7. ASSUME p'.state = "Connected", ~ p'.connected
      PROVE  Over(Taken, link) \/ (~ Taken.connected /\ Has(Taken, {"ExitApp"}))
  <2>1. Over(c, link) \/ (~ c.connected /\ Has(c, {"ExitApp"}))
    BY <1>7 DEF World, Known
  <2>2. /\ Has(c, {"ExitApp"}) => Has(Taken, {"ExitApp"})
        /\ Has(c, {"LinkUser", "LinkLost", "InitiateDisconnect", "ConnectionError"})
             => Has(Taken, {"LinkUser", "LinkLost", "InitiateDisconnect", "ConnectionError"})
    BY <1>2, <1>7
  <2>3. QED
    BY <1>2, <1>4, <2>1, <2>2 DEF Over, Lost
<1>8. Known(c', p', link', FALSE)
  BY <1>7 DEF Known
<1>9. ASSUME Started(c, p) PROVE Started(c', p')
  <2>1. CASE p'.connected
    <3>1. Has(c, {"SendError", "LinkUser", "LinkLost", "RadioError"})
            => Has(Taken, {"SendError", "LinkUser", "LinkLost", "RadioError"})
      BY <1>2, <2>1
    <3>2. QED
      BY <1>2, <1>9, <2>1, <3>1 DEF Started, Idle
  <2>2. CASE ~ p'.connected
    BY <2>2 DEF Started
  <2>3. QED
    BY <2>1, <2>2
<1>10. QED
  BY <1>3, <1>5, <1>6, <1>8, <1>9 DEF World

LEMMA ConnectWaitWorld ==
    ASSUME World(c, p, link, FALSE), c.cmds # <<>>, p.loop = "main", link' = link,
           Head(c.cmds) \in {"Connected", "InitiateConnect", "WaitConnection"},
           Connect(Taken) \/ Wait(Taken)
    PROVE  World(c', p', link', FALSE)
<1>1. /\ Placed(Taken, link') /\ p \in Programs /\ p.retry \in BOOLEAN
  BY TakenShape, ShapePlaced DEF World, Shape, Programs
<1>2. ASSUME NEW retry \in BOOLEAN, p.connected, Main(Taken, "Connected", retry, TRUE)
      PROVE  World(c', p', link', FALSE)
  <2>1. c' = Taken /\ p' \in Programs /\ p'.loop = "main" /\ p'.connected
    BY <1>1, <1>2 DEF Main, Go, Programs, Loops, Ids, None
  <2>2. QED
    BY <1>2, <2>1, MainKeeps
<1>3. CASE p.connected
  BY <1>2, <1>3 DEF Connect, Wait
<1>4. CASE ~ p.connected
  <2>1. PICK outbound \in BOOLEAN : SetUp(Taken, outbound, p.retry)
    BY <1>4 DEF Connect, Wait
  <2>2. QED
    BY <1>1, <2>1, SetUpWorld
<1>5. QED
  BY <1>3, <1>4

LEMMA UnplugWorld ==
    ASSUME World(c, p, link, FALSE), c.cmds # <<>>, p.loop = "main", link' = link,
           Head(c.cmds) = "UnplugReceived", Main(Taken, "Disconnected", FALSE, p.connected)
    PROVE  World(c', p', link', FALSE)
<1>1. /\ c' = Taken /\ p' \in Programs /\ p'.loop = "main" /\ p'.connected = p.connected
      /\ p'.state = "Disconnected"
  BY DEF World, Shape, Main, Go, Programs, Loops, Ids, None
<1>2. QED
  BY <1>1, MainKeeps

LEMMA ReinitRadioWorld ==
    ASSUME NEW s, Owned(s), p \in Programs, ReinitRadio(s)
    PROVE  World(c', p', link', FALSE)
<1>1. /\ c' = Closed(s) /\ p' \in Programs /\ p'.loop = "radio" /\ ~ p'.connected
      /\ link' = "down" /\ MaxWaiting \in Nat
  BY ChannelAssumption DEF ReinitRadio, Go, Programs, Loops
<1>2. Shape(c', p', link')
  BY <1>1, ClosedFacts DEF Shape, Most, Links
<1>3. QED
  BY <1>1, <1>2 DEF World, Timely, Noticed, Known, Started

LEMMA ExitWorld ==
    ASSUME NEW s, Shape(s, p, link), p.loop = "main", link' = link,
           Go(s, [p EXCEPT !.loop = "exit"])
    PROVE  World(c', p', link', FALSE)
<1>1. c' = s /\ p' \in Programs /\ p'.loop = "exit" /\ p'.connected = p.connected
  BY DEF Go, Shape, Programs, Loops
<1>2. Shape(c', p', link')
  BY <1>1 DEF Shape, Most
<1>3. QED
  BY <1>1, <1>2 DEF World, Timely, Noticed, Known, Started

LEMMA AppEventLoopWorld ==
    ASSUME World(c, p, link, FALSE), c.cmds # <<>>, p.loop = "main",
           NEW a \in Answers, AppEventLoop(Taken, Head(c.cmds), a)
    PROVE  World(c', p', link', FALSE)
<1> DEFINE cmd == Head(c.cmds)
<1>1. Owned(c) /\ p \in Programs /\ p.retry \in BOOLEAN /\ link \in Links
  BY DEF World, Shape, Programs
<1>2. /\ Owned(Taken) /\ Shape(Taken, p, link) /\ Placed(Taken, link)
  BY <1>1, TakenFacts, TakenShape, ShapePlaced
<1>3. CASE cmd \in {"Connected", "InitiateConnect", "WaitConnection"} /\ p.state = "Disconnected"
  <2>1. (Connect(Taken) \/ Wait(Taken)) /\ link' = link
    BY <1>3 DEF AppEventLoop
  <2>2. QED
    BY <1>3, <2>1, ConnectWaitWorld
<1>4. CASE cmd = "SendError" /\ p.connected
  <2>1. /\ Go(Enqueue(Taken, "ConnectionError"), [p EXCEPT !.connected = FALSE])
        /\ link' = link
    BY <1>4 DEF AppEventLoop
  <2>2. QED
    BY <1>4, <2>1, OverWorld
<1>5. CASE cmd \in {"LinkUser", "LinkLost"}
  <2>1. LinkClosed(Taken, cmd) /\ link' = link
    BY <1>5 DEF AppEventLoop
  <2>2. QED
    BY <1>5, <2>1, LinkClosedWorld
<1>6. CASE cmd = "UnplugReceived" /\ p.state = "Connected"
  <2>1. Main(Taken, "Disconnected", FALSE, p.connected) /\ link' = link
    BY <1>6 DEF AppEventLoop
  <2>2. QED
    BY <1>6, <2>1, UnplugWorld
<1>7. CASE cmd = "ConnectionError" /\ p.state = "Connected"
  <2>1. Disconnect(Taken, a, p.retry)
    BY <1>7 DEF AppEventLoop
  <2>2. QED
    BY <1>1, <1>2, <2>1, DisconnectWorld
<1>8. CASE cmd = "InitiateDisconnect" /\ p.state = "Connected"
  <2>1. Disconnect(Taken, a, FALSE)
    BY <1>8 DEF AppEventLoop
  <2>2. FALSE \in BOOLEAN
    OBVIOUS
  <2>3. QED
    BY <1>2, <2>1, <2>2, DisconnectWorld, Zenon
<1>9. CASE cmd = "RadioError"
  <2>1. ReinitRadio(Taken)
    BY <1>9 DEF AppEventLoop
  <2>2. QED
    BY <1>1, <1>2, <2>1, ReinitRadioWorld
<1>10. CASE cmd = "ExitApp"
  <2>1. Go(Taken, [p EXCEPT !.loop = "exit"]) /\ link' = link
    BY <1>10 DEF AppEventLoop
  <2>2. QED
    BY <1>2, <2>1, ExitWorld
<1> DEFINE Handled ==
               \/ cmd \in {"Connected", "InitiateConnect", "WaitConnection"}
                  /\ p.state = "Disconnected"
               \/ cmd = "SendError" /\ p.connected
               \/ cmd \in {"LinkUser", "LinkLost", "RadioError", "ExitApp"}
               \/ cmd \in {"UnplugReceived", "ConnectionError", "InitiateDisconnect"}
                  /\ p.state = "Connected"
<1>11. CASE ~ Handled
  <2>1. Go(Taken, p) /\ link' = link
    BY <1>11 DEF AppEventLoop
  <2>2. c' = Taken /\ p' = p
    BY <2>1 DEF Go
  <2>3. cmd \notin {"LinkUser", "LinkLost", "RadioError", "ExitApp"}
    BY <1>11
  <2>4. p.state = "Connected" => cmd \notin {"InitiateDisconnect", "ConnectionError"}
    BY <1>11
  <2>5. p.connected => cmd # "SendError"
    BY <1>11
  <2> HIDE DEF Handled
  <2>6. QED
    BY <1>1, <2>1, <2>2, <2>3, <2>4, <2>5, MainKeeps
<1>12. QED
  BY <1>3, <1>4, <1>5, <1>6, <1>7, <1>8, <1>9, <1>10, <1>11

LEMMA TakeWorld ==
    ASSUME World(c, p, link, FALSE), NEW a \in Answers, Take(a)
    PROVE  World(c', p', link', FALSE)
<1> DEFINE cmd == Head(c.cmds)
           linkCmd == cmd \in {"LinkUser", "LinkLost"}
           sending == p.loop \in {"first", "drain"}
<1>1. c.cmds # <<>> /\ Taken = [c EXCEPT !.cmds = Tail(@)]
  BY DEF Take, Taken
<1>2. /\ Owned(c) /\ p \in Programs /\ link \in Links /\ p.again \in BOOLEAN
      /\ p.connected => p.loop \in {"main", "exit"}
  BY DEF World, Shape, Programs
<1>3. /\ Owned(Taken) /\ Shape(Taken, p, link)
      /\ p.loop # "main" => Ready(Taken)
      /\ p.loop # "drain" => Placed(Taken, link)
  BY <1>1, <1>2, TakenFacts, TakenShape, ShapePlaced
<1>4. CASE p.loop = "main" /\ AppEventLoop(Taken, cmd, a)
  BY <1>1, <1>4, AppEventLoopWorld
<1>5. CASE /\ p.loop = "connect" /\ cmd = "Connected"
           /\ Go(Taken, [p EXCEPT !.loop = IF p.outbound \/ Taken.connected THEN "settle" ELSE @])
           /\ link' = link
  <2>1. c' = Taken /\ p' \in Programs /\ p'.loop \in {"connect", "settle"} /\ ~ p'.connected
    BY <1>2, <1>5 DEF Go, Programs, Loops
  <2>2. Placed(Taken, link')
    BY <1>3, <1>5
  <2>3. World(Taken, p', link', FALSE)
    <3>1. Shape(Taken, p', link')
      BY <2>1, <2>2 DEF Placed, Shape, Most
    <3>2. QED
      BY <2>1, <3>1 DEF World, Timely, Noticed, Known, Started
  <2>4. QED
    BY <2>1, <2>3
<1>6. CASE /\ p.loop = "connect" \/ p.loop = "first"
           /\ Failed(Taken, FALSE) /\ link' = link
  <2>1. Placed(Taken, link)
    BY <1>3, <1>6
  <2>2. QED
    BY <1>6, <2>1, FailedWorld, Zenon
<1>7. CASE p.loop = "drain" /\ Drained(Taken, p.again)
  BY <1>2, <1>3, <1>7, DrainedWorld
<1>8. CASE sending /\ linkCmd /\ LinkClosed(Taken, cmd) /\ link' = link
  BY <1>1, <1>8, LinkClosedWorld
<1>9. CASE p.loop = "unlink" /\ Unlinked(Taken, p.again) /\ link' = link
  BY <1>3, <1>9, UnlinkedWorld
<1>10. CASE p.loop # "main" /\ Iterated(Taken, a)
  BY <1>3, <1>10, IteratedWorld
<1>11. QED
  BY <1>1, <1>4, <1>5, <1>6, <1>7, <1>8, <1>9, <1>10 DEF Take
-----------------------------------------------------------------------------
(* The actions.  First the calls of the library, while the program sleeps. *)
LEMMA ConnectedWorld ==
    ASSUME World(c, p, link, TRUE), Connected
    PROVE  World(c', p', link', TRUE)
<1> DEFINE s == [c EXCEPT !.connected = TRUE]
<1>1. /\ Owned(c) /\ c \in Channels /\ p \in Programs /\ ~ c.connected /\ c.data = None
      /\ ~ p.connected /\ p.loop \notin {"drain", "radio"}
      /\ Len(c.waiting) <= Most(p.loop)
  BY DEF World, Shape, Owned, Connected, Disconnecting
<1>2. /\ s \in Channels /\ s.connected /\ s.data = None /\ s.waiting = c.waiting
      /\ s.cmds = c.cmds /\ s.lib = c.lib
  BY <1>1 DEF Channels
<1>3. c' = Enqueue(s, "Connected") /\ p' = p /\ link' = "up" /\ link # "dying"
  BY DEF Connected
<1> HIDE DEF s
<1>4. "Connected" \in Commands /\ Owned(s)
  BY <1>1, <1>2 DEF Owned, Commands
<1>5. /\ Owned(c') /\ c'.connected /\ c'.data = None /\ c'.waiting = c.waiting
      /\ \A C : Has(s, C) => Has(c', C)
  <2>1. /\ Owned(Enqueue(s, "Connected")) /\ Enqueue(s, "Connected") \in Channels
        /\ Enqueue(s, "Connected").connected = s.connected
        /\ Enqueue(s, "Connected").data = s.data /\ Enqueue(s, "Connected").waiting = s.waiting
        /\ Extends(s, Enqueue(s, "Connected"))
    BY <1>2, <1>4, EnqueueOwned, EnqueueFacts
  <2>2. \A C : Has(s, C) => Has(Enqueue(s, "Connected"), C)
    BY <1>2, <2>1, ExtendsHas
  <2>3. QED
    BY <1>2, <1>3, <2>1, <2>2
<1>6. \A C : Has(c, C) => Has(c', C)
  BY <1>2, <1>5 DEF Has
<1>7. Shape(c', p', link')
  BY <1>1, <1>3, <1>5 DEF Shape, Links
<1>8. Timely(c', p') /\ Noticed(c', p', TRUE)
  BY <1>5 DEF Timely, Noticed
<1>9. Known(c', p', link', TRUE)
  <2>1. p.loop = "main" /\ p.state = "Connected" => Over(c, link)
    BY <1>1 DEF World, Known
  <2>2. Over(c, link) => Over(c', link')
    BY <1>3, <1>6 DEF Over, Lost
  <2>3. QED
    BY <1>3, <1>5, <2>1, <2>2 DEF Known
<1>10. ASSUME ~ QuickHost PROVE Started(c', p')
  <2>1. p.loop = "first" => Lost(c, link)
    BY <1>1 DEF World, Known
  <2>2. \A i \in 1 .. Len(c.cmds) : c.cmds[i] \notin {"InitiateDisconnect", "ConnectionError"}
    BY <1>10 DEF Connected
  <2>3. Lost(c, link) => Has(c, {"SendError", "LinkUser", "LinkLost"})
    BY <1>3, <2>2 DEF Lost, Has
  <2>4. p.loop = "first" => Has(c', {"SendError", "LinkUser", "LinkLost"})
    BY <1>6, <2>1, <2>3
  <2>5. QED
    BY <1>1, <1>3, <2>4 DEF Started
<1>11. QED
  BY <1>7, <1>8, <1>9, <1>10 DEF World

LEMMA DisconnectedWorld ==
    ASSUME World(c, p, link, TRUE), NEW why \in {"user", "link", "error"}, Disconnected(why)
    PROVE  World(c', p', link', TRUE)
<1> DEFINE s == [DataCleanup(c) EXCEPT !.lib = None, !.connected = FALSE]
<1>1. /\ c \in Channels /\ Owned(c) /\ p \in Programs /\ c.connected /\ link \in Links
      /\ p.loop # "radio" /\ Len(c.waiting) <= Most(p.loop)
  BY DEF World, Shape, Owned, Disconnected
<1>2. /\ s \in Channels /\ ~ s.connected /\ s.data = None /\ s.lib = None
      /\ s.waiting = c.waiting
  BY <1>1 DEF Channels, DataCleanup
<1>3. /\ c' = (CASE why = "user"  -> Enqueue(s, "InitiateDisconnect")
                 [] why = "link"  -> s
                 [] why = "error" -> Enqueue(s, "ConnectionError"))
      /\ p' = [p EXCEPT !.connected = FALSE]
      /\ link' = IF why = "link" THEN "dying" ELSE link
  BY DEF Disconnected
<1> HIDE DEF s
<1>4. Owned(s) /\ {"InitiateDisconnect", "ConnectionError"} \subseteq Commands
  BY <1>1, <1>2 DEF Owned, Commands
<1>5. \A cmd \in {"InitiateDisconnect", "ConnectionError"} :
          /\ Owned(Enqueue(s, cmd)) /\ ~ Enqueue(s, cmd).connected
          /\ Enqueue(s, cmd).data = None /\ Enqueue(s, cmd).waiting = s.waiting
          /\ Has(Enqueue(s, cmd), {"LinkUser", "LinkLost", "InitiateDisconnect",
                                   "ConnectionError"})
  BY <1>2, <1>4, EnqueueOwned, EnqueueFacts
<1>6. /\ Owned(c') /\ ~ c'.connected /\ c'.data = None /\ c'.waiting = c.waiting
      /\ Lost(c', link')
  <2>1. CASE why = "user"
    BY <2>1, <1>2, <1>3, <1>5 DEF Lost
  <2>2. CASE why = "link"
    BY <2>2, <1>2, <1>3, <1>4 DEF Lost
  <2>3. CASE why = "error"
    BY <2>3, <1>2, <1>3, <1>5 DEF Lost
  <2>4. QED
    BY <2>1, <2>2, <2>3
<1>7. p' \in Programs /\ ~ p'.connected /\ p'.loop = p.loop /\ link' \in Links
  BY <1>1, <1>3 DEF Programs, Links
<1>8. Shape(c', p', link')
  BY <1>1, <1>6, <1>7 DEF Shape
<1>9. QED
  BY <1>6, <1>7, <1>8 DEF World, Timely, Noticed, Known, Over, Started, Idle

LEMMA ACLDisconnectWorld ==
    ASSUME World(c, p, link, TRUE), NEW why \in {"LinkUser", "LinkLost"}, ACLDisconnect(why)
    PROVE  World(c', p', link', TRUE)
<1>1. /\ c' = Enqueue(c, why) /\ p' = p /\ link = "dying" /\ link' = "down"
      /\ why \in Commands
  BY DEF ACLDisconnect, Commands
<1>2. World(c', p, link, TRUE)
  BY <1>1, EnqueueKeeps, Zenon
<1>3. Has(c', {"LinkUser", "LinkLost", "InitiateDisconnect", "ConnectionError"})
  <2>1. c \in Channels
    BY DEF World, Shape, Owned
  <2>2. QED
    BY <1>1, <2>1, EnqueueFacts
<1>4. QED
  BY <1>1, <1>2, <1>3 DEF World, Shape, Known, Over, Lost, Links

(* A message the library is done with leaves the channel free.             *)
LEMMA Freed ==
    ASSUME World(c, p, link, TRUE), c.lib # None,
           NEW s, s = [DataCleanup(c) EXCEPT !.lib = None]
    PROVE  /\ Owned(s) /\ s.connected /\ s.data = None /\ s.waiting = c.waiting
           /\ s.cmds = c.cmds /\ c \in Channels /\ Owned(c) /\ c.connected
           /\ Len(s.waiting) <= Most(p.loop)
<1>1. c \in Channels /\ Owned(c) /\ c.connected /\ Len(c.waiting) <= Most(p.loop)
  BY DEF World, Shape, Owned
<1>2. /\ s \in Channels /\ s.connected /\ s.data = None /\ s.waiting = c.waiting
      /\ s.lib = None /\ s.cmds = c.cmds
  BY <1>1 DEF Channels, DataCleanup
<1>3. QED
  BY <1>1, <1>2 DEF Owned

(* After it the channel t is as good, if nothing is left on it when idle,  *)
(* but for an error.                                                       *)
LEMMA FreedWorld ==
    ASSUME World(c, p, link, TRUE), c.connected, NEW t, Owned(t), t.connected,
           Len(t.waiting) <= Most(p.loop), Extends(c, t),
           t.data # None => t.sendTimer, Idle(t) => Has(t, {"SendError"})
    PROVE  World(t, p, link, TRUE)
<1>1. c \in Channels /\ t \in Channels
  BY DEF World, Shape, Owned
<1>2. \A C : Has(c, C) => Has(t, C)
  BY <1>1, ExtendsHas
<1>3. Shape(t, p, link)
  BY DEF World, Shape
<1>4. Timely(t, p) /\ Noticed(t, p, TRUE)
  BY DEF Timely, Noticed
<1>5. Lost(c, link) => Lost(t, link)
  BY <1>2 DEF Lost
<1>6. Over(c, link) => Over(t, link)
  BY <1>2, <1>5 DEF Over
<1>7. Known(t, p, link, TRUE)
  BY <1>6 DEF World, Known
<1>8. Started(t, p)
  BY DEF Started, Has
<1>9. QED
  BY <1>3, <1>4, <1>7, <1>8 DEF World

LEMMA SendCompleteWorld ==
    ASSUME World(c, p, link, TRUE), NEW a \in Answers, SendComplete(a)
    PROVE  World(c', p', link', TRUE)
<1> DEFINE s == [DataCleanup(c) EXCEPT !.lib = None]
           t == SendNext(s, a, Disconnecting)
<1>1. /\ Owned(s) /\ s.connected /\ s.data = None /\ s.waiting = c.waiting
      /\ s.cmds = c.cmds /\ c \in Channels /\ c.connected
      /\ Len(s.waiting) <= Most(p.loop)
  BY Freed DEF SendComplete
<1>2. c' = Enqueue(t, "Sent") /\ p' = p /\ link' = link
  BY DEF SendComplete
<1> HIDE DEF s
<1>3. Len(s.waiting) \in Nat /\ MaxWaiting \in Nat /\ Disconnecting \in BOOLEAN
  BY <1>1, LenProperties, ChannelAssumption DEF Owned, Channels, Disconnecting
<1>4. Len(s.waiting) <= MaxWaiting + 3
  BY <1>1, <1>3 DEF Most
<1>5. Sends(s, t) /\ ~ Idle(t) /\ Len(t.waiting) <= Len(s.waiting)
  BY <1>1, <1>3, <1>4, SendNextSends, Zenon
<1> HIDE DEF t
<1>6. Owned(t) /\ t \in Channels /\ "Sent" \in Commands /\ Len(t.waiting) \in Nat
  BY <1>5, LenProperties DEF Sends, Owned, Commands, Channels
<1>7. /\ Owned(c') /\ c' \in Channels /\ c'.connected = t.connected /\ c'.waiting = t.waiting
      /\ c'.data = t.data /\ c'.sendTimer = t.sendTimer /\ Extends(t, c')
  BY <1>2, <1>6, EnqueueOwned, EnqueueFacts
<1>8. Extends(c, c')
  <2>1. Extends(s, t) /\ s \in Channels
    BY <1>1, <1>5 DEF Sends, Owned
  <2>2. QED
    BY <1>1, <1>6, <1>7, <2>1 DEF Extends, Channels
<1>9. c'.connected /\ ~ Idle(c') /\ (c'.data # None => c'.sendTimer)
  BY <1>1, <1>5, <1>7 DEF Sends, Idle
<1>10. Len(c'.waiting) <= Most(p.loop)
  BY <1>1, <1>3, <1>5, <1>6, <1>7 DEF Most
<1>11. World(c', p, link, TRUE)
  BY <1>1, <1>7, <1>8, <1>9, <1>10, FreedWorld
<1>12. QED
  BY <1>2, <1>11

LEMMA SendFailedWorld ==
    ASSUME World(c, p, link, TRUE), SendFailed
    PROVE  World(c', p', link', TRUE)
<1> DEFINE s == [DataCleanup(c) EXCEPT !.lib = None]
<1>1. /\ Owned(s) /\ s.connected /\ s.data = None /\ s.waiting = c.waiting
      /\ s.cmds = c.cmds /\ c \in Channels /\ c.connected
      /\ Len(s.waiting) <= Most(p.loop)
  BY Freed DEF SendFailed
<1>2. c' = Enqueue(s, "SendError") /\ p' = p /\ link' = link
  BY DEF SendFailed
<1> HIDE DEF s
<1>3. s \in Channels /\ "SendError" \in Commands
  BY <1>1 DEF Owned, Commands
<1>4. /\ Owned(c') /\ c'.connected /\ c'.waiting = s.waiting /\ c'.data = None
      /\ Extends(s, c') /\ Has(c', {"SendError"})
  BY <1>1, <1>2, <1>3, EnqueueOwned, EnqueueFacts
<1>5. Extends(c, c')
  BY <1>1, <1>4 DEF Extends
<1>6. World(c', p, link, TRUE)
  BY <1>1, <1>4, <1>5, FreedWorld
<1>7. QED
  BY <1>2, <1>6
-----------------------------------------------------------------------------
(* The sleep of a loop ends with an iteration of it.                       *)
LEMMA ReportWorld ==
    ASSUME World(c, p, link, TRUE), NEW a \in Answers, Report(a)
    PROVE  World(c', p', link', FALSE)
<1>1. /\ Owned(c) /\ Len(c.waiting) \in Nat /\ MaxWaiting \in Nat
      /\ Len(c.waiting) < MaxWaiting /\ Iterated(SendData(c, a), a)
  BY LenProperties, ChannelAssumption DEF World, Shape, Owned, Channels, Report, Quiet
<1>2. Sends(c, SendData(c, a)) /\ Len(SendData(c, a).waiting) <= Len(c.waiting) + 1
  BY <1>1, SendDataSends
<1>3. Len(SendData(c, a).waiting) \in Nat
  BY <1>2, LenProperties DEF Sends, Owned, Channels
<1>4. Len(SendData(c, a).waiting) <= Most(p.loop)
  BY <1>1, <1>2, <1>3 DEF Most
<1>5. Ready(SendData(c, a))
  <2>1. World(SendData(c, a), p, link, TRUE)
    BY <1>2, <1>4, SendsKeep, Zenon
  <2>2. QED
    BY <2>1, WorldReady
<1>6. QED
  BY <1>1, <1>5, IteratedWorld

LEMMA MouseMoveWorld ==
    ASSUME World(c, p, link, TRUE), NEW a \in Answers, MouseMove(a)
    PROVE  World(c', p', link', FALSE)
<1>1. /\ Owned(c) /\ c \in Channels /\ Len(c.waiting) \in Nat /\ MaxWaiting \in Nat
      /\ Len(c.waiting) < MaxWaiting
  BY LenProperties, ChannelAssumption DEF World, Shape, Owned, Channels, MouseMove, Quiet
<1>2. \A m \in BOOLEAN : LET t == [c EXCEPT !.moved = m]
                         IN  Sends(c, t) /\ t.waiting = c.waiting
  <2> SUFFICES ASSUME NEW m \in BOOLEAN, NEW t, t = [c EXCEPT !.moved = m]
               PROVE  Sends(c, t) /\ t.waiting = c.waiting
    BY Zenon
  <2>1. /\ t \in Channels /\ t.connected = c.connected /\ t.waiting = c.waiting
        /\ t.data = c.data /\ t.sendTimer = c.sendTimer /\ t.lib = c.lib /\ t.cmds = c.cmds
    BY <1>1 DEF Channels
  <2>2. QED
    BY <1>1, <2>1 DEF Owned, Sends, Extends, InQueue, Idle, Channels
<1>3. PICK s : /\ Iterated(s, a)
               /\ \/ s = SendData([c EXCEPT !.moved = FALSE], a)
                  \/ s = [c EXCEPT !.moved = TRUE]
  BY DEF MouseMove
<1>4. Sends(c, s) /\ Len(s.waiting) <= Len(c.waiting) + 1
  <2>1. CASE s = [c EXCEPT !.moved = TRUE]
    <3>1. Sends(c, s) /\ s.waiting = c.waiting
      BY <1>2, <2>1
    <3>2. QED
      BY <1>1, <3>1
  <2>2. CASE s = SendData([c EXCEPT !.moved = FALSE], a)
    <3> DEFINE t == [c EXCEPT !.moved = FALSE]
    <3>1. Sends(c, t) /\ t.waiting = c.waiting
      BY <1>2
    <3> HIDE DEF t
    <3>2. Sends(t, SendData(t, a)) /\ Len(SendData(t, a).waiting) <= Len(t.waiting) + 1
      BY <1>1, <3>1, SendDataSends DEF Sends
    <3>3. s = SendData(t, a)
      BY <2>2 DEF t
    <3>4. Sends(c, SendData(t, a))
      BY <1>1, <3>1, <3>2, SendsTransitive
    <3>5. QED
      BY <3>1, <3>2, <3>3, <3>4
  <2>3. QED
    BY <1>3, <2>1, <2>2
<1>5. Len(s.waiting) \in Nat
  BY <1>4, LenProperties DEF Sends, Owned, Channels
<1>6. Len(s.waiting) <= Most(p.loop)
  BY <1>1, <1>4, <1>5 DEF Most
<1>7. Ready(s)
  <2>1. World(s, p, link, TRUE)
    BY <1>4, <1>6, SendsKeep, Zenon
  <2>2. QED
    BY <2>1, WorldReady
<1>8. QED
  BY <1>3, <1>7, IteratedWorld

LEMMA UserCommandWorld ==
    ASSUME World(c, p, link, TRUE),
           NEW cmd \in {"InitiateConnect", "WaitConnection", "InitiateDisconnect"},
           UserCommand(cmd)
    PROVE  World(c', p', link', FALSE)
<1>1. Iterated(Enqueue(c, cmd), "pending") /\ "pending" \in Answers /\ cmd \in Commands
  BY DEF UserCommand, Answers, Commands
<1>2. World(Enqueue(c, cmd), p, link, TRUE)
  BY <1>1, EnqueueKeeps, Zenon
<1>3. Ready(Enqueue(c, cmd))
  BY <1>2, WorldReady
<1>4. QED
  BY <1>1, <1>3, IteratedWorld

LEMMA SleepWorld ==
    ASSUME World(c, p, link, FALSE), Sleep
    PROVE  World(c', p', link', TRUE)
<1>1. c' = c /\ p' = p /\ link' = link /\ c.cmds = <<>>
  BY DEF Sleep
<1>2. \A C : ~ Has(c, C)
  BY <1>1 DEF Has
<1>3. Noticed(c, p, TRUE)
  BY DEF World, Noticed
<1>4. Known(c, p, link, TRUE)
  BY <1>2 DEF World, Known, Noticed
<1>5. QED
  BY <1>1, <1>3, <1>4 DEF World

LEMMA BTSendTimerWorld ==
    ASSUME World(c, p, link, FALSE), BTSendTimer
    PROVE  World(c', p', link', FALSE)
<1> DEFINE s == [c EXCEPT !.sendTimer = FALSE]
<1>1. c' = Enqueue(s, "RadioError") /\ p' = p /\ link' = link
  BY DEF BTSendTimer
<1>2. Owned(c) /\ c \in Channels
  BY DEF World, Shape, Owned
<1>3. /\ s \in Channels /\ s.connected = c.connected /\ s.waiting = c.waiting
      /\ s.data = c.data /\ s.lib = c.lib /\ s.cmds = c.cmds
  BY <1>2 DEF Channels
<1> HIDE DEF s
<1>4. Owned(s) /\ "RadioError" \in Commands
  BY <1>2, <1>3 DEF Owned, Commands
<1>5. /\ Owned(c') /\ c' \in Channels /\ c'.connected = c.connected /\ c'.waiting = c.waiting
      /\ c'.data = c.data /\ Extends(s, c')
  BY <1>1, <1>3, <1>4, EnqueueOwned, EnqueueFacts
<1>6. \A C : "RadioError" \in C => Has(c', C)
  BY <1>1, <1>3, <1>4, EnqueueFacts
<1>7. \A C : Has(c, C) => Has(c', C)
  BY <1>2, <1>3, <1>5, ExtendsHas DEF Extends
<1>8. Shape(c', p', link')
  BY <1>1, <1>5 DEF World, Shape
<1>9. Timely(c', p')
  BY <1>6 DEF Timely
<1>10. InQueue(c') = InQueue(c)
  BY <1>5 DEF InQueue
<1>11. Noticed(c', p', FALSE)
  BY <1>1, <1>5, <1>10 DEF World, Noticed, Processed
<1>12. Known(c', p', link', FALSE)
  BY <1>6 DEF Known, Over
<1>13. Started(c', p')
  <2>1. p.loop = "first" => ~ Processed(c', p.target)
    BY <1>10 DEF World, Noticed, Processed
  <2>2. QED
    BY <1>1, <1>6, <2>1 DEF Started
<1>14. QED
  BY <1>8, <1>9, <1>11, <1>12, <1>13 DEF World
-----------------------------------------------------------------------------
LEMMA InitIInv == Init => IInv
<1> SUFFICES ASSUME Init PROVE IInv
  OBVIOUS
<1>1. /\ c = [connected |-> FALSE, waiting |-> <<>>, data |-> None, sendTimer |-> FALSE,
              lib |-> None, moved |-> FALSE, cmds |-> <<>>]
      /\ p = [loop |-> "main", state |-> "Disconnected", retry |-> FALSE, connected |-> FALSE,
              outbound |-> FALSE, again |-> FALSE, target |-> None]
      /\ link = "down" /\ asleep = FALSE
  BY DEF Init
<1>2. c \in Channels
  BY <1>1 DEF Channels
<1>3. p \in Programs
  BY <1>1 DEF Programs, Loops
<1>4. Owned(c)
  BY <1>1, <1>2 DEF Owned
<1>5. Len(c.waiting) = 0 /\ MaxWaiting \in Nat
  BY <1>1, ChannelAssumption
<1>6. Shape(c, p, link)
  BY <1>1, <1>3, <1>4, <1>5 DEF Shape, Most, Links
<1>7. QED
  BY <1>1, <1>6 DEF IInv, World, Timely, Noticed, Known, Started

LEMMA NextIInv == IInv /\ [Next]_vars => IInv'
<1> SUFFICES ASSUME IInv, [Next]_vars PROVE World(c', p', link', asleep') /\ asleep' \in BOOLEAN
  BY DEF IInv
<1>1. World(c, p, link, asleep) /\ asleep \in BOOLEAN
  BY DEF IInv
<1>2. CASE vars' = vars
  BY <1>1, <1>2 DEF vars
<1>3. CASE Connected
  <2>1. asleep = TRUE /\ asleep' = asleep
    BY <1>1, <1>3 DEF Connected, Callback
  <2>2. QED
    BY <1>1, <1>3, <2>1, ConnectedWorld
<1>4. CASE ConnectFailed \/ Unplug
  <2>1. PICK cmd \in Commands : c' = Enqueue(c, cmd)
    BY <1>4 DEF ConnectFailed, Unplug, Commands
  <2>2. p' = p /\ link' = link /\ asleep' = asleep
    BY <1>4 DEF ConnectFailed, Unplug
  <2>3. QED
    BY <1>1, <2>1, <2>2, EnqueueKeeps
<1>5. CASE SendFailed
  <2>1. asleep = TRUE /\ asleep' = asleep
    BY <1>1, <1>5 DEF SendFailed, Callback
  <2>2. QED
    BY <1>1, <1>5, <2>1, SendFailedWorld
<1>6. CASE \E why \in {"user", "link", "error"} : Disconnected(why)
  <2>1. asleep = TRUE /\ asleep' = asleep
    BY <1>1, <1>6 DEF Disconnected, Callback
  <2>2. QED
    BY <1>1, <1>6, <2>1, DisconnectedWorld
<1>7. CASE \E why \in {"LinkUser", "LinkLost"} : ACLDisconnect(why)
  <2>1. asleep = TRUE /\ asleep' = asleep
    BY <1>1, <1>7 DEF ACLDisconnect
  <2>2. QED
    BY <1>1, <1>7, <2>1, ACLDisconnectWorld
<1>8. ASSUME NEW a \in Answers, SendComplete(a)
      PROVE  World(c', p', link', asleep') /\ asleep' \in BOOLEAN
  <2>1. asleep = TRUE /\ asleep' = asleep
    BY <1>1, <1>8 DEF SendComplete, Callback
  <2>2. QED
    BY <1>1, <1>8, <2>1, SendCompleteWorld
<1>9. ASSUME NEW a \in Answers, Take(a)
      PROVE  World(c', p', link', asleep') /\ asleep' \in BOOLEAN
  <2>1. asleep = FALSE /\ asleep' = asleep
    BY <1>1, <1>9 DEF Take
  <2>2. QED
    BY <1>1, <1>9, <2>1, TakeWorld
<1>10. ASSUME NEW a \in Answers, Wake(a)
       PROVE  World(c', p', link', asleep') /\ asleep' \in BOOLEAN
  <2>1. asleep = TRUE /\ asleep' = FALSE /\ Iterated(c, a)
    BY <1>1, <1>10 DEF Wake
  <2>2. Ready(c)
    BY <1>1, <2>1, WorldReady
  <2>3. World(c', p', link', FALSE)
    BY <2>1, <2>2, IteratedWorld
  <2>4. QED
    BY <2>1, <2>3
<1>11. ASSUME NEW a \in Answers, Report(a)
       PROVE  World(c', p', link', asleep') /\ asleep' \in BOOLEAN
  <2>1. asleep = TRUE /\ asleep' = FALSE
    BY <1>1, <1>11 DEF Report
  <2>2. QED
    BY <1>1, <1>11, <2>1, ReportWorld
<1>12. ASSUME NEW a \in Answers, MouseMove(a)
       PROVE  World(c', p', link', asleep') /\ asleep' \in BOOLEAN
  <2>1. asleep = TRUE /\ asleep' = FALSE
    BY <1>1, <1>12 DEF MouseMove
  <2>2. QED
    BY <1>1, <1>12, <2>1, MouseMoveWorld
<1>13. CASE \E cmd \in {"InitiateConnect", "WaitConnection", "InitiateDisconnect"} :
                UserCommand(cmd)
  <2>1. asleep = TRUE /\ asleep' = FALSE
    BY <1>1, <1>13 DEF UserCommand
  <2>2. QED
    BY <1>1, <1>13, <2>1, UserCommandWorld
<1>14. CASE Sleep
  <2>1. asleep = FALSE /\ asleep' = TRUE
    BY <1>1, <1>14 DEF Sleep
  <2>2. QED
    BY <1>1, <1>14, <2>1, SleepWorld
<1>15. CASE BTSendTimer
  <2>1. asleep = FALSE /\ asleep' = asleep
    BY <1>1, <1>15 DEF BTSendTimer
  <2>2. QED
    BY <1>1, <1>15, <2>1, BTSendTimerWorld
<1>16. QED
  BY <1>2, <1>3, <1>4, <1>5, <1>6, <1>7, <1>8, <1>9, <1>10, <1>11, <1>12, <1>13, <1>14, <1>15
     DEF Next

(* The channel, the loop that runs and the commands that wait stay in the  *)
(* relation that every step needs, whatever the host, the user and the     *)
(* library do.                                                             *)
THEOREM Invariant == Spec => []IInv
<1>1. Init => IInv
  BY InitIInv
<1>2. IInv /\ [Next]_vars => IInv'
  BY NextIInv
<1>3. QED
  BY <1>1, <1>2, PTL DEF Spec

(* Nothing frees the buffer the library sends from: SendComplete, the      *)
(* error events and Disconnect always find it locked in c->data.           *)
THEOREM BufferTheorem == Spec => []BufferOwned
<1>1. IInv => BufferOwned
  <2> SUFFICES ASSUME IInv PROVE BufferOwned
    OBVIOUS
  <2>1. Shape(c, p, link) /\ asleep \in BOOLEAN /\ Owned(c)
    BY DEF IInv, World, Shape
  <2>2. TypeOK
    BY <2>1 DEF TypeOK, Shape, Owned, Channels, Programs, Links
  <2>3. Len(c.waiting) <= MaxWaiting + 3
    <3>1. Len(c.waiting) \in Nat /\ MaxWaiting \in Nat
      BY <2>1, LenProperties, ChannelAssumption DEF Owned, Channels
    <3>2. QED
      BY <2>1, <3>1 DEF Shape, Most
  <2>4. QED
    BY <2>1, <2>2, <2>3 DEF BufferOwned, Owned
<1>2. QED
  BY <1>1, Invariant, PTL

(* SendNext moves a message, and never copies it: no handle is in the      *)
(* queue twice, or in the queue and in the hands of the library.           *)
THEOREM SentOnceTheorem == Spec => []SentOnce
<1>1. IInv => SentOnce
  BY DEF IInv, World, Shape, Owned, SentOnce
<1>2. QED
  BY <1>1, Invariant, PTL

(* While the program counts as connected each send is under the send       *)
(* timer, or its end is about to be noticed: the commands that the main    *)
(* loop ignores, and those a WaitFor loop drops, are never the ones that   *)
(* tell.                                                                   *)
THEOREM GuardTheorem == Spec => []SendsGuarded
<1>1. IInv => SendsGuarded
  <2> SUFFICES ASSUME IInv PROVE SendsGuarded
    OBVIOUS
  <2>1. Shape(c, p, link) /\ Timely(c, p)
    BY DEF IInv, World
  <2>2. QED
    BY <2>1 DEF Shape, Timely, SendsGuarded, Online, Has
<1>2. QED
  BY <1>1, Invariant, PTL

(* If the host does not come back within the same sleep, no report stays   *)
(* on an idle channel: each way in which SendNext can stop before the      *)
(* queue is empty leaves a command that ends the connection.               *)
THEOREM StallTheorem ==
    ASSUME QuickHost = FALSE
    PROVE  Spec => []NothingStalls
<1>1. IInv => NothingStalls
  <2> SUFFICES ASSUME IInv, Online, c.connected, c.waiting # <<>>, c.data = None PROVE Trouble
    BY DEF NothingStalls
  <2>1. Started(c, p) /\ Known(c, p, link, asleep)
    BY DEF IInv, World
  <2>2. CASE p.connected
    BY <2>1, <2>2 DEF Started, Idle, Has, Online, Trouble, Bad
  <2>3. CASE ~ p.connected
    <3>1. Over(c, link)
      BY <2>1, <2>3 DEF Known, Online
    <3>2. QED
      BY <3>1 DEF Over, Lost, Has, Trouble, Bad
  <2>4. QED
    BY <2>2, <2>3
<1>2. QED
  BY <1>1, Invariant, PTL
=============================================================================
