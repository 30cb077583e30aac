--------------------------- MODULE MsgQueueProofs ---------------------------
(***************************************************************************)
(* For every size, growth limit and number of messages: the ring stays a   *)
(* ring, none of the consistency PANICs of src/MsgQueue.c can fire, and    *)
(* every message has one owner.                                            *)
(*                                                                         *)
(* First arithmetic on plain numbers and functions, then the same on the   *)
(* fields of struct MsgQueue, then the invariant of the ring.  After that, *)
(* whose memory is whose: each message has one place in the ring, the      *)
(* client holds exactly the messages of the processed region, and nothing  *)
(* else is allocated.  From this follow the answers of MsgIsProcessed and  *)
(* MsgIsInQueue, and that the ring is the queue of MsgQueueAbs.            *)
(***************************************************************************)
EXTENDS MsgQueue, FiniteSetTheorems, FunctionTheorems, SequenceTheorems, TLAPS

(* Exactly the u slots from p on are filled.                               *)
FilledAt(n, p, u, b) == \A k \in 0 .. n - 1 : (b[k] = None) <=> Sub(n, k, p) >= u

(* Going c slots forward on a ring of n slots and measuring the distance. *)
LEMMA OffsetArith ==
    ASSUME NEW n \in Nat, NEW p \in 0 .. n - 1, NEW c \in 0 .. n - 1
    PROVE  /\ Add(n, p, c) \in 0 .. n - 1 /\ Sub(n, c, p) \in 0 .. n - 1
           /\ Sub(n, Add(n, p, c), p) = c
           /\ Add(n, p, Sub(n, c, p)) = c
  BY DEF Add, Sub

(* A ring of n slots whose u slots from p on are filled gains one: the     *)
(* slot behind them is filled, the others keep their place.                *)
LEMMA PutArith ==
    ASSUME NEW n \in Nat, NEW p \in 0 .. n - 1, NEW u \in 0 .. n - 1,
           NEW b \in [0 .. n - 1 -> Handles \cup {None}], FilledAt(n, p, u, b),
           NEW h \in Handles
    PROVE  /\ FilledAt(n, p, u + 1, [b EXCEPT ![Add(n, p, u)] = h])
           /\ \A c \in 0 .. u - 1 :
                 [b EXCEPT ![Add(n, p, u)] = h][Add(n, p, c)] = b[Add(n, p, c)]
<1> DEFINE e == Add(n, p, u)
           s == [b EXCEPT ![e] = h]
<1>1. e \in 0 .. n - 1 /\ Sub(n, e, p) = u
  BY OffsetArith
<1>2. ASSUME NEW k \in 0 .. n - 1, k # e
      PROVE  s[k] = b[k] /\ Sub(n, k, p) # u /\ Sub(n, k, p) \in Nat
  BY <1>2, <1>1 DEF Sub, Add
<1>3. s[e] = h /\ h # None
  BY <1>1, QueueAssumption
<1>4. FilledAt(n, p, u + 1, s)
  <2> SUFFICES ASSUME NEW k \in 0 .. n - 1
               PROVE  (s[k] = None) <=> Sub(n, k, p) >= u + 1
    BY DEF FilledAt
  <2>1. CASE k = e
    BY <2>1, <1>1, <1>3
  <2>2. CASE k # e
    <3>1. s[k] = b[k] /\ Sub(n, k, p) # u /\ Sub(n, k, p) \in Nat
      BY <1>2, <2>2
    <3>2. (b[k] = None) <=> Sub(n, k, p) >= u
      BY DEF FilledAt
    <3>. HIDE DEF s, e
    <3>3. QED
      BY <3>1, <3>2
  <2>3. QED
    BY <2>1, <2>2
<1>5. ASSUME NEW c \in 0 .. u - 1
      PROVE  s[Add(n, p, c)] = b[Add(n, p, c)]
  <2>1. Add(n, p, c) \in 0 .. n - 1 /\ Add(n, p, c) # e
    BY DEF Add
  <2>2. QED
    BY <2>1, <1>2
<1>6. QED
  BY <1>4, <1>5

(* s is b without the entry c places from p, as MsgProcessed leaves it.    *)
RemoveStep(n, p, u, c, b, s) ==
    /\ n \in Nat /\ n >= 2 /\ p \in 0 .. n - 1 /\ u \in 1 .. n /\ c \in 0 .. u - 1
    /\ b \in [0 .. n - 1 -> Handles \cup {None}] /\ FilledAt(n, p, u, b)
    /\ s = [k \in 0 .. n - 1 |->
               IF k = p THEN None
               ELSE IF Sub(n, k, p) <= c THEN b[Dec(n, k)] ELSE b[k]]

(* The entries before it move up one slot, the others stay.                *)
LEMMA RemoveArith ==
    ASSUME NEW n, NEW p, NEW u, NEW c, NEW b, NEW s, RemoveStep(n, p, u, c, b, s)
    PROVE  /\ s \in [0 .. n - 1 -> Handles \cup {None}]
           /\ FilledAt(n, Inc(n, p), u - 1, s)
           /\ \A d \in 0 .. c - 1 : s[Add(n, Inc(n, p), d)] = b[Add(n, p, d)]
           /\ \A d \in c .. u - 2 : s[Add(n, Inc(n, p), d)] = b[Add(n, p, d + 1)]
<1> /\ n \in Nat /\ n >= 2 /\ p \in 0 .. n - 1 /\ u \in 1 .. n /\ c \in 0 .. u - 1
    /\ b \in [0 .. n - 1 -> Handles \cup {None}] /\ FilledAt(n, p, u, b)
    /\ s = [k \in 0 .. n - 1 |->
               IF k = p THEN None
               ELSE IF Sub(n, k, p) <= c THEN b[Dec(n, k)] ELSE b[k]]
  BY DEF RemoveStep
<1>1. \A k \in 0 .. n - 1 : Dec(n, k) \in 0 .. n - 1
  BY DEF Dec
<1>2. s \in [0 .. n - 1 -> Handles \cup {None}]
  BY <1>1
<1>3. ASSUME NEW k \in 0 .. n - 1
      PROVE  (s[k] = None) <=> Sub(n, k, Inc(n, p)) >= u - 1
  <2>1. CASE k = p
    BY <2>1 DEF Sub, Inc
  <2>2. CASE k # p /\ Sub(n, k, p) <= c
    <3>1. Sub(n, Dec(n, k), p) = Sub(n, k, p) - 1 /\ Sub(n, k, Inc(n, p)) = Sub(n, k, p) - 1
          /\ Sub(n, k, p) \in 1 .. n - 1
      BY <2>2 DEF Sub, Dec, Inc
    <3>2. (b[Dec(n, k)] = None) <=> Sub(n, Dec(n, k), p) >= u
      BY <1>1 DEF FilledAt
    <3>3. s[k] = b[Dec(n, k)]
      BY <2>2
    <3>4. QED
      BY <3>1, <3>2, <3>3, <2>2
  <2>3. CASE k # p /\ ~ (Sub(n, k, p) <= c)
    <3>1. Sub(n, k, Inc(n, p)) = Sub(n, k, p) - 1 /\ Sub(n, k, p) \in 1 .. n - 1
      BY <2>3 DEF Sub, Dec, Inc
    <3>2. (b[k] = None) <=> Sub(n, k, p) >= u
      BY DEF FilledAt
    <3>3. s[k] = b[k]
      BY <2>3
    <3>4. QED
      BY <3>1, <3>2, <3>3
  <2>4. QED
    BY <2>1, <2>2, <2>3
<1>4. ASSUME NEW d \in 0 .. c - 1
      PROVE  s[Add(n, Inc(n, p), d)] = b[Add(n, p, d)]
  <2> DEFINE k == Add(n, Inc(n, p), d)
  <2>1. /\ k \in 0 .. n - 1 /\ k # p /\ Sub(n, k, p) = d + 1 /\ Dec(n, k) = Add(n, p, d)
    BY DEF Add, Inc, Sub, Dec
  <2>2. s[k] = b[Dec(n, k)]
    <3>. HIDE DEF k
    <3>1. QED
      BY <2>1
  <2>3. QED
    BY <2>1, <2>2
<1>5. ASSUME NEW d \in c .. u - 2
      PROVE  s[Add(n, Inc(n, p), d)] = b[Add(n, p, d + 1)]
  <2> DEFINE k == Add(n, Inc(n, p), d)
  <2>1. /\ k \in 0 .. n - 1 /\ k # p /\ Sub(n, k, p) = d + 1 /\ k = Add(n, p, d + 1)
    BY DEF Add, Inc, Sub
  <2>2. s[k] = b[k]
    <3>. HIDE DEF k
    <3>1. QED
      BY <2>1
  <2>3. QED
    BY <2>1, <2>2
<1>6. QED
  BY <1>2, <1>3, <1>4, <1>5 DEF FilledAt

(* s is b with the W slots behind the first P emptied, as MsgFlush does.   *)
FlushStep(n, p, P, W, b, f, S, s) ==
    /\ n \in Nat /\ p \in 0 .. n - 1 /\ P \in Nat /\ W \in Nat /\ P + W <= n
    /\ b \in [0 .. n - 1 -> Handles \cup {None}] /\ FilledAt(n, p, P + W, b)
    /\ f = Add(n, p, P)
    /\ \A k : k \in S <=> \E c \in 0 .. W - 1 : k = Add(n, f, c)
    /\ s = [k \in 0 .. n - 1 |-> IF k \in S THEN None ELSE b[k]]

(* Flushing leaves exactly the first P slots filled, as they were.         *)
LEMMA FlushArith ==
    ASSUME NEW n, NEW p, NEW P, NEW W, NEW b, NEW f, NEW S, NEW s,
           FlushStep(n, p, P, W, b, f, S, s)
    PROVE  /\ FilledAt(n, p, P, s)
           /\ \A c \in 0 .. P - 1 : s[Add(n, p, c)] = b[Add(n, p, c)]
<1> /\ n \in Nat /\ p \in 0 .. n - 1 /\ P \in Nat /\ W \in Nat /\ P + W <= n
    /\ b \in [0 .. n - 1 -> Handles \cup {None}] /\ FilledAt(n, p, P + W, b)
    /\ f = Add(n, p, P)
    /\ \A k : k \in S <=> \E c \in 0 .. W - 1 : k = Add(n, f, c)
    /\ s = [k \in 0 .. n - 1 |-> IF k \in S THEN None ELSE b[k]]
  BY DEF FlushStep
<1>1. ASSUME NEW k \in 0 .. n - 1
      PROVE  /\ Sub(n, k, p) \in Nat
             /\ k \in S <=> (Sub(n, k, p) >= P /\ Sub(n, k, p) < P + W)
  <2>0. /\ f \in 0 .. n - 1 /\ Sub(n, k, p) \in 0 .. n - 1 /\ Sub(n, k, f) \in 0 .. n - 1
        /\ Add(n, f, Sub(n, k, f)) = k
    <3>1. f \in 0 .. n - 1
      BY DEF Add
    <3>2. QED
      BY <3>1, OffsetArith
  <2>1. ASSUME k \in S PROVE Sub(n, k, p) >= P /\ Sub(n, k, p) < P + W
    <3>1. PICK c \in 0 .. W - 1 : k = Add(n, f, c)
      BY <2>1
    <3>2. QED
      BY <3>1 DEF Add, Sub
  <2>2. ASSUME Sub(n, k, p) >= P, Sub(n, k, p) < P + W PROVE k \in S
    <3>1. Sub(n, k, f) \in 0 .. W - 1
      BY <2>0, <2>2 DEF Add, Sub
    <3>2. QED
      BY <2>0, <3>1
  <2>3. QED
    BY <2>0, <2>1, <2>2
<1>2. ASSUME NEW k \in 0 .. n - 1
      PROVE  (s[k] = None) <=> Sub(n, k, p) >= P
  <2>1. (b[k] = None) <=> Sub(n, k, p) >= P + W
    BY DEF FilledAt
  <2>2. s[k] = IF k \in S THEN None ELSE b[k]
    OBVIOUS
  <2>3. Sub(n, k, p) \in Nat /\ (k \in S <=> (Sub(n, k, p) >= P /\ Sub(n, k, p) < P + W))
    BY <1>1, Zenon
  <2>4. CASE k \in S
    BY <2>2, <2>3, <2>4
  <2>5. CASE k \notin S
    BY <2>1, <2>2, <2>3, <2>5
  <2>6. QED
    BY <2>4, <2>5
<1>3. ASSUME NEW c \in 0 .. P - 1
      PROVE  s[Add(n, p, c)] = b[Add(n, p, c)]
  <2>0. c \in 0 .. n - 1
    OBVIOUS
  <2>1. Add(n, p, c) \in 0 .. n - 1 /\ Sub(n, Add(n, p, c), p) = c
    BY <2>0, OffsetArith
  <2>2. Add(n, p, c) \notin S
    BY <2>1, <1>1
  <2>3. QED
    BY <2>1, <2>2
<1>4. QED
  BY <1>2, <1>3 DEF FilledAt

(* s is a full ring b of n slots moved into m > n slots, as MsgAddHandle   *)
(* does it: C is the set of slots it clears.                               *)
GrowStep(n, m, p, b, e, C, s) ==
    /\ n \in Nat /\ n >= 2 /\ m \in Nat /\ m > n /\ p \in 0 .. n - 1
    /\ b \in [0 .. n - 1 -> Handles \cup {None}] /\ FilledAt(n, p, n, b)
    /\ e = Add(m, n, p)
    /\ \A k \in 0 .. m - 1 : k \in C <=> Sub(m, k, e) < Sub(m, p, e)
    /\ s = [k \in 0 .. m - 1 |-> IF k \in C THEN None
                                 ELSE IF k >= n THEN b[k - n]
                                 ELSE IF k + (m - n) < p THEN b[k + (m - n)]
                                 ELSE b[k]]

(* Enlarging keeps every entry at its distance from p and leaves the new   *)
(* slots empty.                                                            *)
LEMMA GrowArith ==
    ASSUME NEW n, NEW m, NEW p, NEW b, NEW e, NEW C, NEW s,
           GrowStep(n, m, p, b, e, C, s)
    PROVE  /\ s \in [0 .. m - 1 -> Handles \cup {None}]
           /\ e \in 0 .. m - 1 /\ p \in 0 .. m - 1
           /\ e = Add(m, p, n)
           /\ FilledAt(m, p, n, s)
           /\ \A c \in 0 .. n - 1 : s[Add(m, p, c)] = b[Add(n, p, c)]
           /\ s[e] = None
<1> /\ n \in Nat /\ n >= 2 /\ m \in Nat /\ m > n /\ p \in 0 .. n - 1
    /\ b \in [0 .. n - 1 -> Handles \cup {None}] /\ FilledAt(n, p, n, b)
    /\ e = Add(m, n, p)
    /\ \A k \in 0 .. m - 1 : k \in C <=> Sub(m, k, e) < Sub(m, p, e)
    /\ s = [k \in 0 .. m - 1 |-> IF k \in C THEN None
                                 ELSE IF k >= n THEN b[k - n]
                                 ELSE IF k + (m - n) < p THEN b[k + (m - n)]
                                 ELSE b[k]]
  BY DEF GrowStep
<1>1. /\ e \in 0 .. m - 1 /\ p \in 0 .. m - 1 /\ e = Add(m, p, n)
  BY DEF Add
<1>2. ASSUME NEW k \in 0 .. m - 1
      PROVE  (k \in C) <=> Sub(m, k, p) >= n
  <2>1. (Sub(m, k, e) < Sub(m, p, e)) <=> Sub(m, k, p) >= n
    BY <1>1 DEF Sub, Add
  <2>2. QED
    BY <2>1
<1>3. ASSUME NEW k \in 0 .. m - 1, k \notin C
      PROVE  /\ s[k] = b[Add(n, p, Sub(m, k, p))]
             /\ Add(n, p, Sub(m, k, p)) \in 0 .. n - 1
  <2>1. Sub(m, k, p) \in 0 .. n - 1
    BY <1>2, <1>3 DEF Sub
  <2>2. s[k] = IF k >= n THEN b[k - n]
               ELSE IF k + (m - n) < p THEN b[k + (m - n)] ELSE b[k]
    BY <1>3
  <2>3. /\ k >= n => k - n = Add(n, p, Sub(m, k, p))
        /\ ~ (k >= n) /\ k + (m - n) < p => k + (m - n) = Add(n, p, Sub(m, k, p))
        /\ ~ (k >= n) /\ ~ (k + (m - n) < p) => k = Add(n, p, Sub(m, k, p))
    BY <2>1 DEF Add, Sub
  <2>4. QED
    BY <2>1, <2>2, <2>3, OffsetArith
<1>4. ASSUME NEW i \in 0 .. n - 1
      PROVE  b[i] \in Handles
  <2>1. Sub(n, i, p) \in 0 .. n - 1
    BY OffsetArith
  <2>2. (b[i] = None) <=> Sub(n, i, p) >= n
    BY DEF FilledAt
  <2>3. QED
    BY <2>1, <2>2
<1>5. s \in [0 .. m - 1 -> Handles \cup {None}]
  <2>1. \A k \in 0 .. m - 1 : s[k] \in Handles \cup {None}
    BY <1>3, <1>4
  <2>2. QED
    BY <2>1
<1>6. FilledAt(m, p, n, s)
  <2> SUFFICES ASSUME NEW k \in 0 .. m - 1
               PROVE  (s[k] = None) <=> k \in C
    BY <1>2 DEF FilledAt
  <2>1. QED
    BY <1>3, <1>4, QueueAssumption
<1>7. ASSUME NEW c \in 0 .. n - 1
      PROVE  s[Add(m, p, c)] = b[Add(n, p, c)]
  <2>0. c \in 0 .. m - 1
    OBVIOUS
  <2>1. Add(m, p, c) \in 0 .. m - 1 /\ Sub(m, Add(m, p, c), p) = c
    BY <2>0, <1>1, OffsetArith
  <2>2. Add(m, p, c) \notin C
    BY <2>1, <1>2
  <2>3. QED
    BY <2>1, <2>2, <1>3
<1>8. s[e] = None
  <2>1. Sub(m, e, p) = n
    BY <1>1 DEF Sub, Add
  <2>2. QED
    BY <2>1, <1>1, <1>6 DEF FilledAt
<1>9. QED
  BY <1>1, <1>5, <1>6, <1>7, <1>8
-----------------------------------------------------------------------------
Ring(r) == RingType(r) /\ InStep(r)

(* The message c places behind the oldest one the client has taken.        *)
At(r, c) == r.buf[Add(r.bufsize, r.process, c)]

(* Records with the fields of struct MsgQueue, of any size.                *)
SlotMaps   == UNION {[0 .. n - 1 -> Handles \cup {None}] : n \in InitialSize .. ChunkSlots}
RingRecord == [buf : SlotMaps, bufsize : Nat, process : Nat, front : Nat, end : Nat,
               processing : Nat, waiting : Nat]

(* What a ring's fields are, as facts about numbers.                       *)
LEMMA RingFacts ==
    ASSUME NEW r, Ring(r)
    PROVE  /\ r.bufsize \in Nat /\ r.bufsize >= 2
           /\ r.bufsize \in InitialSize .. ChunkSlots
           /\ r.process \in 0 .. r.bufsize - 1
           /\ r.front \in 0 .. r.bufsize - 1
           /\ r.end \in 0 .. r.bufsize - 1
           /\ r.processing \in Nat /\ r.waiting \in Nat
           /\ r.processing + r.waiting <= r.bufsize
           /\ r.front = Add(r.bufsize, r.process, r.processing)
           /\ r.end = Add(r.bufsize, r.front, r.waiting)
           /\ r.buf \in [0 .. r.bufsize - 1 -> Handles \cup {None}]
           /\ r \in RingRecord
  BY QueueAssumption DEF Ring, RingType, InStep, Slots, Struct, RingRecord, SlotMaps

(* The same facts make a ring.                                             *)
LEMMA RingFrom ==
    ASSUME NEW r, r \in RingRecord,
           r.bufsize \in InitialSize .. ChunkSlots,
           r.process \in 0 .. r.bufsize - 1,
           r.front \in 0 .. r.bufsize - 1,
           r.end \in 0 .. r.bufsize - 1,
           r.processing \in Nat, r.waiting \in Nat,
           r.processing + r.waiting <= r.bufsize,
           r.front = Add(r.bufsize, r.process, r.processing),
           r.end = Add(r.bufsize, r.front, r.waiting),
           r.buf \in [0 .. r.bufsize - 1 -> Handles \cup {None}]
    PROVE  Ring(r)
  BY DEF Ring, RingType, InStep, Slots, Struct, RingRecord

(* A ring's slots are one of the slot arrays of struct MsgQueue.           *)
LEMMA SlotMapsFrom ==
    ASSUME NEW n \in InitialSize .. ChunkSlots,
           NEW b \in [0 .. n - 1 -> Handles \cup {None}]
    PROVE  b \in SlotMaps
  BY DEF SlotMaps

(* Filled, as FilledAt of the fields.                                      *)
LEMMA FilledFrom ==
    ASSUME NEW r
    PROVE  Filled(r) <=> FilledAt(r.bufsize, r.process, r.processing + r.waiting, r.buf)
  BY DEF Filled, FilledAt, Slots, Used

(* Where the three indices are, seen from each other.                      *)
LEMMA RegionArith ==
    ASSUME NEW n \in Nat, NEW p \in 0 .. n - 1, NEW P \in Nat, NEW W \in Nat, P + W <= n,
           NEW f, f = Add(n, p, P), NEW e, e = Add(n, f, W)
    PROVE  /\ f \in 0 .. n - 1 /\ e \in 0 .. n - 1
           /\ e = Add(n, p, P + W)
           /\ Sub(n, e, p) = IF P + W = n THEN 0 ELSE P + W
           /\ Sub(n, e, f) = IF W = n THEN 0 ELSE W
  BY DEF Add, Sub

(* The same for the fields of a ring.                                      *)
LEMMA RegionFacts ==
    ASSUME NEW r, Ring(r)
    PROVE  /\ r.end = Add(r.bufsize, r.process, r.processing + r.waiting)
           /\ Sub(r.bufsize, r.end, r.process) =
                 IF r.processing + r.waiting = r.bufsize THEN 0 ELSE r.processing + r.waiting
           /\ Sub(r.bufsize, r.end, r.front) = IF r.waiting = r.bufsize THEN 0 ELSE r.waiting
<1>1. /\ r.bufsize \in Nat /\ r.process \in 0 .. r.bufsize - 1
      /\ r.processing \in Nat /\ r.waiting \in Nat
      /\ r.processing + r.waiting <= r.bufsize
      /\ r.front = Add(r.bufsize, r.process, r.processing)
      /\ r.end = Add(r.bufsize, r.front, r.waiting)
  BY RingFacts
<1>2. /\ Sub(r.bufsize, r.end, r.process) =
            IF r.processing + r.waiting = r.bufsize THEN 0 ELSE r.processing + r.waiting
      /\ Sub(r.bufsize, r.end, r.front) = IF r.waiting = r.bufsize THEN 0 ELSE r.waiting
  BY <1>1 DEF Add, Sub
<1>3. r.end = Add(r.bufsize, r.process, r.processing + r.waiting)
  BY <1>1 DEF Add, Sub
<1>4. QED
  BY <1>2, <1>3

(* x % n for the values the consistency checks compute it of.              *)
LEMMA ModOfRing ==
    ASSUME NEW n \in Nat, n > 0, NEW x \in 0 .. n
    PROVE  x % n = IF x = n THEN 0 ELSE x
  OBVIOUS

(* A ring whose counters and indices agree passes the consistency checks.  *)
LEMMA RingInStep ==
    ASSUME NEW r, Ring(r)
    PROVE  ~ OutOfStep(r)
<1>1. /\ r.bufsize \in Nat /\ r.bufsize > 0
      /\ r.processing + r.waiting \in 0 .. r.bufsize /\ r.waiting \in 0 .. r.bufsize
  BY RingFacts
<1>2. /\ (r.processing + r.waiting) % r.bufsize =
            IF r.processing + r.waiting = r.bufsize THEN 0 ELSE r.processing + r.waiting
      /\ r.waiting % r.bufsize = IF r.waiting = r.bufsize THEN 0 ELSE r.waiting
  BY <1>1, ModOfRing
<1>3. QED
  BY <1>2, RegionFacts DEF OutOfStep

(* ... and its next free slot is empty unless it is full.                  *)
LEMMA RingNotBroken ==
    ASSUME NEW r, Ring(r), Filled(r)
    PROVE  ~ Broken(r)
<1>1. ASSUME ~ Full(r) PROVE r.buf[r.end] = None
  <2>1. r.end = Add(r.bufsize, r.process, r.processing + r.waiting)
    BY RegionFacts
  <2>2. /\ r.processing + r.waiting \in 0 .. r.bufsize - 1
        /\ r.bufsize \in Nat /\ r.process \in 0 .. r.bufsize - 1
        /\ r.end \in 0 .. r.bufsize - 1
    BY <1>1, RingFacts DEF Full
  <2>3. Sub(r.bufsize, r.end, r.process) = r.processing + r.waiting
    BY <2>2, RegionFacts
  <2>4. FilledAt(r.bufsize, r.process, r.processing + r.waiting, r.buf)
    BY FilledFrom
  <2>5. QED
    BY <2>2, <2>3, <2>4 DEF FilledAt
<1>2. QED
  BY <1>1, RingInStep DEF Broken

(* Enlarging always makes the ring larger, in spite of the 16-bit product. *)
LEMMA GrowthGrows ==
    ASSUME NEW n \in InitialSize .. ChunkSlots, n < MaxQueueSize
    PROVE  /\ QueueGrowth(n) \in Nat
           /\ QueueGrowth(n) > n /\ QueueGrowth(n) <= MaxQueueSize
<1>1. n >= 2 /\ n \in Nat /\ n * 3 < 65536 /\ MaxQueueSize \in Nat
  BY QueueAssumption
<1>2. (n * 3) % 65536 = n * 3
  BY <1>1
<1>3. (n * 3) \div 2 \in Nat /\ (n * 3) \div 2 > n
  BY <1>1
<1>4. QED
  BY <1>1, <1>2, <1>3 DEF QueueGrowth

(* Storing a message in a ring with room.                                  *)
LEMMA PutRing ==
    ASSUME NEW r, Ring(r), Filled(r), ~ Full(r), NEW h \in Handles
    PROVE  /\ Ring(Put(r, h)) /\ Filled(Put(r, h))
           /\ Put(r, h).bufsize = r.bufsize
           /\ Put(r, h).processing = r.processing /\ Put(r, h).waiting = r.waiting + 1
           /\ \A c \in 0 .. r.processing - 1 : At(Put(r, h), c) = At(r, c)
           /\ \A c \in 0 .. Used(r) - 1 : At(Put(r, h), c) = At(r, c)
           /\ At(Put(r, h), Used(r)) = h
<1> DEFINE s == Put(r, h)
           u == r.processing + r.waiting
<1>1. /\ s.bufsize = r.bufsize /\ s.process = r.process /\ s.front = r.front
      /\ s.end = Inc(r.bufsize, r.end) /\ s.waiting = r.waiting + 1
      /\ s.processing = r.processing
      /\ s.buf = [r.buf EXCEPT ![r.end] = h]
  BY RingFacts DEF Put, RingRecord
<1>2. /\ r.bufsize \in Nat /\ r.process \in 0 .. r.bufsize - 1
      /\ u \in 0 .. r.bufsize - 1
      /\ r.buf \in [0 .. r.bufsize - 1 -> Handles \cup {None}]
  BY RingFacts DEF Full
<1>3. r.end = Add(r.bufsize, r.process, u)
  BY RegionFacts
<1>4. FilledAt(r.bufsize, r.process, u, r.buf)
  BY FilledFrom
<1>5. /\ FilledAt(r.bufsize, r.process, u + 1, s.buf)
      /\ \A c \in 0 .. u - 1 :
            s.buf[Add(r.bufsize, r.process, c)] = r.buf[Add(r.bufsize, r.process, c)]
  <2> DEFINE b == [r.buf EXCEPT ![Add(r.bufsize, r.process, u)] = h]
  <2>1. /\ FilledAt(r.bufsize, r.process, u + 1, b)
        /\ \A c \in 0 .. u - 1 :
              b[Add(r.bufsize, r.process, c)] = r.buf[Add(r.bufsize, r.process, c)]
    <3> HIDE DEF u, s
    <3>1. QED
      BY <1>2, <1>4, PutArith
  <2>2. s.buf = b
    BY <1>1, <1>3
  <2> HIDE DEF b, u, s
  <2>3. QED
    BY <2>1, <2>2
<1>6. Ring(s)
  <2>1. Inc(r.bufsize, r.end) \in 0 .. r.bufsize - 1
    BY RingFacts DEF Inc
  <2>2. ASSUME NEW n \in Nat, NEW f \in 0 .. n - 1, NEW W \in 0 .. n - 1
        PROVE  Inc(n, Add(n, f, W)) = Add(n, f, W + 1)
    BY DEF Inc, Add
  <2>3. r.front \in 0 .. r.bufsize - 1 /\ r.waiting \in 0 .. r.bufsize - 1
    BY <1>2, RingFacts
  <2>4. Inc(r.bufsize, r.end) = Add(r.bufsize, r.front, r.waiting + 1)
    <3>1. Inc(r.bufsize, Add(r.bufsize, r.front, r.waiting))
            = Add(r.bufsize, r.front, r.waiting + 1)
      BY <1>2, <2>2, <2>3
    <3>2. QED
      BY <3>1, RingFacts
  <2>5. s.buf \in [0 .. r.bufsize - 1 -> Handles \cup {None}]
    BY <1>1, <1>2
  <2>6. s.processing + s.waiting <= s.bufsize /\ s.waiting \in Nat
    BY <1>1, <1>2, RingFacts
  <2>7. s \in RingRecord
    <3> DEFINE b == [r.buf EXCEPT ![r.end] = h]
               e == Inc(r.bufsize, r.end)
               w == r.waiting + 1
    <3>1. b \in SlotMaps
      BY <1>1, <2>5, RingFacts, SlotMapsFrom
    <3>2. e \in Nat /\ w \in Nat /\ r \in RingRecord
      BY <2>1, RingFacts
    <3>3. s = [r EXCEPT !.buf = b, !.end = e, !.waiting = w]
      BY DEF Put
    <3> HIDE DEF b, e, w, s
    <3>4. QED
      BY <3>1, <3>2, <3>3 DEF RingRecord
  <2>8. QED
    BY <1>1, <2>1, <2>4, <2>5, <2>6, <2>7, RingFacts, RingFrom
<1>7. Filled(s)
  <2>1. u + 1 = s.processing + s.waiting
    BY <1>1, RingFacts
  <2>2. QED
    BY <1>1, <1>5, <2>1, FilledFrom
<1>8. \A c \in 0 .. u - 1 : At(s, c) = At(r, c)
  BY <1>1, <1>5 DEF At
<1>9. \A c \in 0 .. r.processing - 1 : c \in 0 .. u - 1
  BY RingFacts
<1>10. At(s, u) = h
  BY <1>1, <1>3, RingFacts DEF At
<1> HIDE DEF s
<1>11. \A c \in 0 .. r.processing - 1 : At(s, c) = At(r, c)
  BY <1>8, <1>9
<1>12. /\ s.bufsize = r.bufsize /\ s.processing = r.processing
       /\ s.waiting = r.waiting + 1
  BY <1>1
<1>13. QED
  BY <1>6, <1>7, <1>8, <1>10, <1>11, <1>12, Zenon DEF s, u, Used

(* MsgGet moves the oldest waiting message to the client's region.         *)
LEMMA TakenRing ==
    ASSUME NEW r, Ring(r), Filled(r), r.waiting > 0
    PROVE  /\ Ring(Taken(r)) /\ Filled(Taken(r))
           /\ Taken(r).bufsize = r.bufsize
           /\ Taken(r).processing = r.processing + 1 /\ Taken(r).waiting = r.waiting - 1
           /\ \A c : At(Taken(r), c) = At(r, c)
           /\ At(Taken(r), r.processing) = Front(r)
           /\ Front(r) \in Handles
<1> DEFINE s == Taken(r)
           f == Inc(r.bufsize, r.front)
           w == r.waiting - 1
           d == r.processing + 1
<1>1. /\ s.buf = r.buf /\ s.bufsize = r.bufsize /\ s.process = r.process
      /\ s.front = f /\ s.end = r.end /\ s.waiting = w /\ s.processing = d
  BY RingFacts DEF Taken, RingRecord
<1>2. f \in 0 .. r.bufsize - 1 /\ w \in Nat /\ d \in Nat /\ d + w <= r.bufsize
  BY RingFacts DEF Inc
<1>3. f = Add(r.bufsize, r.process, d) /\ r.end = Add(r.bufsize, f, w)
  <2>1. ASSUME NEW n \in Nat, NEW p \in 0 .. n - 1, NEW P \in Nat, NEW W \in Nat,
               W > 0, P + W <= n
        PROVE  /\ Inc(n, Add(n, p, P)) = Add(n, p, P + 1)
               /\ Add(n, Add(n, p, P), W) = Add(n, Add(n, p, P + 1), W - 1)
    <3>1. Inc(n, Add(n, p, P)) = Add(n, p, P + 1)
      BY <2>1 DEF Inc, Add
    <3>2. Add(n, Add(n, p, P), W) = Add(n, Add(n, p, P + 1), W - 1)
      BY <2>1 DEF Add
    <3>3. QED
      BY <3>1, <3>2
  <2>2. /\ r.bufsize \in Nat /\ r.process \in 0 .. r.bufsize - 1
        /\ r.processing \in Nat /\ r.waiting \in Nat
        /\ r.processing + r.waiting <= r.bufsize
    BY RingFacts
  <2>3. /\ Inc(r.bufsize, Add(r.bufsize, r.process, r.processing)) =
              Add(r.bufsize, r.process, r.processing + 1)
        /\ Add(r.bufsize, Add(r.bufsize, r.process, r.processing), r.waiting) =
              Add(r.bufsize, Add(r.bufsize, r.process, r.processing + 1), r.waiting - 1)
    BY <2>1, <2>2
  <2>4. QED
    BY <2>3, RingFacts
<1>4. s \in RingRecord
  <2>1. f \in Nat
    BY <1>2, RingFacts
  <2>2. s = [r EXCEPT !.front = f, !.waiting = w, !.processing = d]
    BY DEF Taken
  <2> HIDE DEF f, w, d, s
  <2>3. QED
    BY <1>2, <2>1, <2>2, RingFacts DEF RingRecord
<1>5. Ring(s)
  <2> HIDE DEF f, w, d, s
  <2>1. QED
    BY <1>1, <1>2, <1>3, <1>4, RingFacts, RingFrom
<1>6. Filled(s)
  <2>1. d + w = r.processing + r.waiting
    BY RingFacts
  <2>2. QED
    BY <1>1, <2>1, FilledFrom
<1>7. At(s, r.processing) = Front(r)
  BY <1>1, RingFacts DEF At, Front
<1>8. Front(r) # None
  <2>1. r.processing \in 0 .. r.bufsize - 1
    BY RingFacts
  <2>2. Sub(r.bufsize, r.front, r.process) = r.processing
    <3>1. /\ r.bufsize \in Nat /\ r.process \in 0 .. r.bufsize - 1
          /\ r.front = Add(r.bufsize, r.process, r.processing)
      BY RingFacts
    <3>2. QED
      BY <2>1, <3>1 DEF Add, Sub
  <2>3. FilledAt(r.bufsize, r.process, r.processing + r.waiting, r.buf)
    BY FilledFrom
  <2>4. QED
    BY <2>2, <2>3, RingFacts DEF FilledAt, Front
<1>9. Front(r) \in Handles
  BY <1>8, RingFacts DEF Front
<1>10. QED
  BY <1>1, <1>5, <1>6, <1>7, <1>9 DEF At

(* MsgProcessed takes the entry at distance c out of the client's region.  *)
LEMMA RemovedRing ==
    ASSUME NEW r, Ring(r), Filled(r), NEW c \in 0 .. r.processing - 1
    PROVE  /\ Ring(Removed(r, c)) /\ Filled(Removed(r, c))
           /\ Removed(r, c).bufsize = r.bufsize
           /\ Removed(r, c).processing = r.processing - 1
           /\ Removed(r, c).waiting = r.waiting
           /\ \A d \in 0 .. c - 1 : At(Removed(r, c), d) = At(r, d)
           /\ \A d \in c .. r.processing - 2 : At(Removed(r, c), d) = At(r, d + 1)
           /\ \A d \in c .. Used(r) - 2 : At(Removed(r, c), d) = At(r, d + 1)
<1> DEFINE s == Removed(r, c)
           u == r.processing + r.waiting
           b == [k \in 0 .. r.bufsize - 1 |->
                    IF k = r.process THEN None
                    ELSE IF Sub(r.bufsize, k, r.process) <= c
                         THEN r.buf[Dec(r.bufsize, k)] ELSE r.buf[k]]
           p == Inc(r.bufsize, r.process)
           d1 == r.processing - 1
<1>1. /\ s.buf = b /\ s.bufsize = r.bufsize /\ s.process = p
      /\ s.front = r.front /\ s.end = r.end /\ s.waiting = r.waiting
      /\ s.processing = d1
  BY RingFacts DEF Removed, RingRecord
<1>2. p \in 0 .. r.bufsize - 1 /\ d1 \in Nat /\ d1 + r.waiting <= r.bufsize
  <2>1. /\ r.bufsize \in Nat /\ r.process \in 0 .. r.bufsize - 1
        /\ r.processing \in Nat /\ r.waiting \in Nat
        /\ r.processing + r.waiting <= r.bufsize
    BY RingFacts
  <2>2. p \in 0 .. r.bufsize - 1
    BY <2>1 DEF Inc
  <2>3. d1 \in Nat /\ d1 + r.waiting <= r.bufsize
    BY <2>1
  <2>4. QED
    BY <2>2, <2>3
<1>3. /\ b \in [0 .. r.bufsize - 1 -> Handles \cup {None}]
      /\ FilledAt(r.bufsize, p, u - 1, b)
      /\ \A d \in 0 .. c - 1 : b[Add(r.bufsize, p, d)] = r.buf[Add(r.bufsize, r.process, d)]
      /\ \A d \in c .. u - 2 :
            b[Add(r.bufsize, p, d)] = r.buf[Add(r.bufsize, r.process, d + 1)]
  <2>1. /\ r.bufsize \in Nat /\ r.bufsize >= 2 /\ r.process \in 0 .. r.bufsize - 1
        /\ u \in 1 .. r.bufsize /\ c \in 0 .. u - 1
        /\ r.buf \in [0 .. r.bufsize - 1 -> Handles \cup {None}]
    <3>1. /\ r.bufsize \in Nat /\ r.bufsize >= 2
          /\ r.processing \in Nat /\ r.waiting \in Nat
          /\ r.processing + r.waiting <= r.bufsize
      BY RingFacts
    <3>2. /\ r.process \in 0 .. r.bufsize - 1
          /\ r.buf \in [0 .. r.bufsize - 1 -> Handles \cup {None}]
      BY RingFacts
    <3>3. u \in 1 .. r.bufsize /\ c \in 0 .. u - 1
      BY <3>1
    <3>4. QED
      BY <3>1, <3>2, <3>3
  <2>2. FilledAt(r.bufsize, r.process, u, r.buf)
    BY FilledFrom
  <2>3. RemoveStep(r.bufsize, r.process, u, c, r.buf, b)
    BY <2>1, <2>2 DEF RemoveStep
  <2> HIDE DEF b, u
  <2>4. QED
    BY <2>3, RemoveArith
<1>4. r.front = Add(r.bufsize, p, d1)
  <2>1. ASSUME NEW n \in Nat, NEW i \in 0 .. n - 1, NEW P \in Nat, P > 0, P <= n
        PROVE  Add(n, i, P) = Add(n, Inc(n, i), P - 1)
    BY <2>1 DEF Inc, Add
  <2>2. /\ r.bufsize \in Nat /\ r.process \in 0 .. r.bufsize - 1
        /\ r.processing \in Nat /\ r.processing > 0 /\ r.processing <= r.bufsize
    BY RingFacts
  <2>3. Add(r.bufsize, r.process, r.processing)
          = Add(r.bufsize, Inc(r.bufsize, r.process), r.processing - 1)
    BY <2>1, <2>2
  <2>4. QED
    BY <2>3, RingFacts
<1>5. s \in RingRecord
  <2>1. p \in Nat /\ r \in RingRecord
    BY <1>2, RingFacts
  <2>0. b \in SlotMaps
    <3> HIDE DEF b
    <3>1. QED
      BY <1>3, RingFacts, SlotMapsFrom
  <2>2. s = [r EXCEPT !.buf = b, !.process = p, !.processing = d1]
    BY DEF Removed
  <2> HIDE DEF b, p, d1, s
  <2>3. QED
    BY <1>2, <2>0, <2>1, <2>2 DEF RingRecord
<1>6. Ring(s)
  <2> HIDE DEF b, p, d1, s
  <2>1. QED
    BY <1>1, <1>2, <1>3, <1>4, <1>5, RingFacts, RingFrom
<1>7. Filled(s)
  <2>1. u - 1 = s.processing + s.waiting
    BY <1>1, RingFacts
  <2>2. FilledAt(s.bufsize, s.process, s.processing + s.waiting, s.buf)
    BY <1>1, <1>3, <2>1
  <2>3. QED
    BY <2>2, FilledFrom
<1>8. /\ \A d \in 0 .. c - 1 : At(s, d) = At(r, d)
      /\ \A d \in c .. r.processing - 2 : At(s, d) = At(r, d + 1)
      /\ \A d \in c .. u - 2 : At(s, d) = At(r, d + 1)
  <2>1. r.processing \in Nat /\ r.waiting \in Nat
    BY RingFacts
  <2>2. \A d \in c .. r.processing - 2 : d \in c .. u - 2
    BY <2>1
  <2> HIDE DEF b, p, s, u
  <2>3. /\ \A d \in 0 .. c - 1 : At(s, d) = At(r, d)
        /\ \A d \in c .. u - 2 : At(s, d) = At(r, d + 1)
    BY <1>1, <1>3 DEF At
  <2>4. QED
    BY <2>2, <2>3
<1>9. s.bufsize = r.bufsize /\ s.processing = r.processing - 1 /\ s.waiting = r.waiting
  BY <1>1
<1> HIDE DEF s
<1>10. QED
  BY <1>6, <1>7, <1>8, <1>9, Zenon DEF s, u, Used

(* MsgFlush empties the waiting part and leaves the client's region alone. *)
LEMMA FlushedRing ==
    ASSUME NEW r, Ring(r)
    PROVE  /\ Ring(Flushed(r))
           /\ Filled(r) => Filled(Flushed(r))
           /\ Filled(r) =>
                 \A c \in 0 .. r.processing - 1 : At(Flushed(r), c) = At(r, c)
           /\ Flushed(r).bufsize = r.bufsize
           /\ Flushed(r).processing = r.processing /\ Flushed(r).waiting = 0
           /\ Flushed(r).buf \in [0 .. r.bufsize - 1 -> Handles \cup {None}]
<1> DEFINE s == Flushed(r)
           b == [k \in 0 .. r.bufsize - 1 |->
                    IF k \in WaitingSlots(r) THEN None ELSE r.buf[k]]
           z == 0
<1>1. /\ s.buf = b /\ s.bufsize = r.bufsize /\ s.process = r.process
      /\ s.front = r.front /\ s.end = r.front /\ s.waiting = 0
      /\ s.processing = r.processing
  BY RingFacts DEF Flushed, RingRecord
<1>2. b \in [0 .. r.bufsize - 1 -> Handles \cup {None}]
  BY RingFacts
<1>3. s \in RingRecord
  <2>1. b \in SlotMaps
    <3> HIDE DEF b
    <3>1. QED
      BY <1>2, RingFacts, SlotMapsFrom
  <2>2. z \in Nat /\ r.front \in Nat /\ r \in RingRecord
    BY RingFacts
  <2>3. s = [r EXCEPT !.buf = b, !.end = r.front, !.waiting = z]
    BY DEF Flushed
  <2> HIDE DEF b, s, z
  <2>4. QED
    BY <2>1, <2>2, <2>3 DEF RingRecord
<1>4. r.front = Add(r.bufsize, r.front, 0)
  BY RingFacts DEF Add
<1>5. Ring(s)
  <2>1. s.processing + s.waiting <= s.bufsize /\ 0 \in Nat
    BY <1>1, RingFacts
  <2> HIDE DEF b, s
  <2>2. QED
    BY <1>1, <1>2, <1>3, <1>4, <2>1, RingFacts, RingFrom
<1>6. ASSUME Filled(r)
      PROVE  /\ FilledAt(r.bufsize, r.process, r.processing, b)
             /\ \A c \in 0 .. r.processing - 1 :
                   b[Add(r.bufsize, r.process, c)] = r.buf[Add(r.bufsize, r.process, c)]
  <2>1. /\ r.bufsize \in Nat /\ r.process \in 0 .. r.bufsize - 1
        /\ r.processing \in Nat /\ r.waiting \in Nat
        /\ r.processing + r.waiting <= r.bufsize
        /\ r.buf \in [0 .. r.bufsize - 1 -> Handles \cup {None}]
        /\ r.front = Add(r.bufsize, r.process, r.processing)
    BY RingFacts
  <2>2. FilledAt(r.bufsize, r.process, r.processing + r.waiting, r.buf)
    BY <1>6, FilledFrom
  <2>3. \A k : k \in WaitingSlots(r) <=>
                  \E c \in 0 .. r.waiting - 1 : k = Add(r.bufsize, r.front, c)
    BY DEF WaitingSlots
  <2>4. b = [k \in 0 .. r.bufsize - 1 |->
                IF k \in WaitingSlots(r) THEN None ELSE r.buf[k]]
    OBVIOUS
  <2> HIDE DEF b
  <2>5. FlushStep(r.bufsize, r.process, r.processing, r.waiting, r.buf, r.front,
                  WaitingSlots(r), b)
    BY <2>1, <2>2, <2>3, <2>4 DEF FlushStep
  <2>6. QED
    BY <2>5, FlushArith, SMT
<1>7. ASSUME Filled(r)
      PROVE  Filled(s) /\ \A c \in 0 .. r.processing - 1 : At(s, c) = At(r, c)
  <2>1. s.processing + s.waiting = r.processing
    BY <1>1, RingFacts
  <2> HIDE DEF b, s
  <2>2. FilledAt(s.bufsize, s.process, s.processing + s.waiting, s.buf)
    BY <1>1, <1>6, <1>7, <2>1
  <2>3. QED
    BY <1>1, <1>6, <1>7, <2>2, FilledFrom DEF At
<1>8. QED
  BY <1>1, <1>2, <1>5, <1>7

(* Growing a full ring with something waiting in it gives a ring with room *)
(* that holds the same messages in the same order.                         *)
LEMMA GrowRing ==
    ASSUME NEW r, Ring(r), Filled(r), Full(r), r.waiting > 0,
           NEW m \in InitialSize .. ChunkSlots, m > r.bufsize
    PROVE  /\ Ring(Grow(r, m)) /\ Filled(Grow(r, m)) /\ ~ Full(Grow(r, m))
           /\ Grow(r, m).bufsize = m
           /\ Grow(r, m).processing = r.processing /\ Grow(r, m).waiting = r.waiting
           /\ Grow(r, m).buf[Grow(r, m).end] = None
           /\ \A c \in 0 .. r.processing - 1 : At(Grow(r, m), c) = At(r, c)
           /\ \A c \in 0 .. Used(r) - 1 : At(Grow(r, m), c) = At(r, c)
<1> DEFINE s == Grow(r, m)
           n == r.bufsize
           p == r.process
           e == Add(m, n, r.end)
           f == GrownFront(r, m)
           b == [k \in 0 .. m - 1 |->
                    IF k \in Cleared(r, m) THEN None
                    ELSE IF k >= n THEN r.buf[k - n]
                    ELSE IF k + (m - n) < r.end THEN r.buf[k + (m - n)]
                    ELSE r.buf[k]]
<1>1. /\ s.buf = b /\ s.bufsize = m /\ s.process = p
      /\ s.front = f /\ s.end = e /\ s.waiting = r.waiting
      /\ s.processing = r.processing
  BY RingFacts DEF Grow, RingRecord
<1>2. r.processing + r.waiting = n /\ r.end = p
  <2>1. r.processing + r.waiting = n
    BY DEF Full
  <2>2. Sub(n, r.end, p) = 0
    BY <2>1, RegionFacts
  <2>3. QED
    BY <2>1, <2>2, RingFacts DEF Sub
<1>3. m \in Nat /\ n \in Nat /\ n >= 2 /\ p \in 0 .. n - 1
  BY RingFacts, QueueAssumption
<1>4. /\ b \in [0 .. m - 1 -> Handles \cup {None}]
      /\ e \in 0 .. m - 1 /\ p \in 0 .. m - 1
      /\ e = Add(m, p, n)
      /\ FilledAt(m, p, n, b)
      /\ \A c \in 0 .. n - 1 : b[Add(m, p, c)] = r.buf[Add(n, p, c)]
      /\ b[e] = None
  <2>1. FilledAt(n, p, n, r.buf)
    BY <1>2, FilledFrom
  <2>2. r.buf \in [0 .. n - 1 -> Handles \cup {None}]
    BY RingFacts
  <2>3. \A k \in 0 .. m - 1 : k \in Cleared(r, m) <=> Sub(m, k, e) < Sub(m, p, e)
    BY DEF Cleared
  <2>4. b = [k \in 0 .. m - 1 |->
                IF k \in Cleared(r, m) THEN None
                ELSE IF k >= n THEN r.buf[k - n]
                ELSE IF k + (m - n) < p THEN r.buf[k + (m - n)]
                ELSE r.buf[k]]
    BY <1>2
  <2>5. e = Add(m, n, p)
    BY <1>2
  <2>6. m > n
    OBVIOUS
  <2>7. GrowStep(n, m, p, r.buf, e, Cleared(r, m), b)
    BY <1>3, <2>1, <2>2, <2>3, <2>4, <2>5, <2>6 DEF GrowStep
  <2>8. QED
    BY <2>7, GrowArith, SMT
<1>5. f \in 0 .. m - 1 /\ f = Add(m, p, r.processing) /\ e = Add(m, f, r.waiting)
  <2>1. /\ r.front = Add(n, p, r.processing) /\ r.processing \in 0 .. n - 1
        /\ r.waiting \in Nat /\ r.processing + r.waiting = n
    BY <1>2, RingFacts
  <2>2. f \in 0 .. m - 1 /\ f = Add(m, p, r.processing)
    BY <1>3, <2>1 DEF GrownFront, Add, Sub
  <2>3. e = Add(m, f, r.waiting)
    <3>1. e = Add(m, p, n)
      BY <1>4
    <3> HIDE DEF e, f
    <3>2. QED
      BY <1>3, <2>1, <2>2, <3>1 DEF Add
  <2>4. QED
    BY <2>2, <2>3
<1>6. s \in RingRecord
  <2>1. b \in SlotMaps
    <3> HIDE DEF b
    <3>1. QED
      BY <1>4, SlotMapsFrom
  <2>2. m \in Nat /\ e \in Nat /\ f \in Nat /\ r \in RingRecord
    <3> HIDE DEF e, f
    <3>1. QED
      BY <1>3, <1>4, <1>5, RingFacts
  <2>3. s = [r EXCEPT !.bufsize = m, !.buf = b, !.end = e, !.front = f]
    BY DEF Grow
  <2> HIDE DEF b, s, e, f
  <2>4. QED
    BY <2>1, <2>2, <2>3 DEF RingRecord
<1>7. Ring(s)
  <2>1. s.processing + s.waiting <= s.bufsize
    BY <1>1, <1>2, <1>3
  <2> HIDE DEF b, s, e, f
  <2>2. QED
    BY <1>1, <1>4, <1>5, <1>6, <2>1, RingFacts, RingFrom
<1>8. Filled(s) /\ ~ Full(s)
  <2>1. s.processing + s.waiting = n
    BY <1>1, <1>2
  <2> HIDE DEF b, s
  <2>2. FilledAt(s.bufsize, s.process, s.processing + s.waiting, s.buf)
    BY <1>1, <1>4, <2>1
  <2>3. QED
    BY <1>1, <1>3, <2>1, <2>2, FilledFrom DEF Full
<1>9. /\ \A c \in 0 .. r.processing - 1 : At(s, c) = At(r, c)
      /\ \A c \in 0 .. Used(r) - 1 : At(s, c) = At(r, c)
  <2>1. /\ \A c \in 0 .. r.processing - 1 : c \in 0 .. n - 1
        /\ Used(r) = n
    BY <1>2, RingFacts DEF Used
  <2> HIDE DEF b, s
  <2>2. \A c \in 0 .. n - 1 : At(s, c) = At(r, c)
    BY <1>1, <1>4 DEF At
  <2> HIDE DEF n
  <2>3. QED
    BY <2>1, <2>2
<1>10. s.buf[s.end] = None
  <2> HIDE DEF b, s, e
  <2>1. QED
    BY <1>1, <1>4
<1>11. QED
  BY <1>1, <1>7, <1>8, <1>9, <1>10
-----------------------------------------------------------------------------
(* Everything in H is in the part of the ring its client is processing.    *)
HeldIn(r, H) == \A h \in H : \E c \in 0 .. r.processing - 1 : At(r, c) = h

(* The growth limit and the number of messages taken bound the ring; they  *)
(* keep a full ring from being all processed messages, and a held message  *)
(* is found by MsgProcessed: what the PANICs of MsgQueue.c test.           *)
Bounded(r) == Ring(r) /\ r.bufsize <= MaxQueueSize /\ r.processing <= MaxHeld

ControlOK ==
    /\ alive \in BOOLEAN /\ phase \in {"idle", "full", "added", "flush"}
    /\ pending \in Handles \cup {None} /\ (phase = "full" => pending # None)
    /\ held \subseteq Handles /\ alloc \subseteq Handles
    /\ alive \/ held = {}
    /\ fault \in {"none", "out of memory"}

IInv == /\ Bounded(q)
        /\ alive => Filled(q)
        /\ HeldIn(q, held)
        /\ ControlOK

(* The invariant gives the properties the runs check.                      *)
LEMMA InvariantImplies == IInv => TypeOK /\ RingOK /\ NoPanic
  BY DEF IInv, Bounded, Ring, ControlOK, TypeOK, RingOK, NoPanic, Faults

(* A new ring is empty.                                                    *)
LEMMA NewRingOK == Bounded(NewRing) /\ Filled(NewRing) /\ HeldIn(NewRing, {})
<1> DEFINE b == [i \in 0 .. InitialSize - 1 |-> None]
<1>1. /\ NewRing.buf = b /\ NewRing.bufsize = InitialSize
      /\ NewRing.process = 0 /\ NewRing.front = 0 /\ NewRing.end = 0
      /\ NewRing.processing = 0 /\ NewRing.waiting = 0
  BY DEF NewRing
<1>2. /\ InitialSize \in InitialSize .. ChunkSlots /\ 0 \in 0 .. InitialSize - 1
      /\ InitialSize \in Nat /\ InitialSize >= 2
      /\ InitialSize <= MaxQueueSize /\ 0 <= MaxHeld
  BY QueueAssumption
<1>3. b \in [0 .. InitialSize - 1 -> Handles \cup {None}]
  OBVIOUS
<1>4. b \in SlotMaps
  <2> HIDE DEF b
  <2>1. QED
    BY <1>2, <1>3, SlotMapsFrom
<1>5. NewRing \in RingRecord
  <2> HIDE DEF b
  <2>1. NewRing = [buf |-> b, bufsize |-> InitialSize, process |-> 0, front |-> 0,
                   end |-> 0, processing |-> 0, waiting |-> 0]
    BY DEF NewRing, b
  <2>2. InitialSize \in Nat /\ 0 \in Nat
    BY <1>2
  <2>3. QED
    BY <2>2, <1>4, <2>1, Zenon DEF RingRecord
<1>6. 0 = Add(InitialSize, 0, 0)
  BY <1>2 DEF Add
<1>7. Ring(NewRing)
  <2> HIDE DEF b
  <2>1. 0 + 0 <= InitialSize
    BY <1>2
  <2>2. /\ NewRing.bufsize \in InitialSize .. ChunkSlots
        /\ NewRing.process \in 0 .. NewRing.bufsize - 1
        /\ NewRing.front \in 0 .. NewRing.bufsize - 1
        /\ NewRing.end \in 0 .. NewRing.bufsize - 1
        /\ NewRing.processing \in Nat /\ NewRing.waiting \in Nat
        /\ NewRing.processing + NewRing.waiting <= NewRing.bufsize
        /\ NewRing.front = Add(NewRing.bufsize, NewRing.process, NewRing.processing)
        /\ NewRing.end = Add(NewRing.bufsize, NewRing.front, NewRing.waiting)
        /\ NewRing.buf \in [0 .. NewRing.bufsize - 1 -> Handles \cup {None}]
    BY <1>1, <1>2, <1>3, <1>6, <2>1
  <2>3. QED
    BY <1>5, <2>2, RingFrom
<1>8. FilledAt(InitialSize, 0, 0, b)
  BY <1>2 DEF FilledAt, Sub
<1>9. Filled(NewRing)
  <2> HIDE DEF b
  <2>1. FilledAt(NewRing.bufsize, NewRing.process, NewRing.processing + NewRing.waiting,
                 NewRing.buf)
    BY <1>1, <1>8
  <2>2. QED
    BY <2>1, FilledFrom
<1>10. QED
  BY <1>1, <1>2, <1>7, <1>9 DEF Bounded, HeldIn

(* A queue starts in the invariant.                                        *)
LEMMA InitInvariant == Init => IInv
  BY NewRingOK DEF Init, IInv, ControlOK

(* While the client holds fewer messages than the ring has slots, a full   *)
(* ring always has something waiting in it.                                *)
LEMMA FullHasWaiting ==
    ASSUME NEW r, Bounded(r), Full(r)
    PROVE  r.waiting > 0
<1>1. /\ r.processing \in Nat /\ r.waiting \in Nat /\ r.processing <= MaxHeld
      /\ r.bufsize = r.processing + r.waiting /\ r.bufsize >= InitialSize
  BY RingFacts DEF Bounded, Full
<1>2. QED
  BY <1>1, QueueAssumption

(* Growing either works or fails for lack of memory: its own consistency   *)
(* checks never fire.                                                      *)
LEMMA GrowingWorks ==
    ASSUME Bounded(q), Filled(q)
    PROVE  /\ CannotGrow \in {"none", "out of memory"}
           /\ (Full(q) /\ ~ Refused /\ CannotGrow = "none") =>
                /\ QueueGrowth(q.bufsize) \in InitialSize .. ChunkSlots
                /\ QueueGrowth(q.bufsize) > q.bufsize
                /\ QueueGrowth(q.bufsize) <= MaxQueueSize
<1> DEFINE n == QueueGrowth(q.bufsize)
<1>1. CASE ~ Full(q) \/ Refused
  BY <1>1 DEF CannotGrow
<1>2. CASE Full(q) /\ ~ Refused
  <2>1. /\ q.bufsize \in InitialSize .. ChunkSlots /\ q.bufsize # MaxQueueSize
        /\ q.bufsize <= MaxQueueSize /\ q.bufsize \in Nat
    BY <1>2, RingFacts DEF Bounded, Refused
  <2>2. n \in Nat /\ n > q.bufsize /\ n <= MaxQueueSize
    BY <2>1, GrowthGrows, QueueAssumption
  <2>3. CASE n > ChunkSlots
    <3> HIDE DEF n
    <3>1. n # q.bufsize
      BY <2>1, <2>2
    <3>2. CannotGrow = "out of memory"
      BY <1>2, <2>3, <3>1 DEF CannotGrow, n
    <3>3. QED
      BY <3>2
  <2>4. CASE ~ (n > ChunkSlots)
    <3>1. n \in InitialSize .. ChunkSlots
      BY <2>1, <2>2, <2>4, QueueAssumption
    <3>2. Ring(Grow(q, n)) /\ Grow(q, n).buf[Grow(q, n).end] = None
      BY <1>2, <2>2, <3>1, FullHasWaiting, GrowRing DEF Bounded
    <3>3. ~ OutOfStep(Grow(q, n))
      BY <3>2, RingInStep
    <3>4. CannotGrow = "none"
      BY <1>2, <2>2, <2>4, <3>2, <3>3, <2>1 DEF CannotGrow
    <3>5. QED
      BY <2>2, <3>1, <3>4
  <2>5. QED
    BY <2>3, <2>4
<1>3. QED
  BY <1>1, <1>2

(* A ring whose processed part is the same still holds what it held.       *)
LEMMA StillHeld ==
    ASSUME NEW r, NEW s, NEW H, HeldIn(r, H), s.processing = r.processing,
           \A c \in 0 .. r.processing - 1 : At(s, c) = At(r, c)
    PROVE  HeldIn(s, H)
  BY DEF HeldIn

(* The whole second half of MsgAddHandle.                                  *)
LEMMA AddNowInvariant ==
    ASSUME IInv, Running, NEW h \in Handles, AddNow(h)
    PROVE  IInv'
<1>1. /\ Bounded(q) /\ Filled(q) /\ HeldIn(q, held) /\ ControlOK /\ alive = TRUE
  BY DEF IInv, Running
<1>2. CASE CannotGrow # "none" /\ Panic(CannotGrow)
  <2>1. fault' \in {"none", "out of memory"}
    BY <1>1, <1>2, GrowingWorks DEF Panic
  <2>2. UNCHANGED <<q, alive, phase, pending, held, alloc>>
    BY <1>2 DEF Panic
  <2>3. ControlOK'
    BY <1>1, <2>1, <2>2 DEF ControlOK
  <2>4. QED
    BY <1>1, <2>2, <2>3 DEF IInv
<1>3. CASE CannotGrow = "none" /\ Refuse(h) /\ pending' = None /\ UNCHANGED <<alive, held, fault>>
  <2>1. ControlOK'
    BY <1>1, <1>3 DEF ControlOK, Refuse
  <2>2. q' = q /\ held' = held
    BY <1>3 DEF Refuse
  <2>3. QED
    BY <1>1, <2>1, <2>2 DEF IInv
<1>4. CASE CannotGrow = "none" /\ Store(h) /\ pending' = None /\ UNCHANGED <<alive, held, fault>>
  <2> DEFINE r == IF Full(q) THEN Grow(q, QueueGrowth(q.bufsize)) ELSE q
  <2>1. ControlOK'
    BY <1>1, <1>4 DEF ControlOK, Store, Own
  <2>2. /\ Ring(r) /\ Filled(r) /\ ~ Full(r) /\ r.bufsize <= MaxQueueSize
        /\ r.processing = q.processing
        /\ \A c \in 0 .. q.processing - 1 : At(r, c) = At(q, c)
    <3>1. CASE Full(q)
      <4>1. Ring(q) /\ q.waiting > 0
        BY <1>1, <3>1, FullHasWaiting DEF Bounded
      <4>2. /\ QueueGrowth(q.bufsize) \in InitialSize .. ChunkSlots
            /\ QueueGrowth(q.bufsize) > q.bufsize
            /\ QueueGrowth(q.bufsize) <= MaxQueueSize
        BY <1>1, <1>4, <3>1, GrowingWorks DEF Store
      <4>3. r = Grow(q, QueueGrowth(q.bufsize))
        BY <3>1
      <4> HIDE DEF r
      <4>4. QED
        BY <1>1, <3>1, <4>1, <4>2, <4>3, GrowRing
    <3>2. CASE ~ Full(q)
      BY <1>1, <3>2 DEF Bounded
    <3>3. QED
      BY <3>1, <3>2
  <2>3. q' = Put(r, h) /\ held' = held /\ alive' = alive
    BY <1>4 DEF Store
  <2> HIDE DEF r
  <2>4. /\ Ring(q') /\ Filled(q') /\ q'.bufsize = r.bufsize
        /\ q'.processing = q.processing
        /\ \A c \in 0 .. q.processing - 1 : At(q', c) = At(q, c)
    BY <2>2, <2>3, PutRing
  <2>5. Bounded(q')
    BY <1>1, <2>2, <2>4 DEF Bounded
  <2>6. HeldIn(q', held')
    BY <1>1, <2>3, <2>4, StillHeld
  <2>7. QED
    BY <2>1, <2>4, <2>5, <2>6 DEF IInv
<1>5. QED
  BY <1>2, <1>3, <1>4 DEF AddNow

(* MsgAddHandle: dropped, refused, stored or waiting for its callback.     *)
LEMMA AddHandleInvariant ==
    ASSUME IInv, NEW h \in Handles, MsgAddHandle(h)
    PROVE  IInv'
<1>1. /\ Running /\ Bounded(q) /\ Filled(q) /\ HeldIn(q, held) /\ ControlOK
  BY DEF IInv, Running, MsgAddHandle, Client
<1>2. ~ Broken(q) /\ ~ (Full(q) /\ q.waiting = 0)
  <2>1. ~ Broken(q)
    BY <1>1, RingNotBroken DEF Bounded
  <2>2. Full(q) => q.waiting > 0
    BY <1>1, FullHasWaiting
  <2>3. QED
    BY <2>1, <2>2
<1>3. CASE UNCHANGED vars
  BY <1>3, <1>1 DEF vars, IInv, ControlOK
<1>4. CASE /\ phase' = "full" /\ pending' = h
           /\ alloc' = alloc \cup Own({h})
           /\ UNCHANGED <<q, alive, held, fault>>
  <2>0. Own({h}) \subseteq Handles /\ h # None
    BY QueueAssumption DEF Own
  <2>1. ControlOK'
    <3>1. alloc' \subseteq Handles
      BY <1>1, <1>4, <2>0 DEF ControlOK
    <3>2. /\ alive' \in BOOLEAN /\ phase' = "full" /\ pending' \in Handles
          /\ pending' # None /\ held' \subseteq Handles /\ (alive' \/ held' = {})
          /\ fault' \in {"none", "out of memory"}
      BY <1>1, <1>4, <2>0 DEF ControlOK
    <3>3. QED
      BY <3>1, <3>2 DEF ControlOK
  <2>2. QED
    BY <1>1, <1>4, <2>1 DEF IInv
<1>5. CASE AddNow(h)
  BY <1>1, <1>5, AddNowInvariant
<1>6. QED
  BY <1>2, <1>3, <1>4, <1>5 DEF MsgAddHandle

(* The callback for a full queue returns and the message is added.         *)
LEMMA FullReturnInvariant == ASSUME IInv, FullReturn PROVE IInv'
<1>1. Running /\ pending \in Handles /\ AddNow(pending)
  BY DEF IInv, ControlOK, FullReturn
<1>2. QED
  BY <1>1, AddNowInvariant

(* MsgGet: the oldest waiting message becomes one being processed.         *)
LEMMA GetInvariant == ASSUME IInv, MsgGet PROVE IInv'
<1>1. /\ Ring(q) /\ Filled(q) /\ HeldIn(q, held) /\ ControlOK /\ alive = TRUE
      /\ q.bufsize <= MaxQueueSize /\ q.processing < MaxHeld /\ q.waiting > 0
      /\ q.processing \in Nat
  BY RingFacts DEF IInv, Bounded, Running, MsgGet, Client
<1>2. /\ Ring(q') /\ Filled(q') /\ q'.bufsize = q.bufsize
      /\ q'.processing = q.processing + 1
      /\ \A c \in 0 .. q.processing - 1 : At(q', c) = At(q, c)
      /\ At(q', q.processing) = Front(q)
      /\ Front(q) \in Handles
  BY <1>1, TakenRing DEF MsgGet
<1>3. Bounded(q')
  BY <1>1, <1>2, QueueAssumption DEF Bounded
<1>4. HeldIn(q', held')
  <2>1. held' = held \cup {Front(q)}
    BY DEF MsgGet
  <2>2. ASSUME NEW h \in held PROVE \E c \in 0 .. q'.processing - 1 : At(q', c) = h
    <3>1. PICK c \in 0 .. q.processing - 1 : At(q, c) = h
      BY <1>1, <2>2 DEF HeldIn
    <3>2. c \in 0 .. q'.processing - 1 /\ At(q', c) = h
      BY <1>1, <1>2, <3>1
    <3>3. QED
      BY <3>2
  <2>3. q.processing \in 0 .. q'.processing - 1
    BY <1>1, <1>2
  <2>4. QED
    BY <1>2, <2>1, <2>2, <2>3 DEF HeldIn
<1>5. ControlOK'
  BY <1>1, <1>2 DEF ControlOK, MsgGet
<1>6. QED
  BY <1>2, <1>3, <1>4, <1>5 DEF IInv

(* A message the client holds is found in the processed part.              *)
LEMMA HeldHasPlace ==
    ASSUME NEW r, NEW H, HeldIn(r, H), NEW h \in H
    PROVE  Places(r, h) # {}
<1>1. PICK c \in 0 .. r.processing - 1 : At(r, c) = h
  BY DEF HeldIn
<1>2. c \in Places(r, h)
  BY <1>1 DEF Places, At
<1>3. QED
  BY <1>2

(* Taking one message out of the processed part leaves the others there.   *)
LEMMA OthersStayHeld ==
    ASSUME NEW r, Ring(r), Filled(r), NEW H, HeldIn(r, H), NEW h,
           NEW c \in Places(r, h)
    PROVE  HeldIn(Removed(r, c), H \ {h})
<1>1. c \in 0 .. r.processing - 1 /\ At(r, c) = h
  BY DEF Places, At
<1>2. /\ Removed(r, c).processing = r.processing - 1
      /\ \A d \in 0 .. c - 1 : At(Removed(r, c), d) = At(r, d)
      /\ \A d \in c .. r.processing - 2 : At(Removed(r, c), d) = At(r, d + 1)
      /\ r.processing \in Nat
  BY <1>1, RemovedRing, RingFacts
<1> SUFFICES ASSUME NEW g \in H \ {h}
             PROVE  \E d \in 0 .. Removed(r, c).processing - 1 : At(Removed(r, c), d) = g
  BY DEF HeldIn
<1>3. PICK d \in 0 .. r.processing - 1 : At(r, d) = g
  BY DEF HeldIn
<1>4. d # c
  BY <1>1, <1>3
<1>5. CASE d < c
  <2>1. d \in 0 .. c - 1 /\ d \in 0 .. Removed(r, c).processing - 1
    BY <1>1, <1>2, <1>3, <1>5
  <2>2. QED
    BY <1>2, <1>3, <2>1
<1>6. CASE d > c
  <2> DEFINE d1 == d - 1
  <2>1. d1 \in c .. r.processing - 2 /\ d1 \in 0 .. Removed(r, c).processing - 1
        /\ d1 + 1 = d
    BY <1>1, <1>2, <1>3, <1>6
  <2> HIDE DEF d1
  <2>2. At(Removed(r, c), d1) = g
    BY <1>2, <1>3, <2>1
  <2>3. QED
    BY <2>1, <2>2
<1>7. QED
  BY <1>1, <1>3, <1>4, <1>5, <1>6

(* MsgProcessed finds what the client holds and closes the gap.            *)
LEMMA ProcessedInvariant ==
    ASSUME IInv, NEW h \in Handles, MsgProcessed(h)
    PROVE  IInv'
<1>1. /\ Ring(q) /\ Filled(q) /\ HeldIn(q, held) /\ ControlOK /\ alive = TRUE
      /\ q.bufsize <= MaxQueueSize /\ q.processing <= MaxHeld /\ h \in held
      /\ q.processing \in Nat
  BY RingFacts DEF IInv, Bounded, Running, MsgProcessed, Client
<1>2. Places(q, h) # {}
  BY <1>1, HeldHasPlace
<1>3. PICK c \in Places(q, h) :
         /\ q' = Removed(q, c) /\ held' = held \ {h} /\ alloc' = alloc \ {h}
         /\ UNCHANGED <<alive, phase, pending, fault>>
  BY <1>2 DEF MsgProcessed
<1>4. c \in 0 .. q.processing - 1
  BY DEF Places
<1>5. /\ Ring(q') /\ Filled(q') /\ q'.bufsize = q.bufsize
      /\ q'.processing = q.processing - 1
  BY <1>1, <1>3, <1>4, RemovedRing
<1>6. Bounded(q')
  BY <1>1, <1>5, QueueAssumption DEF Bounded
<1>7. HeldIn(q', held')
  BY <1>1, <1>3, OthersStayHeld
<1>8. ControlOK'
  BY <1>1, <1>3 DEF ControlOK
<1>9. QED
  BY <1>5, <1>6, <1>7, <1>8 DEF IInv

(* MsgGetAndProcess finds the message it has just taken.                   *)
LEMMA GetAndProcessInvariant == ASSUME IInv, MsgGetAndProcess PROVE IInv'
<1> DEFINE h == Front(q)
           r == Taken(q)
<1>1. /\ Ring(q) /\ Filled(q) /\ ControlOK /\ alive = TRUE /\ held = {}
      /\ q.bufsize <= MaxQueueSize /\ q.processing < MaxHeld /\ q.waiting > 0
      /\ q.processing \in Nat
  BY RingFacts DEF IInv, Bounded, Running, MsgGetAndProcess, Client
<1>2. /\ Ring(r) /\ Filled(r) /\ r.bufsize = q.bufsize
      /\ r.processing = q.processing + 1 /\ At(r, q.processing) = h
  BY <1>1, TakenRing
<1> HIDE DEF r, h
<1>3. q.processing \in Places(r, h)
  <2>1. q.processing \in 0 .. r.processing - 1
    BY <1>1, <1>2
  <2>2. QED
    BY <1>2, <2>1 DEF Places, At
<1>4. ~ MsgIsProcessed(r, h)
  <2>1. q.processing \in 0 .. r.processing + r.waiting - 1
    BY <1>1, <1>2, RingFacts
  <2>2. QED
    BY <1>2, <2>1 DEF MsgIsProcessed, At
<1>5. PICK c \in Places(r, h) :
         /\ q' = Removed(r, c) /\ alloc' = alloc \ {h}
         /\ UNCHANGED <<alive, phase, pending, held, fault>>
  BY <1>3, <1>4 DEF MsgGetAndProcess, r, h
<1>6. c \in 0 .. r.processing - 1
  BY DEF Places
<1>7. /\ Ring(q') /\ Filled(q') /\ q'.bufsize = r.bufsize
      /\ q'.processing = r.processing - 1
  BY <1>2, <1>5, <1>6, RemovedRing
<1>8. Bounded(q')
  BY <1>1, <1>2, <1>7, QueueAssumption DEF Bounded
<1>9. HeldIn(q', held')
  BY <1>1, <1>5 DEF HeldIn
<1>10. ControlOK'
  BY <1>1, <1>5 DEF ControlOK
<1>11. QED
  BY <1>7, <1>8, <1>9, <1>10 DEF IInv

(* Emptying the waiting part, with or without a callback before it.        *)
LEMMA FlushNowInvariant ==
    ASSUME IInv, Running, FlushNow, phase' \in {"idle", phase},
           UNCHANGED <<alive, pending, held, fault>>
    PROVE  IInv'
<1>1. /\ Ring(q) /\ Filled(q) /\ HeldIn(q, held) /\ ControlOK
      /\ q.bufsize <= MaxQueueSize /\ q.processing <= MaxHeld
  BY DEF IInv, Bounded, Running
<1>2. q' = Flushed(q) /\ alloc' \subseteq alloc
  BY DEF FlushNow
<1>3. /\ Ring(q') /\ Filled(q') /\ q'.bufsize = q.bufsize
      /\ q'.processing = q.processing
      /\ \A c \in 0 .. q.processing - 1 : At(q', c) = At(q, c)
  BY <1>1, <1>2, FlushedRing
<1>4. Bounded(q')
  BY <1>1, <1>3 DEF Bounded
<1>5. HeldIn(q', held')
  <2>1. HeldIn(q', held)
    BY <1>1, <1>3, StillHeld
  <2>2. QED
    BY <2>1
<1>6. ControlOK'
  BY <1>1, <1>2 DEF ControlOK
<1>7. QED
  BY <1>3, <1>4, <1>5, <1>6 DEF IInv

(* MsgFlush starts its callback or flushes at once.                        *)
LEMMA FlushInvariant == ASSUME IInv, MsgFlush PROVE IInv'
<1>1. Running
  BY DEF MsgFlush, Client
<1>2. CASE phase' = "flush" /\ UNCHANGED <<q, alloc>>
  <2>1. ControlOK'
    BY <1>2 DEF IInv, ControlOK, MsgFlush
  <2>2. q' = q /\ alive' = alive /\ held' = held
    BY <1>2 DEF MsgFlush
  <2>3. QED
    BY <2>1, <2>2 DEF IInv
<1>3. CASE FlushNow /\ UNCHANGED phase
  BY <1>1, <1>3, FlushNowInvariant DEF MsgFlush
<1>4. QED
  BY <1>2, <1>3 DEF MsgFlush

(* The flush callback returns and the rest is flushed.                     *)
LEMMA FlushReturnInvariant == ASSUME IInv, FlushReturn PROVE IInv'
  BY FlushNowInvariant DEF FlushReturn

(* The callback for an added message returns.                              *)
LEMMA AddedReturnInvariant == ASSUME IInv, AddedReturn PROVE IInv'
<1>1. ControlOK'
  BY DEF IInv, ControlOK, AddedReturn
<1>2. q' = q /\ alive' = alive /\ held' = held
  BY DEF AddedReturn
<1>3. QED
  BY <1>1, <1>2 DEF IInv

(* MsgNewQueue after MsgFreeQueue.                                         *)
LEMMA NewQueueInvariant == ASSUME IInv, MsgNewQueue PROVE IInv'
<1>1. q' = NewRing /\ UNCHANGED <<phase, pending, held, alloc, fault>> /\ alive' = TRUE
  BY DEF MsgNewQueue
<1>2. Bounded(q') /\ Filled(q')
  BY <1>1, NewRingOK
<1>3. ControlOK'
  BY <1>1 DEF IInv, ControlOK
<1>4. held' = {}
  BY <1>1 DEF IInv, ControlOK, MsgNewQueue
<1>5. HeldIn(q', held')
  BY <1>4 DEF HeldIn
<1>6. QED
  BY <1>2, <1>3, <1>5 DEF IInv

(* MsgFreeQueue resets the indices of the flushed ring.                    *)
LEMMA FreedRing ==
    ASSUME NEW r, Bounded(r)
    PROVE  Bounded([Flushed(r) EXCEPT !.process = 0, !.front = 0, !.end = 0,
                                      !.processing = 0])
<1> DEFINE f == Flushed(r)
           s == [f EXCEPT !.process = 0, !.front = 0, !.end = 0, !.processing = 0]
<1>1. Ring(r) /\ Ring(f) /\ f.bufsize = r.bufsize
      /\ f.buf \in [0 .. f.bufsize - 1 -> Handles \cup {None}]
  BY FlushedRing DEF Bounded
<1>2. f.waiting = 0
  BY <1>1, RingFacts DEF Flushed, RingRecord
<1>3. /\ f \in RingRecord /\ f.bufsize \in InitialSize .. ChunkSlots
      /\ f.bufsize \in Nat /\ f.bufsize >= 2
  BY <1>1, RingFacts
<1> HIDE DEF f
<1>4. /\ s.buf = f.buf /\ s.bufsize = f.bufsize /\ s.waiting = f.waiting
      /\ s.process = 0 /\ s.front = 0 /\ s.end = 0 /\ s.processing = 0
  BY <1>3 DEF RingRecord
<1>5. s \in RingRecord
  BY <1>3 DEF RingRecord
<1> HIDE DEF s
<1>6. /\ s.bufsize \in InitialSize .. ChunkSlots
      /\ s.process \in 0 .. s.bufsize - 1
      /\ s.front \in 0 .. s.bufsize - 1
      /\ s.end \in 0 .. s.bufsize - 1
      /\ s.processing \in Nat /\ s.waiting \in Nat
      /\ s.processing + s.waiting <= s.bufsize
      /\ s.front = Add(s.bufsize, s.process, s.processing)
      /\ s.end = Add(s.bufsize, s.front, s.waiting)
      /\ s.buf \in [0 .. s.bufsize - 1 -> Handles \cup {None}]
  BY <1>1, <1>2, <1>3, <1>4 DEF Add
<1>7. Ring(s)
  BY <1>5, <1>6, RingFrom
<1>8. s.bufsize <= MaxQueueSize /\ s.processing <= MaxHeld
  BY <1>1, <1>4, QueueAssumption DEF Bounded
<1>9. QED
  BY <1>7, <1>8 DEF Bounded, s, f

(* MsgFreeQueue leaves an empty ring.                                      *)
LEMMA FreeQueueInvariant == ASSUME IInv, MsgFreeQueue PROVE IInv'
<1>1. Bounded(q')
  BY FreedRing DEF IInv, MsgFreeQueue
<1>2. alive' = FALSE /\ held' = {} /\ HeldIn(q', held')
  BY DEF MsgFreeQueue, HeldIn
<1>3. ControlOK'
  BY DEF IInv, ControlOK, MsgFreeQueue
<1>4. QED
  BY <1>1, <1>2, <1>3 DEF IInv

(* Every step preserves the invariant: one case per operation.             *)
LEMMA NextInvariant == IInv /\ [Next]_vars => IInv'
<1> SUFFICES ASSUME IInv, [Next]_vars PROVE IInv'
  OBVIOUS
<1>1. CASE MsgNewQueue
  BY <1>1, NewQueueInvariant
<1>2. CASE MsgFreeQueue
  BY <1>2, FreeQueueInvariant
<1>3. ASSUME NEW h \in Handles, MsgAddHandle(h) PROVE IInv'
  BY <1>3, AddHandleInvariant
<1>4. ASSUME NEW h \in Handles, MsgProcessed(h) PROVE IInv'
  BY <1>4, ProcessedInvariant
<1>5. CASE FullReturn
  BY <1>5, FullReturnInvariant
<1>6. CASE AddedReturn
  BY <1>6, AddedReturnInvariant
<1>7. CASE MsgGet
  BY <1>7, GetInvariant
<1>8. CASE MsgGetAndProcess
  BY <1>8, GetAndProcessInvariant
<1>9. CASE MsgFlush
  BY <1>9, FlushInvariant
<1>10. CASE FlushReturn
  BY <1>10, FlushReturnInvariant
<1>11. CASE UNCHANGED vars
  BY <1>11 DEF IInv, ControlOK, vars
<1>12. QED
  BY <1>1, <1>2, <1>3, <1>4, <1>5, <1>6, <1>7, <1>8, <1>9, <1>10, <1>11 DEF Next

(* The inductive invariant holds in every reachable state.                 *)
THEOREM Invariant == Spec => []IInv
<1>1. QED
  BY InitInvariant, NextInvariant, PTL DEF Spec

(* struct MsgQueue keeps its shape, for every size and every growth limit. *)
THEOREM TypeCorrect == Spec => []TypeOK
<1>1. IInv => TypeOK
  BY InvariantImplies
<1>2. QED
  BY <1>1, Invariant, PTL

(* The picture above struct MsgQueue is right in every reachable state:    *)
(* the indices and counters agree and exactly the other slots are empty.   *)
THEOREM RingCorrect == Spec => []RingOK
<1>1. IInv => RingOK
  BY InvariantImplies
<1>2. QED
  BY <1>1, Invariant, PTL

(* No consistency PANIC of MsgQueue.c can fire for a client that takes     *)
(* fewer messages at once than the queue was created for.                  *)
THEOREM NeverPanics == Spec => []NoPanic
<1>1. IInv => NoPanic
  BY InvariantImplies
<1>2. QED
  BY <1>1, Invariant, PTL

-----------------------------------------------------------------------------
(* The messages in the ring.                                               *)

(* The message h is one of those from the i-th up to the j-th.             *)
Among(r, h, i, j) == \E c \in i .. j - 1 : At(r, c) = h
Distinct(r, i, j) == \A c, d \in i .. j - 1 : At(r, c) = At(r, d) => c = d

(* H is what the client holds, p what MsgAddHandle is about to add, A what *)
(* is allocated.                                                           *)
Owns(r, H, p, A) ==
    /\ \A h \in Handles : h \in H <=> Among(r, h, 0, r.processing)
    /\ Distinct(r, 0, r.processing)
    /\ IsHandles => /\ Distinct(r, 0, Used(r))
                    /\ \A c \in 0 .. Used(r) - 1 : At(r, c) # p
                    /\ \A h \in Handles : h \in A <=> h = p \/ Among(r, h, 0, Used(r))

Calls == /\ pending # None => phase = "full"
         /\ ~ alive => phase = "idle" /\ Used(q) = 0

MInv == IInv /\ Owns(q, held, pending, alloc) /\ Calls

-----------------------------------------------------------------------------
(* Every filled slot holds a message.                                      *)
LEMMA EntryFacts ==
    ASSUME NEW r, Ring(r), Filled(r)
    PROVE  /\ r.processing \in Nat /\ r.waiting \in Nat /\ Used(r) \in Nat
           /\ r.processing <= Used(r) /\ Used(r) = r.processing + r.waiting
           /\ \A c \in 0 .. Used(r) - 1 : At(r, c) \in Handles
<1>1. /\ r.bufsize \in Nat /\ r.process \in 0 .. r.bufsize - 1
      /\ r.processing \in Nat /\ r.waiting \in Nat
      /\ r.processing + r.waiting <= r.bufsize
      /\ r.buf \in [0 .. r.bufsize - 1 -> Handles \cup {None}]
  BY RingFacts
<1>2. /\ Used(r) \in Nat /\ r.processing <= Used(r) /\ Used(r) = r.processing + r.waiting
      /\ Used(r) <= r.bufsize
  BY <1>1 DEF Used
<1>3. ASSUME NEW c \in 0 .. Used(r) - 1 PROVE At(r, c) \in Handles
  <2> DEFINE k == Add(r.bufsize, r.process, c)
  <2>1. k \in 0 .. r.bufsize - 1 /\ Sub(r.bufsize, k, r.process) = c
    <3>1. c \in 0 .. r.bufsize - 1
      BY <1>1, <1>2
    <3>2. QED
      BY <1>1, <3>1, OffsetArith
  <2> HIDE DEF k
  <2>2. ~ (Sub(r.bufsize, k, r.process) >= Used(r))
    BY <1>2, <2>1
  <2>3. r.buf[k] # None
    BY <2>1, <2>2 DEF Filled, Slots
  <2>4. QED
    BY <1>1, <2>1, <2>3 DEF At, k
<1>4. QED
  BY <1>1, <1>2, <1>3

(* The waiting region follows the processed one.                           *)
LEMMA WaitingAt ==
    ASSUME NEW r, Ring(r), NEW c \in 0 .. r.waiting - 1
    PROVE  r.buf[Add(r.bufsize, r.front, c)] = At(r, r.processing + c)
<1>1. ASSUME NEW n \in Nat, NEW p \in 0 .. n - 1, NEW P \in Nat, NEW d \in Nat, P + d <= n - 1
      PROVE  Add(n, Add(n, p, P), d) = Add(n, p, P + d)
  BY <1>1 DEF Add
<1>2. /\ r.bufsize \in Nat /\ r.process \in 0 .. r.bufsize - 1
      /\ r.processing \in Nat /\ r.waiting \in Nat
      /\ r.processing + r.waiting <= r.bufsize
      /\ r.front = Add(r.bufsize, r.process, r.processing)
  BY RingFacts
<1>3. c \in Nat /\ r.processing + c <= r.bufsize - 1
  BY <1>2
<1>4. Add(r.bufsize, Add(r.bufsize, r.process, r.processing), c)
        = Add(r.bufsize, r.process, r.processing + c)
  BY <1>1, <1>2, <1>3
<1>5. QED
  BY <1>2, <1>4 DEF At

(* What MsgFlush releases, and what MsgIsInQueue looks through.            *)
LEMMA FlushedAre ==
    ASSUME NEW r, Ring(r), NEW h
    PROVE  /\ h \in FlushedHandles(r) <=> Among(r, h, r.processing, Used(r))
           /\ MsgIsInQueue(r, h) <=> Among(r, h, r.processing, Used(r))
<1>1. /\ r.processing \in Nat /\ r.waiting \in Nat
      /\ Used(r) = r.processing + r.waiting
  BY RingFacts DEF Used
<1>2. (\E k \in WaitingSlots(r) : r.buf[k] = h) <=> Among(r, h, r.processing, Used(r))
  <2>1. ASSUME NEW k \in WaitingSlots(r), r.buf[k] = h
        PROVE  Among(r, h, r.processing, Used(r))
    <3>1. PICK c \in 0 .. r.waiting - 1 : k = Add(r.bufsize, r.front, c)
      BY <2>1 DEF WaitingSlots
    <3>2. At(r, r.processing + c) = h
      BY <2>1, <3>1, WaitingAt
    <3>3. r.processing + c \in r.processing .. Used(r) - 1
      BY <1>1
    <3>4. QED
      BY <3>2, <3>3 DEF Among
  <2>2. ASSUME NEW d \in r.processing .. Used(r) - 1, At(r, d) = h
        PROVE  \E k \in WaitingSlots(r) : r.buf[k] = h
    <3> DEFINE c == d - r.processing
    <3>1. c \in 0 .. r.waiting - 1 /\ r.processing + c = d
      BY <1>1
    <3> HIDE DEF c
    <3>2. Add(r.bufsize, r.front, c) \in WaitingSlots(r)
      BY <3>1 DEF WaitingSlots
    <3>3. r.buf[Add(r.bufsize, r.front, c)] = h
      BY <2>2, <3>1, WaitingAt
    <3>4. QED
      BY <3>2, <3>3
  <2>3. QED
    BY <2>1, <2>2 DEF Among
<1>3. QED
  BY <1>2 DEF FlushedHandles, MsgIsInQueue

-----------------------------------------------------------------------------
(* A ring with the same messages at the same distances has the same owners.*)
LEMMA SameOwns ==
    ASSUME NEW r, NEW s, NEW H, NEW p, NEW A, Owns(r, H, p, A),
           r.processing \in Nat, Used(r) \in Nat, r.processing <= Used(r),
           s.processing = r.processing, Used(s) = Used(r),
           \A c \in 0 .. Used(r) - 1 : At(s, c) = At(r, c)
    PROVE  Owns(s, H, p, A)
<1>1. \A c \in 0 .. r.processing - 1 : At(s, c) = At(r, c)
  <2>1. \A c \in 0 .. r.processing - 1 : c \in 0 .. Used(r) - 1
    OBVIOUS
  <2>2. QED
    BY <2>1
<1>2. /\ Distinct(s, 0, s.processing) <=> Distinct(r, 0, r.processing)
      /\ Distinct(s, 0, Used(s)) <=> Distinct(r, 0, Used(r))
  BY <1>1 DEF Distinct
<1>3. \A h : /\ Among(s, h, 0, s.processing) <=> Among(r, h, 0, r.processing)
             /\ Among(s, h, 0, Used(s)) <=> Among(r, h, 0, Used(r))
  BY <1>1 DEF Among
<1>4. QED
  BY <1>2, <1>3 DEF Owns

(* h is not in the queue: it is new, or the one MsgAddHandle holds back.   *)
Offered(r, h, p, A) ==
    IsHandles => h = p \/ (p = None /\ h \notin A)

(* The message that is stored has one place, behind the others.            *)
LEMMA PutOwns ==
    ASSUME NEW r, Ring(r), Filled(r), ~ Full(r), NEW h \in Handles,
           NEW H, NEW p, NEW A, Owns(r, H, p, A), Offered(r, h, p, A)
    PROVE  Owns(Put(r, h), H, None, A \cup Own({h}))
<1> DEFINE s == Put(r, h)
           u == Used(r)
<1>1. /\ r.processing \in Nat /\ u \in Nat /\ r.processing <= u
      /\ \A c \in 0 .. u - 1 : At(r, c) \in Handles
      /\ u = r.processing + r.waiting /\ r.waiting \in Nat
  BY EntryFacts
<1>2. /\ s.processing = r.processing /\ s.waiting = r.waiting + 1
      /\ \A c \in 0 .. u - 1 : At(s, c) = At(r, c)
      /\ At(s, u) = h
  BY PutRing
<1> HIDE DEF s
<1>3. Used(s) = u + 1
  BY <1>1, <1>2 DEF Used
<1> HIDE DEF u
<1>4. \A c \in 0 .. r.processing - 1 : c \in 0 .. u - 1
  BY <1>1
<1>5. /\ \A g : Among(s, g, 0, s.processing) <=> Among(r, g, 0, r.processing)
      /\ Distinct(s, 0, s.processing) <=> Distinct(r, 0, r.processing)
  BY <1>2, <1>4 DEF Among, Distinct
<1>6. ASSUME IsHandles
      PROVE  /\ Distinct(s, 0, Used(s))
             /\ \A c \in 0 .. Used(s) - 1 : At(s, c) # None
             /\ \A g \in Handles : g \in A \cup Own({h}) <=> g = None \/ Among(s, g, 0, Used(s))
  <2>1. /\ Distinct(r, 0, u) /\ \A c \in 0 .. u - 1 : At(r, c) # p
        /\ \A g \in Handles : g \in A <=> g = p \/ Among(r, g, 0, u)
    BY <1>6 DEF Owns, u
  <2>2. \A c \in 0 .. u - 1 : At(r, c) # h
    <3>1. CASE h = p
      BY <2>1, <3>1
    <3>2. CASE h \notin A
      BY <2>1, <3>2 DEF Among
    <3>3. QED
      BY <1>6, <3>1, <3>2 DEF Offered
  <2>3. \A c \in 0 .. Used(s) - 1 : c = u \/ c \in 0 .. u - 1
    BY <1>1, <1>3
  <2>4. Distinct(s, 0, Used(s))
    BY <1>2, <2>1, <2>2, <2>3 DEF Distinct
  <2>5. \A c \in 0 .. Used(s) - 1 : At(s, c) # None
    BY <1>1, <1>2, <2>3, QueueAssumption
  <2>6. ASSUME NEW g \in Handles
        PROVE  Among(s, g, 0, Used(s)) <=> g = h \/ Among(r, g, 0, u)
    <3>1. \A c \in 0 .. u - 1 : c \in 0 .. Used(s) - 1
      BY <1>1, <1>3
    <3>2. u \in 0 .. Used(s) - 1
      BY <1>1, <1>3
    <3>3. QED
      BY <1>2, <2>3, <3>1, <3>2 DEF Among
  <2>7. p = h \/ p = None
    BY <1>6 DEF Offered
  <2>8. \A g \in Handles : g # None
    BY QueueAssumption
  <2>9. QED
    BY <1>6, <2>1, <2>4, <2>5, <2>6, <2>7, <2>8 DEF Own
<1>7. QED
  BY <1>5, <1>6 DEF Owns, s

(* MsgGet hands over the oldest waiting message.                           *)
LEMMA TakenOwns ==
    ASSUME NEW r, Ring(r), Filled(r), r.waiting > 0, r.processing < MaxHeld,
           NEW H, NEW p, NEW A, Owns(r, H, p, A)
    PROVE  Owns(Taken(r), H \cup {Front(r)}, p, A)
<1> DEFINE s == Taken(r)
           n == r.processing
<1>1. /\ n \in Nat /\ r.waiting \in Nat /\ Used(r) = n + r.waiting
  BY EntryFacts
<1>2. /\ s.processing = n + 1 /\ s.waiting = r.waiting - 1
      /\ \A c : At(s, c) = At(r, c)
      /\ At(s, n) = Front(r) /\ Front(r) \in Handles
  BY TakenRing
<1> HIDE DEF s
<1>3. Used(s) = Used(r) /\ n \in 0 .. Used(r) - 1
  BY <1>1, <1>2 DEF Used
<1> HIDE DEF n
<1>4. \A c \in 0 .. s.processing - 1 : c = n \/ c \in 0 .. n - 1
  BY <1>1, <1>2
<1>5. Distinct(s, 0, s.processing)
  <2>1. CASE IsHandles
    <3>1. Distinct(r, 0, Used(r))
      BY <2>1 DEF Owns
    <3>2. \A c \in 0 .. s.processing - 1 : c \in 0 .. Used(r) - 1
      BY <1>1, <1>2, <1>3
    <3>3. QED
      BY <1>2, <3>1, <3>2 DEF Distinct
  <2>2. CASE ~ IsHandles
    <3>1. n = 0
      BY <1>1, <2>2, QueueAssumption DEF n
    <3>2. \A c \in 0 .. s.processing - 1 : c = 0
      BY <1>2, <3>1
    <3>3. QED
      BY <3>2 DEF Distinct
  <2>3. QED
    BY <2>1, <2>2
<1>6. ASSUME NEW h \in Handles
      PROVE  h \in H \cup {Front(r)} <=> Among(s, h, 0, s.processing)
  <2>1. h \in H <=> Among(r, h, 0, n)
    BY DEF Owns, n
  <2>2. \A c \in 0 .. n - 1 : c \in 0 .. s.processing - 1
    BY <1>1, <1>2
  <2>3. n \in 0 .. s.processing - 1
    BY <1>1, <1>2
  <2>4. QED
    BY <1>2, <1>4, <2>1, <2>2, <2>3 DEF Among
<1>7. /\ Distinct(s, 0, Used(s)) <=> Distinct(r, 0, Used(r))
      /\ \A c \in 0 .. Used(s) - 1 : At(s, c) = At(r, c)
      /\ \A h : Among(s, h, 0, Used(s)) <=> Among(r, h, 0, Used(r))
  BY <1>2, <1>3 DEF Distinct, Among
<1>8. IsHandles => /\ Distinct(s, 0, Used(s))
                   /\ \A c \in 0 .. Used(s) - 1 : At(s, c) # p
                   /\ \A h \in Handles : h \in A <=> h = p \/ Among(s, h, 0, Used(s))
  BY <1>3, <1>7 DEF Owns
<1>9. QED
  BY <1>5, <1>6, <1>8 DEF Owns, s

(* Without the message c places from the oldest one.                       *)
Shift(c, d) == IF d < c THEN d ELSE d + 1
LEMMA ShiftFacts ==
    ASSUME NEW m \in Nat, NEW c \in 0 .. m - 1, NEW r, NEW s, Distinct(r, 0, m),
           \A d \in 0 .. m - 2 : At(s, d) = At(r, Shift(c, d))
    PROVE  /\ Distinct(s, 0, m - 1)
           /\ \A h : Among(s, h, 0, m - 1) <=> Among(r, h, 0, m) /\ h # At(r, c)
<1>1. ASSUME NEW d \in 0 .. m - 2
      PROVE  Shift(c, d) \in 0 .. m - 1 /\ Shift(c, d) # c
  BY DEF Shift
<1>2. \A d, e \in 0 .. m - 2 : Shift(c, d) = Shift(c, e) => d = e
  BY DEF Shift
<1>3. ASSUME NEW e \in 0 .. m - 1, e # c
      PROVE  \E d \in 0 .. m - 2 : Shift(c, d) = e
  <2>1. CASE e < c
    BY <2>1 DEF Shift
  <2>2. CASE e > c
    <3> DEFINE d == e - 1
    <3>1. d \in 0 .. m - 2 /\ Shift(c, d) = e
      BY <2>2 DEF Shift
    <3>2. QED
      BY <3>1
  <2>3. QED
    BY <1>3, <2>1, <2>2
<1> HIDE DEF Shift
<1>4. \A d : d \in 0 .. (m - 1) - 1 <=> d \in 0 .. m - 2
  OBVIOUS
<1>5. Distinct(s, 0, m - 1)
  <2> SUFFICES ASSUME NEW d \in 0 .. m - 2, NEW e \in 0 .. m - 2, At(s, d) = At(s, e)
               PROVE  d = e
    BY <1>4 DEF Distinct
  <2>1. At(r, Shift(c, d)) = At(r, Shift(c, e))
    OBVIOUS
  <2>2. Shift(c, d) = Shift(c, e)
    BY <1>1, <2>1 DEF Distinct
  <2>3. QED
    BY <1>2, <2>2
<1>6. ASSUME NEW h
      PROVE  Among(s, h, 0, m - 1) <=> Among(r, h, 0, m) /\ h # At(r, c)
  <2>1. ASSUME Among(s, h, 0, m - 1) PROVE Among(r, h, 0, m) /\ h # At(r, c)
    <3>1. PICK d \in 0 .. m - 2 : At(s, d) = h
      BY <1>4, <2>1 DEF Among
    <3>2. At(r, Shift(c, d)) = h /\ Shift(c, d) \in 0 .. m - 1 /\ Shift(c, d) # c
      BY <1>1, <3>1
    <3>3. QED
      BY <3>2 DEF Among, Distinct
  <2>2. ASSUME Among(r, h, 0, m), h # At(r, c) PROVE Among(s, h, 0, m - 1)
    <3>1. PICK e \in 0 .. m - 1 : At(r, e) = h
      BY <2>2 DEF Among
    <3>2. PICK d \in 0 .. m - 2 : Shift(c, d) = e
      BY <1>3, <2>2, <3>1
    <3>3. QED
      BY <1>4, <3>1, <3>2 DEF Among
  <2>3. QED
    BY <2>1, <2>2
<1>7. QED
  BY <1>5, <1>6

LEMMA RemovedOwns ==
    ASSUME NEW r, Ring(r), Filled(r), NEW h \in Handles, NEW c \in Places(r, h),
           NEW H, NEW p, NEW A, Owns(r, H, p, A)
    PROVE  Owns(Removed(r, c), H \ {h}, p, A \ {h})
<1> DEFINE s == Removed(r, c)
           n == r.processing
           u == Used(r)
<1>1. c \in 0 .. n - 1 /\ At(r, c) = h
  BY DEF Places, At
<1>2. n \in Nat /\ u \in Nat /\ n <= u /\ u = n + r.waiting /\ r.waiting \in Nat
  BY EntryFacts
<1>3. /\ s.processing = n - 1 /\ s.waiting = r.waiting
      /\ \A d \in 0 .. c - 1 : At(s, d) = At(r, d)
      /\ \A d \in c .. u - 2 : At(s, d) = At(r, d + 1)
  BY <1>1, RemovedRing
<1> HIDE DEF s
<1>4. Used(s) = u - 1
  BY <1>2, <1>3 DEF Used
<1> HIDE DEF n, u
<1>5. \A d \in 0 .. u - 2 : At(s, d) = At(r, Shift(c, d))
  <2> SUFFICES ASSUME NEW d \in 0 .. u - 2 PROVE At(s, d) = At(r, Shift(c, d))
    OBVIOUS
  <2>1. CASE d < c
    <3>1. d \in 0 .. c - 1 /\ Shift(c, d) = d
      BY <1>1, <2>1 DEF Shift
    <3>2. QED
      BY <1>3, <3>1
  <2>2. CASE ~ (d < c)
    <3>1. d \in c .. u - 2 /\ Shift(c, d) = d + 1
      BY <1>1, <2>2 DEF Shift
    <3>2. QED
      BY <1>3, <3>1
  <2>3. QED
    BY <2>1, <2>2
<1>6. \A d \in 0 .. n - 2 : At(s, d) = At(r, Shift(c, d))
  <2>1. \A d \in 0 .. n - 2 : d \in 0 .. u - 2
    BY <1>2
  <2>2. QED
    BY <1>5, <2>1
<1>7. /\ Distinct(s, 0, s.processing)
      /\ \A g : Among(s, g, 0, s.processing) <=> Among(r, g, 0, n) /\ g # h
  <2>1. Distinct(r, 0, n)
    BY DEF Owns, n
  <2>2. QED
    BY <1>1, <1>2, <1>3, <1>6, <2>1, ShiftFacts
<1>8. ASSUME IsHandles
      PROVE  /\ Distinct(s, 0, Used(s))
             /\ \A g : Among(s, g, 0, Used(s)) <=> Among(r, g, 0, u) /\ g # h
             /\ \A d \in 0 .. Used(s) - 1 : At(s, d) # p
             /\ h # p
             /\ \A g \in Handles : g \in A <=> g = p \/ Among(r, g, 0, u)
  <2>1. /\ Distinct(r, 0, u) /\ \A d \in 0 .. u - 1 : At(r, d) # p
        /\ \A g \in Handles : g \in A <=> g = p \/ Among(r, g, 0, u)
    BY <1>8 DEF Owns, u
  <2>2. c \in 0 .. u - 1
    BY <1>1, <1>2
  <2>3. /\ Distinct(s, 0, Used(s))
        /\ \A g : Among(s, g, 0, Used(s)) <=> Among(r, g, 0, u) /\ g # h
    BY <1>1, <1>2, <1>4, <1>5, <2>1, <2>2, ShiftFacts
  <2>4. \A d \in 0 .. Used(s) - 1 : At(s, d) # p
    BY <2>1, <2>3 DEF Among
  <2>5. QED
    BY <1>1, <2>1, <2>2, <2>3, <2>4
<1>9. \A g \in Handles : g \in H <=> Among(r, g, 0, n)
  BY DEF Owns, n
<1>10. \A g \in Handles : g \in H \ {h} <=> Among(s, g, 0, s.processing)
  BY <1>7, <1>9
<1>11. IsHandles => \A g \in Handles : g \in A \ {h} <=> g = p \/ Among(s, g, 0, Used(s))
  BY <1>8
<1>12. QED
  BY <1>7, <1>8, <1>10, <1>11 DEF Owns, s

(* MsgFlush releases what waits and nothing else.                          *)
LEMMA FlushedOwns ==
    ASSUME NEW r, Ring(r), Filled(r), NEW H, NEW p, NEW A, Owns(r, H, p, A)
    PROVE  Owns(Flushed(r), H, p, A \ FlushedHandles(r))
<1> DEFINE s == Flushed(r)
           n == r.processing
           u == Used(r)
<1>1. n \in Nat /\ u \in Nat /\ n <= u /\ u = n + r.waiting /\ r.waiting \in Nat
  BY EntryFacts
<1>2. s.processing = n /\ s.waiting = 0 /\ \A c \in 0 .. n - 1 : At(s, c) = At(r, c)
  BY FlushedRing
<1> HIDE DEF s
<1>3. Used(s) = n
  BY <1>1, <1>2 DEF Used
<1>4. \A h : h \in FlushedHandles(r) <=> Among(r, h, n, u)
  BY FlushedAre
<1>5. /\ Distinct(r, 0, n) /\ \A h \in Handles : h \in H <=> Among(r, h, 0, n)
      /\ IsHandles => /\ Distinct(r, 0, u) /\ \A c \in 0 .. u - 1 : At(r, c) # p
                      /\ \A h \in Handles : h \in A <=> h = p \/ Among(r, h, 0, u)
  BY DEF Owns
<1> HIDE DEF n, u
<1>6. /\ Distinct(s, 0, n)
      /\ \A h : Among(s, h, 0, n) <=> Among(r, h, 0, n)
  BY <1>2, <1>5 DEF Distinct, Among
<1>7. ASSUME IsHandles
      PROVE  /\ \A c \in 0 .. n - 1 : At(s, c) # p
             /\ \A h \in Handles : h \in A \ FlushedHandles(r) <=> h = p \/ Among(s, h, 0, n)
  <2>1. \A c : c \in 0 .. u - 1 <=> c \in 0 .. n - 1 \/ c \in n .. u - 1
    BY <1>1
  <2>2. \A c \in 0 .. n - 1 : \A d \in n .. u - 1 : c # d
    BY <1>1
  <2>3. \A h : Among(r, h, 0, u) <=> Among(r, h, 0, n) \/ Among(r, h, n, u)
    BY <2>1 DEF Among
  <2>4. \A h : ~ (Among(r, h, 0, n) /\ Among(r, h, n, u))
    BY <1>5, <1>7, <2>1, <2>2 DEF Among, Distinct
  <2>5. ~ Among(r, p, n, u)
    BY <1>5, <1>7, <2>1 DEF Among
  <2>6. \A c \in 0 .. n - 1 : At(s, c) # p
    BY <1>2, <1>5, <1>7, <2>1
  <2>7. QED
    BY <1>4, <1>5, <1>6, <1>7, <2>3, <2>4, <2>5, <2>6
<1>8. QED
  BY <1>2, <1>3, <1>5, <1>6, <1>7 DEF Owns, s
-----------------------------------------------------------------------------
Kept == Owns(q, held, pending, alloc) /\ Calls

LEMMA RunningFacts ==
    ASSUME MInv, Running
    PROVE  /\ Ring(q) /\ Filled(q) /\ Bounded(q) /\ Owns(q, held, pending, alloc) /\ Calls
           /\ alive = TRUE /\ alloc \subseteq Handles /\ held \subseteq Handles
           /\ pending \in Handles \cup {None} /\ (phase = "full" => pending \in Handles)
  BY DEF MInv, IInv, Bounded, ControlOK, Running

(* A new ring has no messages.                                             *)
LEMMA EmptyOwns ==
    ASSUME NEW r, r.processing = 0, Used(r) = 0, NEW A, A = {}
    PROVE  Owns(r, {}, None, A)
<1>1. /\ \A h : ~ Among(r, h, 0, r.processing) /\ ~ Among(r, h, 0, Used(r))
      /\ Distinct(r, 0, r.processing) /\ Distinct(r, 0, Used(r))
  BY DEF Among, Distinct
<1>2. \A c \in 0 .. Used(r) - 1 : FALSE
  OBVIOUS
<1>3. \A h \in Handles : h # None
  BY QueueAssumption
<1>4. QED
  BY <1>1, <1>2, <1>3 DEF Owns

LEMMA NewRingEmpty == NewRing.processing = 0 /\ NewRing.waiting = 0 /\ Used(NewRing) = 0
  BY DEF NewRing, Used

(* Nothing is allocated for an empty queue.                                *)
LEMMA EmptyAlloc ==
    ASSUME NEW r, NEW H, NEW A, Owns(r, H, None, A), Used(r) = 0, A \subseteq Handles, IsHandles
    PROVE  A = {}
<1>1. \A h : ~ Among(r, h, 0, Used(r))
  BY DEF Among
<1>2. \A h \in Handles : h # None
  BY QueueAssumption
<1>3. \A h \in Handles : h \notin A
  BY <1>1, <1>2 DEF Owns
<1>4. QED
  BY <1>3

(* The second half of MsgAddHandle.                                        *)
LEMMA RefuseKeeps ==
    ASSUME MInv, Running, NEW h \in Handles, Offered(q, h, pending, alloc), Refuse(h),
           pending' = None, UNCHANGED <<alive, held, fault>>
    PROVE  Kept'
<1>1. /\ q' = q /\ held' = held /\ alive' = TRUE /\ alloc' = alloc \ {h} /\ pending' = None
  BY RunningFacts DEF Refuse
<1>2. Ring(q) /\ Filled(q) /\ Owns(q, held, pending, alloc)
  BY RunningFacts
<1>3. \A c \in 0 .. Used(q) - 1 : At(q, c) \in Handles
  BY <1>2, EntryFacts
<1>4. ASSUME IsHandles
      PROVE  /\ \A c \in 0 .. Used(q) - 1 : At(q, c) # None
             /\ \A g \in Handles : g \in alloc \ {h} <=> g = None \/ Among(q, g, 0, Used(q))
  <2>1. /\ \A c \in 0 .. Used(q) - 1 : At(q, c) # pending
        /\ \A g \in Handles : g \in alloc <=> g = pending \/ Among(q, g, 0, Used(q))
    BY <1>2, <1>4 DEF Owns
  <2>2. h = pending \/ (pending = None /\ h \notin alloc)
    BY <1>4 DEF Offered
  <2>3. \A g \in Handles : g # None
    BY QueueAssumption
  <2>4. ~ Among(q, h, 0, Used(q))
    BY <2>1, <2>2 DEF Among
  <2>5. QED
    BY <1>3, <2>1, <2>2, <2>3, <2>4
<1>5. Owns(q, held, None, alloc \ {h})
  BY <1>2, <1>4 DEF Owns
<1>6. Calls'
  BY <1>1 DEF Calls
<1>7. QED
  BY <1>1, <1>5, <1>6 DEF Kept

LEMMA StoreKeeps ==
    ASSUME MInv, Running, NEW h \in Handles, Offered(q, h, pending, alloc), CannotGrow = "none",
           Store(h), pending' = None, UNCHANGED <<alive, held, fault>>
    PROVE  Kept'
<1> DEFINE r == IF Full(q) THEN Grow(q, QueueGrowth(q.bufsize)) ELSE q
<1>1. /\ q' = Put(r, h) /\ held' = held /\ alive' = TRUE /\ alloc' = alloc \cup Own({h})
      /\ pending' = None
  BY RunningFacts DEF Store
<1>2. Ring(r) /\ Filled(r) /\ ~ Full(r) /\ Owns(r, held, pending, alloc)
  <2>1. Ring(q) /\ Filled(q) /\ Bounded(q) /\ Owns(q, held, pending, alloc)
    BY RunningFacts
  <2>2. CASE Full(q)
    <3> DEFINE n == QueueGrowth(q.bufsize)
    <3>1. n \in InitialSize .. ChunkSlots /\ n > q.bufsize /\ q.waiting > 0
      BY <2>1, <2>2, GrowingWorks, FullHasWaiting DEF Store
    <3>2. r = Grow(q, n)
      BY <2>2
    <3> HIDE DEF r, n
    <3>3. /\ Ring(r) /\ Filled(r) /\ ~ Full(r)
          /\ r.processing = q.processing /\ r.waiting = q.waiting
          /\ \A c \in 0 .. Used(q) - 1 : At(r, c) = At(q, c)
      BY <2>1, <2>2, <3>1, <3>2, GrowRing
    <3>4. Used(r) = Used(q)
      BY <3>3 DEF Used
    <3>5. QED
      BY <2>1, <3>3, <3>4, EntryFacts, SameOwns
  <2>3. CASE ~ Full(q)
    BY <2>1, <2>3
  <2>4. QED
    BY <2>2, <2>3
<1> HIDE DEF r
<1>3. Offered(r, h, pending, alloc)
  BY DEF Offered
<1>4. Owns(Put(r, h), held, None, alloc \cup Own({h}))
  BY <1>2, <1>3, PutOwns
<1>5. Calls'
  BY <1>1 DEF Calls
<1>6. QED
  BY <1>1, <1>4, <1>5 DEF Kept

LEMMA AddNowKeeps ==
    ASSUME MInv, Running, NEW h \in Handles, Offered(q, h, pending, alloc), AddNow(h)
    PROVE  Kept'
<1>1. CASE Panic(CannotGrow)
  BY <1>1 DEF Panic, Kept, MInv, Calls
<1>2. CASE CannotGrow = "none" /\ Refuse(h) /\ pending' = None /\ UNCHANGED <<alive, held, fault>>
  BY <1>2, RefuseKeeps
<1>3. CASE CannotGrow = "none" /\ Store(h) /\ pending' = None /\ UNCHANGED <<alive, held, fault>>
  BY <1>3, StoreKeeps
<1>4. QED
  BY <1>1, <1>2, <1>3 DEF AddNow

(* Outside of MsgAddHandle nothing is pending.                             *)
LEMMA UnlockedPending ==
    ASSUME MInv, ~ Locked
    PROVE  pending = None
  BY DEF MInv, Calls, Locked

LEMMA AddHandleOffers ==
    ASSUME NEW h \in Handles, pending = None, IsHandles => h \notin alloc
    PROVE  Offered(q, h, pending, alloc)
  BY DEF Offered

LEMMA AddHandleKeeps == ASSUME MInv, NEW h \in Handles, MsgAddHandle(h) PROVE Kept'
<1>1. Running /\ (IsHandles => h \notin alloc)
  BY DEF MsgAddHandle, Client
<1>2. CASE UNCHANGED vars
  BY <1>2 DEF vars, Kept, MInv, Calls
<1>3. CASE Panic("broken queue") \/ Panic("client does not process")
  BY <1>3 DEF Panic, Kept, MInv, Calls
<1>4. CASE /\ ~ Locked /\ phase' = "full" /\ pending' = h
           /\ alloc' = alloc \cup Own({h})
           /\ UNCHANGED <<q, alive, held, fault>>
  <2>1. /\ Ring(q) /\ Filled(q) /\ Owns(q, held, pending, alloc) /\ alive = TRUE /\ pending = None
    BY <1>1, <1>4, RunningFacts, UnlockedPending
  <2>2. \A g \in Handles : g # None
    BY QueueAssumption
  <2>3. Owns(q, held, h, alloc \cup Own({h}))
    BY <1>1, <2>1, <2>2 DEF Owns, Among, Own
  <2>4. QED
    BY <1>4, <2>1, <2>3 DEF Kept, Calls
<1>5. CASE ~ Locked /\ AddNow(h)
  BY <1>1, <1>5, UnlockedPending, AddHandleOffers, AddNowKeeps
<1>6. QED
  BY <1>2, <1>3, <1>4, <1>5 DEF MsgAddHandle

LEMMA FullReturnKeeps == ASSUME MInv, FullReturn PROVE Kept'
<1>1. Running /\ pending \in Handles /\ AddNow(pending)
  BY RunningFacts DEF FullReturn
<1>2. Offered(q, pending, pending, alloc)
  BY DEF Offered
<1>3. QED
  BY <1>1, <1>2, AddNowKeeps

LEMMA GetKeeps == ASSUME MInv, MsgGet PROVE Kept'
<1>1. /\ Ring(q) /\ Filled(q) /\ Owns(q, held, pending, alloc) /\ Calls /\ alive = TRUE
      /\ q.waiting > 0 /\ q.processing < MaxHeld
  BY RunningFacts DEF MsgGet, Client
<1>2. /\ q' = Taken(q) /\ held' = held \cup {Front(q)}
      /\ UNCHANGED <<alive, phase, pending, alloc, fault>>
  BY DEF MsgGet
<1>3. Owns(Taken(q), held \cup {Front(q)}, pending, alloc)
  BY <1>1, TakenOwns
<1>4. QED
  BY <1>1, <1>2, <1>3 DEF Kept, Calls

LEMMA ProcessedKeeps == ASSUME MInv, NEW h \in Handles, MsgProcessed(h) PROVE Kept'
<1>1. /\ Ring(q) /\ Filled(q) /\ Owns(q, held, pending, alloc) /\ Calls /\ alive = TRUE
  BY RunningFacts DEF MsgProcessed, Client
<1>2. CASE Panic("invalid handle")
  BY <1>2 DEF Panic, Kept, MInv, Calls
<1>3. CASE \E c \in Places(q, h) :
              /\ q' = Removed(q, c) /\ held' = held \ {h} /\ alloc' = alloc \ {h}
              /\ UNCHANGED <<alive, phase, pending, fault>>
  <2>1. PICK c \in Places(q, h) :
           /\ q' = Removed(q, c) /\ held' = held \ {h} /\ alloc' = alloc \ {h}
           /\ UNCHANGED <<alive, phase, pending, fault>>
    BY <1>3
  <2>2. Owns(Removed(q, c), held \ {h}, pending, alloc \ {h})
    BY <1>1, RemovedOwns
  <2>3. QED
    BY <1>1, <2>1, <2>2 DEF Kept, Calls
<1>4. QED
  BY <1>2, <1>3 DEF MsgProcessed

LEMMA GetAndProcessKeeps == ASSUME MInv, MsgGetAndProcess PROVE Kept'
<1> DEFINE h == Front(q)
           r == Taken(q)
<1>1. /\ Ring(q) /\ Filled(q) /\ Owns(q, held, pending, alloc) /\ Calls /\ alive = TRUE
      /\ q.waiting > 0 /\ q.processing < MaxHeld /\ held = {}
  BY RunningFacts DEF MsgGetAndProcess, Client
<1>2. Ring(r) /\ Filled(r) /\ Owns(r, {h}, pending, alloc) /\ h \in Handles
  <2>1. Ring(r) /\ Filled(r) /\ h \in Handles
    BY <1>1, TakenRing
  <2>2. Owns(r, held \cup {h}, pending, alloc)
    BY <1>1, TakenOwns
  <2>3. held \cup {h} = {h}
    BY <1>1
  <2>4. QED
    BY <2>1, <2>2, <2>3
<1>3. CASE Panic("invalid handle")
  BY <1>3 DEF Panic, Kept, MInv, Calls
<1>4. CASE \E c \in Places(r, h) : /\ q' = Removed(r, c) /\ alloc' = alloc \ {h}
                                   /\ UNCHANGED <<alive, phase, pending, held, fault>>
  <2> HIDE DEF h, r
  <2>1. PICK c \in Places(r, h) : /\ q' = Removed(r, c) /\ alloc' = alloc \ {h}
                                  /\ UNCHANGED <<alive, phase, pending, held, fault>>
    BY <1>4
  <2>2. Owns(Removed(r, c), {h} \ {h}, pending, alloc \ {h})
    BY <1>2, RemovedOwns
  <2>3. {h} \ {h} = held
    BY <1>1
  <2>4. QED
    BY <1>1, <2>1, <2>2, <2>3 DEF Kept, Calls
<1>5. QED
  BY <1>3, <1>4 DEF MsgGetAndProcess

LEMMA FlushNowKeeps ==
    ASSUME MInv, Running, FlushNow, phase' \in {"idle", phase}, ~ (phase = "full" /\ phase' = "idle"),
           UNCHANGED <<alive, pending, held, fault>>
    PROVE  Kept'
<1>1. Ring(q) /\ Filled(q) /\ Owns(q, held, pending, alloc) /\ Calls /\ alive = TRUE
  BY RunningFacts
<1>2. q' = Flushed(q) /\ alloc' = alloc \ FlushedHandles(q)
  BY DEF FlushNow
<1>3. Owns(Flushed(q), held, pending, alloc \ FlushedHandles(q))
  BY <1>1, FlushedOwns
<1>4. QED
  BY <1>1, <1>2, <1>3 DEF Kept, Calls

LEMMA FlushKeeps == ASSUME MInv, MsgFlush PROVE Kept'
<1>1. Running
  BY DEF MsgFlush, Client
<1>2. CASE phase = "idle" /\ phase' = "flush" /\ UNCHANGED <<q, alloc>>
  <2>1. pending = None /\ alive = TRUE
    BY <1>1, <1>2, RunningFacts DEF Calls
  <2>2. QED
    BY <1>2, <2>1, <1>1, RunningFacts DEF MsgFlush, Kept, Calls
<1>3. CASE FlushNow /\ UNCHANGED phase
  <2>1. CASE phase = "idle"
    <3>1. ~ (phase = "full" /\ phase' = "idle")
      BY <2>1
    <3>2. QED
      BY <1>1, <1>3, <3>1, FlushNowKeeps DEF MsgFlush
  <2>2. CASE phase # "idle"
    <3>1. ~ (phase = "full" /\ phase' = "idle")
      BY <1>3, <2>2
    <3>2. QED
      BY <1>1, <1>3, <3>1, FlushNowKeeps DEF MsgFlush
  <2>3. QED
    BY <2>1, <2>2
<1>4. QED
  BY <1>2, <1>3 DEF MsgFlush

LEMMA FlushReturnKeeps == ASSUME MInv, FlushReturn PROVE Kept'
  BY FlushNowKeeps DEF FlushReturn

LEMMA AddedReturnKeeps == ASSUME MInv, AddedReturn PROVE Kept'
<1>1. Running /\ pending = None
  BY DEF AddedReturn, MInv, Calls
<1>2. QED
  BY <1>1, RunningFacts DEF AddedReturn, Kept, Calls

(* After MsgFreeQueue.                                                     *)
LEMMA FreeKeeps == ASSUME MInv, MsgFreeQueue PROVE Kept'
<1> DEFINE f == Flushed(q)
           s == [f EXCEPT !.process = 0, !.front = 0, !.end = 0, !.processing = 0]
<1>1. Ring(q) /\ pending = None /\ phase = "idle"
  BY RunningFacts DEF MsgFreeQueue, Calls
<1>2. Ring(f) /\ f.waiting = 0
  BY <1>1, FlushedRing
<1>3. f \in RingRecord
  BY <1>2, RingFacts
<1> HIDE DEF f
<1>4. s.processing = 0 /\ s.waiting = 0
  BY <1>2, <1>3 DEF RingRecord
<1> HIDE DEF s
<1>5. Used(s) = 0
  BY <1>4 DEF Used
<1>6. Owns(s, {}, None, {})
  BY <1>4, <1>5, EmptyOwns
<1>7. q' = s /\ alive' = FALSE /\ held' = {} /\ alloc' = {} /\ pending' = None /\ phase' = "idle"
  BY <1>1 DEF MsgFreeQueue, s, f
<1>8. QED
  BY <1>5, <1>6, <1>7 DEF Kept, Calls

LEMMA NewQueueKeeps == ASSUME MInv, MsgNewQueue PROVE Kept'
<1>1. /\ Owns(q, held, pending, alloc) /\ pending = None /\ Used(q) = 0 /\ alloc \subseteq Handles
      /\ held = {}
  BY DEF MsgNewQueue, MInv, Calls, IInv, ControlOK
<1>2. Owns(NewRing, {}, None, alloc)
  <2>1. CASE IsHandles
    BY <1>1, <2>1, EmptyAlloc, EmptyOwns, NewRingEmpty
  <2>2. CASE ~ IsHandles
    <3>1. Owns(NewRing, {}, None, {})
      BY EmptyOwns, NewRingEmpty
    <3>2. QED
      BY <2>2, <3>1 DEF Owns
  <2>3. QED
    BY <2>1, <2>2
<1>3. QED
  BY <1>1, <1>2 DEF MsgNewQueue, Kept, Calls

LEMMA InitMemory == Init => MInv
<1> SUFFICES ASSUME Init PROVE MInv
  OBVIOUS
<1>1. Owns(NewRing, {}, None, {})
  BY EmptyOwns, NewRingEmpty
<1>2. IInv
  BY InitInvariant
<1>3. QED
  BY <1>1, <1>2 DEF Init, MInv, Calls

LEMMA NextKeeps == ASSUME MInv, [Next]_vars PROVE Kept'
<1>1. CASE UNCHANGED vars
  BY <1>1 DEF vars, Kept, MInv, Calls
<1>2. CASE MsgNewQueue
  BY <1>2, NewQueueKeeps
<1>3. CASE MsgFreeQueue
  BY <1>3, FreeKeeps
<1>4. ASSUME NEW h \in Handles, MsgAddHandle(h) PROVE Kept'
  BY <1>4, AddHandleKeeps
<1>5. ASSUME NEW h \in Handles, MsgProcessed(h) PROVE Kept'
  BY <1>5, ProcessedKeeps
<1>6. CASE FullReturn
  BY <1>6, FullReturnKeeps
<1>7. CASE AddedReturn
  BY <1>7, AddedReturnKeeps
<1>8. CASE MsgGet
  BY <1>8, GetKeeps
<1>9. CASE MsgGetAndProcess
  BY <1>9, GetAndProcessKeeps
<1>10. CASE MsgFlush
  BY <1>10, FlushKeeps
<1>11. CASE FlushReturn
  BY <1>11, FlushReturnKeeps
<1>12. QED
  BY <1>1, <1>2, <1>3, <1>4, <1>5, <1>6, <1>7, <1>8, <1>9, <1>10, <1>11 DEF Next

LEMMA NextMemory == MInv /\ [Next]_vars => MInv'
  BY NextKeeps, NextInvariant DEF MInv, Kept

(* Each message has one owner, in every reachable state.                   *)
THEOREM MemoryInvariant == Spec => []MInv
<1>1. QED
  BY InitMemory, NextMemory, PTL DEF Spec

(* No memory of a message is lost or released too early: when a message is *)
(* refused, flushed, taken out of order or moved by a growing ring, what   *)
(* is allocated is what waits, what the client holds and what is about to  *)
(* be added.                                                               *)
THEOREM NothingLeaks == Spec => []NoLeak
<1>1. MInv => NoLeak
  <2> SUFFICES ASSUME MInv, IsHandles
               PROVE  alloc = FlushedHandles(q) \cup held \cup ({pending} \ {None})
    BY DEF NoLeak
  <2>1. /\ Ring(q) /\ Owns(q, held, pending, alloc) /\ (alive => Filled(q))
        /\ alloc \subseteq Handles /\ held \subseteq Handles /\ pending \in Handles \cup {None}
        /\ (~ alive => Used(q) = 0)
    BY DEF MInv, IInv, Bounded, ControlOK, Calls
  <2>2. q.processing \in Nat /\ Used(q) \in Nat /\ q.processing <= Used(q)
    BY <2>1, RingFacts DEF Used
  <2>3. \A h : Among(q, h, 0, Used(q)) <=>
                  Among(q, h, 0, q.processing) \/ Among(q, h, q.processing, Used(q))
    <3>1. \A c : c \in 0 .. Used(q) - 1 <=> \/ c \in 0 .. q.processing - 1
                                            \/ c \in q.processing .. Used(q) - 1
      BY <2>2
    <3>2. QED
      BY <3>1 DEF Among
  <2>4. \A h : h \in FlushedHandles(q) <=> Among(q, h, q.processing, Used(q))
    BY <2>1, FlushedAre
  <2>5. \A h : Among(q, h, 0, Used(q)) => h \in Handles
    <3>1. CASE Used(q) = 0
      BY <3>1 DEF Among
    <3>2. CASE alive
      BY <2>1, <3>2, EntryFacts DEF Among
    <3>3. QED
      BY <2>1, <3>1, <3>2
  <2>6. \A h \in Handles : h # None
    BY QueueAssumption
  <2>7. ASSUME NEW h \in Handles
        PROVE  h \in alloc <=> h \in FlushedHandles(q) \cup held \cup ({pending} \ {None})
    BY <2>1, <2>3, <2>4, <2>6 DEF Owns
  <2>8. FlushedHandles(q) \cup held \cup ({pending} \ {None}) \subseteq Handles
    BY <2>1, <2>3, <2>4, <2>5
  <2>9. QED
    BY <2>1, <2>7, <2>8
<1>2. QED
  BY <1>1, MemoryInvariant, PTL

(* WaitForQueue and WaitForResult poll the queue by a handle: it counts as *)
(* processed exactly when its memory is gone, and is in the queue exactly  *)
(* until it is taken.                                                      *)
THEOREM QueriesAnswer == Spec => []QueriesAgree
<1>1. MInv => QueriesAgree
  <2> SUFFICES ASSUME MInv, IsHandles, alive, fault = "none", NEW h \in Handles
               PROVE  /\ MsgIsProcessed(q, h) <=> h \notin alloc \ {pending}
                      /\ MsgIsInQueue(q, h) <=> h \in alloc \ (held \cup {pending})
    BY DEF QueriesAgree
  <2>1. Ring(q) /\ Filled(q) /\ Owns(q, held, pending, alloc)
    BY RunningFacts DEF Running
  <2>2. /\ q.processing \in Nat /\ Used(q) \in Nat /\ q.processing <= Used(q)
        /\ Used(q) = q.processing + q.waiting
    BY <2>1, EntryFacts
  <2>3. MsgIsProcessed(q, h) <=> ~ Among(q, h, 0, Used(q))
    <3>1. \A c : c \in 0 .. q.processing + q.waiting - 1 <=> c \in 0 .. Used(q) - 1
      BY <2>1, <2>2, RingFacts
    <3>2. QED
      BY <3>1 DEF MsgIsProcessed, Among, At
  <2>4. MsgIsInQueue(q, h) <=> Among(q, h, q.processing, Used(q))
    BY <2>1, FlushedAre
  <2>5. /\ Distinct(q, 0, Used(q)) /\ \A c \in 0 .. Used(q) - 1 : At(q, c) # pending
        /\ h \in alloc <=> h = pending \/ Among(q, h, 0, Used(q))
        /\ h \in held <=> Among(q, h, 0, q.processing)
    BY <2>1 DEF Owns
  <2>6. \A c : c \in 0 .. Used(q) - 1 <=> \/ c \in 0 .. q.processing - 1
                                          \/ c \in q.processing .. Used(q) - 1
    BY <2>2
  <2>7. \A c \in 0 .. q.processing - 1 : \A d \in q.processing .. Used(q) - 1 : c # d
    BY <2>2
  <2>8. /\ Among(q, h, 0, Used(q)) => h # pending
        /\ Among(q, h, 0, Used(q)) <=> \/ Among(q, h, 0, q.processing)
                                       \/ Among(q, h, q.processing, Used(q))
        /\ ~ (Among(q, h, 0, q.processing) /\ Among(q, h, q.processing, Used(q)))
    BY <2>5, <2>6, <2>7 DEF Among, Distinct
  <2>9. QED
    BY <2>3, <2>4, <2>5, <2>8
<1>2. QED
  BY <1>1, MemoryInvariant, PTL
-----------------------------------------------------------------------------
(* The waiting messages, as a sequence.                                    *)
Queued(r) == [c \in 1 .. r.waiting |-> r.buf[Add(r.bufsize, r.front, c - 1)]]

LEMMA QueuedFacts ==
    ASSUME NEW r, Ring(r), Filled(r)
    PROVE  /\ Queued(r) \in Seq(Handles) /\ Len(Queued(r)) = r.waiting /\ r.waiting \in Nat
           /\ \A c \in 1 .. r.waiting : Queued(r)[c] = At(r, r.processing + (c - 1))
<1>1. r.waiting \in Nat /\ r.processing \in Nat
  BY EntryFacts
<1>2. \A c \in 1 .. r.waiting : Queued(r)[c] = At(r, r.processing + (c - 1))
  <2> SUFFICES ASSUME NEW c \in 1 .. r.waiting
               PROVE  Queued(r)[c] = At(r, r.processing + (c - 1))
    OBVIOUS
  <2> DEFINE d == c - 1
  <2>1. d \in 0 .. r.waiting - 1
    BY <1>1
  <2>2. Queued(r)[c] = r.buf[Add(r.bufsize, r.front, d)]
    BY DEF Queued
  <2> HIDE DEF d
  <2>3. r.buf[Add(r.bufsize, r.front, d)] = At(r, r.processing + d)
    BY <2>1, WaitingAt
  <2>4. QED
    BY <2>2, <2>3 DEF d
<1>3. ASSUME NEW c \in 1 .. r.waiting PROVE Queued(r)[c] \in Handles
  <2> DEFINE d == r.processing + (c - 1)
  <2>1. d \in 0 .. Used(r) - 1
    BY <1>1, EntryFacts
  <2> HIDE DEF d
  <2>2. At(r, d) \in Handles
    BY <2>1, EntryFacts
  <2>3. QED
    BY <1>2, <2>2 DEF d
<1>4. Queued(r) \in [1 .. r.waiting -> Handles]
  BY <1>3 DEF Queued
<1>5. Queued(r) \in Seq(Handles) /\ Len(Queued(r)) = r.waiting
  <2> DEFINE s == Queued(r)
             n == r.waiting
  <2>1. s \in [1 .. n -> Handles] /\ n \in Nat
    BY <1>1, <1>4
  <2> HIDE DEF s, n
  <2>2. s \in Seq(Handles) /\ Len(s) = n
    BY <2>1
  <2>3. QED
    BY <2>2 DEF s, n
<1>6. QED
  BY <1>1, <1>2, <1>5

LEMMA QueuedNone == ASSUME NEW r, r.waiting = 0 PROVE Queued(r) = <<>>
<1>1. \A c : c \notin 1 .. 0
  OBVIOUS
<1>2. Queued(r) = [c \in 1 .. 0 |-> r.buf[Add(r.bufsize, r.front, c - 1)]]
  BY DEF Queued
<1>3. Queued(r) \in [1 .. 0 -> {}]
  BY <1>1, <1>2
<1>4. \A s \in [1 .. 0 -> {}] : s \in Seq({}) /\ Len(s) = 0
  OBVIOUS
<1>5. Queued(r) \in Seq({}) /\ Len(Queued(r)) = 0
  BY <1>3, <1>4
<1>6. QED
  BY <1>5, EmptySeq

(* Two rings with the same messages waiting.                               *)
LEMMA SameQueued ==
    ASSUME NEW r, Ring(r), Filled(r), NEW s, Ring(s), Filled(s), s.waiting = r.waiting,
           \A c \in 1 .. r.waiting : At(s, s.processing + (c - 1)) = At(r, r.processing + (c - 1))
    PROVE  Queued(s) = Queued(r)
<1>1. /\ Queued(r) \in Seq(Handles) /\ Queued(s) \in Seq(Handles)
      /\ Len(Queued(r)) = r.waiting /\ Len(Queued(s)) = r.waiting
      /\ \A c \in 1 .. r.waiting : Queued(s)[c] = Queued(r)[c]
  BY QueuedFacts
<1>2. QED
  BY <1>1, SeqEqual

LEMMA PutQueued ==
    ASSUME NEW r, Ring(r), Filled(r), ~ Full(r), NEW h \in Handles
    PROVE  Queued(Put(r, h)) = Append(Queued(r), h)
<1> DEFINE s == Put(r, h)
           n == r.waiting
           P == r.processing
<1>1. /\ Ring(s) /\ Filled(s) /\ s.processing = P /\ s.waiting = n + 1
      /\ \A c \in 0 .. Used(r) - 1 : At(s, c) = At(r, c)
      /\ At(s, Used(r)) = h
  BY PutRing
<1>2. P \in Nat /\ n \in Nat /\ Used(r) = P + n
  BY EntryFacts
<1> HIDE DEF s
<1>3. /\ Queued(r) \in Seq(Handles) /\ Len(Queued(r)) = n
      /\ \A c \in 1 .. n : Queued(r)[c] = At(r, P + (c - 1))
      /\ Queued(s) \in Seq(Handles) /\ Len(Queued(s)) = n + 1
      /\ \A c \in 1 .. n + 1 : Queued(s)[c] = At(s, P + (c - 1))
  BY <1>1, QueuedFacts
<1> HIDE DEF n, P
<1> DEFINE t == Append(Queued(r), h)
<1>4. t \in Seq(Handles) /\ Len(t) = n + 1
  BY <1>2, <1>3
<1>5. ASSUME NEW c \in 1 .. n + 1 PROVE Queued(s)[c] = t[c]
  <2>1. CASE c = n + 1
    <3>1. P + (c - 1) = Used(r)
      BY <1>2, <2>1
    <3>2. t[c] = h
      BY <1>2, <1>3, <2>1
    <3>3. QED
      BY <1>1, <1>3, <3>1, <3>2
  <2>2. CASE c # n + 1
    <3>1. c \in 1 .. n /\ P + (c - 1) \in 0 .. Used(r) - 1
      BY <1>2, <2>2
    <3>2. t[c] = Queued(r)[c]
      BY <1>3, <3>1
    <3>3. QED
      BY <1>1, <1>3, <3>1, <3>2
  <2>3. QED
    BY <2>1, <2>2
<1> HIDE DEF t
<1>6. Queued(s) = t
  BY <1>3, <1>4, <1>5, SeqEqual
<1>7. QED
  BY <1>6 DEF s, t

LEMMA TakenQueued ==
    ASSUME NEW r, Ring(r), Filled(r), r.waiting > 0
    PROVE  /\ Queued(r) # <<>> /\ Head(Queued(r)) = Front(r)
           /\ Queued(Taken(r)) = Tail(Queued(r))
<1> DEFINE s == Taken(r)
           n == r.waiting
           P == r.processing
<1>1. /\ Ring(s) /\ Filled(s) /\ s.processing = P + 1 /\ s.waiting = n - 1
      /\ \A c : At(s, c) = At(r, c)
      /\ At(s, P) = Front(r)
  BY TakenRing
<1>2. P \in Nat /\ n \in Nat /\ n > 0
  BY EntryFacts
<1> HIDE DEF s
<1>3. /\ Queued(r) \in Seq(Handles) /\ Len(Queued(r)) = n
      /\ \A c \in 1 .. n : Queued(r)[c] = At(r, P + (c - 1))
      /\ Queued(s) \in Seq(Handles) /\ Len(Queued(s)) = n - 1
      /\ \A c \in 1 .. n - 1 : Queued(s)[c] = At(s, (P + 1) + (c - 1))
  BY <1>1, QueuedFacts
<1> HIDE DEF n, P
<1>4. Queued(r) # <<>>
  BY <1>2, <1>3, EmptySeq
<1>5. Head(Queued(r)) = Front(r)
  <2>1. 1 \in 1 .. n /\ P + (1 - 1) = P
    BY <1>2
  <2>2. Queued(r)[1] = Front(r)
    BY <1>1, <1>3, <2>1
  <2>3. Head(Queued(r)) = Queued(r)[1]
    BY <1>3, <1>4
  <2>4. QED
    BY <2>2, <2>3
<1> DEFINE t == Tail(Queued(r))
<1>6. t \in Seq(Handles) /\ Len(t) = n - 1 /\ \A c \in 1 .. n - 1 : t[c] = Queued(r)[c + 1]
  BY <1>3, <1>4, HeadTailProperties
<1> HIDE DEF t
<1>7. ASSUME NEW c \in 1 .. n - 1 PROVE Queued(s)[c] = t[c]
  <2>1. c + 1 \in 1 .. n /\ P + ((c + 1) - 1) = (P + 1) + (c - 1)
    BY <1>2
  <2>2. Queued(r)[c + 1] = At(r, P + ((c + 1) - 1))
    BY <1>3, <2>1
  <2>3. Queued(s)[c] = At(r, (P + 1) + (c - 1))
    BY <1>1, <1>3
  <2>4. QED
    BY <1>6, <2>1, <2>2, <2>3
<1>8. Queued(s) = t
  BY <1>3, <1>6, <1>7, SeqEqual
<1>9. QED
  BY <1>4, <1>5, <1>8 DEF s, t

LEMMA RemovedQueued ==
    ASSUME NEW r, Ring(r), Filled(r), NEW h, NEW c \in Places(r, h)
    PROVE  Queued(Removed(r, c)) = Queued(r)
<1> DEFINE s == Removed(r, c)
           P == r.processing
<1>1. c \in 0 .. P - 1
  BY DEF Places
<1>2. /\ Ring(s) /\ Filled(s) /\ s.processing = P - 1 /\ s.waiting = r.waiting
      /\ \A d \in c .. Used(r) - 2 : At(s, d) = At(r, d + 1)
  BY <1>1, RemovedRing
<1>3. P \in Nat /\ r.waiting \in Nat /\ Used(r) = P + r.waiting
  BY EntryFacts
<1> HIDE DEF s, P
<1>4. ASSUME NEW d \in 1 .. r.waiting
      PROVE  At(s, (P - 1) + (d - 1)) = At(r, P + (d - 1))
  <2>1. /\ (P - 1) + (d - 1) \in c .. Used(r) - 2
        /\ ((P - 1) + (d - 1)) + 1 = P + (d - 1)
    BY <1>1, <1>3
  <2>2. QED
    BY <1>2, <2>1
<1>5. Queued(s) = Queued(r)
  BY <1>2, <1>4, SameQueued DEF P
<1>6. QED
  BY <1>5 DEF s

LEMMA GrownQueued ==
    ASSUME NEW r, Ring(r), Filled(r), Full(r), r.waiting > 0,
           NEW m \in InitialSize .. ChunkSlots, m > r.bufsize
    PROVE  Queued(Grow(r, m)) = Queued(r)
<1> DEFINE s == Grow(r, m)
<1>1. /\ Ring(s) /\ Filled(s) /\ s.processing = r.processing /\ s.waiting = r.waiting
      /\ \A c \in 0 .. Used(r) - 1 : At(s, c) = At(r, c)
  BY GrowRing
<1> HIDE DEF s
<1>2. ASSUME NEW c \in 1 .. r.waiting PROVE r.processing + (c - 1) \in 0 .. Used(r) - 1
  BY EntryFacts
<1>3. Queued(s) = Queued(r)
  BY <1>1, <1>2, SameQueued
<1>4. QED
  BY <1>3 DEF s

(* The client holds as many messages as the ring counts.                   *)
LEMMA HeldCount ==
    ASSUME NEW r, Ring(r), Filled(r), NEW H, H \subseteq Handles, NEW p, NEW A, Owns(r, H, p, A)
    PROVE  Cardinality(H) = r.processing
<1> DEFINE P == r.processing
           f == [c \in 1 .. P |-> At(r, c - 1)]
<1>1. P \in Nat /\ \A c \in 0 .. P - 1 : At(r, c) \in Handles
  <2>1. P \in Nat /\ Used(r) \in Nat /\ P <= Used(r) /\ \A c \in 0 .. Used(r) - 1 : At(r, c) \in Handles
    BY EntryFacts
  <2>2. \A c \in 0 .. P - 1 : c \in 0 .. Used(r) - 1
    BY <2>1
  <2>3. QED
    BY <2>1, <2>2
<1>2. Distinct(r, 0, P) /\ \A h \in Handles : h \in H <=> Among(r, h, 0, P)
  BY DEF Owns
<1> HIDE DEF P
<1>3. \A c \in 1 .. P : c - 1 \in 0 .. P - 1
  BY <1>1
<1>4. f \in [1 .. P -> H]
  BY <1>1, <1>2, <1>3 DEF Among
<1>5. \A c, d \in 1 .. P : f[c] = f[d] => c = d
  BY <1>1, <1>2, <1>3 DEF Distinct
<1>6. \A h \in H : \E c \in 1 .. P : f[c] = h
  <2> SUFFICES ASSUME NEW h \in H PROVE \E c \in 1 .. P : f[c] = h
    OBVIOUS
  <2>1. PICK d \in 0 .. P - 1 : At(r, d) = h
    BY <1>2 DEF Among
  <2>2. d + 1 \in 1 .. P /\ (d + 1) - 1 = d
    BY <1>1
  <2>3. f[d + 1] = h
    BY <2>1, <2>2
  <2>4. QED
    BY <2>2, <2>3
<1> HIDE DEF f
<1>7. f \in Bijection(1 .. P, H)
  BY <1>4, <1>5, <1>6 DEF Bijection, Injection, Surjection, IsInjective
<1>8. ExistsBijection(1 .. P, H)
  BY <1>7 DEF ExistsBijection
<1>9. IsFiniteSet(1 .. P) /\ Cardinality(1 .. P) = P
  BY <1>1, FS_Interval
<1>10. Cardinality(H) = Cardinality(1 .. P)
  BY <1>8, <1>9, FS_Bijection
<1>11. QED
  BY <1>9, <1>10 DEF P

-----------------------------------------------------------------------------
(* The ring as MsgQueueAbs sees it.                                        *)
Alike == WaitingMessages' = WaitingMessages /\ held' = held /\ pending' = pending

LEMMA SeenAs == WaitingMessages = Queued(q) /\ WaitingMessages' = Queued(q')
  BY DEF WaitingMessages, Queued

LEMMA AddNowRefines ==
    ASSUME MInv, Running, NEW h \in Handles, AddNow(h), h = pending \/ pending = None
    PROVE  \/ Alike
           \/ /\ WaitingMessages' = Append(WaitingMessages, h) /\ held' = held /\ pending' = None
           \/ /\ Len(WaitingMessages) + Cardinality(held)
                     >= (IF Growing THEN MaxQueueSize ELSE InitialSize)
              /\ WaitingMessages' = WaitingMessages /\ held' = held /\ pending' = None
<1>1. /\ Ring(q) /\ Filled(q) /\ Bounded(q) /\ Owns(q, held, pending, alloc)
      /\ held \subseteq Handles
  BY RunningFacts
<1>2. CASE Panic(CannotGrow)
  BY <1>2, SeenAs DEF Panic, Alike
<1>3. CASE Refuse(h) /\ pending' = None /\ UNCHANGED <<alive, held, fault>>
  <2>1. q' = q /\ held' = held /\ Refused
    BY <1>3 DEF Refuse
  <2>2. q.waiting + q.processing >= IF Growing THEN MaxQueueSize ELSE InitialSize
    <3>1. /\ q.bufsize = q.processing + q.waiting /\ q.processing \in Nat /\ q.waiting \in Nat
          /\ q.bufsize \in InitialSize .. ChunkSlots
          /\ ~ Growing \/ q.bufsize = MaxQueueSize
      BY <1>1, <2>1, RingFacts DEF Refused, Full
    <3>2. QED
      BY <3>1, QueueAssumption
  <2>3. Len(WaitingMessages) = q.waiting /\ Cardinality(held) = q.processing
    BY <1>1, SeenAs, QueuedFacts, HeldCount
  <2>4. WaitingMessages' = WaitingMessages
    BY <2>1, SeenAs
  <2>5. QED
    BY <1>3, <2>1, <2>2, <2>3, <2>4
<1>4. CASE CannotGrow = "none" /\ Store(h) /\ pending' = None /\ UNCHANGED <<alive, held, fault>>
  <2> DEFINE r == IF Full(q) THEN Grow(q, QueueGrowth(q.bufsize)) ELSE q
  <2>1. q' = Put(r, h) /\ ~ Refused
    BY <1>4 DEF Store
  <2>2. Ring(r) /\ Filled(r) /\ ~ Full(r) /\ Queued(r) = Queued(q)
    <3>1. CASE Full(q)
      <4> DEFINE n == QueueGrowth(q.bufsize)
      <4>1. n \in InitialSize .. ChunkSlots /\ n > q.bufsize /\ q.waiting > 0
        BY <1>1, <1>4, <2>1, <3>1, GrowingWorks, FullHasWaiting
      <4>2. r = Grow(q, n)
        BY <3>1
      <4> HIDE DEF r, n
      <4>3. QED
        BY <1>1, <3>1, <4>1, <4>2, GrowRing, GrownQueued
    <3>2. CASE ~ Full(q)
      BY <1>1, <3>2
    <3>3. QED
      BY <3>1, <3>2
  <2> HIDE DEF r
  <2>3. Queued(q') = Append(Queued(q), h)
    BY <2>1, <2>2, PutQueued
  <2>4. QED
    BY <1>4, <2>3, SeenAs
<1>5. QED
  BY <1>2, <1>3, <1>4 DEF AddNow

AbsStep == [Abstract!AbsNext]_(Abstract!avars)

LEMMA AlikeStutters == ASSUME Alike PROVE AbsStep
  BY DEF Alike, AbsStep, Abstract!avars

LEMMA AddHandleRefines == ASSUME MInv, NEW h \in Handles, MsgAddHandle(h) PROVE AbsStep
<1>1. Running
  BY DEF MsgAddHandle, Client
<1>2. CASE UNCHANGED vars
  BY <1>2, SeenAs, AlikeStutters DEF vars, Alike
<1>3. CASE Panic("broken queue") \/ Panic("client does not process")
  BY <1>3, SeenAs, AlikeStutters DEF Panic, Alike
<1>4. CASE ~ Locked /\ pending' = h /\ UNCHANGED <<q, alive, held, fault>>
  <2>1. pending = None /\ WaitingMessages' = WaitingMessages /\ held' = held
    BY <1>4, SeenAs, UnlockedPending
  <2>2. Abstract!Offer(h)
    BY <1>4, <2>1 DEF Abstract!Offer
  <2>3. QED
    BY <2>2 DEF AbsStep, Abstract!AbsNext
<1>5. CASE ~ Locked /\ AddNow(h)
  <2>1. pending = None
    BY <1>5, UnlockedPending
  <2>2. Alike \/ (WaitingMessages' = Append(WaitingMessages, h) /\ held' = held /\ pending' = pending)
    BY <1>1, <1>5, <2>1, AddNowRefines DEF Alike
  <2>3. Alike \/ Abstract!Insert(h)
    BY <2>2 DEF Abstract!Insert
  <2>4. QED
    BY <2>3, AlikeStutters DEF AbsStep, Abstract!AbsNext
<1>6. QED
  BY <1>2, <1>3, <1>4, <1>5 DEF MsgAddHandle

(* The abstract queue counts with the same Cardinality.                    *)
LEMMA SameCount == ASSUME NEW S PROVE Abstract!Cardinality(S) = Cardinality(S)
  BY DEF Abstract!Cardinality, Cardinality

LEMMA FullReturnRefines == ASSUME MInv, FullReturn PROVE AbsStep
<1>1. Running /\ pending \in Handles /\ AddNow(pending) /\ pending # None
  BY RunningFacts, QueueAssumption DEF FullReturn
<1> DEFINE h == pending
<1>2. \/ Alike
      \/ /\ WaitingMessages' = Append(WaitingMessages, h) /\ held' = held /\ pending' = None
      \/ /\ Len(WaitingMessages) + Cardinality(held)
                >= (IF Growing THEN MaxQueueSize ELSE InitialSize)
         /\ WaitingMessages' = WaitingMessages /\ held' = held /\ pending' = None
  <2>1. h \in Handles /\ AddNow(h) /\ h = pending
    BY <1>1
  <2> HIDE DEF h
  <2>2. QED
    BY <1>1, <2>1, AddNowRefines
<1>3. CASE Alike
  BY <1>3, AlikeStutters
<1>4. CASE /\ WaitingMessages' = Append(WaitingMessages, h) /\ held' = held /\ pending' = None
  <2>1. Abstract!Accept
    BY <1>1, <1>4 DEF Abstract!Accept
  <2>2. QED
    BY <2>1 DEF AbsStep, Abstract!AbsNext
<1>5. CASE /\ Len(WaitingMessages) + Cardinality(held)
                >= (IF Growing THEN MaxQueueSize ELSE InitialSize)
           /\ WaitingMessages' = WaitingMessages /\ held' = held /\ pending' = None
  <2>1. Abstract!Refuse
    BY <1>1, <1>5, SameCount DEF Abstract!Refuse
  <2>2. QED
    BY <2>1 DEF AbsStep, Abstract!AbsNext
<1>6. QED
  BY <1>2, <1>3, <1>4, <1>5

LEMMA GetRefines == ASSUME MInv, MsgGet PROVE AbsStep
<1>1. /\ Ring(q) /\ Filled(q) /\ q.waiting > 0 /\ q' = Taken(q)
      /\ held' = held \cup {Front(q)} /\ pending' = pending
  BY RunningFacts DEF MsgGet, Client
<1>2. Abstract!Take
  BY <1>1, SeenAs, TakenQueued DEF Abstract!Take
<1>3. QED
  BY <1>2 DEF AbsStep, Abstract!AbsNext

LEMMA ProcessedRefines == ASSUME MInv, NEW h \in Handles, MsgProcessed(h) PROVE AbsStep
<1>1. Ring(q) /\ Filled(q) /\ h \in held
  BY RunningFacts DEF MsgProcessed, Client
<1>2. CASE Panic("invalid handle")
  BY <1>2, SeenAs, AlikeStutters DEF Panic, Alike
<1>3. CASE \E c \in Places(q, h) : /\ q' = Removed(q, c) /\ held' = held \ {h}
                                   /\ pending' = pending
  <2>1. Queued(q') = Queued(q)
    BY <1>1, <1>3, RemovedQueued
  <2>2. Abstract!Finish(h)
    BY <1>1, <1>3, <2>1, SeenAs DEF Abstract!Finish
  <2>3. QED
    BY <2>2 DEF AbsStep, Abstract!AbsNext
<1>4. QED
  BY <1>2, <1>3 DEF MsgProcessed

LEMMA GetAndProcessRefines == ASSUME MInv, MsgGetAndProcess PROVE AbsStep
<1> DEFINE h == Front(q)
           r == Taken(q)
<1>1. Ring(q) /\ Filled(q) /\ q.waiting > 0
  BY RunningFacts DEF MsgGetAndProcess, Client
<1>2. Ring(r) /\ Filled(r) /\ Queued(q) # <<>> /\ Queued(r) = Tail(Queued(q))
  BY <1>1, TakenRing, TakenQueued
<1>3. CASE Panic("invalid handle")
  BY <1>3, SeenAs, AlikeStutters DEF Panic, Alike
<1>4. CASE \E c \in Places(r, h) : q' = Removed(r, c) /\ UNCHANGED <<pending, held>>
  <2> HIDE DEF h, r
  <2>1. Queued(q') = Tail(Queued(q))
    BY <1>2, <1>4, RemovedQueued
  <2>2. Abstract!TakeAndFinish
    BY <1>2, <1>4, <2>1, SeenAs DEF Abstract!TakeAndFinish
  <2>3. QED
    BY <2>2 DEF AbsStep, Abstract!AbsNext
<1>5. QED
  BY <1>3, <1>4 DEF MsgGetAndProcess

LEMMA FlushNowRefines ==
    ASSUME MInv, Running, FlushNow, UNCHANGED <<held, pending>>
    PROVE  AbsStep
<1>1. Ring(q) /\ q' = Flushed(q)
  BY RunningFacts DEF FlushNow
<1>2. Queued(q') = <<>>
  BY <1>1, FlushedRing, QueuedNone
<1>3. Abstract!Flush
  BY <1>2, SeenAs DEF Abstract!Flush
<1>4. QED
  BY <1>3 DEF AbsStep, Abstract!AbsNext

LEMMA FlushRefines == ASSUME MInv, MsgFlush PROVE AbsStep
<1>1. Running /\ UNCHANGED <<held, pending>>
  BY DEF MsgFlush, Client
<1>2. CASE UNCHANGED q
  BY <1>1, <1>2, SeenAs, AlikeStutters DEF Alike
<1>3. CASE FlushNow
  BY <1>1, <1>3, FlushNowRefines
<1>4. QED
  BY <1>2, <1>3 DEF MsgFlush

LEMMA FreeRefines == ASSUME MInv, MsgFreeQueue PROVE AbsStep
<1> DEFINE f == Flushed(q)
           s == [f EXCEPT !.process = 0, !.front = 0, !.end = 0, !.processing = 0]
<1>1. Ring(q)
  BY RunningFacts DEF MsgFreeQueue
<1>2. f.waiting = 0 /\ f \in RingRecord
  BY <1>1, FlushedRing, RingFacts
<1> HIDE DEF f
<1>3. s.waiting = 0
  BY <1>2 DEF RingRecord
<1> HIDE DEF s
<1>4. Queued(s) = <<>>
  BY <1>3, QueuedNone
<1>5. q' = s /\ held' = {} /\ pending' = pending
  BY DEF MsgFreeQueue, s, f
<1>6. Abstract!Free
  BY <1>4, <1>5, SeenAs DEF Abstract!Free
<1>7. QED
  BY <1>6 DEF AbsStep, Abstract!AbsNext

LEMMA NewQueueRefines == ASSUME MInv, MsgNewQueue PROVE AbsStep
<1>1. /\ Ring(q) /\ Used(q) = 0 /\ q' = NewRing /\ UNCHANGED <<held, pending>>
  BY DEF MInv, IInv, Bounded, Calls, MsgNewQueue
<1>2. q.waiting = 0
  BY <1>1, RingFacts DEF Used
<1>3. Queued(q) = <<>> /\ Queued(q') = <<>>
  BY <1>1, <1>2, NewRingEmpty, QueuedNone
<1>4. QED
  BY <1>1, <1>3, SeenAs, AlikeStutters DEF Alike

LEMMA NextRefines == ASSUME MInv, [Next]_vars PROVE AbsStep
<1>1. CASE UNCHANGED vars
  BY <1>1, SeenAs, AlikeStutters DEF vars, Alike
<1>2. CASE MsgNewQueue
  BY <1>2, NewQueueRefines
<1>3. CASE MsgFreeQueue
  BY <1>3, FreeRefines
<1>4. ASSUME NEW h \in Handles, MsgAddHandle(h) PROVE AbsStep
  BY <1>4, AddHandleRefines
<1>5. ASSUME NEW h \in Handles, MsgProcessed(h) PROVE AbsStep
  BY <1>5, ProcessedRefines
<1>6. CASE FullReturn
  BY <1>6, FullReturnRefines
<1>7. CASE AddedReturn
  BY <1>7, SeenAs, AlikeStutters DEF AddedReturn, Alike
<1>8. CASE MsgGet
  BY <1>8, GetRefines
<1>9. CASE MsgGetAndProcess
  BY <1>9, GetAndProcessRefines
<1>10. CASE MsgFlush
  BY <1>10, FlushRefines
<1>11. CASE FlushReturn
  BY <1>11, FlushNowRefines DEF FlushReturn
<1>12. QED
  BY <1>1, <1>2, <1>3, <1>4, <1>5, <1>6, <1>7, <1>8, <1>9, <1>10, <1>11 DEF Next

(* The ring is the queue of MsgQueue.h: first in first out, a message is   *)
(* refused only at the limit, and flushing or growing changes nothing that *)
(* the client is processing or that waits in front.                        *)
THEOREM Refinement == Spec => ImplementsQueue
<1>1. Init => Abstract!AbsInit
  <2> SUFFICES ASSUME Init PROVE Abstract!AbsInit
    OBVIOUS
  <2>1. Queued(q) = <<>>
    BY NewRingEmpty, QueuedNone DEF Init
  <2>2. QED
    BY <2>1, SeenAs DEF Init, Abstract!AbsInit
<1>2. MInv /\ [Next]_vars => [Abstract!AbsNext]_(Abstract!avars)
  BY NextRefines DEF AbsStep
<1>3. QED
  BY <1>1, <1>2, MemoryInvariant, PTL DEF Spec, ImplementsQueue, Abstract!AbsSpec
=============================================================================
