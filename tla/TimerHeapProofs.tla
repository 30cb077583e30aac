-------------------------- MODULE TimerHeapProofs --------------------------
(***************************************************************************)
(* TLAPS proofs about TimerHeap.  What a loop does is proved once, for a   *)
(* loop in general: its states have a rank that gets smaller, so the       *)
(* recursive function that stands for it is defined, and what a step keeps *)
(* holds where it ends.  RaiseUp, FloatDown and the first loop of          *)
(* TimerTick are such loops.  The inductive invariant HInv then says that  *)
(* the heap is ordered, that every timer is in one place, and that what is *)
(* left in the heap during a tick is due after it; SendInv adds what the   *)
(* assertions rest on: unless Disconnect left the send timer running, it   *)
(* runs only while a message is on its way, and then no trigger sends.     *)
(***************************************************************************)
EXTENDS TimerHeap, SequenceTheorems, NaturalsInduction, WellFoundedInduction, TLAPS

(* Induction, on sets of numbers.                                          *)
LEMMA Smallest ==
    ASSUME NEW T \in SUBSET Nat, T # {}
    PROVE  \E x \in T : \A y \in T : x <= y
<1> DEFINE R == OpToRel(<, Nat)
<1>1. IsWellFoundedOn(R, Nat)
  BY NatLessThanWellFounded
<1>2. \A x, y \in Nat : <<y, x>> \in R <=> y < x
  BY DEF OpToRel
<1> HIDE DEF R
<1>3. PICK x \in T : \A y \in T : ~ (<<y, x>> \in R)
  BY <1>1, WFMin
<1>4. \A y \in T : x <= y
  <2> SUFFICES ASSUME NEW y \in T PROVE x <= y
    OBVIOUS
  <2>1. x \in Nat /\ y \in Nat /\ ~ (<<y, x>> \in R)
    BY <1>3
  <2>2. ~ (y < x)
    BY <1>2, <2>1
  <2>3. QED
    BY <2>1, <2>2
<1>5. QED
  BY <1>4

LEMMA Induction ==
    ASSUME NEW T \in SUBSET Nat,
           \A n \in Nat : (\A m \in 0 .. n - 1 : m \in T) => n \in T
    PROVE  T = Nat
<1>1. ASSUME Nat \ T # {} PROVE FALSE
  <2>1. PICK n \in Nat \ T : \A m \in Nat \ T : n <= m
    BY <1>1, Smallest
  <2>2. \A m \in 0 .. n - 1 : m \in T
    BY <2>1
  <2>3. QED
    BY <2>1, <2>2
<1>2. QED
  BY <1>1

(* A loop.  While its state is in D it makes a step; rank gets smaller, so *)
(* it ends, and then it yields what out says of the state.                 *)
Loop(S, D, step, rank) ==
    /\ D \subseteq S /\ step \in [D -> S] /\ rank \in [S -> Nat]
    /\ \A s \in D : rank[step[s]] < rank[s]
Unrolled(S, D, step, out, f) == [s \in S |-> IF s \in D THEN f[step[s]] ELSE out[s]]
Upto(n, S, rank) == {s \in S : rank[s] < n}
Solves(n, S, D, step, rank, out, f) ==
    \A s \in Upto(n, S, rank) : f[s] = Unrolled(S, D, step, out, f)[s]

LEMMA SameSolution ==
    ASSUME NEW S, NEW D, NEW step, NEW rank, NEW out, Loop(S, D, step, rank),
           NEW f, NEW g, NEW a \in Nat, NEW b \in Nat, a <= b,
           Solves(a, S, D, step, rank, out, f), Solves(b, S, D, step, rank, out, g)
    PROVE  \A s \in Upto(a, S, rank) : f[s] = g[s]
<1> DEFINE T == {n \in Nat : \A s \in S : rank[s] = n /\ n < a => f[s] = g[s]}
<1>1. ASSUME NEW n \in Nat, \A m \in 0 .. n - 1 : m \in T PROVE n \in T
  <2> SUFFICES ASSUME NEW s \in S, rank[s] = n, n < a PROVE f[s] = g[s]
    OBVIOUS
  <2>1. s \in Upto(a, S, rank) /\ s \in Upto(b, S, rank)
    BY DEF Upto, Loop
  <2>2. /\ f[s] = IF s \in D THEN f[step[s]] ELSE out[s]
        /\ g[s] = IF s \in D THEN g[step[s]] ELSE out[s]
    BY <2>1 DEF Solves, Unrolled
  <2>3. CASE s \in D
    <3>1. step[s] \in S /\ rank[step[s]] \in 0 .. n - 1
      BY <2>3 DEF Loop
    <3>2. f[step[s]] = g[step[s]]
      BY <1>1, <3>1
    <3>3. QED
      BY <2>2, <2>3, <3>2
  <2>4. QED
    BY <2>2, <2>3
<1>2. T = Nat
  <2> HIDE DEF T
  <2>1. T \in SUBSET Nat
    BY DEF T
  <2>2. QED
    BY <1>1, <2>1, Induction
<1>3. QED
  BY <1>2 DEF Upto, Loop

LEMMA SolvedUpto ==
    ASSUME NEW S, NEW D, NEW step, NEW rank, NEW out, Loop(S, D, step, rank)
    PROVE  \A n \in Nat : \E f : Solves(n, S, D, step, rank, out, f)
<1> DEFINE T == {n \in Nat : \E f : Solves(n, S, D, step, rank, out, f)}
<1>1. ASSUME NEW n \in Nat, \A m \in 0 .. n - 1 : m \in T PROVE n \in T
  <2>1. CASE n = 0
    <3>1. Upto(n, S, rank) = {}
      BY <2>1 DEF Upto, Loop
    <3>2. \A f : Solves(n, S, D, step, rank, out, f)
      BY <3>1 DEF Solves
    <3>3. QED
      BY <3>2
  <2>2. CASE n # 0
    <3>1. n - 1 \in T /\ n - 1 \in Nat
      BY <1>1, <2>2
    <3>2. PICK f : Solves(n - 1, S, D, step, rank, out, f)
      BY <3>1
    <3> DEFINE g == Unrolled(S, D, step, out, f)
    <3>3. ASSUME NEW s \in Upto(n, S, rank) PROVE g[s] = Unrolled(S, D, step, out, g)[s]
      <4>1. s \in S /\ rank[s] < n
        BY DEF Upto
      <4>2. CASE s \in D
        <5>1. step[s] \in S /\ step[s] \in Upto(n - 1, S, rank)
          BY <4>1, <4>2 DEF Upto, Loop
        <5>2. f[step[s]] = g[step[s]]
          BY <3>2, <5>1 DEF Solves
        <5>3. g[s] = f[step[s]] /\ Unrolled(S, D, step, out, g)[s] = g[step[s]]
          BY <4>1, <4>2 DEF Unrolled
        <5>4. QED
          BY <5>2, <5>3
      <4>3. CASE s \notin D
        BY <4>1, <4>3 DEF Unrolled
      <4>4. QED
        BY <4>2, <4>3
    <3>4. Solves(n, S, D, step, rank, out, g)
      BY <3>3 DEF Solves
    <3>5. QED
      BY <3>4
  <2>3. QED
    BY <2>1, <2>2
<1>2. T = Nat
  <2> HIDE DEF T
  <2>1. T \in SUBSET Nat
    BY DEF T
  <2>2. QED
    BY <1>1, <2>1, Induction
<1>3. QED
  BY <1>2

LEMMA LoopDefined ==
    ASSUME NEW S, NEW D, NEW step, NEW rank, NEW out, Loop(S, D, step, rank)
    PROVE  \E f : f = Unrolled(S, D, step, out, f)
<1> DEFINE F(n) == CHOOSE f : Solves(n, S, D, step, rank, out, f)
           f == [s \in S |-> F(rank[s] + 1)[s]]
<1>1. ASSUME NEW n \in Nat PROVE Solves(n, S, D, step, rank, out, F(n))
  BY SolvedUpto
<1> HIDE DEF F
<1>2. ASSUME NEW s \in S PROVE f[s] = Unrolled(S, D, step, out, f)[s]
  <2>1. rank[s] + 1 \in Nat /\ s \in Upto(rank[s] + 1, S, rank)
    BY DEF Upto, Loop
  <2>2. f[s] = Unrolled(S, D, step, out, F(rank[s] + 1))[s]
    BY <1>1, <2>1 DEF Solves
  <2>3. CASE s \in D
    <3>1. /\ step[s] \in S /\ rank[step[s]] + 1 \in Nat /\ rank[step[s]] + 1 <= rank[s] + 1
          /\ step[s] \in Upto(rank[step[s]] + 1, S, rank)
      BY <2>3 DEF Upto, Loop
    <3>2. F(rank[step[s]] + 1)[step[s]] = F(rank[s] + 1)[step[s]]
      BY <1>1, <2>1, <3>1, SameSolution
    <3>3. QED
      BY <2>2, <2>3, <3>1, <3>2 DEF Unrolled
  <2>4. CASE s \notin D
    BY <2>2, <2>4 DEF Unrolled
  <2>5. QED
    BY <2>3, <2>4
<1>3. f = Unrolled(S, D, step, out, f)
  BY <1>2 DEF Unrolled
<1>4. QED
  BY <1>3

(* What each step keeps holds where the loop ends.                         *)
LEMMA LoopKeeps ==
    ASSUME NEW S, NEW D, NEW step, NEW rank, NEW out, Loop(S, D, step, rank),
           NEW f, f = Unrolled(S, D, step, out, f),
           NEW I \in SUBSET S, \A s \in I \cap D : step[s] \in I
    PROVE  \A s \in I : \E e \in I \ D : f[s] = out[e]
<1> DEFINE T == {n \in Nat : \A s \in I : rank[s] = n => \E e \in I \ D : f[s] = out[e]}
<1>1. ASSUME NEW n \in Nat, \A m \in 0 .. n - 1 : m \in T PROVE n \in T
  <2> SUFFICES ASSUME NEW s \in I, rank[s] = n PROVE \E e \in I \ D : f[s] = out[e]
    OBVIOUS
  <2>1. f[s] = IF s \in D THEN f[step[s]] ELSE out[s]
    BY DEF Unrolled
  <2>2. CASE s \in D
    <3>1. step[s] \in I /\ rank[step[s]] \in 0 .. n - 1
      BY <2>2 DEF Loop
    <3>2. PICK e \in I \ D : f[step[s]] = out[e]
      BY <1>1, <3>1
    <3>3. QED
      BY <2>1, <2>2, <3>2
  <2>3. QED
    BY <2>1, <2>2
<1>2. T = Nat
  <2> HIDE DEF T
  <2>1. T \in SUBSET Nat
    BY DEF T
  <2>2. QED
    BY <1>1, <2>1, Induction
<1>3. QED
  BY <1>2 DEF Loop
-----------------------------------------------------------------------------
(* Places in a heap.                                                       *)
LEMMA Halves ==
    ASSUME NEW i \in Nat
    PROVE  /\ i \div 2 \in Nat /\ 2 * (i \div 2) <= i /\ i <= 2 * (i \div 2) + 1
           /\ i > 1 => i \div 2 >= 1 /\ i \div 2 < i
           /\ (2 * i) \div 2 = i /\ (2 * i + 1) \div 2 = i
           /\ \A k \in Nat : k \div 2 = i => k = 2 * i \/ k = 2 * i + 1
  OBVIOUS

Clocks == [Timers -> Nat]

(* What is sorted behind is not before: an order in which timers may tie.  *)
LEMMA Order ==
    ASSUME NEW tm \in Clocks, NEW a \in Timers, NEW b \in Timers
    PROVE  /\ ~ Before(tm, a, a)
           /\ Before(tm, a, b) => ~ Before(tm, b, a)
           /\ \A c \in Timers : ~ Before(tm, a, b) /\ ~ Before(tm, b, c) => ~ Before(tm, a, c)
           /\ \A c \in Timers : ~ Before(tm, a, b) /\ Before(tm, c, b) => ~ Before(tm, a, c)
  BY DEF Before, Clocks

(* The heap g holds the timers E, each once.                               *)
Once(g) == \A i, j \in 1 .. Len(g) : g[i] = g[j] => i = j
Holds(g, E) == g \in Seq(Timers) /\ Once(g) /\ Elements(g) = E
IsHeap(g, tm) == \A i \in 2 .. Len(g) : ~ Before(tm, g[i], g[i \div 2])

(* At j the order may be wrong: with the parent, with the children, or both*)
Above(g, tm, j) == \A i \in 2 .. Len(g) :
                       i \div 2 = j /\ j > 1 => ~ Before(tm, g[i], g[j \div 2])
Rising(g, tm, j)  == /\ \A i \in 2 .. Len(g) : i # j => ~ Before(tm, g[i], g[i \div 2])
                     /\ Above(g, tm, j)
Sinking(g, tm, j) == /\ \A i \in 2 .. Len(g) : i \div 2 # j => ~ Before(tm, g[i], g[i \div 2])
                     /\ Above(g, tm, j)
Almost(g, tm, j)  == /\ \A i \in 2 .. Len(g) :
                           i # j /\ i \div 2 # j => ~ Before(tm, g[i], g[i \div 2])
                     /\ Above(g, tm, j)

Swapped(g, i, j, s) ==
    /\ Len(s) = Len(g) /\ s[i] = g[j] /\ s[j] = g[i]
    /\ \A k \in 1 .. Len(g) : k # i /\ k # j => s[k] = g[k]

LEMMA SwapFacts ==
    ASSUME NEW E, NEW g, Holds(g, E), NEW i \in 1 .. Len(g), NEW j \in 1 .. Len(g)
    PROVE  Holds(Swap(g, i, j), E) /\ Swapped(g, i, j, Swap(g, i, j))
<1> DEFINE s == Swap(g, i, j)
<1>1. /\ g \in Seq(Timers) /\ Len(g) \in Nat /\ DOMAIN g = 1 .. Len(g)
      /\ \A k \in 1 .. Len(g) : g[k] \in Timers
  BY DEF Holds
<1>2. s = [k \in 1 .. Len(g) |-> IF k = j THEN g[i] ELSE IF k = i THEN g[j] ELSE g[k]]
  BY <1>1 DEF Swap
<1>3. s \in Seq(Timers) /\ Len(s) = Len(g)
  <2>1. s \in [1 .. Len(g) -> Timers]
    BY <1>1, <1>2
  <2>2. QED
    BY <1>1, <2>1
<1>4. /\ s[i] = g[j] /\ s[j] = g[i]
      /\ \A k \in 1 .. Len(g) : k # i /\ k # j => s[k] = g[k]
  BY <1>2
<1> HIDE DEF s
<1>5. Once(s)
  BY <1>1, <1>3, <1>4 DEF Once, Holds
<1>6. Elements(s) = E
  <2>1. ASSUME NEW k \in 1 .. Len(g) PROVE \E l \in 1 .. Len(g) : s[k] = g[l]
    BY <1>4
  <2>2. ASSUME NEW k \in 1 .. Len(g) PROVE \E l \in 1 .. Len(g) : g[k] = s[l]
    BY <1>4
  <2>3. {s[k] : k \in 1 .. Len(g)} = {g[k] : k \in 1 .. Len(g)}
    <3>1. ASSUME NEW x \in {s[k] : k \in 1 .. Len(g)} PROVE x \in {g[k] : k \in 1 .. Len(g)}
      BY <2>1
    <3>2. ASSUME NEW x \in {g[k] : k \in 1 .. Len(g)} PROVE x \in {s[k] : k \in 1 .. Len(g)}
      BY <2>2
    <3>3. QED
      BY <3>1, <3>2
  <2>4. QED
    BY <1>3, <2>3 DEF Elements, Holds
<1>7. QED
  BY <1>3, <1>4, <1>5, <1>6 DEF Holds, Swapped, s

(* One step of RaiseUp, and of FloatDown.                                  *)
LEMMA RaiseStep ==
    ASSUME NEW E, NEW g, NEW tm \in Clocks, Holds(g, E), NEW j \in 1 .. Len(g),
           Rising(g, tm, j), j > 1, Before(tm, g[j], g[j \div 2])
    PROVE  Rising(Swap(g, j, j \div 2), tm, j \div 2)
<1> DEFINE p == j \div 2
           s == Swap(g, j, p)
<1>1. p \in 1 .. Len(g) /\ p < j /\ p \in Nat /\ j \in Nat /\ Len(g) \in Nat
  BY Halves DEF Holds
<1>2. /\ Len(s) = Len(g) /\ s[j] = g[p] /\ s[p] = g[j]
      /\ \A k \in 1 .. Len(g) : k # j /\ k # p => s[k] = g[k]
  <2>1. Swapped(g, j, p, s)
    BY <1>1, SwapFacts
  <2>2. QED
    BY <2>1 DEF Swapped
<1>3. \A k \in 1 .. Len(g) : g[k] \in Timers
  BY DEF Holds
<1>4. \A i \in 2 .. Len(g) : i \div 2 \in 1 .. Len(g) /\ i \div 2 < i /\ i \in 1 .. Len(g) /\ i \in Nat
  BY <1>1, Halves
<1>5. Before(tm, g[j], g[p])
  OBVIOUS
<1>6. /\ \A i \in 2 .. Len(g) : i # j => ~ Before(tm, g[i], g[i \div 2])
      /\ \A i \in 2 .. Len(g) : i \div 2 = j => ~ Before(tm, g[i], g[p])
  BY DEF Rising, Above
<1>0. \A i \in 2 .. Len(g) : i = j => i \div 2 = p
  OBVIOUS
<1> HIDE DEF p, s
<1>7. ASSUME NEW i \in 2 .. Len(s), i # p PROVE ~ Before(tm, s[i], s[i \div 2])
  <2>1. CASE i = j
    BY <1>0, <1>1, <1>2, <1>3, <1>5, <2>1, Order
  <2>2. CASE i # j /\ i \div 2 = j
    BY <1>1, <1>2, <1>4, <1>6, <1>7, <2>2
  <2>3. CASE i # j /\ i \div 2 = p
    BY <1>1, <1>2, <1>3, <1>4, <1>5, <1>6, <1>7, <2>3, Order
  <2>4. CASE i # j /\ i \div 2 # j /\ i \div 2 # p
    BY <1>1, <1>2, <1>4, <1>6, <1>7, <2>4
  <2>5. QED
    BY <2>1, <2>2, <2>3, <2>4
<1>8. ASSUME NEW i \in 2 .. Len(s), i \div 2 = p, p > 1 PROVE ~ Before(tm, s[i], s[p \div 2])
  <2>1. p \in 2 .. Len(g) /\ p # j /\ p \div 2 \in 1 .. Len(g) /\ p \div 2 # p /\ p \div 2 # j
    BY <1>1, <1>4, <1>8
  <2>2. s[p \div 2] = g[p \div 2] /\ ~ Before(tm, g[p], g[p \div 2])
    BY <1>2, <1>6, <2>1
  <2>3. CASE i = j
    BY <1>2, <2>2, <2>3
  <2>4. CASE i # j
    <3>0. i \in 2 .. Len(g) /\ i \in 1 .. Len(g) /\ i # p
      BY <1>2, <1>4, <1>8
    <3>1. s[i] = g[i] /\ ~ Before(tm, g[i], g[p])
      BY <1>2, <1>6, <1>8, <2>4, <3>0
    <3>2. QED
      BY <1>1, <1>2, <1>3, <1>4, <2>1, <2>2, <3>1, Order
  <2>5. QED
    BY <2>3, <2>4
<1>9. QED
  BY <1>7, <1>8 DEF Rising, Above, p, s

LEMMA BelowFacts ==
    ASSUME NEW g \in Seq(Timers), NEW tm \in Clocks, NEW j \in 1 .. Len(g)
    PROVE  LET k == Below(g, tm, j)
           IN  /\ k = j => \A i \in 2 .. Len(g) : i \div 2 = j => ~ Before(tm, g[i], g[j])
               /\ k # j => /\ k \in 2 .. Len(g) /\ k \div 2 = j /\ k > j
                           /\ Before(tm, g[k], g[j])
                           /\ \A i \in 2 .. Len(g) : i \div 2 = j => ~ Before(tm, g[i], g[k])
<1>1. /\ Len(g) \in Nat /\ j \in Nat /\ 2 * j # j /\ 2 * j + 1 # j /\ 2 * j > j /\ 2 * j + 1 > j
      /\ 2 * j >= 2 /\ (2 * j) \div 2 = j /\ (2 * j + 1) \div 2 = j
  BY Halves
<1>2. \A i \in 2 .. Len(g) : i \div 2 = j => i = 2 * j \/ i = 2 * j + 1
  BY <1>1, Halves
<1>3. \A k \in 1 .. Len(g) : g[k] \in Timers
  OBVIOUS
<1> DEFINE left  == 2 * j
           right == 2 * j + 1
           l == left  <= Len(g) /\ Before(tm, g[left], g[j])
           r == right <= Len(g) /\ Before(tm, g[right], g[j])
<1>4. Below(g, tm, j) = IF l /\ (~ r \/ Before(tm, g[left], g[right])) THEN left
                        ELSE IF r THEN right ELSE j
  BY DEF Below
<1>5. CASE l /\ (~ r \/ Before(tm, g[left], g[right]))
  <2>1. Below(g, tm, j) = left /\ left \in 2 .. Len(g) /\ Before(tm, g[left], g[j])
    BY <1>1, <1>4, <1>5
  <2>2. ~ Before(tm, g[left], g[left])
    BY <1>1, <1>3, <2>1, Order
  <2>3. right \in 2 .. Len(g) => ~ Before(tm, g[right], g[left])
    BY <1>1, <1>3, <1>5, <2>1, Order
  <2>4. QED
    BY <1>1, <1>2, <2>1, <2>2, <2>3
<1>6. CASE ~ (l /\ (~ r \/ Before(tm, g[left], g[right]))) /\ r
  <2>1. Below(g, tm, j) = right /\ right \in 2 .. Len(g) /\ Before(tm, g[right], g[j])
    BY <1>1, <1>4, <1>6
  <2>2. ~ Before(tm, g[right], g[right])
    BY <1>1, <1>3, <2>1, Order
  <2>3. ~ Before(tm, g[left], g[right])
    <3>1. left \in 1 .. Len(g) /\ g[left] \in Timers /\ g[right] \in Timers /\ g[j] \in Timers
      BY <1>1, <1>3, <2>1
    <3>2. CASE l
      BY <1>6, <3>2
    <3>3. CASE ~ l
      <4>1. ~ Before(tm, g[left], g[j])
        BY <1>1, <2>1, <3>3
      <4>2. QED
        BY <2>1, <3>1, <4>1, Order
    <3>4. QED
      BY <3>2, <3>3
  <2>4. QED
    BY <1>1, <1>2, <2>1, <2>2, <2>3
<1>7. CASE ~ l /\ ~ r
  <2>1. Below(g, tm, j) = j
    BY <1>4, <1>7
  <2>2. ASSUME NEW i \in 2 .. Len(g), i \div 2 = j PROVE ~ Before(tm, g[i], g[j])
    <3>1. CASE i = left
      BY <1>1, <1>7, <3>1
    <3>2. CASE i = right
      BY <1>1, <1>7, <3>2
    <3>3. QED
      BY <1>2, <2>2, <3>1, <3>2
  <2>3. QED
    BY <2>1, <2>2
<1>8. QED
  BY <1>5, <1>6, <1>7

LEMMA FloatStep ==
    ASSUME NEW E, NEW g, NEW tm \in Clocks, Holds(g, E), NEW j \in 1 .. Len(g),
           Sinking(g, tm, j), NEW k \in 2 .. Len(g), k \div 2 = j, k > j,
           Before(tm, g[k], g[j]),
           \A i \in 2 .. Len(g) : i \div 2 = j => ~ Before(tm, g[i], g[k])
    PROVE  Sinking(Swap(g, j, k), tm, k)
<1> DEFINE s == Swap(g, j, k)
<1>1. Len(g) \in Nat /\ j \in Nat /\ k \in Nat /\ k \in 1 .. Len(g) /\ j # k
  BY DEF Holds
<1>2. /\ Len(s) = Len(g) /\ s[j] = g[k] /\ s[k] = g[j]
      /\ \A i \in 1 .. Len(g) : i # j /\ i # k => s[i] = g[i]
  <2>1. Swapped(g, j, k, s)
    BY <1>1, SwapFacts
  <2>2. QED
    BY <2>1 DEF Swapped
<1>3. \A i \in 1 .. Len(g) : g[i] \in Timers
  BY DEF Holds
<1>4. \A i \in 2 .. Len(g) : i \div 2 \in 1 .. Len(g) /\ i \div 2 < i /\ i \in 1 .. Len(g) /\ i \in Nat
  BY <1>1, Halves
<1>5. /\ \A i \in 2 .. Len(g) : i \div 2 # j => ~ Before(tm, g[i], g[i \div 2])
      /\ \A i \in 2 .. Len(g) : i \div 2 = j /\ j > 1 => ~ Before(tm, g[i], g[j \div 2])
  BY DEF Sinking, Above
<1> HIDE DEF s
<1>6. ASSUME NEW i \in 2 .. Len(s), i \div 2 # k PROVE ~ Before(tm, s[i], s[i \div 2])
  <2>1. CASE i = k
    BY <1>1, <1>2, <1>3, <2>1, Order
  <2>2. CASE i # k /\ i \div 2 = j
    BY <1>1, <1>2, <1>4, <1>6, <2>2
  <2>3. CASE i = j
    <3>1. j > 1 /\ j \div 2 # j /\ j \div 2 # k /\ j \div 2 \in 1 .. Len(g)
      BY <1>1, <1>2, <1>4, <1>6, <2>3
    <3>2. QED
      BY <1>1, <1>2, <1>5, <2>3, <3>1
  <2>4. CASE i # k /\ i # j /\ i \div 2 # j
    BY <1>1, <1>2, <1>4, <1>5, <1>6, <2>4
  <2>5. QED
    BY <2>1, <2>2, <2>3, <2>4
<1>7. ASSUME NEW i \in 2 .. Len(s), i \div 2 = k PROVE ~ Before(tm, s[i], s[k \div 2])
  <2>1. i \in 2 .. Len(g) /\ i # k /\ i # j /\ i \div 2 # j /\ i \in 1 .. Len(g)
    BY <1>1, <1>2, <1>4, <1>7
  <2>2. ~ Before(tm, g[i], g[k]) /\ s[i] = g[i] /\ s[k \div 2] = g[k]
    BY <1>2, <1>5, <1>7, <2>1
  <2>3. QED
    BY <2>2
<1>8. QED
  BY <1>6, <1>7 DEF Sinking, Above, s
-----------------------------------------------------------------------------
(* The loops of Heap.c.                                                    *)
LEMMA SwapPlace ==
    ASSUME NEW g \in Seq(Timers), NEW i \in 1 .. Len(g), NEW j \in 1 .. Len(g)
    PROVE  <<Swap(g, i, j), j>> \in Places
<1>1. /\ Len(g) \in Nat /\ DOMAIN g = 1 .. Len(g)
      /\ \A k \in 1 .. Len(g) : g[k] \in Timers
  OBVIOUS
<1>2. Swap(g, i, j) = [k \in 1 .. Len(g) |-> IF k = j THEN g[i] ELSE IF k = i THEN g[j] ELSE g[k]]
  BY <1>1 DEF Swap
<1>3. Swap(g, i, j) \in [1 .. Len(g) -> Timers]
  BY <1>1, <1>2
<1>4. Swap(g, i, j) \in Seq(Timers) /\ Len(Swap(g, i, j)) = Len(g)
  BY <1>1, <1>3
<1>5. QED
  BY <1>1, <1>4 DEF Places

(* The timers of g are sorted in h, if it is fit for that.                 *)
Sorted(g, h, tm, E, fit) ==
    /\ h \in Seq(Timers) /\ Len(h) = Len(g)
    /\ Holds(g, E) /\ fit => Holds(h, E) /\ IsHeap(h, tm)

LEMMA RaiseUpKeeps ==
    ASSUME NEW E, NEW tm \in Clocks, NEW h \in Seq(Timers), NEW i \in 1 .. Len(h)
    PROVE  Sorted(h, RaiseUp(h, tm, i), tm, E, Rising(h, tm, i))
<1> DEFINE Goes(x) == x[2] > 1 /\ Before(tm, x[1][x[2]], x[1][x[2] \div 2])
           Goal(x) == <<Swap(x[1], x[2], x[2] \div 2), x[2] \div 2>>
           D    == {x \in Places : Goes(x)}
           step == [x \in D |-> Goal(x)]
           rank == [x \in Places |-> x[2]]
           out  == [x \in Places |-> x[1]]
           Fit  == Holds(h, E) /\ Rising(h, tm, i)
           I    == {x \in Places : /\ Len(x[1]) = Len(h)
                                   /\ Fit => Holds(x[1], E) /\ Rising(x[1], tm, x[2])}
           Body(g) == [x \in Places |-> IF Goes(x) THEN g[Goal(x)] ELSE x[1]]
           up   == CHOOSE g : g = Body(g)
<1>1. RaiseUp(h, tm, i) = up[<<h, i>>]
  BY DEF RaiseUp
<1>2. ASSUME NEW x \in Places
      PROVE  x[1] \in Seq(Timers) /\ Len(x[1]) \in Nat /\ x[2] \in Nat /\ x[2] \in 1 .. Len(x[1])
  BY DEF Places
<1>3. ASSUME NEW x \in D
      PROVE  /\ Goal(x) \in Places /\ Goal(x)[1] = Swap(x[1], x[2], x[2] \div 2)
             /\ Goal(x)[2] = x[2] \div 2 /\ x[2] \div 2 < x[2]
  <2>1. x[2] \in Nat /\ x[2] > 1 /\ x[2] \in 1 .. Len(x[1]) /\ x[1] \in Seq(Timers)
    BY <1>2
  <2>2. x[2] \div 2 \in 1 .. Len(x[1]) /\ x[2] \div 2 < x[2]
    BY <1>2, <2>1, Halves
  <2>3. QED
    BY <2>1, <2>2, SwapPlace
<1>4. Loop(Places, D, step, rank)
  <2>1. D \subseteq Places /\ rank \in [Places -> Nat]
    BY <1>2
  <2>2. step \in [D -> Places]
    BY <1>3
  <2>3. ASSUME NEW x \in D PROVE rank[step[x]] < rank[x]
    BY <1>3
  <2>4. QED
    BY <2>1, <2>2, <2>3 DEF Loop
<1>5. ASSUME NEW g PROVE Unrolled(Places, D, step, out, g) = Body(g)
  BY DEF Unrolled
<1>6. ASSUME NEW x \in I, x \in D PROVE step[x] \in I
  <2>1. x[2] \in 1 .. Len(x[1]) /\ x[2] > 1 /\ x[1] \in Seq(Timers)
        /\ Before(tm, x[1][x[2]], x[1][x[2] \div 2]) /\ x[2] \div 2 \in 1 .. Len(x[1])
    <3>1. x[2] \in 1 .. Len(x[1]) /\ x[2] \in Nat /\ Len(x[1]) \in Nat /\ x[1] \in Seq(Timers)
      BY <1>2
    <3>2. x[2] > 1 /\ Before(tm, x[1][x[2]], x[1][x[2] \div 2])
      BY <1>6
    <3> HIDE DEF D, step, rank, out, I, Body, Goes, Goal, Fit, up
    <3>3. x[2] \div 2 \in 1 .. x[2] - 1
      BY <3>1, <3>2, Halves
    <3>4. x[2] \div 2 \in 1 .. Len(x[1])
      BY <3>1, <3>3
    <3>5. QED
      BY <3>1, <3>2, <3>4
  <2>2. Len(Goal(x)[1]) = Len(h)
    BY <1>3, <1>6, <2>1 DEF Swap
  <2>3. ASSUME Fit
        PROVE  /\ Holds(Swap(x[1], x[2], x[2] \div 2), E)
               /\ Rising(Swap(x[1], x[2], x[2] \div 2), tm, x[2] \div 2)
    <3>1. Holds(x[1], E) /\ Rising(x[1], tm, x[2])
      BY <1>6, <2>3
    <3>2. QED
      BY <2>1, <3>1, RaiseStep, SwapFacts
  <2> HIDE DEF Fit
  <2>4. QED
    BY <1>3, <1>6, <2>2, <2>3
<1>7. <<h, i>> \in I
  BY DEF Places
<1>8. ASSUME NEW x \in I, x \notin D
      PROVE  /\ out[x] \in Seq(Timers) /\ Len(out[x]) = Len(h)
             /\ Fit => Holds(out[x], E) /\ IsHeap(out[x], tm)
  <2>1. out[x] = x[1] /\ ~ Goes(x) /\ x[1] \in Seq(Timers) /\ Len(x[1]) = Len(h)
    BY <1>2, <1>8
  <2>2. x[2] \in 1 .. Len(x[1]) /\ Len(x[1]) \in Nat
    BY <1>2
  <2>3. ASSUME Fit PROVE Holds(x[1], E) /\ IsHeap(x[1], tm)
    <3>1. Holds(x[1], E) /\ Rising(x[1], tm, x[2])
      BY <1>8, <2>3
    <3>2. ASSUME NEW k \in 2 .. Len(x[1]) PROVE ~ Before(tm, x[1][k], x[1][k \div 2])
      <4>1. CASE k # x[2]
        BY <3>1, <4>1 DEF Rising
      <4>2. CASE k = x[2]
        BY <2>1, <2>2, <4>2
      <4>3. QED
        BY <4>1, <4>2
    <3>3. QED
      BY <3>1, <3>2 DEF IsHeap
  <2> HIDE DEF Fit
  <2>4. QED
    BY <2>1, <2>3
<1> HIDE DEF D, step, rank, out, I, Body, Goes, Goal, Fit
<1>9. \E g : g = Unrolled(Places, D, step, out, g)
  BY <1>4, LoopDefined
<1>10. \E g : g = Body(g)
  BY <1>5, <1>9
<1>11. up = Body(up)
  BY <1>10
<1> HIDE DEF up
<1>12. up = Unrolled(Places, D, step, out, up)
  BY <1>5, <1>11
<1>13. I \in SUBSET Places
  BY DEF I
<1>14. \A x \in I : \E e \in I \ D : up[x] = out[e]
  BY <1>4, <1>6, <1>12, <1>13, LoopKeeps
<1>15. QED
  BY <1>1, <1>7, <1>8, <1>14 DEF Fit, Sorted

LEMMA FloatDownKeeps ==
    ASSUME NEW E, NEW tm \in Clocks, NEW h \in Seq(Timers), NEW i \in 1 .. Len(h)
    PROVE  Sorted(h, FloatDown(h, tm, i), tm, E, Sinking(h, tm, i))
<1> DEFINE Child(x) == Below(x[1], tm, x[2])
           Goal(x) == <<Swap(x[1], x[2], Child(x)), Child(x)>>
           D    == {x \in Places : Child(x) # x[2]}
           step == [x \in D |-> Goal(x)]
           rank == [x \in Places |-> Len(x[1]) - x[2]]
           out  == [x \in Places |-> x[1]]
           Fit  == Holds(h, E) /\ Sinking(h, tm, i)
           I    == {x \in Places : /\ Len(x[1]) = Len(h)
                                   /\ Fit => Holds(x[1], E) /\ Sinking(x[1], tm, x[2])}
           Body(g) == [x \in Places |-> IF Child(x) # x[2] THEN g[Goal(x)] ELSE x[1]]
           down == CHOOSE g : g = Body(g)
<1>1. FloatDown(h, tm, i) = down[<<h, i>>]
  BY DEF FloatDown
<1>2. ASSUME NEW x \in Places
      PROVE  x[1] \in Seq(Timers) /\ Len(x[1]) \in Nat /\ x[2] \in Nat /\ x[2] \in 1 .. Len(x[1])
  BY DEF Places
<1> HIDE DEF Child
<1>3. ASSUME NEW x \in Places, Child(x) # x[2]
      PROVE  /\ Child(x) \in 2 .. Len(x[1]) /\ Child(x) \div 2 = x[2] /\ Child(x) > x[2]
             /\ Before(tm, x[1][Child(x)], x[1][x[2]])
             /\ \A k \in 2 .. Len(x[1]) : k \div 2 = x[2] => ~ Before(tm, x[1][k], x[1][Child(x)])
  BY <1>2, <1>3, BelowFacts DEF Child
<1>4. ASSUME NEW x \in D
      PROVE  /\ Goal(x) \in Places /\ Goal(x)[1] = Swap(x[1], x[2], Child(x))
             /\ Goal(x)[2] = Child(x) /\ Len(Goal(x)[1]) = Len(x[1])
  <2>1. x[2] \in 1 .. Len(x[1]) /\ x[1] \in Seq(Timers) /\ Child(x) \in 1 .. Len(x[1])
    BY <1>2, <1>3
  <2>2. Goal(x) \in Places
    BY <2>1, SwapPlace
  <2>3. Len(Swap(x[1], x[2], Child(x))) = Len(x[1])
    BY <2>1 DEF Swap
  <2>4. QED
    BY <2>2, <2>3
<1>5. Loop(Places, D, step, rank)
  <2>1. D \subseteq Places /\ rank \in [Places -> Nat]
    BY <1>2
  <2>2. step \in [D -> Places]
    BY <1>4
  <2>3. ASSUME NEW x \in D PROVE rank[step[x]] < rank[x]
    <3>1. /\ step[x] = Goal(x) /\ Goal(x) \in Places /\ Goal(x)[2] = Child(x)
          /\ Len(Goal(x)[1]) = Len(x[1])
      BY <1>4
    <3>2. Child(x) > x[2] /\ Child(x) \in Nat /\ x[2] \in Nat /\ Len(x[1]) \in Nat
      BY <1>2, <1>3
    <3>3. rank[Goal(x)] = Len(x[1]) - Child(x) /\ rank[x] = Len(x[1]) - x[2]
      BY <3>1
    <3> HIDE DEF rank, step, Goal
    <3>4. QED
      BY <3>1, <3>2, <3>3
  <2>4. QED
    BY <2>1, <2>2, <2>3 DEF Loop
<1>6. ASSUME NEW g PROVE Unrolled(Places, D, step, out, g) = Body(g)
  BY DEF Unrolled
<1>7. ASSUME NEW x \in I, x \in D PROVE step[x] \in I
  <2>1. /\ x[2] \in 1 .. Len(x[1]) /\ Child(x) \in 2 .. Len(x[1]) /\ Child(x) \in 1 .. Len(x[1])
        /\ x \in Places /\ Child(x) # x[2]
    BY <1>2, <1>3, <1>7
  <2>2. Len(Goal(x)[1]) = Len(h)
    BY <1>4, <1>7
  <2>3. ASSUME Fit
        PROVE  /\ Holds(Swap(x[1], x[2], Child(x)), E)
               /\ Sinking(Swap(x[1], x[2], Child(x)), tm, Child(x))
    <3>1. Holds(x[1], E) /\ Sinking(x[1], tm, x[2])
      BY <1>7, <2>3
    <3>2. QED
      BY <1>3, <2>1, <3>1, FloatStep, SwapFacts
  <2> HIDE DEF Fit
  <2>4. QED
    BY <1>4, <1>7, <2>2, <2>3
<1>8. <<h, i>> \in I
  BY DEF Places
<1>9. ASSUME NEW x \in I, x \notin D
      PROVE  /\ out[x] \in Seq(Timers) /\ Len(out[x]) = Len(h)
             /\ Fit => Holds(out[x], E) /\ IsHeap(out[x], tm)
  <2>1. out[x] = x[1] /\ Child(x) = x[2] /\ Len(x[1]) = Len(h)
    BY <1>9
  <2>2. x[2] \in 1 .. Len(x[1]) /\ x[1] \in Seq(Timers)
    BY <1>2
  <2>3. ASSUME Fit PROVE Holds(x[1], E) /\ IsHeap(x[1], tm)
    <3>1. Holds(x[1], E) /\ Sinking(x[1], tm, x[2])
      BY <1>9, <2>3
    <3>2. \A k \in 2 .. Len(x[1]) : k \div 2 = x[2] => ~ Before(tm, x[1][k], x[1][x[2]])
      BY <2>1, <2>2, BelowFacts DEF Child
    <3>3. QED
      BY <3>1, <3>2 DEF IsHeap, Sinking
  <2> HIDE DEF Fit
  <2>4. QED
    BY <2>1, <2>2, <2>3
<1> HIDE DEF D, step, rank, out, I, Body, Goal, Fit
<1>10. \E g : g = Unrolled(Places, D, step, out, g)
  BY <1>5, LoopDefined
<1>11. \E g : g = Body(g)
  BY <1>6, <1>10
<1>12. down = Body(down)
  BY <1>11
<1> HIDE DEF down
<1>13. down = Unrolled(Places, D, step, out, down)
  BY <1>6, <1>12
<1>14. I \in SUBSET Places
  BY DEF I
<1>15. \A x \in I : \E e \in I \ D : down[x] = out[e]
  BY <1>5, <1>7, <1>13, <1>14, LoopKeeps
<1>16. QED
  BY <1>1, <1>8, <1>9, <1>15 DEF Fit, Sorted

LEMMA AdjustFits ==
    ASSUME NEW tm \in Clocks, NEW h \in Seq(Timers), NEW i, h # <<>> => i \in 1 .. Len(h)
    PROVE  Adjust(h, tm, i) \in Seq(Timers) /\ Len(Adjust(h, tm, i)) = Len(h)
<1>1. CASE h = <<>>
  BY <1>1 DEF Adjust
<1>2. CASE h # <<>>
  <2>1. Adjust(h, tm, i) = RaiseUp(h, tm, i) \/ Adjust(h, tm, i) = FloatDown(h, tm, i)
    BY <1>2 DEF Adjust
  <2>2. /\ Sorted(h, RaiseUp(h, tm, i), tm, {}, Rising(h, tm, i))
        /\ Sorted(h, FloatDown(h, tm, i), tm, {}, Sinking(h, tm, i))
    BY <1>2, RaiseUpKeeps, FloatDownKeeps
  <2>3. QED
    BY <2>1, <2>2 DEF Sorted
<1>3. QED
  BY <1>1, <1>2

LEMMA AdjustKeeps ==
    ASSUME NEW E, NEW tm \in Clocks, NEW h, Holds(h, E),
           NEW i, h # <<>> => i \in 1 .. Len(h) /\ Almost(h, tm, i)
    PROVE  Holds(Adjust(h, tm, i), E) /\ IsHeap(Adjust(h, tm, i), tm)
<1>1. CASE h = <<>>
  <2>1. Len(h) = 0
    BY <1>1
  <2>2. QED
    BY <1>1, <2>1 DEF Adjust, IsHeap
<1>2. CASE h # <<>>
  <2>1. i \in 1 .. Len(h) /\ Almost(h, tm, i) /\ Len(h) \in Nat /\ \A k \in 1 .. Len(h) : h[k] \in Timers
    BY <1>2 DEF Holds
  <2>2. \A k \in 2 .. Len(h) : k \in 1 .. Len(h) /\ k \div 2 \in 1 .. Len(h) /\ k \div 2 < k
    BY <2>1, Halves
  <2>3. \A k \in 2 .. Len(h) : /\ k # i /\ k \div 2 # i => ~ Before(tm, h[k], h[k \div 2])
                               /\ k \div 2 = i /\ i > 1 => ~ Before(tm, h[k], h[i \div 2])
    BY <2>1 DEF Almost, Above
  <2>4. CASE i > 1 /\ Before(tm, h[i], h[i \div 2])
    <3>1. ASSUME NEW k \in 2 .. Len(h), k # i PROVE ~ Before(tm, h[k], h[k \div 2])
      <4>1. CASE k \div 2 = i
        <5>1. i \in 2 .. Len(h) /\ ~ Before(tm, h[k], h[i \div 2])
          BY <2>1, <2>3, <2>4, <4>1
        <5>2. /\ h[k] \in Timers /\ h[i] \in Timers /\ h[i \div 2] \in Timers
          BY <2>1, <2>2, <5>1
        <5>3. ~ Before(tm, h[k], h[i])
          BY <2>4, <5>1, <5>2, Order
        <5>4. QED
          BY <4>1, <5>3
      <4>2. CASE k \div 2 # i
        BY <2>3, <3>1, <4>2
      <4>3. QED
        BY <4>1, <4>2
    <3>2. Rising(h, tm, i)
      BY <2>1, <3>1 DEF Rising, Almost
    <3>3. Adjust(h, tm, i) = RaiseUp(h, tm, i)
      BY <1>2, <2>4 DEF Adjust
    <3>4. h \in Seq(Timers)
      BY DEF Holds
    <3>5. Sorted(h, RaiseUp(h, tm, i), tm, E, Rising(h, tm, i))
      BY <2>1, <3>4, RaiseUpKeeps
    <3>6. QED
      BY <3>2, <3>3, <3>5 DEF Sorted
  <2>5. CASE ~ (i > 1 /\ Before(tm, h[i], h[i \div 2]))
    <3>1. ASSUME NEW k \in 2 .. Len(h), k \div 2 # i PROVE ~ Before(tm, h[k], h[k \div 2])
      <4>1. k > 1
        OBVIOUS
      <4>2. QED
        BY <2>3, <2>5, <3>1, <4>1
    <3>2. Sinking(h, tm, i)
      BY <2>1, <3>1 DEF Sinking, Almost
    <3>3. Adjust(h, tm, i) = FloatDown(h, tm, i)
      BY <1>2, <2>5 DEF Adjust
    <3>4. h \in Seq(Timers)
      BY DEF Holds
    <3>5. Sorted(h, FloatDown(h, tm, i), tm, E, Sinking(h, tm, i))
      BY <2>1, <3>4, FloatDownKeeps
    <3>6. QED
      BY <3>2, <3>3, <3>5 DEF Sorted
  <2>6. QED
    BY <2>4, <2>5
<1>3. QED
  BY <1>1, <1>2
-----------------------------------------------------------------------------
(* The operations of the heap.                                             *)
LEMMA Root ==
    ASSUME NEW E, NEW tm \in Clocks, NEW h, Holds(h, E), IsHeap(h, tm)
    PROVE  \A i \in 1 .. Len(h) : ~ Before(tm, h[i], h[1])
<1> DEFINE T == {n \in Nat : n \in 1 .. Len(h) => ~ Before(tm, h[n], h[1])}
<1>1. Len(h) \in Nat /\ \A i \in 1 .. Len(h) : h[i] \in Timers
  BY DEF Holds
<1>2. ASSUME NEW n \in Nat, \A m \in 0 .. n - 1 : m \in T PROVE n \in T
  <2> SUFFICES ASSUME n \in 1 .. Len(h) PROVE ~ Before(tm, h[n], h[1])
    OBVIOUS
  <2>1. CASE n = 1
    BY <1>1, <2>1, Order
  <2>2. CASE n # 1
    <3>1. n \div 2 \in 1 .. Len(h) /\ n \div 2 \in 0 .. n - 1 /\ n \div 2 \in Nat
      BY <1>1, <2>2, Halves
    <3>2. ~ Before(tm, h[n \div 2], h[1])
      BY <1>2, <3>1
    <3>3. ~ Before(tm, h[n], h[n \div 2])
      BY <1>1, <2>2 DEF IsHeap
    <3>4. 1 \in 1 .. Len(h)
      BY <1>1
    <3>5. QED
      BY <1>1, <3>1, <3>2, <3>3, <3>4, Order
  <2>3. QED
    BY <2>1, <2>2
<1>3. T = Nat
  <2> HIDE DEF T
  <2>1. T \in SUBSET Nat
    BY DEF T
  <2>2. QED
    BY <1>2, <2>1, Induction
<1>4. QED
  BY <1>1, <1>3

LEMMA AddKeeps ==
    ASSUME NEW E, NEW tm \in Clocks, NEW h, Holds(h, E), IsHeap(h, tm), NEW t \in Timers \ E
    PROVE  Holds(HeapAdd(h, tm, t), E \cup {t}) /\ IsHeap(HeapAdd(h, tm, t), tm)
<1> DEFINE g == Append(h, t)
<1>1. /\ h \in Seq(Timers) /\ Len(h) \in Nat /\ Once(h) /\ Elements(h) = E
      /\ \A i \in 1 .. Len(h) : h[i] # t /\ h[i] \in Timers
  BY DEF Holds, Elements
<1>2. /\ g \in Seq(Timers) /\ Len(g) = Len(h) + 1 /\ g[Len(h) + 1] = t
      /\ \A i \in 1 .. Len(h) : g[i] = h[i]
  BY <1>1
<1>3. Once(g)
  BY <1>1, <1>2 DEF Once
<1>4. Elements(g) = E \cup {t}
  <2>1. 1 .. Len(g) = (1 .. Len(h)) \cup {Len(h) + 1}
    BY <1>1, <1>2
  <2> HIDE DEF g
  <2>2. ASSUME NEW x \in Elements(g) PROVE x \in E \cup {t}
    BY <1>1, <1>2, <2>1, <2>2 DEF Elements
  <2>3. ASSUME NEW x \in E \cup {t} PROVE x \in Elements(g)
    BY <1>1, <1>2, <2>1, <2>3 DEF Elements
  <2>4. QED
    BY <2>2, <2>3
<1> HIDE DEF g
<1>5. Almost(g, tm, Len(h) + 1)
  <2>1. ASSUME NEW i \in 2 .. Len(g)
        PROVE  /\ i \div 2 # Len(h) + 1
               /\ i # Len(h) + 1 => ~ Before(tm, g[i], g[i \div 2])
    <3>1. i \div 2 \in 1 .. Len(h) /\ i \in Nat
      BY <1>1, <1>2, Halves
    <3>2. ASSUME i # Len(h) + 1 PROVE ~ Before(tm, g[i], g[i \div 2])
      <4>1. i \in 2 .. Len(h) /\ i \in 1 .. Len(h)
        BY <1>1, <1>2, <3>2
      <4>2. QED
        BY <1>2, <3>1, <4>1 DEF IsHeap
    <3>3. QED
      BY <3>1, <3>2
  <2>2. QED
    BY <2>1 DEF Almost, Above
<1>6. Holds(g, E \cup {t}) /\ Len(h) + 1 \in 1 .. Len(g)
  BY <1>1, <1>2, <1>3, <1>4 DEF Holds
<1>7. HeapAdd(h, tm, t) = Adjust(g, tm, Len(h) + 1)
  BY DEF HeapAdd, g
<1>8. QED
  BY <1>5, <1>6, <1>7, AdjustKeeps

LEMMA IndexFacts ==
    ASSUME NEW E, NEW h, Holds(h, E), NEW t \in E
    PROVE  IndexOf(h, t) \in 1 .. Len(h) /\ h[IndexOf(h, t)] = t
<1>1. \E i \in 1 .. Len(h) : h[i] = t
  BY DEF Holds, Elements
<1>2. QED
  BY <1>1 DEF IndexOf

(* Around a place that changes the order is that of its neighbours.        *)
LEMMA Around ==
    ASSUME NEW E, NEW tm \in Clocks, NEW h, Holds(h, E), IsHeap(h, tm), NEW i \in 1 .. Len(h)
    PROVE  Above(h, tm, i)
<1>1. Len(h) \in Nat /\ \A k \in 1 .. Len(h) : h[k] \in Timers
  BY DEF Holds
<1>2. ASSUME NEW k \in 2 .. Len(h), k \div 2 = i, i > 1 PROVE ~ Before(tm, h[k], h[i \div 2])
  <2>1. k \in 1 .. Len(h) /\ i \in 2 .. Len(h) /\ i \div 2 \in 1 .. Len(h)
    BY <1>1, <1>2, Halves
  <2>2. ~ Before(tm, h[k], h[i]) /\ ~ Before(tm, h[i], h[i \div 2])
    BY <1>2, <2>1 DEF IsHeap
  <2>3. QED
    BY <1>1, <2>1, <2>2, Order
<1>3. QED
  BY <1>2 DEF Above

LEMMA ChangeKeeps ==
    ASSUME NEW E, NEW tm \in Clocks, NEW h, Holds(h, E), IsHeap(h, tm), NEW t \in E,
           NEW new \in Clocks, \A u \in Timers : u # t => new[u] = tm[u]
    PROVE  Holds(HeapChange(h, new, t), E) /\ IsHeap(HeapChange(h, new, t), new)
<1> DEFINE i == IndexOf(h, t)
<1>1. i \in 1 .. Len(h) /\ h[i] = t
  BY IndexFacts
<1> HIDE DEF i
<1>2. Len(h) \in Nat /\ \A k \in 1 .. Len(h) : h[k] \in Timers /\ (k # i => h[k] # t)
  BY <1>1 DEF Holds, Once
<1>3. \A a, b \in Timers \ {t} : Before(new, a, b) <=> Before(tm, a, b)
  BY DEF Before
<1>4. \A k \in 2 .. Len(h) : k \in 1 .. Len(h) /\ k \div 2 \in 1 .. Len(h) /\ k \div 2 # k
  BY <1>2, Halves
<1>5. ASSUME NEW k \in 2 .. Len(h), k # i, k \div 2 # i PROVE ~ Before(new, h[k], h[k \div 2])
  <2>1. h[k] \in Timers \ {t} /\ h[k \div 2] \in Timers \ {t}
    BY <1>2, <1>4, <1>5
  <2>2. QED
    BY <1>3, <2>1 DEF IsHeap
<1>6. ASSUME NEW k \in 2 .. Len(h), k \div 2 = i, i > 1 PROVE ~ Before(new, h[k], h[i \div 2])
  <2>1. i \in 2 .. Len(h)
    BY <1>1, <1>2, <1>6
  <2>2. h[k] \in Timers \ {t} /\ h[i \div 2] \in Timers \ {t}
    BY <1>2, <1>4, <1>6, <2>1
  <2>3. ~ Before(tm, h[k], h[i \div 2])
    BY <1>1, <1>6, Around DEF Above
  <2>4. QED
    BY <1>3, <2>2, <2>3
<1>7. Almost(h, new, i)
  BY <1>5, <1>6 DEF Almost, Above
<1>8. HeapChange(h, new, t) = Adjust(h, new, i)
  BY DEF HeapChange, i
<1>9. QED
  BY <1>1, <1>7, <1>8, AdjustKeeps

(* The last element takes the place of the i-th.                           *)
Filled(h, i) == [Shorter(h) EXCEPT ![i] = h[Len(h)]]

LEMMA FilledFacts ==
    ASSUME NEW E, NEW tm \in Clocks, NEW h, Holds(h, E), IsHeap(h, tm),
           NEW i \in 1 .. Len(h), i # Len(h)
    PROVE  /\ Holds(Filled(h, i), E \ {h[i]}) /\ Len(Filled(h, i)) = Len(h) - 1
           /\ Almost(Filled(h, i), tm, i)
<1> DEFINE n == Len(h)
           g == Filled(h, i)
<1>1. /\ n \in Nat /\ h \in Seq(Timers) /\ i \in 1 .. n - 1 /\ Elements(h) = E /\ Once(h)
      /\ \A k \in 1 .. n : h[k] \in Timers
  BY DEF Holds
<1>2. Shorter(h) = [k \in 1 .. n - 1 |-> h[k]]
  BY <1>1 DEF Shorter
<1>3. g = [k \in 1 .. n - 1 |-> IF k = i THEN h[n] ELSE h[k]]
  BY <1>1, <1>2 DEF Filled
<1> HIDE DEF g
<1>4. g \in Seq(Timers) /\ Len(g) = n - 1
  <2>1. g \in [1 .. n - 1 -> Timers] /\ n - 1 \in Nat /\ n \in 1 .. n
    BY <1>1, <1>3
  <2>2. QED
    BY <2>1
<1>5. /\ g[i] = h[n] /\ n \in 1 .. n
      /\ \A k \in 1 .. n - 1 : k # i => g[k] = h[k] /\ k \in 1 .. n
  BY <1>1, <1>3
<1>6. Once(g)
  BY <1>1, <1>4, <1>5 DEF Once
<1>7. Elements(g) = E \ {h[i]}
  <2>1. ASSUME NEW x \in Elements(g) PROVE x \in E \ {h[i]}
    <3>1. PICK k \in 1 .. n - 1 : x = g[k]
      BY <1>4 DEF Elements
    <3>2. PICK l \in 1 .. n : x = h[l] /\ l # i
      BY <1>1, <1>5, <3>1
    <3>3. QED
      BY <1>1, <3>2 DEF Elements, Once
  <2>2. ASSUME NEW x \in E \ {h[i]} PROVE x \in Elements(g)
    <3>1. PICK l \in 1 .. n : x = h[l]
      BY <1>1 DEF Elements
    <3>2. \E k \in 1 .. n - 1 : x = g[k]
      BY <1>1, <1>5, <3>1
    <3>3. QED
      BY <1>4, <3>2 DEF Elements
  <2>3. QED
    BY <2>1, <2>2
<1>8. \A k \in 2 .. n - 1 : /\ k \in 2 .. n /\ k \in 1 .. n - 1 /\ k \div 2 \in 1 .. n - 1
                            /\ k \div 2 # k
  BY <1>1, Halves
<1>9. ASSUME NEW k \in 2 .. n - 1, k # i, k \div 2 # i PROVE ~ Before(tm, g[k], g[k \div 2])
  BY <1>5, <1>8, <1>9 DEF IsHeap
<1>10. ASSUME NEW k \in 2 .. n - 1, k \div 2 = i, i > 1 PROVE ~ Before(tm, g[k], g[i \div 2])
  <2>1. i \in 2 .. n - 1
    BY <1>1, <1>10
  <2>2. g[k] = h[k] /\ g[i \div 2] = h[i \div 2]
    BY <1>5, <1>8, <1>10, <2>1
  <2>3. ~ Before(tm, h[k], h[i \div 2])
    BY <1>8, <1>10, Around DEF Above
  <2>4. QED
    BY <2>2, <2>3
<1>11. Almost(g, tm, i)
  BY <1>4, <1>9, <1>10 DEF Almost, Above
<1>12. QED
  BY <1>4, <1>6, <1>7, <1>11 DEF Holds, g

LEMMA ShorterKeeps ==
    ASSUME NEW E, NEW tm \in Clocks, NEW h, Holds(h, E), IsHeap(h, tm), h # <<>>
    PROVE  Holds(Shorter(h), E \ {h[Len(h)]}) /\ IsHeap(Shorter(h), tm)
<1> DEFINE n == Len(h)
           g == Shorter(h)
<1>1. /\ n \in Nat \ {0} /\ h \in Seq(Timers) /\ Elements(h) = E /\ Once(h)
      /\ \A k \in 1 .. n : h[k] \in Timers
  BY DEF Holds
<1>2. g = [k \in 1 .. n - 1 |-> h[k]]
  BY <1>1 DEF Shorter
<1> HIDE DEF g
<1>3. g \in Seq(Timers) /\ Len(g) = n - 1
  <2>1. g \in [1 .. n - 1 -> Timers] /\ n - 1 \in Nat
    BY <1>1, <1>2
  <2>2. QED
    BY <2>1
<1>4. n \in 1 .. n /\ \A k \in 1 .. n - 1 : g[k] = h[k] /\ k \in 1 .. n /\ k # n
  BY <1>1, <1>2
<1>5. Once(g)
  BY <1>1, <1>3, <1>4 DEF Once
<1>6. Elements(g) = E \ {h[n]}
  <2>1. ASSUME NEW x \in Elements(g) PROVE x \in E \ {h[n]}
    <3>1. PICK k \in 1 .. n - 1 : x = g[k]
      BY <1>3 DEF Elements
    <3>2. x = h[k] /\ k \in 1 .. n /\ k # n
      BY <1>4, <3>1
    <3>3. QED
      BY <1>1, <1>4, <3>2 DEF Elements, Once
  <2>2. ASSUME NEW x \in E \ {h[n]} PROVE x \in Elements(g)
    <3>1. PICK k \in 1 .. n : x = h[k] /\ k # n
      BY <1>1 DEF Elements
    <3>2. k \in 1 .. n - 1
      BY <1>1, <3>1
    <3>3. x = g[k]
      BY <1>4, <3>1, <3>2
    <3>4. QED
      BY <1>3, <3>2, <3>3 DEF Elements
  <2>3. QED
    BY <2>1, <2>2
<1>7. IsHeap(g, tm)
  <2>1. ASSUME NEW k \in 2 .. n - 1 PROVE ~ Before(tm, g[k], g[k \div 2])
    <3>1. k \in 2 .. n /\ k \in 1 .. n - 1 /\ k \div 2 \in 1 .. n - 1
      BY <1>1, Halves
    <3>2. QED
      BY <1>4, <3>1 DEF IsHeap
  <2>2. QED
    BY <1>3, <2>1 DEF IsHeap
<1>8. QED
  BY <1>3, <1>5, <1>6, <1>7 DEF Holds, g

LEMMA DeleteKeeps ==
    ASSUME NEW E, NEW tm \in Clocks, NEW h, Holds(h, E), IsHeap(h, tm), NEW t \in E
    PROVE  Holds(HeapDelete(h, tm, t), E \ {t}) /\ IsHeap(HeapDelete(h, tm, t), tm)
<1> DEFINE i == IndexOf(h, t)
<1>1. i \in 1 .. Len(h) /\ h[i] = t /\ Len(h) \in Nat
  BY IndexFacts DEF Holds
<1> HIDE DEF i
<1>2. HeapDelete(h, tm, t) = IF i = Len(h) THEN Shorter(h) ELSE Adjust(Filled(h, i), tm, i)
  BY DEF HeapDelete, Filled, i
<1>3. CASE i = Len(h)
  <2>1. h # <<>>
    BY <1>1
  <2>2. Holds(Shorter(h), E \ {h[Len(h)]}) /\ IsHeap(Shorter(h), tm)
    BY <2>1, ShorterKeeps
  <2>3. QED
    BY <1>1, <1>2, <1>3, <2>2
<1>4. CASE i # Len(h)
  <2>1. /\ Holds(Filled(h, i), E \ {t}) /\ Len(Filled(h, i)) = Len(h) - 1
        /\ Almost(Filled(h, i), tm, i)
    BY <1>1, <1>4, FilledFacts
  <2>2. i \in 1 .. Len(Filled(h, i))
    BY <1>1, <1>4, <2>1
  <2>3. QED
    BY <1>2, <1>4, <2>1, <2>2, AdjustKeeps
<1>5. QED
  BY <1>3, <1>4

LEMMA RemoveShorter ==
    ASSUME NEW tm \in Clocks, NEW h \in Seq(Timers), h # <<>>
    PROVE  HeapRemove(h, tm) \in Seq(Timers) /\ Len(HeapRemove(h, tm)) = Len(h) - 1
<1>1. Len(h) \in Nat \ {0} /\ \A k \in 1 .. Len(h) : h[k] \in Timers
  OBVIOUS
<1>2. CASE Len(h) = 1
  BY <1>2 DEF HeapRemove, Adjust
<1>3. CASE Len(h) # 1
  <2>1. Shorter(h) = [k \in 1 .. Len(h) - 1 |-> h[k]]
    BY <1>1 DEF Shorter
  <2>2. Filled(h, 1) = [k \in 1 .. Len(h) - 1 |-> IF k = 1 THEN h[Len(h)] ELSE h[k]]
    BY <1>1, <1>3, <2>1 DEF Filled
  <2>3. Filled(h, 1) \in [1 .. Len(h) - 1 -> Timers] /\ Len(h) - 1 \in Nat
    BY <1>1, <2>2
  <2>4. Filled(h, 1) \in Seq(Timers) /\ Len(Filled(h, 1)) = Len(h) - 1
    BY <2>3
  <2>5. HeapRemove(h, tm) = Adjust(Filled(h, 1), tm, 1)
    BY <1>3 DEF HeapRemove, Filled
  <2>6. QED
    BY <1>1, <1>3, <2>4, <2>5, AdjustFits
<1>4. QED
  BY <1>2, <1>3

LEMMA RemoveKeeps ==
    ASSUME NEW E, NEW tm \in Clocks, NEW h, Holds(h, E), IsHeap(h, tm), h # <<>>
    PROVE  Holds(HeapRemove(h, tm), E \ {h[1]}) /\ IsHeap(HeapRemove(h, tm), tm)
<1>1. Len(h) \in Nat \ {0} /\ h \in Seq(Timers) /\ 1 \in 1 .. Len(h)
  BY DEF Holds
<1>2. CASE Len(h) = 1
  <2>1. HeapRemove(h, tm) = <<>>
    BY <1>2 DEF HeapRemove, Adjust
  <2>2. Elements(h) = {h[1]} /\ Elements(h) = E
    BY <1>2 DEF Elements, Holds
  <2>3. Holds(<<>>, {}) /\ IsHeap(<<>>, tm)
    BY DEF Holds, IsHeap, Once, Elements
  <2>4. QED
    BY <2>1, <2>2, <2>3
<1>3. CASE Len(h) # 1
  <2>1. HeapRemove(h, tm) = Adjust(Filled(h, 1), tm, 1)
    BY <1>3 DEF HeapRemove, Filled
  <2>2. /\ Holds(Filled(h, 1), E \ {h[1]}) /\ Len(Filled(h, 1)) = Len(h) - 1
        /\ Almost(Filled(h, 1), tm, 1)
    BY <1>1, <1>3, FilledFacts
  <2>3. 1 \in 1 .. Len(Filled(h, 1))
    BY <1>1, <1>3, <2>2
  <2>4. QED
    BY <2>1, <2>2, <2>3, AdjustKeeps
<1>4. QED
  BY <1>2, <1>3
-----------------------------------------------------------------------------
(* The heap and the timers taken out of it, between two operations.        *)
Sound(h, r, tm) ==
    /\ Holds(h, Elements(h)) /\ IsHeap(h, tm)
    /\ r \in Seq(Timers) /\ Once(r) /\ Elements(h) \cap Elements(r) = {}
    /\ \A t \in Timers : tm[t] # 0 => t \in Elements(h) \cup Elements(r)
    /\ \A t \in Elements(r) : tm[t] # 0

LEMMA SoundOf ==
    ASSUME NEW h, NEW E, Holds(h, E)
    PROVE  Elements(h) = E /\ Holds(h, Elements(h)) /\ h \in Seq(Timers) /\ E \subseteq Timers
  BY DEF Holds, Elements

(* A timer of the heap is set: TimerReschedule.                            *)
LEMMA SetSound ==
    ASSUME NEW h, NEW r, NEW tm \in Clocks, Sound(h, r, tm),
           NEW t \in Elements(h), NEW new \in Clocks, \A u \in Timers : u # t => new[u] = tm[u]
    PROVE  Sound(HeapChange(h, new, t), r, new) /\ Elements(HeapChange(h, new, t)) = Elements(h)
<1>1. Holds(h, Elements(h)) /\ IsHeap(h, tm) /\ t \in Timers
  BY SoundOf DEF Sound
<1>2. \A u \in Timers : u # t => new[u] = tm[u]
  OBVIOUS
<1> DEFINE E == Elements(h)
<1>3. Holds(HeapChange(h, new, t), E) /\ IsHeap(HeapChange(h, new, t), new)
  <2>1. Holds(h, E) /\ IsHeap(h, tm) /\ t \in E
    BY <1>1
  <2> HIDE DEF E
  <2>2. QED
    BY <1>2, <2>1, ChangeKeeps
<1>4. /\ Elements(HeapChange(h, new, t)) = Elements(h)
      /\ Holds(HeapChange(h, new, t), Elements(HeapChange(h, new, t)))
  BY <1>3, SoundOf
<1>5. \A u \in Elements(r) : u \in Timers /\ u # t
  <2>1. r \in Seq(Timers) /\ Elements(h) \cap Elements(r) = {}
    BY DEF Sound
  <2>2. Elements(r) \subseteq Timers
    BY <2>1 DEF Elements
  <2>3. QED
    BY <2>1, <2>2
<1>6. QED
  BY <1>1, <1>2, <1>3, <1>4, <1>5 DEF Sound

(* A timer that is not in the heap is put into it: TimerNew, and the       *)
(* second loop of TimerTick.                                               *)
LEMMA AddSound ==
    ASSUME NEW h, NEW r, NEW tm \in Clocks, Sound(h, r, tm),
           NEW t \in Timers \ Elements(h), NEW new \in Clocks,
           \A u \in Timers : u # t => new[u] = tm[u],
           NEW s \in Seq(Timers), Once(s), Elements(s) = Elements(r) \ {t}
    PROVE  /\ Sound(HeapAdd(h, new, t), s, new)
           /\ Elements(HeapAdd(h, new, t)) = Elements(h) \cup {t}
<1>1. Holds(h, Elements(h)) /\ IsHeap(h, tm) /\ Elements(h) \subseteq Timers
  BY SoundOf DEF Sound
<1>2. \A u \in Timers : u # t => new[u] = tm[u]
  OBVIOUS
<1>3. IsHeap(h, new)
  <2>1. Len(h) \in Nat /\ \A i \in 1 .. Len(h) : h[i] \in Timers /\ h[i] # t
    BY <1>1 DEF Holds, Elements
  <2>2. ASSUME NEW i \in 2 .. Len(h) PROVE ~ Before(new, h[i], h[i \div 2])
    <3>1. i \in 1 .. Len(h) /\ i \div 2 \in 1 .. Len(h)
      BY <2>1, Halves
    <3>2. new[h[i]] = tm[h[i]] /\ new[h[i \div 2]] = tm[h[i \div 2]]
      BY <1>2, <2>1, <3>1
    <3>3. QED
      BY <1>1, <3>2 DEF IsHeap, Before
  <2>3. QED
    BY <2>2 DEF IsHeap
<1>4. Holds(HeapAdd(h, new, t), Elements(h) \cup {t}) /\ IsHeap(HeapAdd(h, new, t), new)
  BY <1>1, <1>3, AddKeeps
<1>5. /\ Elements(HeapAdd(h, new, t)) = Elements(h) \cup {t}
      /\ Holds(HeapAdd(h, new, t), Elements(HeapAdd(h, new, t)))
  BY <1>4, SoundOf
<1>6. Elements(s) \subseteq Timers
  BY DEF Elements
<1>7. QED
  BY <1>2, <1>4, <1>5, <1>6 DEF Sound

(* A timer of the heap is freed.                                           *)
LEMMA FreeSound ==
    ASSUME NEW h, NEW r, NEW tm \in Clocks, Sound(h, r, tm),
           NEW t \in Elements(h), NEW new \in Clocks, new = [tm EXCEPT ![t] = 0]
    PROVE  /\ Sound(HeapDelete(h, tm, t), r, new)
           /\ Elements(HeapDelete(h, tm, t)) = Elements(h) \ {t}
<1> DEFINE g == HeapDelete(h, tm, t)
<1>1. Holds(h, Elements(h)) /\ IsHeap(h, tm) /\ t \in Timers
  BY SoundOf DEF Sound
<1>2. Holds(g, Elements(h) \ {t}) /\ IsHeap(g, tm)
  BY <1>1, DeleteKeeps
<1> HIDE DEF g
<1>3. Elements(g) = Elements(h) \ {t} /\ Holds(g, Elements(g))
  BY <1>2, SoundOf
<1>4. \A u \in Timers : u # t => new[u] = tm[u]
  BY DEF Clocks
<1>5. new[t] = 0
  BY <1>1 DEF Clocks
<1>6. IsHeap(g, new)
  <2>1. Len(g) \in Nat /\ \A i \in 1 .. Len(g) : g[i] \in Timers /\ g[i] # t
    <3>1. g \in Seq(Timers) /\ Elements(g) = Elements(h) \ {t}
      BY <1>2 DEF Holds
    <3>2. \A i \in 1 .. Len(g) : g[i] \in Elements(g)
      BY DEF Elements
    <3>3. QED
      BY <3>1, <3>2
  <2>2. ASSUME NEW i \in 2 .. Len(g) PROVE ~ Before(new, g[i], g[i \div 2])
    <3>1. i \in 1 .. Len(g) /\ i \div 2 \in 1 .. Len(g)
      BY <2>1, Halves
    <3>2. new[g[i]] = tm[g[i]] /\ new[g[i \div 2]] = tm[g[i \div 2]]
      BY <1>4, <2>1, <3>1
    <3>3. QED
      BY <1>2, <3>2 DEF IsHeap, Before
  <2>3. QED
    BY <2>2 DEF IsHeap
<1>7. \A u \in Elements(r) : u \in Timers /\ u # t
  <2>1. r \in Seq(Timers) /\ Elements(h) \cap Elements(r) = {}
    BY DEF Sound
  <2>2. Elements(r) \subseteq Timers
    BY <2>1 DEF Elements
  <2>3. QED
    BY <2>1, <2>2
<1>8. Sound(g, r, new)
  BY <1>3, <1>4, <1>5, <1>6, <1>7 DEF Sound
<1>9. QED
  BY <1>3, <1>8 DEF g

(* The root is the earliest armed timer, so g_nexttrigger is its time.     *)
Earliest(h, tm, at) ==
    IF \A t \in Elements(h) : tm[t] = 0 THEN at = 0
    ELSE /\ \A t \in Elements(h) : tm[t] # 0 => at <= tm[t]
         /\ \E t \in Elements(h) : tm[t] # 0 /\ at = tm[t]

LEMMA NextTriggerFacts ==
    ASSUME NEW h, NEW r, NEW tm \in Clocks, Sound(h, r, tm)
    PROVE  Earliest(h, tm, NextTrigger(h, tm)) /\ NextTrigger(h, tm) \in Nat
<1>1. /\ Holds(h, Elements(h)) /\ IsHeap(h, tm) /\ h \in Seq(Timers) /\ Len(h) \in Nat
      /\ \A i \in 1 .. Len(h) : h[i] \in Timers
  BY DEF Sound, Holds
<1>2. CASE h = <<>>
  <2>1. Elements(h) = {}
    BY <1>2 DEF Elements
  <2>2. QED
    BY <1>2, <2>1 DEF Earliest, NextTrigger
<1>3. CASE h # <<>>
  <2>1. 1 \in 1 .. Len(h) /\ h[1] \in Elements(h) /\ h[1] \in Timers
    BY <1>1, <1>3 DEF Elements
  <2>2. NextTrigger(h, tm) = tm[h[1]] /\ tm[h[1]] \in Nat
    BY <1>3, <2>1 DEF NextTrigger, Clocks
  <2>3. ASSUME NEW t \in Elements(h) PROVE tm[t] \in Nat /\ ~ Before(tm, t, h[1])
    BY <1>1, <2>3, Root DEF Elements, Clocks
  <2>4. QED
    BY <2>1, <2>2, <2>3 DEF Before, Earliest
<1>4. QED
  BY <1>2, <1>3
-----------------------------------------------------------------------------
(* The first loop of TimerTick.                                            *)
LEMMA AppendFacts ==
    ASSUME NEW r \in Seq(Timers), Once(r), NEW t \in Timers \ Elements(r)
    PROVE  /\ Append(r, t) \in Seq(Timers) /\ Once(Append(r, t))
           /\ Elements(Append(r, t)) = Elements(r) \cup {t}
<1> DEFINE g == Append(r, t)
<1>1. /\ g \in Seq(Timers) /\ Len(r) \in Nat /\ Len(g) = Len(r) + 1 /\ g[Len(r) + 1] = t
      /\ \A i \in 1 .. Len(r) : g[i] = r[i]
  OBVIOUS
<1>2. 1 .. Len(g) = (1 .. Len(r)) \cup {Len(r) + 1}
  BY <1>1
<1>3. \A i \in 1 .. Len(r) : r[i] # t
  BY DEF Elements
<1> HIDE DEF g
<1>4. Once(g)
  BY <1>1, <1>3 DEF Once
<1>5. ASSUME NEW x \in Elements(g) PROVE x \in Elements(r) \cup {t}
  BY <1>1, <1>2, <1>5 DEF Elements
<1>6. ASSUME NEW x \in Elements(r) \cup {t} PROVE x \in Elements(g)
  BY <1>1, <1>2, <1>6 DEF Elements
<1>7. Elements(g) = Elements(r) \cup {t}
  BY <1>5, <1>6
<1>8. QED
  BY <1>1, <1>4, <1>7 DEF g

LEMMA RemoveSound ==
    ASSUME NEW h, NEW r, NEW tm \in Clocks, Sound(h, r, tm), h # <<>>, tm[h[1]] # 0
    PROVE  /\ Sound(HeapRemove(h, tm), Append(r, h[1]), tm)
           /\ h[1] \in Elements(h) /\ h[1] \in Timers \ Elements(r)
           /\ Elements(HeapRemove(h, tm)) = Elements(h) \ {h[1]}
           /\ Elements(Append(r, h[1])) = Elements(r) \cup {h[1]}
<1> DEFINE g == HeapRemove(h, tm)
           s == Append(r, h[1])
<1>1. Holds(h, Elements(h)) /\ IsHeap(h, tm) /\ r \in Seq(Timers) /\ Once(r)
  BY DEF Sound
<1>2. h[1] \in Elements(h) /\ h[1] \in Timers \ Elements(r)
  <2>1. h \in Seq(Timers) /\ 1 \in 1 .. Len(h)
    BY <1>1 DEF Holds
  <2>2. h[1] \in Elements(h) /\ h[1] \in Timers
    BY <2>1 DEF Elements
  <2>3. QED
    BY <2>2 DEF Sound
<1>3. Holds(g, Elements(h) \ {h[1]}) /\ IsHeap(g, tm)
  BY <1>1, RemoveKeeps
<1>4. s \in Seq(Timers) /\ Once(s) /\ Elements(s) = Elements(r) \cup {h[1]}
  BY <1>1, <1>2, AppendFacts
<1> HIDE DEF g, s
<1>5. Elements(g) = Elements(h) \ {h[1]} /\ Holds(g, Elements(g))
  BY <1>3, SoundOf
<1>6. Sound(g, s, tm)
  BY <1>2, <1>3, <1>4, <1>5 DEF Sound
<1>7. QED
  BY <1>2, <1>4, <1>5, <1>6 DEF g, s

(* What the loop has done when h is left and r is taken.                   *)
InOrder(r, tm) == \A i \in 1 .. Len(r) - 1 : tm[r[i]] <= tm[r[i + 1]]
Taken(h, r, at) ==
    /\ Sound(h, r, time) /\ Elements(h) \cup Elements(r) = Elements(heap)
    /\ \A t \in Elements(h), u \in Elements(r) : ~ Before(time, t, u)
    /\ InOrder(r, time) /\ (r # <<>> \/ h = heap)

LEMMA TakeStep ==
    ASSUME time \in Clocks, NEW at \in Nat, NEW h, NEW r, Taken(h, r, at), Due(h, at)
    PROVE  Taken(HeapRemove(h, time), Append(r, h[1]), at)
<1> DEFINE g == HeapRemove(h, time)
           s == Append(r, h[1])
<1>1. h # <<>> /\ time[h[1]] # 0 /\ Sound(h, r, time)
  BY DEF Due, Taken
<1>2. /\ Sound(g, s, time) /\ h[1] \in Elements(h) /\ h[1] \in Timers
      /\ Elements(g) = Elements(h) \ {h[1]} /\ Elements(s) = Elements(r) \cup {h[1]}
  BY <1>1, RemoveSound
<1>3. Holds(h, Elements(h)) /\ IsHeap(h, time) /\ r \in Seq(Timers) /\ Elements(h) \subseteq Timers
  BY <1>1, SoundOf DEF Sound
<1>4. ASSUME NEW t \in Elements(h) PROVE ~ Before(time, t, h[1])
  BY <1>3, <1>4, Root DEF Elements
<1>5. /\ Len(r) \in Nat /\ Len(s) = Len(r) + 1 /\ s[Len(r) + 1] = h[1]
      /\ \A i \in 1 .. Len(r) : s[i] = r[i] /\ r[i] \in Elements(r) /\ r[i] \in Timers
  BY <1>3 DEF Elements
<1> HIDE DEF g, s
<1>6. s # <<>>
  BY <1>5
<1>7. \A t \in Elements(g), u \in Elements(s) : ~ Before(time, t, u)
  BY <1>2, <1>4 DEF Taken
<1>8. ASSUME NEW i \in 1 .. Len(s) - 1 PROVE time[s[i]] <= time[s[i + 1]]
  <2>1. CASE i = Len(r)
    <3>1. i \in 1 .. Len(r)
      BY <1>5, <1>8, <2>1
    <3>2. s[i] \in Elements(r) /\ s[i] \in Timers /\ s[i + 1] = h[1]
      BY <1>5, <2>1, <3>1
    <3>3. ~ Before(time, h[1], s[i]) /\ time[s[i]] # 0
      BY <1>1, <1>2, <3>2 DEF Taken, Sound
    <3>4. time[s[i]] \in Nat /\ time[h[1]] \in Nat
      BY <1>2, <3>2 DEF Clocks
    <3>5. QED
      BY <1>1, <3>2, <3>3, <3>4 DEF Before
  <2>2. CASE i # Len(r)
    <3>1. i \in 1 .. Len(r) - 1 /\ i \in 1 .. Len(r) /\ i + 1 \in 1 .. Len(r)
      BY <1>5, <1>8, <2>2
    <3>2. QED
      BY <1>5, <3>1 DEF Taken, InOrder
  <2>3. QED
    BY <2>1, <2>2
<1>9. InOrder(s, time)
  BY <1>8 DEF InOrder
<1>10. Elements(g) \cup Elements(s) = Elements(heap)
  BY <1>2 DEF Taken
<1>11. QED
  BY <1>2, <1>6, <1>7, <1>9, <1>10 DEF Taken, g, s

LEMMA TakeDueKeeps ==
    ASSUME time \in Clocks, Sound(heap, <<>>, time), NEW at \in Nat
    PROVE  Taken(TakeDue(at)[1], TakeDue(at)[2], at) /\ ~ Due(TakeDue(at)[1], at)
<1> DEFINE S == Seq(Timers) \X Seq(Timers)
           Goal(x) == <<HeapRemove(x[1], time), Append(x[2], x[1][1])>>
           D    == {x \in S : Due(x[1], at)}
           step == [x \in D |-> Goal(x)]
           rank == [x \in S |-> Len(x[1])]
           out  == [x \in S |-> x]
           I    == {x \in S : Taken(x[1], x[2], at)}
           Body(g) == [x \in S |-> IF Due(x[1], at) THEN g[Goal(x)] ELSE x]
           take == CHOOSE g : g = Body(g)
<1>1. TakeDue(at) = take[<<heap, <<>>>>]
  BY DEF TakeDue
<1>2. ASSUME NEW x \in D
      PROVE  Goal(x) \in S /\ Len(Goal(x)[1]) < Len(x[1])
  <2>1. x[1] \in Seq(Timers) /\ x[1] # <<>> /\ x[2] \in Seq(Timers)
    BY DEF Due
  <2>2. /\ HeapRemove(x[1], time) \in Seq(Timers) /\ Len(HeapRemove(x[1], time)) = Len(x[1]) - 1
        /\ Len(x[1]) \in Nat
    BY <2>1, RemoveShorter
  <2>3. x[1][1] \in Timers
    BY <2>1
  <2>4. Append(x[2], x[1][1]) \in Seq(Timers)
    BY <2>1, <2>3
  <2> DEFINE h == HeapRemove(x[1], time)
             r == Append(x[2], x[1][1])
  <2>5. h \in Seq(Timers) /\ r \in Seq(Timers) /\ Len(h) < Len(x[1])
    BY <2>2, <2>4
  <2> HIDE DEF h, r
  <2>6. <<h, r>> \in S /\ Len(<<h, r>>[1]) < Len(x[1])
    BY <2>5
  <2>7. QED
    BY <2>6 DEF h, r
<1>3. Loop(S, D, step, rank)
  <2>1. D \subseteq S /\ rank \in [S -> Nat]
    OBVIOUS
  <2>2. step \in [D -> S]
    BY <1>2
  <2>3. ASSUME NEW x \in D PROVE rank[step[x]] < rank[x]
    <3>1. step[x] = Goal(x) /\ Goal(x) \in S /\ Len(Goal(x)[1]) < Len(x[1])
      BY <1>2
    <3>2. rank[Goal(x)] = Len(Goal(x)[1]) /\ rank[x] = Len(x[1])
      BY <3>1
    <3> HIDE DEF rank, step, Goal
    <3>3. QED
      BY <3>1, <3>2
  <2>4. QED
    BY <2>1, <2>2, <2>3 DEF Loop
<1>4. ASSUME NEW g PROVE Unrolled(S, D, step, out, g) = Body(g)
  BY DEF Unrolled
<1>5. ASSUME NEW x \in I, x \in D PROVE step[x] \in I
  <2>1. Taken(Goal(x)[1], Goal(x)[2], at)
    BY <1>5, TakeStep
  <2>2. Goal(x) \in S /\ step[x] = Goal(x)
    BY <1>2, <1>5
  <2>3. QED
    BY <2>1, <2>2
<1>6. <<heap, <<>>>> \in I
  <2>1. heap \in Seq(Timers)
    BY DEF Sound, Holds
  <2>2. Elements(<<>>) = {}
    BY DEF Elements
  <2>3. Taken(heap, <<>>, at)
    BY <2>2 DEF Taken, InOrder
  <2> HIDE DEF Taken
  <2>4. <<>> \in Seq(Timers)
    BY EmptySeq
  <2> DEFINE x == <<heap, <<>>>>
  <2>5. x \in S /\ Taken(x[1], x[2], at)
    BY <2>1, <2>3, <2>4
  <2> HIDE DEF x
  <2>6. x \in I
    BY <2>5
  <2>7. QED
    BY <2>6 DEF x
<1>7. ASSUME NEW x \in I, x \notin D
      PROVE  /\ out[x] = x /\ Taken(x[1], x[2], at) /\ ~ Due(x[1], at)
  BY <1>7
<1> HIDE DEF D, step, rank, out, I, Body, Goal, S
<1>8. \E g : g = Unrolled(S, D, step, out, g)
  BY <1>3, LoopDefined
<1>9. \E g : g = Body(g)
  BY <1>4, <1>8
<1>10. take = Body(take)
  BY <1>9
<1> HIDE DEF take
<1>11. take = Unrolled(S, D, step, out, take)
  BY <1>4, <1>10
<1>12. I \in SUBSET S
  BY DEF I
<1>13. \A x \in I : \E e \in I \ D : take[x] = out[e]
  BY <1>3, <1>5, <1>11, <1>12, LoopKeeps
<1>14. QED
  BY <1>1, <1>6, <1>7, <1>13

(* What is not due when the loop ends is not due at all.                   *)
LEMMA NoneDue ==
    ASSUME time \in Clocks, NEW at \in Nat, NEW h, Holds(h, Elements(h)), IsHeap(h, time), ~ Due(h, at),
           NEW t \in Elements(h), time[t] # 0
    PROVE  time[t] > at
<1>1. h \in Seq(Timers) /\ Elements(h) \subseteq Timers /\ ~ Before(time, t, h[1])
  BY SoundOf, Root DEF Elements
<1>2. h # <<>> /\ h[1] \in Timers
  <2>1. h # <<>>
    BY DEF Elements
  <2>2. QED
    BY <1>1, <2>1
<1>3. time[t] \in Nat /\ time[h[1]] \in Nat
  BY <1>1, <1>2 DEF Clocks
<1>4. QED
  BY <1>1, <1>2, <1>3 DEF Before, Due
-----------------------------------------------------------------------------
(* The inductive invariant.                                                *)
Stays(h, r, tm, at) ==
    at # 0 => (\A t \in Elements(h) : tm[t] # 0 => tm[t] > at) /\ InOrder(r, tm)

HInv ==
    /\ TypeOK /\ now >= 1 /\ ticks <= now
    /\ Sound(heap, reinstate, time)
    /\ ticks = 0 /\ ~ panic => nexttrigger = NextTrigger(heap, time)
    /\ Stays(heap, reinstate, time, ticks)

(* The send timer runs only while a message is on its way, or for one that *)
(* Disconnect forgot.                                                      *)
SendInv ==
    /\ panic => forgotten
    /\ ~ forgotten /\ channel # "busy" => time[Send] = 0
    /\ channel # "closed" => Send \in Elements(heap) \cup Elements(reinstate)

LEMMA TypeFacts ==
    ASSUME TimerAssumption, TypeOK, now >= 1
    PROVE  /\ time \in Clocks /\ now \in Nat \ {0} /\ ticks \in Nat /\ nexttrigger \in Nat
           /\ heap \in Seq(Timers) /\ reinstate \in Seq(Timers)
           /\ \A at \in Times : at \in Nat /\ (at = 0 \/ at > now)
           /\ now + SendTimeout \in Nat /\ now + SendTimeout > now
           /\ Send \in Timers
           /\ \A t \in Timers, at \in Nat : [time EXCEPT ![t] = at] \in Clocks
<1>1. \A t \in Timers, at \in Nat : [time EXCEPT ![t] = at] \in Clocks
  BY DEF TypeOK, Clocks
<1>2. ASSUME NEW at \in Times PROVE at \in Nat /\ (at = 0 \/ at > now)
  BY <1>2 DEF TypeOK, Times, TimerAssumption
<1>3. QED
  BY <1>1, <1>2 DEF TypeOK, TimerAssumption, Clocks

(* Without a tick nothing is taken out.                                    *)
LEMMA RunningFacts ==
    ASSUME HInv, Running
    PROVE  reinstate = <<>> /\ ticks = 0 /\ ~ panic /\ Elements(reinstate) = {}
  BY DEF HInv, Running, TypeOK, Elements
LEMMA HInvFacts ==
    ASSUME TimerAssumption, HInv
    PROVE  /\ time \in Clocks /\ now \in Nat \ {0} /\ ticks \in Nat /\ nexttrigger \in Nat
           /\ heap \in Seq(Timers) /\ reinstate \in Seq(Timers)
           /\ \A at \in Times : at \in Nat /\ (at = 0 \/ at > now)
           /\ now + SendTimeout \in Nat /\ now + SendTimeout > now
           /\ Send \in Timers /\ Elements(heap) \subseteq Timers
           /\ \A t \in Timers, at \in Nat : [time EXCEPT ![t] = at] \in Clocks
           /\ Sound(heap, reinstate, time) /\ TypeOK /\ now >= 1
<1>1. TypeOK /\ now >= 1 /\ Sound(heap, reinstate, time)
  BY DEF HInv
<1>2. Elements(heap) \subseteq Timers
  BY <1>1, SoundOf DEF Sound
<1>3. QED
  BY <1>1, <1>2, TypeFacts

(* Between ticks the invariant is that the heap is sound.                  *)
LEMMA Rests ==
    ASSUME TimerAssumption, HInv, Running, UNCHANGED <<reinstate, now, ticks>>,
           Sound(heap', reinstate, time'), time' \in Clocks,
           nexttrigger' = NextTrigger(heap', time'),
           channel' \in {"closed", "idle", "busy"}, panic' \in BOOLEAN, forgotten' \in BOOLEAN
    PROVE  HInv'
<1>1. reinstate = <<>> /\ ticks = 0 /\ now \in Nat /\ now >= 1
  BY HInvFacts, RunningFacts
<1>2. nexttrigger' \in Nat
  BY NextTriggerFacts
<1>3. heap' \in Seq(Timers) /\ reinstate \in Seq(Timers)
  BY DEF Sound, Holds
<1>4. TypeOK'
  BY <1>1, <1>2, <1>3 DEF TypeOK, Clocks
<1>5. Stays(heap', reinstate', time', ticks')
  BY <1>1 DEF Stays
<1>6. Sound(heap', reinstate', time') /\ now' >= 1 /\ ticks' <= now'
  BY <1>1
<1>7. QED
  BY <1>4, <1>5, <1>6 DEF HInv

LEMMA TimerRescheduleKeeps ==
    ASSUME TimerAssumption, HInv, Running, NEW t \in Elements(heap), NEW at \in Nat,
           TimerReschedule(t, at), UNCHANGED <<reinstate, now, ticks>>,
           channel' \in {"closed", "idle", "busy"}, forgotten' \in BOOLEAN
    PROVE  HInv' /\ ~ panic' /\ time' = [time EXCEPT ![t] = at] /\ Elements(heap') = Elements(heap)
<1>1. /\ time' = [time EXCEPT ![t] = at] /\ heap' = HeapChange(heap, time', t) /\ panic' = panic
      /\ nexttrigger' = NextTrigger(heap', time')
  BY DEF TimerReschedule
<1>2. time \in Clocks /\ time' \in Clocks /\ Sound(heap, reinstate, time) /\ panic = FALSE
  BY <1>1, HInvFacts DEF Running, HInv, TypeOK
<1>0. \A u \in Timers : u # t => time'[u] = time[u]
  BY <1>1, <1>2 DEF Clocks
<1>3. Sound(heap', reinstate, time') /\ Elements(heap') = Elements(heap)
  <2>1. /\ Sound(HeapChange(heap, time', t), reinstate, time')
        /\ Elements(HeapChange(heap, time', t)) = Elements(heap)
    BY <1>0, <1>2, SetSound
  <2>2. QED
    BY <1>1, <2>1
<1>4. HInv'
  BY <1>1, <1>2, <1>3, Rests
<1>5. QED
  BY <1>1, <1>2, <1>3, <1>4

(* What every step keeps.                                                  *)
Kept == HInv' /\ (SendInv => SendInv')

LEMMA TimerNewKeeps ==
    ASSUME TimerAssumption, HInv, NEW t \in Timers, TimerNew(t)
    PROVE  Kept
<1>1. /\ Running /\ t \notin Elements(heap) /\ time' = [time EXCEPT ![t] = 0]
      /\ heap' = HeapAdd(heap, time', t) /\ nexttrigger' = NextTrigger(heap', time')
      /\ forgotten' = (forgotten /\ t # Send)
      /\ UNCHANGED <<reinstate, now, ticks, channel, panic>>
  BY DEF TimerNew, Settles
<1>2. time \in Clocks /\ time' \in Clocks /\ Sound(heap, reinstate, time)
  BY <1>1, HInvFacts
<1>0. \A u \in Timers : u # t => time'[u] = time[u]
  BY <1>1, <1>2 DEF Clocks
<1>3. Elements(reinstate) = {}
  BY <1>1, RunningFacts
<1>4. /\ reinstate \in Seq(Timers) /\ Once(reinstate) /\ t \in Timers \ Elements(heap)
      /\ Elements(reinstate) = Elements(reinstate) \ {t}
  BY <1>1, <1>2, <1>3 DEF Sound
<1>5. Sound(heap', reinstate, time') /\ Elements(heap') = Elements(heap) \cup {t}
  <2>1. /\ Sound(HeapAdd(heap, time', t), reinstate, time')
        /\ Elements(HeapAdd(heap, time', t)) = Elements(heap) \cup {t}
    BY <1>0, <1>2, <1>4, AddSound
  <2>2. QED
    BY <1>1, <2>1
<1>6. channel' \in {"closed", "idle", "busy"} /\ panic' \in BOOLEAN /\ forgotten' \in BOOLEAN
  BY <1>1 DEF HInv, TypeOK
<1>7. HInv'
  BY <1>1, <1>2, <1>5, <1>6, Rests
<1>8. time'[Send] = IF t = Send THEN 0 ELSE time[Send]
  BY <1>1, <1>2, HInvFacts DEF Clocks
<1>9. SendInv => SendInv'
  BY <1>1, <1>5, <1>8 DEF SendInv, Running
<1>10. QED
  BY <1>7, <1>9 DEF Kept

LEMMA TimerFreeKeeps ==
    ASSUME TimerAssumption, HInv, NEW t \in Timers, TimerFree(t)
    PROVE  Kept
<1>1. /\ Running /\ t \in Elements(heap) /\ time' = [time EXCEPT ![t] = 0]
      /\ heap' = HeapDelete(heap, time, t) /\ nexttrigger' = NextTrigger(heap', time')
      /\ channel' = (IF t = Send THEN "closed" ELSE channel)
      /\ forgotten' = (forgotten /\ t # Send)
      /\ UNCHANGED <<reinstate, now, ticks, panic>>
  BY DEF TimerFree, Settles
<1>2. time \in Clocks /\ time' \in Clocks /\ Sound(heap, reinstate, time)
  BY <1>1, HInvFacts
<1>3. Sound(heap', reinstate, time') /\ Elements(heap') = Elements(heap) \ {t}
  <2>1. /\ Sound(HeapDelete(heap, time, t), reinstate, time')
        /\ Elements(HeapDelete(heap, time, t)) = Elements(heap) \ {t}
    BY <1>1, <1>2, FreeSound
  <2>2. QED
    BY <1>1, <2>1
<1>4. channel' \in {"closed", "idle", "busy"} /\ panic' \in BOOLEAN /\ forgotten' \in BOOLEAN
  BY <1>1 DEF HInv, TypeOK
<1>5. HInv'
  BY <1>1, <1>2, <1>3, <1>4, Rests
<1>6. t = Send => time'[Send] = 0
  BY <1>1, <1>2 DEF Clocks
<1>7. t # Send => time'[Send] = time[Send]
  BY <1>1
<1>8. SendInv => SendInv'
  BY <1>1, <1>3, <1>6, <1>7 DEF SendInv, Running
<1>9. QED
  BY <1>5, <1>8 DEF Kept

LEMMA RescheduleKeeps ==
    ASSUME TimerAssumption, HInv, NEW t \in Timers, Reschedule(t)
    PROVE  Kept
<1>1. PICK at \in Times : TimerReschedule(t, at)
  BY DEF Reschedule
<1>2. /\ Running /\ t \in Elements(heap) /\ t # Send
      /\ UNCHANGED <<reinstate, now, ticks, channel, forgotten>>
  BY DEF Reschedule
<1>3. at \in Nat
  BY HInvFacts
<1>4. channel' \in {"closed", "idle", "busy"} /\ forgotten' \in BOOLEAN
  BY <1>2 DEF HInv, TypeOK
<1>5. HInv' /\ ~ panic' /\ time' = [time EXCEPT ![t] = at] /\ Elements(heap') = Elements(heap)
  BY <1>1, <1>2, <1>3, <1>4, TimerRescheduleKeeps
<1>6. time'[Send] = time[Send]
  BY <1>2, <1>5
<1>7. SendInv => SendInv'
  BY <1>2, <1>5, <1>6 DEF SendInv
<1>8. QED
  BY <1>5, <1>7 DEF Kept

LEMMA SendNextKeeps ==
    ASSUME TimerAssumption, HInv, SendNext
    PROVE  Kept
<1>1. /\ Running /\ Send \in Elements(heap) /\ channel' = "busy"
      /\ TimerReschedule(Send, now + SendTimeout) /\ UNCHANGED <<reinstate, now, ticks>>
      /\ forgotten' = FALSE
  BY DEF SendNext, Settles
<1>2. HInv' /\ ~ panic' /\ Elements(heap') = Elements(heap)
  <2>1. now + SendTimeout \in Nat
    BY HInvFacts
  <2>2. QED
    BY <1>1, <2>1, TimerRescheduleKeeps
<1>3. SendInv'
  BY <1>1, <1>2 DEF SendInv
<1>4. QED
  BY <1>2, <1>3 DEF Kept

LEMMA DataCleanupKeeps ==
    ASSUME TimerAssumption, HInv, DataCleanup
    PROVE  Kept
<1>1. /\ Running /\ Send \in Elements(heap) /\ channel' \in {"idle", "closed"}
      /\ TimerReschedule(Send, 0) /\ UNCHANGED <<reinstate, now, ticks>>
      /\ forgotten' = FALSE
  BY DEF DataCleanup, Settles
<1>2. HInv' /\ ~ panic' /\ time' = [time EXCEPT ![Send] = 0] /\ Elements(heap') = Elements(heap)
  BY <1>1, TimerRescheduleKeeps
<1>3. time'[Send] = 0
  BY <1>2, HInvFacts DEF Clocks
<1>4. SendInv'
  BY <1>1, <1>2, <1>3 DEF SendInv
<1>5. QED
  BY <1>2, <1>4 DEF Kept

(* Steps of the channel, and of the clock.                                 *)
LEMMA Passes ==
    ASSUME TimerAssumption, HInv, UNCHANGED <<heap, time, reinstate, nexttrigger, ticks, panic>>,
           channel' \in {"closed", "idle", "busy"}, forgotten' \in BOOLEAN,
           now' \in Nat, now <= now'
    PROVE  HInv'
<1>1. now \in Nat /\ ticks \in Nat
  BY HInvFacts
<1>2. now' >= 1 /\ ticks' <= now'
  BY <1>1 DEF HInv
<1>3. TypeOK'
  BY DEF HInv, TypeOK
<1>4. Sound(heap', reinstate', time') /\ Stays(heap', reinstate', time', ticks')
  BY DEF HInv
<1>5. ticks' = 0 /\ ~ panic' => nexttrigger' = NextTrigger(heap', time')
  BY DEF HInv
<1>6. QED
  BY <1>2, <1>3, <1>4, <1>5 DEF HInv

LEMMA ChannelKeeps ==
    ASSUME TimerAssumption, HInv, Connect \/ Disconnect \/ Clock
    PROVE  Kept
<1>1. now \in Nat /\ TypeOK
  BY HInvFacts
<1>2. CASE Connect
  <2>0. forgotten' \in BOOLEAN
    BY <1>1, <1>2 DEF Connect, TypeOK
  <2>1. HInv'
    BY <1>1, <1>2, <2>0, Passes DEF Connect
  <2>2. SendInv => SendInv'
    BY <1>2 DEF Connect, SendInv
  <2>3. QED
    BY <2>1, <2>2 DEF Kept
<1>3. CASE Disconnect
  <2>0. forgotten' \in BOOLEAN
    BY <1>3 DEF Disconnect
  <2>1. HInv'
    BY <1>1, <1>3, <2>0, Passes DEF Disconnect
  <2>2. SendInv => SendInv'
    BY <1>1, <1>3 DEF Disconnect, SendInv, Running, TypeOK
  <2>3. QED
    BY <2>1, <2>2 DEF Kept
<1>4. CASE Clock
  <2>1. HInv'
    <3>1. /\ UNCHANGED <<heap, time, reinstate, nexttrigger, ticks, channel, panic, forgotten>>
          /\ now' = now + 1
      BY <1>4 DEF Clock
    <3>2. /\ channel' \in {"closed", "idle", "busy"} /\ forgotten' \in BOOLEAN
          /\ now' \in Nat /\ now <= now'
      BY <1>1, <3>1 DEF TypeOK
    <3>3. QED
      BY <3>1, <3>2, Passes
  <2>2. SendInv => SendInv'
    BY <1>4 DEF Clock, SendInv
  <2>3. QED
    BY <2>1, <2>2 DEF Kept
<1>5. QED
  BY <1>2, <1>3, <1>4
LEMMA TimerTickKeeps ==
    ASSUME TimerAssumption, HInv, TimerTick
    PROVE  Kept
<1> DEFINE due == TakeDue(now)
<1>1. /\ Running /\ nexttrigger # 0 /\ nexttrigger <= now
      /\ heap' = due[1] /\ reinstate' = due[2]
      /\ ticks' = now /\ nexttrigger' = NextTrigger(heap', time)
      /\ UNCHANGED <<time, now, channel, panic, forgotten>>
  BY DEF TimerTick
<1> HIDE DEF due
<1>2. /\ time \in Clocks /\ now \in Nat \ {0} /\ TypeOK /\ Sound(heap, reinstate, time)
  BY HInvFacts
<1>3. reinstate = <<>> /\ ticks = 0 /\ ~ panic
  BY <1>1, RunningFacts
<1>4. Taken(heap', reinstate', now) /\ ~ Due(heap', now)
  BY <1>1, <1>2, <1>3, TakeDueKeeps DEF due
<1>5. Sound(heap', reinstate', time') /\ Sound(heap', reinstate', time)
  BY <1>1, <1>4 DEF Taken
<1>6. reinstate' # <<>>
  <2>1. nexttrigger = NextTrigger(heap, time)
    BY <1>3 DEF HInv
  <2>2. Due(heap, now)
    BY <1>1, <2>1 DEF Due, NextTrigger
  <2>3. QED
    BY <1>4, <2>2 DEF Taken
<1>7. heap' \in Seq(Timers) /\ reinstate' \in Seq(Timers) /\ nexttrigger' \in Nat
  BY <1>1, <1>2, <1>5, NextTriggerFacts DEF Sound, Holds
<1>8. TypeOK'
  BY <1>1, <1>2, <1>6, <1>7 DEF TypeOK
<1>9. Stays(heap', reinstate', time', ticks')
  <2>1. Holds(heap', Elements(heap')) /\ IsHeap(heap', time)
    BY <1>5 DEF Sound
  <2>2. ASSUME NEW t \in Elements(heap'), time[t] # 0 PROVE time[t] > now
    BY <1>2, <1>4, <2>1, <2>2, NoneDue
  <2>3. InOrder(reinstate', time)
    BY <1>4 DEF Taken
  <2>4. QED
    BY <1>1, <2>2, <2>3 DEF Stays
<1>10. HInv'
  <2>1. now' >= 1 /\ ticks' <= now' /\ ticks' # 0
    BY <1>1, <1>2
  <2>2. QED
    BY <1>5, <1>8, <1>9, <2>1 DEF HInv
<1>11. SendInv => SendInv'
  <2>1. Elements(heap') \cup Elements(reinstate') = Elements(heap) \cup Elements(reinstate)
    BY <1>1, <1>4, RunningFacts DEF Taken
  <2>2. QED
    BY <1>1, <2>1 DEF SendInv
<1>12. QED
  BY <1>10, <1>11 DEF Kept

(* The second loop: the first timer taken out goes back.                   *)
LEMMA TailFacts ==
    ASSUME NEW r \in Seq(Timers), Once(r), r # <<>>
    PROVE  /\ Tail(r) \in Seq(Timers) /\ Once(Tail(r)) /\ Head(r) \in Timers
           /\ Head(r) \in Elements(r) /\ Elements(Tail(r)) = Elements(r) \ {Head(r)}
           /\ Len(Tail(r)) = Len(r) - 1 /\ Len(r) \in Nat \ {0}
           /\ Tail(r) = <<>> <=> Len(r) = 1
           /\ \A i \in 1 .. Len(Tail(r)) : Tail(r)[i] = r[i + 1]
<1> DEFINE s == Tail(r)
<1>1. /\ s \in Seq(Timers) /\ Len(r) \in Nat \ {0} /\ Len(s) = Len(r) - 1
      /\ Head(r) = r[1] /\ r[1] \in Timers
      /\ \A i \in 1 .. Len(s) : s[i] = r[i + 1]
  OBVIOUS
<1> HIDE DEF s
<1>2. s = <<>> <=> Len(r) = 1
  BY <1>1, EmptySeq
<1>3. Once(s)
  BY <1>1 DEF Once
<1>4. Elements(s) = Elements(r) \ {r[1]}
  <2>1. ASSUME NEW x \in Elements(s) PROVE x \in Elements(r) \ {r[1]}
    <3>1. PICK i \in 1 .. Len(s) : x = s[i]
      BY DEF Elements
    <3>2. x = r[i + 1] /\ i + 1 \in 1 .. Len(r) /\ i + 1 # 1 /\ 1 \in 1 .. Len(r)
      BY <1>1, <3>1
    <3>3. QED
      BY <3>2 DEF Elements, Once
  <2>2. ASSUME NEW x \in Elements(r) \ {r[1]} PROVE x \in Elements(s)
    <3>1. PICK i \in 1 .. Len(r) : x = r[i] /\ i # 1
      BY DEF Elements
    <3>2. i - 1 \in 1 .. Len(s) /\ (i - 1) + 1 = i
      BY <1>1, <3>1
    <3>3. x = s[i - 1]
      BY <1>1, <3>1, <3>2
    <3>4. QED
      BY <3>2, <3>3 DEF Elements
  <2>3. QED
    BY <2>1, <2>2
<1>5. r[1] \in Elements(r)
  BY <1>1 DEF Elements
<1>6. QED
  BY <1>1, <1>2, <1>3, <1>4, <1>5 DEF s

(* What the trigger leaves, when it touches the send timer and when not.   *)
LEMMA TouchedSound ==
    ASSUME TimerAssumption, HInv, ticks # 0, NEW sends \in BOOLEAN,
           sends => Send \in Elements(heap),
           NEW touched, touched = (IF sends THEN [time EXCEPT ![Send] = now + SendTimeout] ELSE time),
           NEW changed, changed = (IF sends THEN HeapChange(heap, touched, Send) ELSE heap)
    PROVE  /\ touched \in Clocks /\ Sound(changed, reinstate, touched)
           /\ Elements(changed) = Elements(heap) /\ Stays(changed, reinstate, touched, ticks)
<1>1. /\ time \in Clocks /\ now \in Nat \ {0} /\ Sound(heap, reinstate, time)
      /\ Stays(heap, reinstate, time, ticks) /\ ticks \in Nat /\ ticks <= now
      /\ now + SendTimeout \in Nat /\ now + SendTimeout > now /\ Send \in Timers
  BY HInvFacts DEF HInv
<1>2. CASE ~ sends
  BY <1>1, <1>2
<1>3. CASE sends
  <2>1. touched = [time EXCEPT ![Send] = now + SendTimeout] /\ changed = HeapChange(heap, touched, Send)
    BY <1>3
  <2>2. touched \in Clocks /\ touched[Send] = now + SendTimeout
        /\ \A u \in Timers : u # Send => touched[u] = time[u]
    BY <1>1, <2>1 DEF Clocks
  <2>3. Sound(changed, reinstate, touched) /\ Elements(changed) = Elements(heap)
    <3>1. Send \in Elements(heap)
      BY <1>3
    <3>2. ASSUME NEW new \in Clocks, \A u \in Timers : u # Send => new[u] = time[u]
          PROVE  /\ Sound(HeapChange(heap, new, Send), reinstate, new)
                 /\ Elements(HeapChange(heap, new, Send)) = Elements(heap)
      BY <1>1, <3>1, <3>2, SetSound
    <3>3. /\ Sound(HeapChange(heap, touched, Send), reinstate, touched)
          /\ Elements(HeapChange(heap, touched, Send)) = Elements(heap)
      BY <2>2, <3>2
    <3>4. QED
      BY <2>1, <3>3
  <2>4. ASSUME NEW t \in Elements(changed), touched[t] # 0 PROVE touched[t] > ticks
    <3>1. t \in Elements(heap) /\ t \in Timers
      BY <2>3, <2>4, HInvFacts
    <3>2. CASE t = Send
      BY <1>1, <2>2, <3>2
    <3>3. CASE t # Send
      BY <1>1, <2>2, <2>4, <3>1, <3>3 DEF Stays
    <3>4. QED
      BY <3>2, <3>3
  <2>5. InOrder(reinstate, touched)
    <3>1. reinstate \in Seq(Timers) /\ Elements(heap) \cap Elements(reinstate) = {}
      BY <1>1 DEF Sound
    <3>2. \A i \in 1 .. Len(reinstate) : reinstate[i] \in Timers /\ reinstate[i] # Send
      <4>1. \A i \in 1 .. Len(reinstate) : /\ reinstate[i] \in Elements(reinstate)
                                            /\ reinstate[i] \in Timers
        BY <3>1 DEF Elements
      <4>2. QED
        BY <1>3, <3>1, <4>1
    <3>3. InOrder(reinstate, time)
      BY <1>1 DEF Stays
    <3>4. ASSUME NEW i \in 1 .. Len(reinstate) - 1
          PROVE  touched[reinstate[i]] <= touched[reinstate[i + 1]]
      <4>1. i \in 1 .. Len(reinstate) /\ i + 1 \in 1 .. Len(reinstate)
        BY <3>1
      <4>2. QED
        BY <2>2, <3>2, <3>3, <4>1 DEF InOrder
    <3>5. QED
      BY <3>4 DEF InOrder
  <2>6. QED
    BY <2>2, <2>3, <2>4, <2>5 DEF Stays
<1>4. QED
  BY <1>2, <1>3
(* A trigger that fails leaves everything to TimerTick's next timer.       *)
LEMMA TriggeredKeeps ==
    ASSUME TimerAssumption, HInv, reinstate # <<>>, NEW sends \in BOOLEAN, NEW at \in Times,
           sends => Send \in Elements(heap), Triggered(Head(reinstate), sends, at)
    PROVE  /\ time' \in Clocks /\ Sound(heap', reinstate', time')
           /\ Elements(heap') \cup Elements(reinstate') = Elements(heap) \cup Elements(reinstate)
           /\ Stays(heap', reinstate', time', ticks)
           /\ time'[Head(reinstate)] = Reinstated(at)
           /\ \A u \in Timers \ {Head(reinstate), Send} : time'[u] = time[u]
           /\ ~ sends /\ Send # Head(reinstate) => time'[Send] = time[Send]
           /\ panic' = panic /\ channel' = (IF sends THEN "busy" ELSE channel)
           /\ reinstate' = Tail(reinstate)
           /\ forgotten' = (forgotten /\ ~ (sends \/ Head(reinstate) = Send))
<1> DEFINE t == Head(reinstate)
           touched == IF sends THEN [time EXCEPT ![Send] = now + SendTimeout] ELSE time
           changed == IF sends THEN HeapChange(heap, touched, Send) ELSE heap
<1>1. /\ time' = [touched EXCEPT ![t] = Reinstated(at)] /\ heap' = HeapAdd(changed, time', t)
      /\ reinstate' = Tail(reinstate) /\ panic' = panic
      /\ channel' = (IF sends THEN "busy" ELSE channel)
      /\ forgotten' = (forgotten /\ ~ (sends \/ t = Send))
  BY DEF Triggered, Settles
<1>2. /\ time \in Clocks /\ now \in Nat \ {0} /\ ticks \in Nat /\ ticks <= now /\ ticks # 0
      /\ Sound(heap, reinstate, time) /\ reinstate \in Seq(Timers) /\ Once(reinstate) /\ Send \in Timers
  BY HInvFacts DEF HInv, TypeOK, Sound
<1>3. \A u \in Timers : u # Send => touched[u] = time[u]
  BY <1>2
<1>4. ~ sends => touched = time
  OBVIOUS
<1>5. /\ touched \in Clocks /\ Sound(changed, reinstate, touched)
      /\ Elements(changed) = Elements(heap) /\ Stays(changed, reinstate, touched, ticks)
  BY <1>2, TouchedSound
<1> HIDE DEF touched, changed
<1>6. /\ Tail(reinstate) \in Seq(Timers) /\ Once(Tail(reinstate)) /\ t \in Timers
      /\ t \in Elements(reinstate) /\ Elements(Tail(reinstate)) = Elements(reinstate) \ {t}
      /\ Len(Tail(reinstate)) = Len(reinstate) - 1 /\ Len(reinstate) \in Nat \ {0}
      /\ \A i \in 1 .. Len(Tail(reinstate)) : Tail(reinstate)[i] = reinstate[i + 1]
  BY <1>2, TailFacts
<1>7. t \in Timers \ Elements(changed)
  BY <1>5, <1>6 DEF Sound
<1> HIDE DEF t
<1>8. Reinstated(at) \in Nat /\ (Reinstated(at) = 0 \/ Reinstated(at) > ticks)
  <2>1. at \in Nat /\ Resolution \in Nat
    BY HInvFacts DEF TimerAssumption
  <2>2. QED
    BY <1>2, <2>1 DEF Reinstated, Later
<1>9. time' \in Clocks /\ time'[t] = Reinstated(at) /\ \A u \in Timers : u # t => time'[u] = touched[u]
  BY <1>1, <1>5, <1>7, <1>8 DEF Clocks
<1>10. /\ Sound(HeapAdd(changed, time', t), Tail(reinstate), time')
       /\ Elements(HeapAdd(changed, time', t)) = Elements(changed) \cup {t}
  <2> DEFINE s == Tail(reinstate)
  <2>1. s \in Seq(Timers) /\ Once(s) /\ Elements(s) = Elements(reinstate) \ {t}
    BY <1>6
  <2> HIDE DEF s
  <2>2. ASSUME NEW new \in Clocks, \A u \in Timers : u # t => new[u] = touched[u]
        PROVE  /\ Sound(HeapAdd(changed, new, t), s, new)
               /\ Elements(HeapAdd(changed, new, t)) = Elements(changed) \cup {t}
    BY <1>5, <1>7, <2>1, <2>2, AddSound
  <2>3. /\ Sound(HeapAdd(changed, time', t), s, time')
        /\ Elements(HeapAdd(changed, time', t)) = Elements(changed) \cup {t}
    BY <1>9, <2>2
  <2>4. QED
    BY <2>3 DEF s
<1>11. Sound(heap', reinstate', time') /\ Elements(heap') = Elements(heap) \cup {t}
  BY <1>1, <1>5, <1>10
<1>12. Elements(heap') \cup Elements(reinstate') = Elements(heap) \cup Elements(reinstate)
  BY <1>1, <1>6, <1>11
<1>13. ASSUME NEW u \in Elements(heap'), time'[u] # 0 PROVE time'[u] > ticks
  <2>1. CASE u = t
    BY <1>8, <1>9, <1>13, <2>1
  <2>2. CASE u # t
    <3>1. u \in Elements(changed) /\ u \in Timers
      BY <1>5, <1>11, <2>2, HInvFacts
    <3>2. time'[u] = touched[u]
      BY <1>9, <2>2, <3>1
    <3>3. QED
      BY <1>2, <1>5, <1>13, <3>1, <3>2 DEF Stays
  <2>3. QED
    BY <2>1, <2>2
<1>14. InOrder(reinstate', time')
  <2>1. InOrder(reinstate, touched)
    BY <1>2, <1>5 DEF Stays
  <2>2. \A i \in 1 .. Len(Tail(reinstate)) : Tail(reinstate)[i] \in Timers /\ Tail(reinstate)[i] # t
    <3>1. \A i \in 1 .. Len(Tail(reinstate)) : Tail(reinstate)[i] \in Elements(Tail(reinstate))
      BY DEF Elements
    <3>2. QED
      BY <1>6, <3>1
  <2>3. ASSUME NEW i \in 1 .. Len(Tail(reinstate)) - 1
        PROVE  time'[Tail(reinstate)[i]] <= time'[Tail(reinstate)[i + 1]]
    <3>1. /\ i \in 1 .. Len(Tail(reinstate)) /\ i + 1 \in 1 .. Len(Tail(reinstate))
          /\ i + 1 \in 1 .. Len(reinstate) - 1
      BY <1>6
    <3>2. touched[reinstate[i + 1]] <= touched[reinstate[(i + 1) + 1]]
      BY <2>1, <3>1 DEF InOrder
    <3>3. QED
      BY <1>6, <1>9, <2>2, <3>1, <3>2
  <2>4. QED
    BY <1>1, <2>3 DEF InOrder
<1>15. Stays(heap', reinstate', time', ticks)
  BY <1>13, <1>14 DEF Stays
<1>16. \A u \in Timers \ {t, Send} : time'[u] = time[u]
  BY <1>3, <1>9
<1>17. ~ sends /\ Send # t => time'[Send] = time[Send]
  BY <1>2, <1>4, <1>9
<1>18. QED
  BY <1>1, <1>9, <1>11, <1>12, <1>15, <1>16, <1>17 DEF t

LEMMA TriggerKeeps ==
    ASSUME TimerAssumption, HInv, NEW sends \in BOOLEAN, NEW at \in Times, Trigger(sends, at)
    PROVE  Kept
<1> DEFINE t == Head(reinstate)
<1>1. /\ ~ panic /\ reinstate # <<>> /\ (sends => t \in Senders /\ channel = "idle")
      /\ (t = Send => at = 0) /\ Triggered(t, sends, at)
      /\ ticks' = (IF Len(reinstate) = 1 /\ ~ panic' THEN 0 ELSE ticks)
      /\ nexttrigger' = (IF ticks' = 0 THEN NextTrigger(heap', time') ELSE nexttrigger)
      /\ now' = now
  BY DEF Trigger
<1>2. /\ time \in Clocks /\ now \in Nat \ {0} /\ ticks \in Nat /\ ticks <= now /\ ticks # 0
      /\ nexttrigger \in Nat /\ Sound(heap, reinstate, time) /\ reinstate \in Seq(Timers)
      /\ Once(reinstate) /\ TypeOK
  BY <1>1, HInvFacts DEF HInv, TypeOK, Sound
<1>3. CASE sends /\ Send \notin Elements(heap)
  <2>1. panic' = TRUE /\ UNCHANGED <<heap, time, reinstate, channel, forgotten>>
    BY <1>1, <1>3 DEF Triggered
  <2>2. ticks' = ticks /\ nexttrigger' = nexttrigger
    BY <1>1, <1>2, <2>1
  <2>3. TypeOK'
    BY <1>1, <1>2, <2>1, <2>2 DEF TypeOK
  <2>4. HInv'
    <3>1. Sound(heap', reinstate', time') /\ Stays(heap', reinstate', time', ticks')
      BY <2>1, <2>2 DEF HInv
    <3>2. now' >= 1 /\ ticks' <= now' /\ ticks' # 0
      BY <1>1, <1>2, <2>2
    <3>3. QED
      BY <2>3, <3>1, <3>2 DEF HInv
  <2>5. SendInv => forgotten
    <3> SUFFICES ASSUME SendInv, ~ forgotten PROVE FALSE
      OBVIOUS
    <3>1. time[Send] = 0 /\ Send \in Elements(reinstate)
      BY <1>1, <1>3 DEF SendInv
    <3>2. QED
      BY <1>2, <3>1 DEF Sound
  <2>6. SendInv => SendInv'
    BY <2>1, <2>5 DEF SendInv
  <2>7. QED
    BY <2>4, <2>6 DEF Kept
<1>4. CASE sends => Send \in Elements(heap)
  <2>1. /\ time' \in Clocks /\ Sound(heap', reinstate', time')
        /\ Elements(heap') \cup Elements(reinstate') = Elements(heap) \cup Elements(reinstate)
        /\ Stays(heap', reinstate', time', ticks)
        /\ time'[t] = Reinstated(at)
        /\ ~ sends /\ Send # t => time'[Send] = time[Send]
        /\ panic' = panic /\ channel' = (IF sends THEN "busy" ELSE channel)
        /\ reinstate' = Tail(reinstate)
        /\ forgotten' = (forgotten /\ ~ (sends \/ t = Send))
    BY <1>1, <1>4, TriggeredKeeps
  <2>2. /\ Tail(reinstate) \in Seq(Timers) /\ Len(reinstate) \in Nat \ {0}
        /\ Tail(reinstate) = <<>> <=> Len(reinstate) = 1
    BY <1>1, <1>2, TailFacts
  <2>3. NextTrigger(heap', time') \in Nat
    BY <2>1, NextTriggerFacts
  <2>4. (ticks' = 0 <=> Tail(reinstate) = <<>>) /\ ticks' \in {0, ticks}
    BY <1>1, <1>2, <2>1, <2>2
  <2>5. TypeOK'
    <3>1. heap' \in Seq(Timers)
      BY <2>1 DEF Sound, Holds
    <3>2. channel' \in {"closed", "idle", "busy"} /\ panic' \in BOOLEAN /\ forgotten' \in BOOLEAN
      BY <1>2, <2>1 DEF TypeOK
    <3>3. time' \in [Timers -> Nat]
      BY <2>1 DEF Clocks
    <3>4. nexttrigger' \in Nat /\ now' \in Nat /\ ticks' \in Nat
      BY <1>1, <1>2, <2>3, <2>4
    <3>5. reinstate' \in Seq(Timers) /\ (reinstate' # <<>> <=> ticks' # 0)
      BY <2>1, <2>2, <2>4
    <3>6. QED
      BY <3>1, <3>2, <3>3, <3>4, <3>5 DEF TypeOK
  <2>6. HInv'
    <3>1. Stays(heap', reinstate', time', ticks')
      BY <2>1, <2>4 DEF Stays
    <3>2. now' >= 1 /\ ticks' <= now'
      BY <1>1, <1>2, <2>4
    <3>3. ticks' = 0 => nexttrigger' = NextTrigger(heap', time')
      BY <1>1
    <3>4. QED
      BY <2>1, <2>5, <3>1, <3>2, <3>3 DEF HInv
  <2>7. SendInv => SendInv'
    <3> SUFFICES ASSUME SendInv PROVE SendInv'
      OBVIOUS
    <3>1. ~ panic' /\ (channel' # "closed" => Send \in Elements(heap') \cup Elements(reinstate'))
      <4>1. sends => channel # "closed"
        BY <1>1
      <4>2. QED
        BY <1>1, <2>1, <4>1 DEF SendInv
    <3>2. ~ forgotten' /\ channel' # "busy" => time'[Send] = 0
      <4>1. CASE sends
        BY <2>1, <4>1
      <4>2. CASE ~ sends /\ t = Send
        BY <1>1, <2>1, <4>2 DEF Reinstated
      <4>3. CASE ~ sends /\ t # Send
        BY <2>1, <4>3 DEF SendInv
      <4>4. QED
        BY <4>1, <4>2, <4>3
    <3>3. QED
      BY <3>1, <3>2 DEF SendInv
  <2>8. QED
    BY <2>6, <2>7 DEF Kept
<1>5. QED
  BY <1>3, <1>4
-----------------------------------------------------------------------------
LEMMA NextKeeps ==
    ASSUME TimerAssumption, HInv, [Next]_vars
    PROVE  Kept
<1>1. CASE UNCHANGED vars
  <2>1. UNCHANGED <<heap, time, reinstate, nexttrigger, now, ticks, channel, panic, forgotten>>
    BY <1>1 DEF vars
  <2>2. now \in Nat /\ channel \in {"closed", "idle", "busy"} /\ forgotten \in BOOLEAN
    BY HInvFacts DEF TypeOK
  <2>3. HInv'
    BY <2>1, <2>2, Passes
  <2>4. SendInv => SendInv'
    BY <2>1 DEF SendInv
  <2>5. QED
    BY <2>3, <2>4 DEF Kept
<1>2. ASSUME NEW t \in Timers, TimerNew(t) \/ TimerFree(t) \/ Reschedule(t) PROVE Kept
  BY <1>2, TimerNewKeeps, TimerFreeKeeps, RescheduleKeeps
<1>3. CASE SendNext
  BY <1>3, SendNextKeeps
<1>4. CASE DataCleanup
  BY <1>4, DataCleanupKeeps
<1>5. CASE Connect \/ Disconnect \/ Clock
  BY <1>5, ChannelKeeps
<1>6. CASE TimerTick
  BY <1>6, TimerTickKeeps
<1>7. ASSUME NEW sends \in BOOLEAN, NEW at \in Times, Trigger(sends, at) PROVE Kept
  BY <1>7, TriggerKeeps
<1>8. QED
  BY <1>1, <1>2, <1>3, <1>4, <1>5, <1>6, <1>7 DEF Next

LEMMA InitKeeps ==
    ASSUME TimerAssumption, Init
    PROVE  HInv /\ SendInv
<1>1. <<>> \in Seq(Timers) /\ Elements(<<>>) = {}
  BY EmptySeq DEF Elements
<1>2. TypeOK
  <2>1. heap = <<>> /\ reinstate = <<>> /\ ticks = 0 /\ now = 1 /\ nexttrigger = 0 /\ panic = FALSE
        /\ forgotten = FALSE
    BY DEF Init
  <2>2. heap \in Seq(Timers) /\ reinstate \in Seq(Timers)
    BY <1>1, <2>1
  <2>3. time \in [Timers -> Nat] /\ channel \in {"closed", "idle", "busy"}
    BY DEF Init
  <2>4. nexttrigger \in Nat /\ now \in Nat /\ ticks \in Nat
    BY <2>1
  <2>5. (reinstate # <<>> <=> ticks # 0) /\ panic \in BOOLEAN /\ forgotten \in BOOLEAN
    BY <2>1
  <2>6. QED
    BY <2>2, <2>3, <2>4, <2>5 DEF TypeOK
<1>3. Sound(heap, reinstate, time)
  BY <1>1 DEF Init, Sound, Holds, Once, IsHeap
<1>4. HInv
  BY <1>2, <1>3 DEF Init, HInv, NextTrigger, Stays
<1>5. SendInv
  BY DEF Init, SendInv, TimerAssumption
<1>6. QED
  BY <1>4, <1>5

LEMMA HInvOrdered ==
    ASSUME TimerAssumption, HInv
    PROVE  HeapOrdered /\ OncePerTick
<1>1. /\ time \in Clocks /\ Sound(heap, reinstate, time) /\ TypeOK /\ Elements(heap) \subseteq Timers
      /\ reinstate \in Seq(Timers) /\ heap \in Seq(Timers)
  BY HInvFacts
<1>2. Armed = {t \in Elements(heap) : time[t] # 0} /\ Earliest(heap, time, NextTrigger(heap, time))
  BY <1>1, NextTriggerFacts DEF Armed
<1>3. ticks = 0 /\ ~ panic =>
          IF Armed = {} THEN nexttrigger = 0
          ELSE /\ \A t \in Armed : nexttrigger <= time[t]
               /\ \E t \in Armed : nexttrigger = time[t]
  BY <1>2 DEF HInv, Earliest
<1>4. HeapOrdered
  BY <1>1, <1>3 DEF HeapOrdered, Sound, IsHeap
<1>5. NoneLost
  BY <1>1 DEF NoneLost, Sound, Holds, Once
<1>6. OncePerTick
  BY <1>2, <1>5 DEF OncePerTick, HInv, Stays, InOrder
<1>7. QED
  BY <1>4, <1>6

(* The inductive invariant, whatever order timers are set, canceled,       *)
(* triggered and freed in.                                                 *)
THEOREM Invariant == Spec => []HInv
<1>1. Init => HInv
  BY TimerAssumption, InitKeeps
<1>2. HInv /\ [Next]_vars => HInv'
  BY TimerAssumption, NextKeeps DEF Kept
<1>3. QED
  BY <1>1, <1>2, PTL DEF Spec

(* The heap of Heap.c stays ordered, and between two ticks g_nexttrigger   *)
(* is the earliest time of an armed timer.                                 *)
THEOREM HeapTheorem == Spec => []HeapOrdered
<1>1. HInv => HeapOrdered
  BY TimerAssumption, HInvOrdered
<1>2. QED
  BY <1>1, Invariant, PTL

(* A timer is in the heap or among the ones that TimerTick took out, once, *)
(* and none of those left is due in this tick.                             *)
THEOREM TickTheorem == Spec => []OncePerTick
<1>1. HInv => OncePerTick
  BY TimerAssumption, HInvOrdered
<1>2. QED
  BY <1>1, Invariant, PTL

(* No trigger sets a timer that TimerTick has taken out, except the send   *)
(* timer of a message that Disconnect forgot: nothing else the program     *)
(* does makes HeapChange's assertion fail.                                 *)
THEOREM AssertTheorem == Spec => []AssertsHold
<1>1. Init => HInv /\ SendInv
  BY TimerAssumption, InitKeeps
<1>2. HInv /\ SendInv /\ [Next]_vars => HInv' /\ SendInv'
  BY TimerAssumption, NextKeeps DEF Kept
<1>3. SendInv => AssertsHold
  BY DEF SendInv, AssertsHold
<1>4. QED
  BY <1>1, <1>2, <1>3, PTL DEF Spec
=============================================================================
