---------------------------- MODULE DevListProofs ----------------------------
(***************************************************************************)
(* For any number of hosts and records: the list in memory is what a       *)
(* restart would load, the device that a dialog or BTConnect holds is in   *)
(* it, and the selection follows its device.                               *)
(*                                                                         *)
(* First the order of the records, which determines the list, then what    *)
(* each operation of the list does to it, then the actions.                *)
(***************************************************************************)
EXTENDS DevList, FiniteSetTheorems, TLAPS

RecordType == [uid : 1 .. MaxUID, addr : Addrs, enc : BOOLEAN, deleted : BOOLEAN]
EntryType  == [uid : 1 .. MaxUID, addr : Addrs, enc : BOOLEAN]

(* A set of numbers that is not empty has a least one.                     *)
LEMMA Least ==
    ASSUME NEW T \in SUBSET Nat, T # {}
    PROVE  \E x \in T : \A y \in T : x <= y
<1> DEFINE R == OpToRel(<, Nat)
<1>1. IsWellFoundedOn(R, Nat)
  BY NatLessThanWellFounded
<1>2. \A x, y \in Nat : <<y, x>> \in R <=> y < x
  BY DEF OpToRel
<1> HIDE DEF R
<1>3. PICK x \in T : \A y \in T : ~ (<<y, x>> \in R)
  BY <1>1, WFMin
<1>4. ASSUME NEW y \in T PROVE x <= y
  <2>1. x \in Nat /\ y \in Nat /\ ~ (<<y, x>> \in R)
    BY <1>3
  <2>2. ~ (y < x)
    BY <1>2, <2>1
  <2>3. QED
    BY <2>1, <2>2
<1>5. QED
  BY <1>4

(* A set has one increasing enumeration.                                   *)
Enumerates(f, n, K) ==
    /\ f \in [1 .. n -> K]
    /\ \A i, j \in 1 .. n : i < j => f[i] < f[j]
    /\ \A k \in K : \E i \in 1 .. n : f[i] = k

LEMMA NeverBehind ==
    ASSUME NEW K \in SUBSET Nat, NEW n \in Nat, NEW f, NEW g,
           Enumerates(f, n, K), Enumerates(g, n, K),
           NEW x \in 1 .. n, \A i \in 1 .. n : i < x => f[i] = g[i]
    PROVE  ~ (f[x] < g[x])
<1> SUFFICES ASSUME f[x] < g[x] PROVE FALSE
  OBVIOUS
<1>1. /\ \A i \in 1 .. n : f[i] \in Nat /\ g[i] \in Nat /\ f[i] \in K
      /\ \A i, j \in 1 .. n : i < j => f[i] < f[j] /\ g[i] < g[j]
  BY DEF Enumerates
<1>2. PICK j \in 1 .. n : g[j] = f[x]
  BY <1>1 DEF Enumerates
<1>3. x \in Int /\ j \in Int
  OBVIOUS
<1>4. CASE j < x
  BY <1>1, <1>2, <1>3, <1>4
<1>5. CASE x < j
  BY <1>1, <1>2, <1>3, <1>5
<1>6. CASE x = j
  BY <1>1, <1>2, <1>6
<1>7. QED
  BY <1>3, <1>4, <1>5, <1>6

LEMMA OneOrder ==
    ASSUME NEW K \in SUBSET Nat, NEW n \in Nat, NEW f, NEW g,
           Enumerates(f, n, K), Enumerates(g, n, K)
    PROVE  f = g
<1> DEFINE T == {i \in 1 .. n : f[i] # g[i]}
<1>1. /\ f \in [1 .. n -> K] /\ g \in [1 .. n -> K]
      /\ \A i \in 1 .. n : f[i] \in Nat /\ g[i] \in Nat
  BY DEF Enumerates
<1>2. ASSUME T # {} PROVE FALSE
  <2>1. T \in SUBSET Nat
    OBVIOUS
  <2>2. PICK x \in T : \A y \in T : x <= y
    BY <1>2, <2>1, Least
  <2>3. x \in 1 .. n /\ f[x] # g[x] /\ \A i \in 1 .. n : i < x => f[i] = g[i]
    BY <2>2
  <2>4. ~ (f[x] < g[x]) /\ ~ (g[x] < f[x])
    BY <2>3, NeverBehind
  <2>5. QED
    BY <1>1, <2>3, <2>4
<1>3. \A i \in 1 .. n : f[i] = g[i]
  BY <1>2
<1>4. QED
  BY <1>1, <1>3

(* So many different places are all the places there are.                  *)
LEMMA AllPlaces ==
    ASSUME NEW K \in SUBSET Nat, IsFiniteSet(K), NEW n \in Nat, Cardinality(K) = n,
           NEW f \in [1 .. n -> K], \A i, j \in 1 .. n : i < j => f[i] < f[j]
    PROVE  Enumerates(f, n, K)
<1>1. \A i, j \in 1 .. n : f[i] = f[j] => i = j
  <2> SUFFICES ASSUME NEW i \in 1 .. n, NEW j \in 1 .. n, f[i] = f[j], i # j PROVE FALSE
    OBVIOUS
  <2>0. f[i] \in K /\ f[j] \in K
    OBVIOUS
  <2>1. f[i] \in Nat /\ f[j] \in Nat
    BY <2>0
  <2>2. i \in Int /\ j \in Int
    OBVIOUS
  <2>3. (i < j => f[i] < f[j]) /\ (j < i => f[j] < f[i])
    OBVIOUS
  <2>4. QED
    BY <2>1, <2>2, <2>3
<1>2. f \in Injection(1 .. n, K)
  BY <1>1 DEF Injection, IsInjective
<1>3. Cardinality(1 .. n) = n
  <2>1. n \in Int /\ 1 \in Int
    OBVIOUS
  <2>2. Cardinality(1 .. n) = IF 1 > n THEN 0 ELSE n - 1 + 1
    BY <2>1, FS_Interval, Zenon
  <2>3. (IF 1 > n THEN 0 ELSE n - 1 + 1) = n
    OBVIOUS
  <2>4. QED
    BY <2>2, <2>3
<1>4. f \in Surjection(1 .. n, K)
  BY <1>2, <1>3, FS_Injection
<1>5. \A k \in K : \E i \in 1 .. n : f[i] = k
  BY <1>4 DEF Surjection
<1>6. QED
  BY <1>5 DEF Enumerates
-----------------------------------------------------------------------------
(* The records are numbered from 1, and the list l has the live ones of    *)
(* the database rs in order.                                               *)
Numbered(rs) == \A r \in 1 .. Len(rs) : rs[r].uid = r

Lists(l, rs) ==
    /\ \A i, j \in 1 .. Len(l) : i < j => l[i].uid < l[j].uid
    /\ \A i \in 1 .. Len(l) : l[i].uid \in Live(rs) /\ l[i] = Entry(rs[l[i].uid])
    /\ \A r \in Live(rs) : \E i \in 1 .. Len(l) : l[i].uid = r

(* There is only one such list, and it is the one that DevListInit loads.  *)
LEMMA ListsLoaded ==
    ASSUME NEW rs \in Seq(RecordType), NEW l \in Seq(EntryType), Lists(l, rs)
    PROVE  Loaded(rs) = l /\ Len(l) <= Len(rs)
<1> DEFINE K == Live(rs)
           n == Len(l)
           f == [i \in 1 .. n |-> l[i].uid]
<1>1. K \in SUBSET Nat /\ K \subseteq 1 .. Len(rs) /\ n \in Nat /\ Len(rs) \in Nat
  BY DEF Live
<1>2. /\ \A i \in 1 .. n : l[i].uid \in K /\ l[i] = Entry(rs[l[i].uid])
      /\ \A i, j \in 1 .. n : i < j => l[i].uid < l[j].uid
      /\ \A k \in K : \E i \in 1 .. n : l[i].uid = k
  BY DEF Lists
<1> HIDE DEF K, n
<1>3. Enumerates(f, n, K)
  BY <1>2 DEF Enumerates
<1>4. /\ \A i \in 1 .. n : f[i] = l[i].uid
      /\ f \in [1 .. n -> K]
  BY <1>2
<1> HIDE DEF f
<1>5. IsFiniteSet(1 .. Len(rs)) /\ Cardinality(1 .. Len(rs)) = Len(rs)
  <2>1. Len(rs) \in Int /\ 1 \in Int
    BY <1>1
  <2>2. /\ IsFiniteSet(1 .. Len(rs))
        /\ Cardinality(1 .. Len(rs)) = IF 1 > Len(rs) THEN 0 ELSE Len(rs) - 1 + 1
    BY <2>1, FS_Interval, Zenon
  <2>3. (IF 1 > Len(rs) THEN 0 ELSE Len(rs) - 1 + 1) = Len(rs)
    BY <1>1
  <2>4. QED
    BY <2>2, <2>3
<1>6. IsFiniteSet(K) /\ Cardinality(K) <= Len(rs)
  BY <1>1, <1>5, FS_Subset
<1>7. Cardinality(K) = n
  <2>1. \A i, j \in 1 .. n : f[i] = f[j] => i = j
    <3> SUFFICES ASSUME NEW i \in 1 .. n, NEW j \in 1 .. n, f[i] = f[j], i # j PROVE FALSE
      OBVIOUS
    <3>0. f[i] \in K /\ f[j] \in K
      BY <1>4
    <3>1. f[i] \in Nat /\ f[j] \in Nat
      BY <1>1, <3>0
    <3>2. i \in Int /\ j \in Int
      OBVIOUS
    <3>3. (i < j => f[i] < f[j]) /\ (j < i => f[j] < f[i])
      BY <1>3 DEF Enumerates
    <3>4. QED
      BY <3>1, <3>2, <3>3
  <2>2. f \in Bijection(1 .. n, K)
    BY <1>3, <2>1 DEF Enumerates, Bijection, Injection, Surjection, IsInjective
  <2>3. ExistsBijection(1 .. n, K)
    BY <2>2 DEF ExistsBijection
  <2>4. QED
    BY <1>1, <2>3, FS_CountingElements
<1>8. Place(rs) \in [1 .. n -> K] /\ \A i, j \in 1 .. n : i < j => Place(rs)[i] < Place(rs)[j]
  <2>1. Place(rs) = CHOOSE e \in [1 .. n -> K] : \A i, j \in 1 .. n : i < j => e[i] < e[j]
    BY <1>7 DEF Place, K
  <2>2. \E e \in [1 .. n -> K] : \A i, j \in 1 .. n : i < j => e[i] < e[j]
    BY <1>3 DEF Enumerates
  <2>3. QED
    BY <2>1, <2>2
<1>9. Place(rs) = f
  BY <1>1, <1>3, <1>6, <1>7, <1>8, AllPlaces, OneOrder
<1>10. Loaded(rs) = [i \in 1 .. n |-> Entry(rs[f[i]])]
  BY <1>7, <1>9 DEF Loaded, K
<1>11. l = [i \in 1 .. n |-> l[i]]
  BY DEF n
<1>12. Loaded(rs) = l
  BY <1>2, <1>4, <1>10, <1>11
<1>13. QED
  BY <1>6, <1>7, <1>12 DEF n
-----------------------------------------------------------------------------
(* What the operations do to a database and its list.  First the live      *)
(* records.                                                                *)
LEMMA LiveAppend ==
    ASSUME NEW rs \in Seq(RecordType), NEW r, ~ r.deleted
    PROVE  Live(Append(rs, r)) = Live(rs) \cup {Len(rs) + 1}
<1> DEFINE ps == Append(rs, r)
<1>1. /\ Len(rs) \in Nat /\ Len(ps) = Len(rs) + 1 /\ ps[Len(rs) + 1] = r
      /\ \A i \in 1 .. Len(rs) : ps[i] = rs[i]
  OBVIOUS
<1> HIDE DEF ps
<1>2. Live(ps) = Live(rs) \cup {Len(rs) + 1}
  BY <1>1 DEF Live
<1>3. QED
  BY <1>2 DEF ps

LEMMA Increasing ==
    ASSUME NEW l \in Seq(EntryType), NEW rs, Lists(l, rs),
           NEW i \in 1 .. Len(l), NEW j \in 1 .. Len(l), l[i].uid = l[j].uid
    PROVE  i = j
<1>1. l[i] \in EntryType /\ l[j] \in EntryType /\ i \in Int /\ j \in Int
  OBVIOUS
<1>2. l[i].uid \in Nat /\ l[j].uid \in Nat
  BY <1>1, DevListAssumption DEF EntryType
<1>3. (i < j => l[i].uid < l[j].uid) /\ (j < i => l[j].uid < l[i].uid)
  BY DEF Lists
<1>4. QED
  BY <1>1, <1>2, <1>3

(* A device that is new goes to the end of both.                           *)
LEMMA ListsAppend ==
    ASSUME NEW rs \in Seq(RecordType), NEW l \in Seq(EntryType), Lists(l, rs),
           NEW e \in EntryType, NEW r \in RecordType, ~ r.deleted, Entry(r) = e,
           e.uid = Len(rs) + 1
    PROVE  Lists(Append(l, e), Append(rs, r))
<1> DEFINE ps == Append(rs, r)
           m == Append(l, e)
<1>1. /\ Len(rs) \in Nat /\ Len(ps) = Len(rs) + 1 /\ ps[Len(rs) + 1] = r
      /\ \A i \in 1 .. Len(rs) : ps[i] = rs[i]
  OBVIOUS
<1>2. /\ Len(l) \in Nat /\ Len(m) = Len(l) + 1 /\ m[Len(l) + 1] = e
      /\ \A i \in 1 .. Len(l) : m[i] = l[i]
  OBVIOUS
<1>3. Live(ps) = Live(rs) \cup {Len(rs) + 1}
  BY LiveAppend
<1> HIDE DEF ps, m
<1>4. \A i \in 1 .. Len(l) : l[i].uid \in 1 .. Len(rs) /\ l[i] = Entry(rs[l[i].uid])
  BY DEF Lists, Live
<1>5. \A i \in 1 .. Len(m) : i \in 1 .. Len(l) \/ i = Len(l) + 1
  BY <1>2
<1>6. \A i, j \in 1 .. Len(m) : i < j => m[i].uid < m[j].uid
  <2> SUFFICES ASSUME NEW i \in 1 .. Len(m), NEW j \in 1 .. Len(m), i < j
               PROVE  m[i].uid < m[j].uid
    OBVIOUS
  <2>1. i \in 1 .. Len(l)
    BY <1>2
  <2>2. CASE j \in 1 .. Len(l)
    BY <1>2, <2>1, <2>2 DEF Lists
  <2>3. CASE j = Len(l) + 1
    <3>1. m[j].uid = Len(rs) + 1 /\ m[i].uid \in 1 .. Len(rs)
      BY <1>2, <1>4, <2>1, <2>3
    <3>2. QED
      BY <1>1, <3>1
  <2>4. QED
    BY <1>5, <2>2, <2>3
<1>7. \A i \in 1 .. Len(m) : m[i].uid \in Live(ps) /\ m[i] = Entry(ps[m[i].uid])
  <2> SUFFICES ASSUME NEW i \in 1 .. Len(m)
               PROVE  m[i].uid \in Live(ps) /\ m[i] = Entry(ps[m[i].uid])
    OBVIOUS
  <2>1. CASE i \in 1 .. Len(l)
    <3>1. m[i] = l[i] /\ l[i].uid \in Live(rs)
      BY <1>2, <2>1 DEF Lists
    <3>2. QED
      BY <1>1, <1>3, <1>4, <2>1, <3>1
  <2>2. CASE i = Len(l) + 1
    BY <1>1, <1>2, <1>3, <2>2
  <2>3. QED
    BY <1>5, <2>1, <2>2
<1>8. \A k \in Live(ps) : \E i \in 1 .. Len(m) : m[i].uid = k
  <2> SUFFICES ASSUME NEW k \in Live(ps) PROVE \E i \in 1 .. Len(m) : m[i].uid = k
    OBVIOUS
  <2>1. CASE k \in Live(rs)
    <3>1. PICK i \in 1 .. Len(l) : l[i].uid = k
      BY <2>1 DEF Lists
    <3>2. i \in 1 .. Len(m) /\ m[i].uid = k
      BY <1>2, <3>1
    <3>3. QED
      BY <3>2
  <2>2. CASE k = Len(rs) + 1
    BY <1>2, <2>2
  <2>3. QED
    BY <1>3, <2>1, <2>2
<1>9. Lists(m, ps)
  BY <1>6, <1>7, <1>8 DEF Lists
<1>10. QED
  BY <1>9 DEF m, ps

(* A known device is overwritten where it is.                              *)
LEMMA ListsWrite ==
    ASSUME NEW rs \in Seq(RecordType), NEW l \in Seq(EntryType), Lists(l, rs),
           NEW i \in 1 .. Len(l), NEW e \in EntryType, e.uid = l[i].uid,
           NEW r \in RecordType, ~ r.deleted, Entry(r) = e
    PROVE  Lists([l EXCEPT ![i] = e], [rs EXCEPT ![e.uid] = r])
<1> DEFINE ps == [rs EXCEPT ![e.uid] = r]
           m == [l EXCEPT ![i] = e]
<1>1. e.uid \in 1 .. Len(rs) /\ e.uid \in Live(rs)
  BY DEF Lists, Live
<1>2. /\ Len(ps) = Len(rs) /\ ps[e.uid] = r
      /\ \A k \in 1 .. Len(rs) : k # e.uid => ps[k] = rs[k]
  BY <1>1
<1>3. /\ Len(m) = Len(l) /\ m[i] = e
      /\ \A j \in 1 .. Len(l) : j # i => m[j] = l[j]
  OBVIOUS
<1> HIDE DEF ps, m
<1>4. Live(ps) = Live(rs)
  BY <1>1, <1>2 DEF Live
<1>5. \A j \in 1 .. Len(l) : m[j].uid = l[j].uid
  BY <1>3
<1>6. \A j, k \in 1 .. Len(m) : j < k => m[j].uid < m[k].uid
  BY <1>3, <1>5 DEF Lists
<1>7. \A j \in 1 .. Len(m) : m[j].uid \in Live(ps) /\ m[j] = Entry(ps[m[j].uid])
  <2> SUFFICES ASSUME NEW j \in 1 .. Len(l)
               PROVE  m[j].uid \in Live(ps) /\ m[j] = Entry(ps[m[j].uid])
    BY <1>3
  <2>1. l[j].uid \in Live(rs) /\ l[j] = Entry(rs[l[j].uid]) /\ l[j].uid \in 1 .. Len(rs)
    BY DEF Lists, Live
  <2>2. CASE j = i
    BY <1>1, <1>2, <1>3, <1>4, <2>2
  <2>3. CASE j # i
    <3>1. l[j].uid # e.uid
      BY <2>3, Increasing
    <3>2. QED
      BY <1>2, <1>3, <1>4, <2>1, <2>3, <3>1
  <2>4. QED
    BY <2>2, <2>3
<1>8. \A k \in Live(ps) : \E j \in 1 .. Len(m) : m[j].uid = k
  BY <1>3, <1>4, <1>5 DEF Lists
<1>9. Lists(m, ps)
  BY <1>6, <1>7, <1>8 DEF Lists
<1>10. QED
  BY <1>9 DEF m, ps

LEMMA Removed ==
    ASSUME NEW l \in Seq(EntryType), NEW i \in 1 .. Len(l)
    PROVE  /\ RemoveAt(l, i) \in Seq(EntryType) /\ Len(RemoveAt(l, i)) = Len(l) - 1
           /\ \A j \in 1 .. Len(l) - 1 : RemoveAt(l, i)[j] = IF j < i THEN l[j] ELSE l[j + 1]
<1> DEFINE a == SubSeq(l, 1, i - 1)
           b == SubSeq(l, i + 1, Len(l))
<1>1. i \in Int /\ Len(l) \in Nat /\ i >= 1 /\ i <= Len(l)
  OBVIOUS
<1>2. /\ a \in Seq(EntryType) /\ Len(a) = i - 1
      /\ \A j \in 1 .. i - 1 : a[j] = l[j]
  BY <1>1
<1>3. /\ b \in Seq(EntryType) /\ Len(b) = Len(l) - i
      /\ \A j \in 1 .. Len(l) - i : b[j] = l[j + i]
  BY <1>1
<1>4. RemoveAt(l, i) = a \o b
  BY DEF RemoveAt
<1> HIDE DEF a, b
<1>5. a \o b \in Seq(EntryType) /\ Len(a \o b) = Len(l) - 1
  <2>0. a \in Seq(EntryType) /\ b \in Seq(EntryType)
    BY <1>2, <1>3
  <2>1. a \o b \in Seq(EntryType) /\ Len(a \o b) = Len(a) + Len(b)
    BY <2>0
  <2>2. (i - 1) + (Len(l) - i) = Len(l) - 1
    BY <1>1
  <2>3. QED
    BY <1>2, <1>3, <2>1, <2>2
<1>6. ASSUME NEW j \in 1 .. Len(l) - 1
      PROVE  (a \o b)[j] = IF j < i THEN l[j] ELSE l[j + 1]
  <2>1. CASE j < i
    <3>1. j \in 1 .. i - 1 /\ j \in 1 .. Len(a)
      BY <1>1, <1>2, <2>1
    <3>2. (a \o b)[j] = a[j]
      BY <1>1, <1>2, <1>3, <3>1
    <3>3. QED
      BY <1>2, <2>1, <3>1, <3>2
  <2>2. CASE ~ (j < i)
    <3>1. j - (i - 1) \in 1 .. Len(l) - i /\ j - (i - 1) + i = j + 1
      BY <1>1, <2>2
    <3>2. (a \o b)[j] = b[j - (i - 1)]
      BY <1>1, <1>2, <1>3, <2>2, <3>1
    <3>3. QED
      BY <1>3, <2>2, <3>1, <3>2
  <2>3. QED
    BY <2>1, <2>2
<1>7. QED
  BY <1>4, <1>5, <1>6

(* A record that is marked as deleted is taken from the list.              *)
LEMMA ListsDelete ==
    ASSUME NEW rs \in Seq(RecordType), NEW l \in Seq(EntryType), Lists(l, rs),
           NEW i \in 1 .. Len(l), NEW r \in RecordType, r.deleted
    PROVE  Lists(RemoveAt(l, i), [rs EXCEPT ![l[i].uid] = r])
<1> DEFINE u == l[i].uid
           ps == [rs EXCEPT ![u] = r]
           m == RemoveAt(l, i)
           from == [j \in 1 .. Len(l) - 1 |-> IF j < i THEN j ELSE j + 1]
<1>0. i \in Int /\ Len(l) \in Nat /\ i >= 1 /\ i <= Len(l)
  OBVIOUS
<1>1. u \in 1 .. Len(rs) /\ u \in Live(rs)
  BY DEF Lists, Live
<1>2. /\ Len(ps) = Len(rs) /\ ps[u] = r
      /\ \A k \in 1 .. Len(rs) : k # u => ps[k] = rs[k]
  BY <1>1
<1>3. /\ \A j \in 1 .. Len(l) - 1 : from[j] \in 1 .. Len(l) /\ from[j] # i
      /\ \A j, k \in 1 .. Len(l) - 1 : j < k => from[j] < from[k]
      /\ \A k \in 1 .. Len(l) : k # i => \E j \in 1 .. Len(l) - 1 : from[j] = k
  <2>1. /\ \A j \in 1 .. Len(l) - 1 : from[j] \in 1 .. Len(l) /\ from[j] # i
        /\ \A j, k \in 1 .. Len(l) - 1 : j < k => from[j] < from[k]
    BY <1>0
  <2>2. ASSUME NEW k \in 1 .. Len(l), k # i
        PROVE  \E j \in 1 .. Len(l) - 1 : from[j] = k
    <3>1. CASE k < i
      <4>1. k \in 1 .. Len(l) - 1 /\ from[k] = k
        BY <1>0, <3>1
      <4>2. QED
        BY <4>1
    <3>2. CASE k > i
      <4>1. k - 1 \in 1 .. Len(l) - 1 /\ ~ (k - 1 < i) /\ (k - 1) + 1 = k
        BY <1>0, <3>2
      <4>2. from[k - 1] = k
        BY <4>1
      <4>3. QED
        BY <4>1, <4>2
    <3>3. QED
      BY <1>0, <2>2, <3>1, <3>2
  <2>3. QED
    BY <2>1, <2>2
<1>4. Len(m) = Len(l) - 1 /\ \A j \in 1 .. Len(m) : m[j] = l[from[j]]
  BY <1>0, Removed
<1> HIDE DEF u, ps, m, from
<1>5. Live(ps) = Live(rs) \ {u}
  BY <1>1, <1>2 DEF Live
<1>6. \A j, k \in 1 .. Len(m) : j < k => m[j].uid < m[k].uid
  <2> SUFFICES ASSUME NEW j \in 1 .. Len(m), NEW k \in 1 .. Len(m), j < k
               PROVE  m[j].uid < m[k].uid
    OBVIOUS
  <2>1. /\ from[j] \in 1 .. Len(l) /\ from[k] \in 1 .. Len(l) /\ from[j] < from[k]
        /\ m[j] = l[from[j]] /\ m[k] = l[from[k]]
    BY <1>3, <1>4
  <2>2. l[from[j]].uid < l[from[k]].uid
    BY <2>1 DEF Lists
  <2>3. QED
    BY <2>1, <2>2
<1>7. \A j \in 1 .. Len(m) : m[j].uid \in Live(ps) /\ m[j] = Entry(ps[m[j].uid])
  <2> SUFFICES ASSUME NEW j \in 1 .. Len(m)
               PROVE  m[j].uid \in Live(ps) /\ m[j] = Entry(ps[m[j].uid])
    OBVIOUS
  <2>1. from[j] \in 1 .. Len(l) /\ from[j] # i /\ m[j] = l[from[j]]
    BY <1>3, <1>4
  <2>2. l[from[j]].uid \in Live(rs) /\ l[from[j]] = Entry(rs[l[from[j]].uid])
    BY <2>1 DEF Lists
  <2>3. l[from[j]].uid # u
    BY <2>1, Increasing DEF u
  <2>4. l[from[j]].uid \in 1 .. Len(rs)
    BY <2>2 DEF Live
  <2>5. QED
    BY <1>2, <1>5, <2>1, <2>2, <2>3, <2>4
<1>8. \A k \in Live(ps) : \E j \in 1 .. Len(m) : m[j].uid = k
  <2> SUFFICES ASSUME NEW k \in Live(ps) PROVE \E j \in 1 .. Len(m) : m[j].uid = k
    OBVIOUS
  <2>1. PICK x \in 1 .. Len(l) : l[x].uid = k
    BY <1>5 DEF Lists
  <2>2. x # i
    BY <1>5, <2>1 DEF u
  <2>3. PICK j \in 1 .. Len(l) - 1 : from[j] = x
    BY <1>3, <2>2
  <2>4. j \in 1 .. Len(m) /\ m[j].uid = k
    BY <1>4, <2>1, <2>3
  <2>5. QED
    BY <2>4
<1>9. Lists(m, ps)
  BY <1>6, <1>7, <1>8 DEF Lists
<1>10. QED
  BY <1>9 DEF m, ps, u
-----------------------------------------------------------------------------
(* The database and the list of a program that runs: a host has one entry, *)
(* and the selection is in the list.                                       *)
Kept ==
    /\ db \in Seq(RecordType) /\ Len(db) <= MaxUID /\ Numbered(db)
    /\ \A q, r \in Live(db) : db[q].addr = db[r].addr => q = r
    /\ list \in Seq(EntryType) /\ Lists(list, db)
    /\ device \in 0 .. noListSelection
    /\ list # <<>> => device \in 0 .. Len(list) - 1 \cup {noListSelection}

LEMMA NoSelection == noListSelection \in Nat
  BY DEF noListSelection

LEMMA KeptLength ==
    ASSUME Kept
    PROVE  Len(list) \in Nat /\ Len(db) \in Nat /\ Len(list) <= Len(db)
           /\ Len(list) <= noListSelection /\ Len(db) <= MaxUID /\ MaxUID \in Nat
           /\ Loaded(db) = list
<1>1. db \in Seq(RecordType) /\ list \in Seq(EntryType) /\ Lists(list, db)
      /\ Len(db) <= MaxUID
  BY DEF Kept
<1>2. Loaded(db) = list /\ Len(list) <= Len(db)
  BY <1>1, ListsLoaded
<1>3. Len(list) \in Nat /\ Len(db) \in Nat
  BY <1>1
<1>4. QED
  BY <1>1, <1>2, <1>3, NoSelection, DevListAssumption

(* A device of the list is found there and in the database.                *)
LEMMA InList ==
    ASSUME Kept, NEW i \in 1 .. Len(list)
    PROVE  /\ list[i] \in EntryType /\ list[i].uid \in UIDs /\ list[i].addr \in Known
           /\ list[i].uid \in 1 .. MaxUID /\ list[i].uid \in 1 .. Len(db)
           /\ list[i].uid \in Live(db) /\ list[i] = Entry(db[list[i].uid])
           /\ HasRecord(list[i].uid) /\ Record(list[i].uid) = list[i].uid
           /\ Index(list[i].uid) = i
<1> DEFINE u == list[i].uid
<1>1. list \in Seq(EntryType) /\ Lists(list, db) /\ Numbered(db)
  BY DEF Kept
<1>2. list[i] \in EntryType /\ u \in 1 .. MaxUID /\ u \in UIDs /\ list[i].addr \in Known
  <2>1. list[i] \in EntryType
    BY <1>1
  <2>2. u \in 1 .. MaxUID
    BY <2>1 DEF EntryType
  <2>3. u \in UIDs
    BY DEF UIDs
  <2>4. list[i].addr \in Known
    BY DEF Known
  <2>5. QED
    BY <2>1, <2>2, <2>3, <2>4
<1>3. u \in Live(db) /\ list[i] = Entry(db[u])
  BY <1>1 DEF Lists
<1>4. u \in 1 .. Len(db) /\ ~ db[u].deleted /\ db[u].uid = u
  BY <1>1, <1>3 DEF Live, Numbered
<1>5. HasRecord(u)
  BY <1>4 DEF HasRecord
<1>6. \A r \in 1 .. Len(db) : db[r].uid = u => r = u
  BY <1>1 DEF Numbered
<1>7. Record(u) = u
  BY <1>4, <1>6 DEF Record
<1>8. \A j \in 1 .. Len(list) : list[j].uid = u => j = i
  BY <1>1, Increasing
<1>9. Index(u) = i
  BY <1>8 DEF Index
<1>10. QED
  BY <1>2, <1>3, <1>4, <1>5, <1>7, <1>9

LEMMA InUIDs ==
    ASSUME Kept, NEW u \in UIDs
    PROVE  /\ Index(u) \in 1 .. Len(list) /\ list[Index(u)].uid = u
           /\ HasRecord(u) /\ Record(u) = u /\ u \in 1 .. MaxUID /\ u # None
           /\ list # <<>>
<1>1. PICK i \in 1 .. Len(list) : list[i].uid = u
  BY DEF UIDs
<1>2. list # <<>>
  BY <1>1, KeptLength
<1>3. QED
  BY <1>1, <1>2, InList DEF None

(* What is selected is in the list.                                        *)
LEMMA SelectedIn ==
    ASSUME Kept, Selected # None
    PROVE  /\ Selected \in UIDs /\ device \in 0 .. Len(list) - 1 /\ Selection = device
           /\ device # noListSelection /\ Selected = list[device + 1].uid
           /\ device + 1 \in 1 .. Len(list)
<1>1. list # <<>> /\ device # noListSelection /\ Selected = list[Selection + 1].uid
  BY DEF Selected
<1>2. device \in 0 .. Len(list) - 1 /\ Len(list) \in Nat
  BY <1>1, KeptLength DEF Kept
<1>3. Selection = device /\ device + 1 \in 1 .. Len(list)
  BY <1>2 DEF Selection
<1>4. QED
  BY <1>1, <1>2, <1>3 DEF UIDs

LEMMA SelectKept ==
    ASSUME Kept, UNCHANGED <<db, list>>,
           device' \in 0 .. Len(list) - 1 \cup {noListSelection}
    PROVE  Kept' /\ UIDs' = UIDs
<1>1. Len(list) \in Nat /\ Len(list) <= noListSelection
  BY KeptLength
<1>2. device' \in 0 .. noListSelection
  BY <1>1, NoSelection
<1>3. db' = db /\ list' = list
  OBVIOUS
<1>4. Lists(list', db') /\ Live(db') = Live(db) /\ Numbered(db')
  BY <1>3 DEF Kept
<1>5. Kept'
  BY <1>2, <1>3, <1>4 DEF Kept
<1>6. QED
  BY <1>3, <1>5 DEF UIDs

LEMMA SameKept ==
    ASSUME Kept, UNCHANGED records
    PROVE  Kept' /\ UIDs' = UIDs
<1>1. db' = db /\ list' = list /\ device' = device
  BY DEF records
<1>2. Lists(list', db') /\ Live(db') = Live(db) /\ Numbered(db')
  BY <1>1 DEF Kept
<1>3. Kept'
  BY <1>1, <1>2 DEF Kept
<1>4. QED
  BY <1>1, <1>3 DEF UIDs

LEMMA WriteKept ==
    ASSUME Kept, NEW i \in 1 .. Len(list), NEW on \in BOOLEAN,
           list' = [list EXCEPT ![i].enc = on], db' = Written(list'[i]), device' = device
    PROVE  Kept' /\ UIDs' = UIDs /\ Len(list') = Len(list)
<1> DEFINE e == [list[i] EXCEPT !.enc = on]
           u == list[i].uid
           r == [uid |-> e.uid, addr |-> e.addr, enc |-> e.enc, deleted |-> FALSE]
<1>1. /\ list \in Seq(EntryType) /\ db \in Seq(RecordType) /\ Lists(list, db)
      /\ Numbered(db) /\ Len(db) <= MaxUID
      /\ \A p, q \in Live(db) : db[p].addr = db[q].addr => p = q
  BY DEF Kept
<1>2. /\ list[i] \in EntryType /\ u \in 1 .. Len(db) /\ u \in Live(db)
      /\ list[i] = Entry(db[u]) /\ Record(u) = u
  BY InList
<1>3. e \in EntryType /\ e.uid = u /\ e.addr = list[i].addr
  BY <1>2 DEF EntryType
<1>4. r \in RecordType /\ r.uid = u /\ r.addr = list[i].addr /\ ~ r.deleted /\ Entry(r) = e
  BY <1>2, <1>3 DEF EntryType, RecordType, Entry
<1>5. list' = [list EXCEPT ![i] = e]
  BY <1>1
<1>6. list'[i] = e
  BY <1>1, <1>5
<1>7. db' = [db EXCEPT ![u] = r]
  BY <1>2, <1>3, <1>6 DEF Written
<1>8. db[u].addr = list[i].addr
  BY <1>2 DEF Entry
<1> HIDE DEF e, r
<1>9. Lists(list', db')
  <2>1. Lists([list EXCEPT ![i] = e], [db EXCEPT ![e.uid] = r])
    BY <1>1, <1>3, <1>4, ListsWrite
  <2>2. QED
    BY <1>3, <1>5, <1>7, <2>1
<1>10. list' \in Seq(EntryType) /\ Len(list') = Len(list)
       /\ \A j \in 1 .. Len(list) : list'[j].uid = list[j].uid
  <2>1. list \in Seq(EntryType)
    BY <1>1
  <2>2. list' \in Seq(EntryType) /\ Len(list') = Len(list) /\ list'[i] = e
        /\ \A j \in 1 .. Len(list) : j # i => list'[j] = list[j]
    BY <1>3, <1>5, <2>1
  <2>3. QED
    BY <1>3, <2>2
<1>11. db' \in Seq(RecordType) /\ Len(db') = Len(db) /\ db'[u] = r
       /\ \A q \in 1 .. Len(db) : q # u => db'[q] = db[q]
  <2>1. db \in Seq(RecordType) /\ r \in RecordType /\ u \in 1 .. Len(db)
    BY <1>1, <1>2, <1>4
  <2> DEFINE ps == [db EXCEPT ![u] = r]
  <2> HIDE DEF u
  <2>2. ps \in Seq(RecordType) /\ Len(ps) = Len(db) /\ ps[u] = r
        /\ \A q \in 1 .. Len(db) : q # u => ps[q] = db[q]
    BY <2>1
  <2> HIDE DEF ps
  <2>3. db' = ps
    BY <1>7 DEF ps, u
  <2>4. QED
    BY <2>2, <2>3 DEF u
<1>12. Live(db') = Live(db)
  BY <1>2, <1>4, <1>11 DEF Live
<1>13. Numbered(db')
  BY <1>1, <1>4, <1>11 DEF Numbered
<1>14. \A q \in 1 .. Len(db) : db'[q].addr = db[q].addr
  BY <1>4, <1>8, <1>11
<1>15. \A p, q \in Live(db') : db'[p].addr = db'[q].addr => p = q
  <2>1. \A q \in Live(db') : q \in Live(db) /\ db'[q].addr = db[q].addr
    <3>1. \A q \in Live(db) : q \in 1 .. Len(db)
      BY DEF Live
    <3>2. QED
      BY <1>12, <1>14, <3>1
  <2>2. QED
    BY <1>1, <2>1
<1>16. list' # <<>> => device' \in 0 .. Len(list') - 1 \cup {noListSelection}
  BY <1>10 DEF Kept
<1>17. device' \in 0 .. noListSelection
  BY DEF Kept
<1>18. Kept'
  BY <1>1, <1>9, <1>10, <1>11, <1>13, <1>15, <1>16, <1>17 DEF Kept
<1>19. UIDs' = UIDs
  BY <1>10 DEF UIDs
<1>20. QED
  BY <1>10, <1>18, <1>19

LEMMA AddKept ==
    ASSUME Kept, NEW a \in Addrs, DevListAdd(a)
    PROVE  /\ Kept' /\ UIDs \subseteq UIDs' /\ Len(list') >= Len(list)
           /\ device # noListSelection => device' # noListSelection
<1>1. CASE a \in Known
  <2> DEFINE i == AtAddr(a)
  <2>1. i \in 1 .. Len(list)
    BY <1>1 DEF Known, AtAddr
  <2>2. list' = [list EXCEPT ![i].enc = FALSE] /\ db' = Written(list'[i]) /\ device' = device
    BY <1>1 DEF DevListAdd
  <2> HIDE DEF i
  <2>3. Kept' /\ UIDs' = UIDs /\ Len(list') = Len(list)
    BY <2>1, <2>2, WriteKept
  <2>4. QED
    BY <2>2, <2>3, KeptLength
<1>2. CASE a \notin Known
  <2> DEFINE e == NewDevice(a)
             r == [uid |-> Len(db) + 1, addr |-> a, enc |-> FALSE, deleted |-> FALSE]
  <2>1. /\ Len(db) < MaxUID /\ list' = Append(list, e) /\ db' = Append(db, r)
        /\ device' = Len(list)
    BY <1>2 DEF DevListAdd, AddDevice
  <2>2. /\ list \in Seq(EntryType) /\ db \in Seq(RecordType) /\ Lists(list, db)
        /\ Numbered(db) /\ Len(db) <= MaxUID
        /\ \A p, q \in Live(db) : db[p].addr = db[q].addr => p = q
    BY DEF Kept
  <2>3. Len(list) \in Nat /\ Len(db) \in Nat /\ MaxUID \in Nat /\ Len(list) <= Len(db)
        /\ MaxUID <= noListSelection
    BY KeptLength, NoSelection, DevListAssumption
  <2>4. e \in EntryType /\ e.uid = Len(db) + 1
    BY <2>1, <2>3 DEF NewDevice, EntryType
  <2>5. r \in RecordType /\ r.uid = Len(db) + 1 /\ r.addr = a /\ ~ r.deleted /\ Entry(r) = e
    BY <2>1, <2>3 DEF RecordType, Entry, NewDevice
  <2> HIDE DEF e, r
  <2>6. Lists(list', db')
    BY <2>1, <2>2, <2>4, <2>5, ListsAppend
  <2>7. /\ list' \in Seq(EntryType) /\ Len(list') = Len(list) + 1
        /\ \A j \in 1 .. Len(list) : list'[j] = list[j]
    BY <2>1, <2>2, <2>4
  <2>8. /\ db' \in Seq(RecordType) /\ Len(db') = Len(db) + 1 /\ db'[Len(db) + 1] = r
        /\ \A q \in 1 .. Len(db) : db'[q] = db[q]
    BY <2>1, <2>2, <2>5
  <2>9. Live(db') = Live(db) \cup {Len(db) + 1}
    BY <2>1, <2>2, <2>5, LiveAppend
  <2>10. \A q \in 1 .. Len(db') : q \in 1 .. Len(db) \/ q = Len(db) + 1
    BY <2>3, <2>8
  <2>11. Numbered(db')
    BY <2>2, <2>5, <2>8, <2>10 DEF Numbered
  <2>12. ASSUME NEW q \in Live(db) PROVE db[q].addr # a
    <3>1. PICK j \in 1 .. Len(list) : list[j].uid = q
      BY <2>2 DEF Lists
    <3>2. list[j] = Entry(db[q]) /\ list[j].addr \in Known
      BY <3>1, InList
    <3>3. list[j].addr = db[q].addr
      BY <3>2 DEF Entry
    <3>4. QED
      BY <1>2, <3>2, <3>3
  <2>13. \A q \in Live(db) : q \in 1 .. Len(db) /\ db'[q].addr = db[q].addr
    BY <2>8 DEF Live
  <2>14. \A p, q \in Live(db') : db'[p].addr = db'[q].addr => p = q
    BY <2>2, <2>5, <2>8, <2>9, <2>12, <2>13
  <2>15. Len(db') <= MaxUID
    BY <2>1, <2>3, <2>8
  <2>16. device' \in 0 .. Len(list') - 1 /\ device' \in 0 .. noListSelection
         /\ device' # noListSelection
    <3>1. device' = Len(list) /\ Len(list') = Len(list) + 1 /\ Len(list) < noListSelection
      BY <2>1, <2>3, <2>7, NoSelection
    <3>2. QED
      BY <2>3, <3>1, NoSelection
  <2>17. Kept'
    BY <2>6, <2>7, <2>8, <2>11, <2>14, <2>15, <2>16 DEF Kept
  <2>18. UIDs \subseteq UIDs'
    <3>1. \A j \in 1 .. Len(list) : j \in 1 .. Len(list') /\ list'[j].uid = list[j].uid
      BY <2>3, <2>7
    <3>2. QED
      BY <3>1 DEF UIDs
  <2>19. QED
    BY <2>3, <2>7, <2>16, <2>17, <2>18
<1>3. QED
  BY <1>1, <1>2

LEMMA DeleteKept ==
    ASSUME Kept, ~ panic, NEW uid \in UIDs, device # noListSelection, DevListDelete(uid)
    PROVE  /\ Kept' /\ ~ panic'
           /\ Selected \in UIDs' => Selected' = Selected
<1> DEFINE i == Index(uid)
           n == Len(list)
           r == [db[uid] EXCEPT !.deleted = TRUE]
           sel == Deleted(i, device)
<1>1. /\ i \in 1 .. n /\ list[i].uid = uid /\ HasRecord(uid) /\ Record(uid) = uid
      /\ list # <<>> /\ uid # None
  BY InUIDs
<1>2. /\ db' = [db EXCEPT ![uid].deleted = TRUE] /\ list' = RemoveAt(list, i)
      /\ device' = sel /\ panic' = panic
  BY <1>1 DEF DevListDelete
<1>3. /\ list \in Seq(EntryType) /\ db \in Seq(RecordType) /\ Lists(list, db)
      /\ Numbered(db) /\ Len(db) <= MaxUID
      /\ \A p, q \in Live(db) : db[p].addr = db[q].addr => p = q
  BY DEF Kept
<1>4. n \in Nat /\ n <= noListSelection /\ i \in Int /\ i >= 1 /\ i <= n
  BY <1>1, KeptLength
<1>5. uid \in 1 .. Len(db) /\ uid \in Live(db)
  BY <1>1, InList
<1>6. r \in RecordType /\ r.deleted /\ r.uid = db[uid].uid
  <2>1. db[uid] \in RecordType
    BY <1>3, <1>5
  <2>2. QED
    BY <2>1 DEF RecordType
<1>7. db' = [db EXCEPT ![uid] = r]
  BY <1>2
<1>8. /\ list' \in Seq(EntryType) /\ Len(list') = n - 1
      /\ \A j \in 1 .. n - 1 : list'[j] = IF j < i THEN list[j] ELSE list[j + 1]
  BY <1>1, <1>2, <1>3, Removed
<1>9. device \in Nat /\ device <= n - 1
  BY <1>1, <1>4 DEF Kept
<1>10. sel = IF n = 1 THEN noListSelection
             ELSE IF device > i - 1 \/ (device = i - 1 /\ i > 1) THEN device - 1 ELSE device
  BY DEF Deleted
<1> HIDE DEF r, sel, i, n
<1>11. Lists(list', db')
  <2>1. i \in 1 .. Len(list)
    BY <1>1 DEF n
  <2>2. Lists(RemoveAt(list, i), [db EXCEPT ![list[i].uid] = r])
    BY <1>3, <1>6, <2>1, ListsDelete
  <2>3. QED
    BY <1>1, <1>2, <1>7, <2>2
<1>12. /\ db' \in Seq(RecordType) /\ Len(db') = Len(db) /\ db'[uid] = r
       /\ \A q \in 1 .. Len(db) : q # uid => db'[q] = db[q]
  BY <1>3, <1>5, <1>6, <1>7
<1>13. Live(db') \subseteq Live(db) /\ uid \notin Live(db')
  BY <1>6, <1>12 DEF Live
<1>14. Numbered(db')
  BY <1>3, <1>6, <1>12 DEF Numbered
<1>15. \A p, q \in Live(db') : db'[p].addr = db'[q].addr => p = q
  BY <1>3, <1>12, <1>13 DEF Live
<1>16. CASE n = 1
  <2>1. device' = noListSelection /\ Len(list') = 0
    BY <1>2, <1>8, <1>10, <1>16
  <2>2. list' = <<>> /\ UIDs' = {} /\ device' \in 0 .. noListSelection
    <3>1. list' = <<>>
      BY <1>8, <2>1
    <3>2. 1 .. Len(list') = {}
      BY <2>1
    <3>3. UIDs' = {}
      BY <3>2 DEF UIDs
    <3>4. QED
      BY <2>1, <3>1, <3>3, NoSelection
  <2>3. QED
    BY <1>2, <1>3, <1>8, <1>11, <1>12, <1>14, <1>15, <2>2 DEF Kept
<1>17. CASE n # 1
  <2>1. n >= 2 /\ sel = IF device > i - 1 \/ (device = i - 1 /\ i > 1)
                        THEN device - 1 ELSE device
    <3>1. n >= 2
      BY <1>4, <1>17
    <3>2. QED
      BY <1>10, <1>17, <3>1
  <2>2. sel \in 0 .. n - 2 /\ sel \in 0 .. noListSelection /\ sel # noListSelection
    <3>1. device \in Int /\ n \in Int /\ device >= 0 /\ device <= n - 1 /\ i >= 1 /\ i <= n
      BY <1>4, <1>9
    <3>2. sel \in 0 .. n - 2
      BY <1>4, <2>1, <3>1
    <3>3. QED
      BY <1>4, <3>2, NoSelection
  <2>3. device' \in 0 .. Len(list') - 1
    BY <1>2, <1>4, <1>8, <2>2
  <2>4. Kept'
    BY <1>2, <1>3, <1>8, <1>11, <1>12, <1>14, <1>15, <2>2, <2>3 DEF Kept
  <2>5. ASSUME Selected \in UIDs' PROVE Selected' = Selected
    <3>1. Selected = list[device + 1].uid /\ device + 1 \in 1 .. n
      <4>1. Selection = device
        BY <1>4, <1>9 DEF Selection, n
      <4>2. QED
        BY <1>1, <1>4, <1>9, <4>1 DEF Selected
    <3>2. Selected # uid
      <4>1. PICK j \in 1 .. Len(list') : list'[j].uid = Selected
        BY <2>5 DEF UIDs
      <4>2. list'[j].uid \in Live(db')
        BY <1>11 DEF Lists
      <4>3. QED
        BY <1>13, <4>1, <4>2
    <3>3. device + 1 # i
      BY <1>1, <3>1, <3>2
    <3>4. sel + 1 \in 1 .. n - 1 /\ list'[sel + 1] = list[device + 1]
      <4>1. CASE device > i - 1
        <5>1. sel = device - 1 /\ sel + 1 = device /\ ~ (device < i) /\ device \in 1 .. n - 1
          BY <1>4, <1>9, <2>1, <3>3, <4>1
        <5>2. list'[device] = list[device + 1]
          BY <1>8, <5>1
        <5>3. QED
          BY <5>1, <5>2
      <4>2. CASE ~ (device > i - 1)
        <5>1. sel = device /\ device + 1 < i /\ device + 1 \in 1 .. n - 1
          BY <1>4, <1>9, <2>1, <3>3, <4>2
        <5>2. list'[device + 1] = list[device + 1]
          BY <1>8, <5>1
        <5>3. QED
          BY <5>1, <5>2
      <4>3. QED
        BY <4>1, <4>2
    <3>5. list' # <<>> /\ device' = sel /\ sel # noListSelection /\ ~ (sel >= Len(list'))
      <4>1. Len(list') > 0 /\ ~ (sel >= Len(list'))
        BY <1>4, <1>8, <2>1, <2>2
      <4>2. QED
        BY <1>2, <1>8, <2>2, <4>1
    <3>6. Selection' = sel
      BY <3>5 DEF Selection
    <3>7. Selected' = list'[sel + 1].uid
      BY <3>5, <3>6 DEF Selected
    <3>8. QED
      BY <3>1, <3>4, <3>7
  <2>6. QED
    BY <1>2, <2>4, <2>5
<1>18. QED
  BY <1>16, <1>17
-----------------------------------------------------------------------------
(* The inductive invariant.  Also while the program is closed the database *)
(* determines a list; what a dialog or BTConnect holds is in the list, and *)
(* while it is held something is selected.                                 *)
Open  == at # "closed"
Holds == at \in {"details", "connect", "authenticate"}

DInv ==
    /\ Len(db) <= MaxUID /\ Numbered(db)
    /\ \A q, r \in Live(db) : db[q].addr = db[r].addr => q = r
    /\ Lists(Loaded(db), db) /\ Loaded(db) \in Seq(EntryType)
    /\ list = IF Open THEN Loaded(db) ELSE <<>>
    /\ Open /\ list # <<>> => device \in 0 .. Len(list) - 1 \cup {noListSelection}
    /\ IF Holds THEN dev \in UIDs /\ device # noListSelection ELSE dev = None
    /\ ~ panic

IInv == TypeOK /\ DInv

(* For a program that runs it has two parts.                               *)
Rest ==
    /\ at \in {"form", "connected", "details", "connect", "authenticate"}
    /\ saved \in 0 .. noListSelection /\ dev \in 0 .. MaxUID
    /\ hosts \in [Channels -> Addrs \cup {None}] /\ retry \in BOOLEAN /\ panic = FALSE
    /\ IF Holds THEN dev \in UIDs /\ device # noListSelection ELSE dev = None

LEMMA Opened == ASSUME IInv, Open PROVE Kept /\ Rest
<1>1. /\ db \in Seq(RecordType) /\ list \in Seq(EntryType)
      /\ device \in 0 .. noListSelection /\ saved \in 0 .. noListSelection
      /\ at \in {"form", "connected", "details", "connect", "authenticate", "closed"}
      /\ dev \in 0 .. MaxUID /\ hosts \in [Channels -> Addrs \cup {None}]
      /\ retry \in BOOLEAN /\ panic = FALSE
  BY DEF IInv, DInv, TypeOK, RecordType, EntryType
<1>2. at # "closed"
  BY DEF Open
<1>3. Lists(list, db)
  BY DEF IInv, DInv
<1>4. Kept
  BY <1>1, <1>3 DEF IInv, DInv, Kept
<1>5. IF Holds THEN dev \in UIDs /\ device # noListSelection ELSE dev = None
  BY DEF IInv, DInv
<1>6. QED
  BY <1>1, <1>2, <1>4, <1>5 DEF Rest

LEMMA OpenedNext == ASSUME Kept', Rest' PROVE IInv'
<1>1. /\ db' \in Seq(RecordType) /\ Len(db') <= MaxUID /\ Numbered(db')
      /\ \A q, r \in Live(db') : db'[q].addr = db'[r].addr => q = r
      /\ list' \in Seq(EntryType) /\ Lists(list', db')
      /\ device' \in 0 .. noListSelection
      /\ list' # <<>> => device' \in 0 .. Len(list') - 1 \cup {noListSelection}
  BY DEF Kept
<1>2. Loaded(db') = list'
  BY <1>1, ListsLoaded
<1>3. /\ at' \in {"form", "connected", "details", "connect", "authenticate"}
      /\ saved' \in 0 .. noListSelection /\ dev' \in 0 .. MaxUID
      /\ hosts' \in [Channels -> Addrs \cup {None}] /\ retry' \in BOOLEAN /\ panic' = FALSE
      /\ IF Holds' THEN dev' \in UIDs' /\ device' # noListSelection ELSE dev' = None
  BY DEF Rest
<1>4. Open'
  BY <1>3 DEF Open
<1>5. TypeOK'
  BY <1>1, <1>3 DEF TypeOK, RecordType, EntryType
<1>6. Lists(Loaded(db'), db') /\ Loaded(db') \in Seq(EntryType)
      /\ list' = IF Open' THEN Loaded(db') ELSE <<>>
  BY <1>1, <1>2, <1>4
<1>7. DInv'
  BY <1>1, <1>3, <1>6 DEF DInv
<1>8. QED
  BY <1>5, <1>7 DEF IInv

LEMMA InitDev == Init => IInv
<1> SUFFICES ASSUME Init PROVE IInv
  OBVIOUS
<1>1. /\ db = <<>> /\ list = <<>> /\ device = 0 /\ saved = 0
      /\ at = "form" /\ dev = None /\ hosts = NoHosts /\ retry = FALSE /\ panic = FALSE
  BY DEF Init
<1>2. Live(db) = {}
  BY <1>1 DEF Live
<1>3. /\ Numbered(db) /\ Lists(list, db)
      /\ list \in Seq(EntryType) /\ db \in Seq(RecordType) /\ Len(db) <= MaxUID
  BY <1>1, <1>2, DevListAssumption DEF Numbered, Lists
<1>4. Loaded(db) = list
  BY <1>3, ListsLoaded
<1>5. device \in 0 .. noListSelection /\ saved \in 0 .. noListSelection /\ dev \in 0 .. MaxUID
  BY <1>1, NoSelection, DevListAssumption DEF None
<1>6. hosts \in [Channels -> Addrs \cup {None}]
  BY <1>1 DEF NoHosts
<1>7. TypeOK
  BY <1>1, <1>3, <1>5, <1>6 DEF TypeOK, RecordType, EntryType
<1>8. Open /\ ~ Holds
  BY <1>1 DEF Open, Holds
<1>9. DInv
  BY <1>1, <1>2, <1>3, <1>4, <1>8 DEF DInv
<1>10. QED
  BY <1>7, <1>9 DEF IInv
-----------------------------------------------------------------------------
(* A step of a program that runs and goes on.                              *)
Follows == Len(list') < Len(list) /\ Selected \in UIDs' => Selected' = Selected
Step    == Open /\ Kept' /\ Rest' /\ Follows

(* It may change nothing that is stored.                                   *)
LEMMA SameStep ==
    ASSUME Kept, Open, UNCHANGED records, Rest'
    PROVE  Step
<1>1. Kept' /\ list' = list
  BY SameKept DEF records
<1>2. Follows
  BY <1>1, KeptLength DEF Follows
<1>3. QED
  BY <1>1, <1>2 DEF Step

LEMMA SelectStep ==
    ASSUME Kept, Open, UNCHANGED <<db, list>>, Rest',
           device' \in 0 .. Len(list) - 1 \cup {noListSelection}
    PROVE  Step
<1>1. Kept'
  BY SelectKept
<1>2. Follows
  BY KeptLength DEF Follows
<1>3. QED
  BY <1>1, <1>2 DEF Step

(* The program takes a pointer to the selected device.                     *)
LEMMA HoldStep ==
    ASSUME Kept, Rest, Selected # None, NEW where \in {"details", "connect"}, Hold(where),
           UNCHANGED <<db, list, saved, retry, panic>>,
           hosts' \in [Channels -> Addrs \cup {None}]
    PROVE  Step
<1>1. /\ Selected \in UIDs /\ Selection = device /\ device # noListSelection
      /\ device \in 0 .. Len(list) - 1
  BY SelectedIn
<1>2. at' = where /\ dev' = Selected /\ device' = device
  BY <1>1 DEF Hold
<1>3. UIDs' = UIDs
  BY DEF UIDs
<1>4. dev' \in 0 .. MaxUID
  <2>1. Selected \in 1 .. MaxUID
    BY <1>1, InUIDs
  <2>2. QED
    BY <1>2, <2>1, DevListAssumption
<1>5. Rest'
  BY <1>1, <1>2, <1>3, <1>4 DEF Rest, Holds
<1>6. Open
  BY DEF Rest, Open
<1>7. QED
  BY <1>2, <1>5, <1>6, SameStep DEF records

(* A host is added while a device may be held.                             *)
LEMMA AddStep ==
    ASSUME Kept, Rest, NEW a \in Addrs, DevListAdd(a),
           UNCHANGED <<saved, at, dev, retry, panic>>,
           hosts' \in [Channels -> Addrs \cup {None}]
    PROVE  Step
<1>1. /\ Kept' /\ UIDs \subseteq UIDs' /\ Len(list') >= Len(list)
      /\ device # noListSelection => device' # noListSelection
  BY AddKept
<1>2. Rest'
  BY <1>1 DEF Rest, Holds
<1>3. Follows
  <2>1. Len(list') \in Nat /\ Len(list) \in Nat
    BY <1>1, KeptLength DEF Kept
  <2>2. QED
    BY <1>1, <2>1 DEF Follows
<1>4. QED
  BY <1>1, <1>2, <1>3 DEF Step, Rest, Open

(* A device is deleted, and no pointer is left.                            *)
LEMMA DeleteStep ==
    ASSUME Kept, Rest, NEW uid \in UIDs, device # noListSelection, DevListDelete(uid),
           at' = "form", dev' = None, saved' = saved, retry' \in BOOLEAN,
           hosts' \in [Channels -> Addrs \cup {None}]
    PROVE  Step
<1>1. ~ panic /\ panic \in BOOLEAN
  BY DEF Rest
<1>2. /\ Kept' /\ ~ panic'
      /\ Selected \in UIDs' => Selected' = Selected
  BY <1>1, DeleteKept
<1>3. panic' = FALSE
  <2>1. HasRecord(uid) /\ list # <<>> /\ uid # None
    BY InUIDs
  <2>2. panic' = panic
    BY <2>1 DEF DevListDelete
  <2>3. QED
    BY <2>2 DEF Rest
<1>4. dev' \in 0 .. MaxUID
  BY DevListAssumption DEF None
<1>5. Rest'
  BY <1>3, <1>4 DEF Rest, Holds
<1>6. QED
  BY <1>2, <1>5 DEF Step, Follows, Rest, Open
-----------------------------------------------------------------------------
(* The actions.                                                            *)
LEMMA RunningStep ==
    ASSUME IInv, Next
    PROVE  Step \/ Close \/ DevListInit
<1>1. ASSUME Open PROVE Kept /\ Rest
  BY <1>1, Opened
<1>2. NoHosts \in [Channels -> Addrs \cup {None}]
  BY DEF NoHosts
<1>3. ASSUME NEW c \in Channels, Lost(c) PROVE Step
  <2>1. Open /\ UNCHANGED records /\ hosts' = [hosts EXCEPT ![c] = None]
        /\ UNCHANGED <<saved, at, dev, retry, panic>>
    BY <1>3 DEF Lost, Running, Open, records
  <2>2. Kept /\ Rest
    BY <1>1, <2>1
  <2>3. UIDs' = UIDs
    BY <2>1, <2>2, SameKept
  <2>4. Rest'
    BY <2>1, <2>2, <2>3 DEF Rest, Holds, records
  <2>5. QED
    BY <2>1, <2>2, <2>4, SameStep
<1>4. ASSUME NEW c \in Channels, NEW a \in Addrs, Inbound(c, a) PROVE Step
  <2>1. Open /\ DevListAdd(a) /\ hosts' = [hosts EXCEPT ![c] = a]
        /\ UNCHANGED <<saved, at, dev, retry, panic>>
    BY <1>4 DEF Inbound, Running, Open
  <2>2. Kept /\ Rest
    BY <1>1, <2>1
  <2>3. hosts' \in [Channels -> Addrs \cup {None}]
    BY <2>1, <2>2 DEF Rest
  <2>4. QED
    BY <2>1, <2>2, <2>3, AddStep
<1>5. ASSUME NEW a \in Addrs, BTSelectDevice(a) PROVE Step
  <2>1. Open /\ DevListAdd(a) /\ UNCHANGED <<saved, at, dev, hosts, retry, panic>>
    BY <1>5 DEF BTSelectDevice, Form, Open
  <2>2. Kept /\ Rest
    BY <1>1, <2>1
  <2>3. hosts' \in [Channels -> Addrs \cup {None}]
    BY <2>1, <2>2 DEF Rest
  <2>4. QED
    BY <2>1, <2>2, <2>3, AddStep

(* On the connect form nothing is held.                                    *)
<1>6. ASSUME Form, UNCHANGED <<db, list, saved, at, dev, hosts, retry, panic>>,
             device' \in 0 .. Len(list) - 1 \cup {noListSelection}
      PROVE  Step
  <2>1. Open /\ ~ Holds
    BY <1>6 DEF Form, Open, Holds
  <2>2. Kept /\ Rest
    BY <1>1, <2>1
  <2>3. Rest'
    BY <1>6, <2>1, <2>2 DEF Rest, Holds
  <2>4. QED
    BY <1>6, <2>1, <2>2, <2>3, SelectStep
<1>7. ASSUME NEW i \in 0 .. MaxUID - 1, Select(i) PROVE Step
  <2>1. Open
    BY <1>7 DEF Select, Form, Open
  <2>2. Len(list) \in Nat /\ MaxUID \in Nat
    BY <1>1, <2>1, KeptLength
  <2>3. i < Len(list) /\ device' = i
    BY <1>7 DEF Select
  <2>4. device' \in 0 .. Len(list) - 1
    BY <2>2, <2>3
  <2>5. QED
    BY <1>6, <1>7, <2>4 DEF Select
<1>8. ASSUME NEW step \in {-1, 1}, Move(step) PROVE Step
  <2>1. Open /\ list # <<>>
    BY <1>8 DEF Move, Form, Open
  <2>2. Len(list) \in Nat /\ Len(list) > 0
    <3>1. Len(list) \in Nat /\ list \in Seq(EntryType)
      BY <1>1, <2>1, KeptLength DEF Kept
    <3>2. QED
      BY <2>1, <3>1
  <2>3. device' \in 0 .. Len(list) - 1
    BY <1>8, <2>2 DEF Move
  <2>4. QED
    BY <1>6, <1>8, <2>3 DEF Move
<1>9. ASSUME New PROVE Step
  BY <1>6, <1>9 DEF New
<1>10. ASSUME NEW on \in BOOLEAN, EncryptLinkCheckbox(on) PROVE Step
  <2>1. Open /\ Holds /\ UNCHANGED <<device, saved, at, dev, hosts, retry>>
    BY <1>10 DEF EncryptLinkCheckbox, Open, Holds
  <2>2. Kept /\ Rest
    BY <1>1, <2>1
  <2>3. dev \in UIDs /\ panic = FALSE
    BY <2>1, <2>2 DEF Rest
  <2>4. Index(dev) \in 1 .. Len(list) /\ HasRecord(dev)
    BY <2>2, <2>3, InUIDs
  <2>5. list' = [list EXCEPT ![Index(dev)].enc = on] /\ db' = Written(list'[Index(dev)])
        /\ panic' = panic
    BY <1>10, <2>4 DEF EncryptLinkCheckbox
  <2>6. Kept' /\ UIDs' = UIDs /\ Len(list') = Len(list)
    BY <2>1, <2>2, <2>4, <2>5, WriteKept
  <2>7. Rest'
    BY <2>1, <2>2, <2>5, <2>6 DEF Rest, Holds
  <2>8. Follows
    BY <2>2, <2>6, KeptLength DEF Follows
  <2>9. QED
    BY <2>1, <2>6, <2>7, <2>8 DEF Step
<1>11. ASSUME DevListDetails PROVE Step
  <2>1. Open /\ Selected # None /\ Hold("details")
        /\ UNCHANGED <<db, list, saved, hosts, retry, panic>>
    BY <1>11 DEF DevListDetails, Form, Open
  <2>2. Kept /\ Rest
    BY <1>1, <2>1
  <2>3. hosts' \in [Channels -> Addrs \cup {None}]
    BY <2>1, <2>2 DEF Rest
  <2>4. QED
    BY <2>1, <2>2, <2>3, HoldStep
<1>12. ASSUME Connect PROVE Step
  <2>1. Open /\ Selected # None /\ Hold("connect")
        /\ UNCHANGED <<db, list, saved, hosts, retry, panic>>
    BY <1>12 DEF Connect, Form, Open
  <2>2. Kept /\ Rest
    BY <1>1, <2>1
  <2>3. hosts' \in [Channels -> Addrs \cup {None}]
    BY <2>1, <2>2 DEF Rest
  <2>4. QED
    BY <2>1, <2>2, <2>3, HoldStep
<1>13. ASSUME Reconnect PROVE Step
  <2>1. Open /\ Selected # None /\ Hold("connect") /\ hosts' = NoHosts
        /\ UNCHANGED <<db, list, saved, retry, panic>>
    BY <1>13 DEF Reconnect, Open
  <2>2. Kept /\ Rest
    BY <1>1, <2>1
  <2>3. QED
    BY <1>2, <2>1, <2>2, HoldStep

(* What was held is deleted, or given back.                                *)
<1>14. ASSUME Open, UNCHANGED <<db, list, device, saved, panic>>, ~ Holds', dev' = None,
              at' \in {"form", "connected"}, retry' \in BOOLEAN,
              hosts' \in [Channels -> Addrs \cup {None}]
       PROVE  Step
  <2>1. Kept /\ Rest
    BY <1>1, <1>14
  <2>2. dev' \in 0 .. MaxUID
    BY <1>14, DevListAssumption DEF None
  <2>3. Rest'
    BY <1>14, <2>1, <2>2 DEF Rest
  <2>4. QED
    BY <1>14, <2>1, <2>3, SameStep DEF records
<1>15. ASSUME DeleteButton PROVE Step
  <2>1. Open /\ Holds /\ DevListDelete(dev) /\ at' = "form" /\ dev' = None
        /\ UNCHANGED <<saved, hosts, retry>>
    BY <1>15 DEF DeleteButton, Open, Holds, Released
  <2>2. Kept /\ Rest
    BY <1>1, <2>1
  <2>3. dev \in UIDs /\ device # noListSelection /\ retry' \in BOOLEAN
        /\ hosts' \in [Channels -> Addrs \cup {None}]
    BY <2>1, <2>2 DEF Rest
  <2>4. QED
    BY <2>1, <2>2, <2>3, DeleteStep
<1>16. ASSUME OKButton PROVE Step
  <2>1. Open /\ at' = "form" /\ dev' = None
        /\ UNCHANGED <<db, list, device, saved, hosts, retry, panic>>
    BY <1>16 DEF OKButton, Open, Released, records
  <2>2. Rest
    BY <1>1, <2>1
  <2>3. QED
    BY <1>14, <2>1, <2>2 DEF Rest, Holds
<1>17. ASSUME ConnectFails PROVE Step
  <2>1. Open /\ at' = "form" /\ dev' = None /\ hosts' = NoHosts /\ retry' = FALSE
        /\ UNCHANGED <<db, list, device, saved, panic>>
    BY <1>17 DEF ConnectFails, Connecting, Open, Released, records
  <2>2. QED
    BY <1>2, <1>14, <2>1 DEF Holds
<1>18. ASSUME ConnectSucceeds PROVE Step
  <2>1. Open /\ Holds /\ at' = "connected" /\ dev' = None /\ retry' = TRUE
        /\ UNCHANGED <<db, list, device, saved>> /\ panic' = ~ HasRecord(dev)
        /\ hosts' = [c \in Channels |-> IF hosts[c] = None THEN list[Index(dev)].addr
                                                           ELSE hosts[c]]
    BY <1>18 DEF ConnectSucceeds, Connecting, Open, Holds, Released, records
  <2>2. Kept /\ Rest
    BY <1>1, <2>1
  <2>3. dev \in UIDs /\ panic = FALSE /\ hosts \in [Channels -> Addrs \cup {None}]
    BY <2>1, <2>2 DEF Rest
  <2>4. HasRecord(dev) /\ Index(dev) \in 1 .. Len(list)
    BY <2>2, <2>3, InUIDs
  <2>5. list[Index(dev)].addr \in Addrs
    <3>1. list[Index(dev)] \in EntryType
      BY <2>2, <2>4, InList
    <3>2. QED
      BY <3>1 DEF EntryType
  <2>6. hosts' \in [Channels -> Addrs \cup {None}]
    BY <2>1, <2>3, <2>5
  <2>7. panic' = panic
    BY <2>1, <2>3, <2>4
  <2>8. QED
    BY <1>14, <2>1, <2>6, <2>7 DEF Holds

(* The selected device is deleted.                                         *)
<1>19. ASSUME Open, Selected # None, DevListDelete(Selected), at' = "form", dev' = None,
              saved' = saved, retry' \in BOOLEAN, hosts' \in [Channels -> Addrs \cup {None}]
       PROVE  Step
  <2>1. Kept /\ Rest
    BY <1>1, <1>19
  <2>2. Selected \in UIDs /\ device # noListSelection
    BY <1>19, <2>1, SelectedIn
  <2>3. QED
    BY <1>19, <2>1, <2>2, DeleteStep
<1>20. ASSUME AuthenticationFails PROVE Step
  <2>1. Open /\ Holds /\ DevListDelete(Selected) /\ at' = "form" /\ dev' = None
        /\ saved' = saved /\ hosts' = NoHosts /\ retry' = FALSE
    BY <1>20 DEF AuthenticationFails, Open, Holds, Released
  <2>2. Kept /\ Rest
    BY <1>1, <2>1
  <2>3. Selected # None
    <3>1. list # <<>> /\ device # noListSelection
      BY <2>1, <2>2, InUIDs DEF Rest
    <3>2. device \in 0 .. Len(list) - 1 /\ Len(list) \in Nat
      BY <2>2, <3>1, KeptLength DEF Kept
    <3>3. Selected = list[device + 1].uid /\ device + 1 \in 1 .. Len(list)
      BY <3>1, <3>2 DEF Selected, Selection
    <3>4. list[device + 1].uid \in UIDs
      BY <3>3 DEF UIDs
    <3>5. QED
      BY <2>2, <3>3, <3>4, InUIDs
  <2>4. QED
    BY <1>2, <1>19, <2>1, <2>3
<1>21. ASSUME Unplug PROVE Step
  <2>1. Open /\ ~ Holds /\ at' = "form" /\ retry' = FALSE /\ UNCHANGED <<saved, dev, hosts>>
    BY <1>21 DEF Unplug, Open, Holds
  <2>2. Rest
    BY <1>1, <2>1
  <2>3. dev' = None /\ hosts' \in [Channels -> Addrs \cup {None}]
    BY <2>1, <2>2 DEF Rest
  <2>4. CASE Selected # None
    <3>1. DevListDelete(Selected)
      BY <1>21, <2>4 DEF Unplug
    <3>2. QED
      BY <1>19, <2>1, <2>3, <2>4, <3>1
  <2>5. CASE Selected = None
    <3>1. UNCHANGED <<db, list, device, panic>>
      BY <1>21, <2>5 DEF Unplug, records
    <3>2. QED
      BY <1>14, <2>1, <2>3, <3>1 DEF Holds
  <2>6. QED
    BY <2>4, <2>5
<1>22. ASSUME Wait PROVE Step
  <2>1. Open /\ ~ Holds /\ at' = "connected" /\ retry' = FALSE
        /\ UNCHANGED <<db, list, device, saved, dev, hosts, panic>>
    BY <1>22 DEF Wait, Form, Open, Holds, records
  <2>2. Rest
    BY <1>1, <2>1
  <2>3. dev' = None /\ hosts' \in [Channels -> Addrs \cup {None}]
    BY <2>1, <2>2 DEF Rest
  <2>4. QED
    BY <1>14, <2>1, <2>3 DEF Holds
<1>23. ASSUME Disconnect PROVE Step
  <2>1. Open /\ ~ Holds /\ at' = "form" /\ retry' = FALSE /\ hosts' = NoHosts
        /\ UNCHANGED <<db, list, device, saved, dev, panic>>
    BY <1>23 DEF Disconnect, Open, Holds, records
  <2>2. Rest
    BY <1>1, <2>1
  <2>3. dev' = None
    BY <2>1, <2>2 DEF Rest
  <2>4. QED
    BY <1>2, <1>14, <2>1, <2>3 DEF Holds
<1>24. ASSUME Authenticate PROVE Step
  <2>1. /\ Open /\ Holds /\ at' = "authenticate"
        /\ UNCHANGED <<db, list, device, saved, dev, hosts, retry, panic>>
    BY <1>24 DEF Authenticate, Open, Holds, records
  <2>2. Kept /\ Rest
    BY <1>1, <2>1
  <2>3. UIDs' = UIDs /\ Holds' /\ UNCHANGED records
    BY <2>1 DEF UIDs, Holds, records
  <2>4. Rest'
    BY <2>1, <2>2, <2>3 DEF Rest
  <2>5. QED
    BY <2>1, <2>2, <2>3, <2>4, SameStep
<1>25. QED
  BY <1>3, <1>4, <1>5, <1>7, <1>8, <1>9, <1>10, <1>11, <1>12, <1>13, <1>15, <1>16, <1>17,
     <1>18, <1>20, <1>21, <1>22, <1>23, <1>24 DEF Next

LEMMA NextDev == IInv /\ [Next]_vars => IInv'
<1> SUFFICES ASSUME IInv, [Next]_vars PROVE IInv'
  OBVIOUS
<1>1. CASE Step
  BY <1>1, OpenedNext DEF Step
<1>2. CASE Close
  <2>1. /\ Open /\ list' = <<>> /\ at' = "closed" /\ dev' = None /\ hosts' = NoHosts
        /\ retry' = FALSE /\ saved' \in {saved, device} /\ UNCHANGED <<db, device, panic>>
    BY <1>2 DEF Close, Running, Open, Released
  <2>2. Kept /\ Rest
    BY <2>1, Opened
  <2>3. /\ db \in Seq(RecordType) /\ Len(db) <= MaxUID /\ Numbered(db)
        /\ \A q, r \in Live(db) : db[q].addr = db[r].addr => q = r
        /\ device' \in 0 .. noListSelection /\ saved' \in 0 .. noListSelection
        /\ panic' = FALSE
    BY <2>1, <2>2 DEF Kept, Rest
  <2>4. /\ Lists(Loaded(db), db) /\ Loaded(db) \in Seq(EntryType)
    BY DEF IInv, DInv
  <2>5. dev' \in 0 .. MaxUID /\ hosts' \in [Channels -> Addrs \cup {None}]
    BY <2>1, DevListAssumption DEF None, NoHosts
  <2>6. ~ Open' /\ ~ Holds' /\ db' = db /\ list' \in Seq(EntryType)
    BY <2>1 DEF Open, Holds
  <2>7. TypeOK'
    BY <2>1, <2>3, <2>5, <2>6 DEF TypeOK, RecordType, EntryType
  <2>8. Lists(Loaded(db'), db') /\ Loaded(db') \in Seq(EntryType) /\ Numbered(db')
        /\ \A q, r \in Live(db') : db'[q].addr = db'[r].addr => q = r
    BY <2>3, <2>4, <2>6
  <2>9. DInv'
    BY <2>1, <2>3, <2>6, <2>8 DEF DInv
  <2>10. QED
    BY <2>7, <2>9 DEF IInv
<1>3. CASE DevListInit
  <2>1. /\ at = "closed" /\ at' = "form" /\ list' = Loaded(db)
        /\ device' = (IF saved >= Len(list') THEN 0 ELSE saved)
        /\ UNCHANGED <<db, saved, dev, hosts, retry, panic>>
    BY <1>3 DEF DevListInit
  <2>2. /\ db \in Seq(RecordType) /\ Len(db) <= MaxUID /\ Numbered(db)
        /\ \A q, r \in Live(db) : db[q].addr = db[r].addr => q = r
        /\ saved \in 0 .. noListSelection /\ panic = FALSE
        /\ hosts \in [Channels -> Addrs \cup {None}] /\ retry \in BOOLEAN
    BY DEF IInv, DInv, TypeOK, RecordType
  <2>3. dev = None /\ dev \in 0 .. MaxUID
    BY <2>1 DEF IInv, DInv, TypeOK, Holds
  <2>4. Lists(list', db) /\ list' \in Seq(EntryType)
    BY <2>1 DEF IInv, DInv
  <2>5. Len(list') \in Nat
    BY <2>4
  <2>6. /\ device' \in 0 .. noListSelection
        /\ list' # <<>> => device' \in 0 .. Len(list') - 1
    <3>1. list' # <<>> => Len(list') > 0
      BY <2>4
    <3>2. saved \in Nat /\ saved <= noListSelection
      BY <2>2, NoSelection
    <3>3. QED
      BY <2>1, <2>5, <3>1, <3>2, NoSelection
  <2>7. Kept'
    <3>1. Lists(list', db') /\ Numbered(db')
          /\ \A q, r \in Live(db') : db'[q].addr = db'[r].addr => q = r
      BY <2>1, <2>2, <2>4
    <3>2. QED
      BY <2>1, <2>2, <2>4, <2>6, <3>1 DEF Kept
  <2>8. Rest'
    BY <2>1, <2>2, <2>3 DEF Rest, Holds
  <2>9. QED
    BY <2>7, <2>8, OpenedNext
<1>4. CASE UNCHANGED vars
  <2>1. /\ db' = db /\ list' = list /\ device' = device /\ saved' = saved /\ at' = at
        /\ dev' = dev /\ hosts' = hosts /\ retry' = retry /\ panic' = panic
    BY <1>4 DEF vars
  <2>2. TypeOK'
    BY <2>1 DEF IInv, TypeOK
  <2>3. Lists(Loaded(db'), db') /\ Loaded(db') = Loaded(db) /\ Numbered(db')
        /\ Live(db') = Live(db) /\ UIDs' = UIDs /\ Open' = Open /\ Holds' = Holds
    BY <2>1 DEF IInv, DInv, UIDs, Open, Holds
  <2>4. DInv'
    BY <2>1, <2>3 DEF IInv, DInv
  <2>5. QED
    BY <2>2, <2>4 DEF IInv
<1>5. QED
  BY <1>1, <1>2, <1>3, <1>4, RunningStep

(* The list and the database fit together, and what is held is in them.    *)
THEOREM Invariant == Spec => []IInv
<1>1. QED
  BY InitDev, NextDev, PTL DEF Spec

(* The list in memory is what a restart would load, a host has one entry,  *)
(* and the selection is in the list: also after hosts have come in while a *)
(* dialog was open, and after deletions, failures and restarts.            *)
THEOREM StoredTheorem == Spec => []ListStored
<1>1. IInv => ListStored
  <2> SUFFICES ASSUME IInv PROVE ListStored
    OBVIOUS
  <2>1. TypeOK /\ (at # "closed" => list = Loaded(db))
    BY DEF IInv, DInv, Open
  <2>2. ASSUME at # "closed"
        PROVE  /\ list # <<>> => device \in 0 .. Len(list) - 1 \cup {noListSelection}
               /\ \A i, j \in 1 .. Len(list) : list[i].addr = list[j].addr => i = j
    <3>1. Kept
      BY <2>2, Opened DEF Open
    <3>2. ASSUME NEW i \in 1 .. Len(list), NEW j \in 1 .. Len(list),
                 list[i].addr = list[j].addr
          PROVE  i = j
      <4>1. /\ list[i].uid \in Live(db) /\ list[i] = Entry(db[list[i].uid])
            /\ list[j].uid \in Live(db) /\ list[j] = Entry(db[list[j].uid])
        BY <3>1, InList
      <4>2. db[list[i].uid].addr = db[list[j].uid].addr
        BY <3>2, <4>1 DEF Entry
      <4>3. list[i].uid = list[j].uid
        BY <3>1, <4>1, <4>2 DEF Kept
      <4>4. QED
        BY <3>1, <4>3, Increasing DEF Kept
    <3>3. QED
      BY <3>1, <3>2 DEF Kept
  <2>3. CASE at # "closed"
    BY <2>1, <2>2, <2>3 DEF ListStored
  <2>4. CASE at = "closed"
    <3>1. list = <<>>
      BY <2>4 DEF IInv, DInv, Open
    <3>2. \A i, j \in 1 .. Len(list) : list[i].addr = list[j].addr => i = j
      BY <3>1
    <3>3. QED
      BY <2>1, <2>4, <3>2 DEF ListStored
  <2>5. QED
    BY <2>3, <2>4
<1>2. QED
  BY <1>1, Invariant, PTL

(* What a dialog or BTConnect holds stays in the list until it lets go, so *)
(* that no PANICIF of the list fires.                                      *)
THEOREM HeldTheorem == Spec => []HeldInList
<1>1. IInv => HeldInList
  BY DEF IInv, DInv, HeldInList
<1>2. QED
  BY <1>1, Invariant, PTL

(* While a device other than the selected one is deleted the selection     *)
(* stays with its device, although it is an index.                         *)
THEOREM SelectionTheorem == Spec => SelectionFollows
<1>1. IInv /\ [Next]_vars
        => [at # "closed" /\ at' # "closed" /\ Selected \in UIDs' /\ Len(list') < Len(list)
              => Selected' = Selected]_vars
  <2> SUFFICES ASSUME IInv, Next, at # "closed", at' # "closed", Selected \in UIDs',
                      Len(list') < Len(list)
               PROVE  Selected' = Selected
    OBVIOUS
  <2>1. ~ Close /\ ~ DevListInit
    BY DEF Close, Released, DevListInit
  <2>2. Step
    BY <2>1, RunningStep
  <2>3. QED
    BY <2>2 DEF Step, Follows
<1>2. QED
  BY <1>1, Invariant, PTL DEF Spec, SelectionFollows
=============================================================================
