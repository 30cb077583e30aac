---------------------------- MODULE RemoteProofs ----------------------------
(***************************************************************************)
(* That what is down at the host is explained, that the pointer rests, and *)
(* that the form asked for last is reached (Remote.tla), for every device  *)
(* and keyboard, and any number of fingers and events.                     *)
(*                                                                         *)
(* The invariant IInv has three parts: Typed, of the record r; FInv, of    *)
(* the events that wait and of the goal; KInv, of what is down and of the  *)
(* commands that wait.  A command that waits to press a key is of a finger *)
(* that still holds it, and one that waits to release a key explains it.   *)
(* The steps change a record field by field: But says which fields a step  *)
(* may change.                                                             *)
(***************************************************************************)
EXTENDS Remote, SequenceTheorems, TLAPS

(* The state is a record, as is that of the input side.                    *)
Fields == {"device", "override", "form", "asked", "drawn", "goal", "switched", "late", "lost",
           "events", "over", "enabled", "cmds", "fingers", "stuck", "hidp", "hardkey", "timer",
           "selected", "dragmode", "drag", "trackPen", "moved"}
Record(n) == n = [f \in Fields |-> n[f]]

Inputs == {"modifiers", "modstate", "modtimer", "pressed", "buttonState", "X", "posChanged",
           "keyboard", "mouse"}
Shaped(s) == s = [f \in Inputs |-> s[f]]

(* t is n but for the fields C.                                            *)
But(n, t, C) == Record(t) /\ \A f \in Fields \ C : t[f] = n[f]

(* What is pressed stays.                                                  *)
Keeps(s, t) == Shaped(t) /\ t.pressed = s.pressed /\ t.buttonState = s.buttonState

LEMMA ReportSteps ==
    ASSUME NEW s, Shaped(s)
    PROVE  Keeps(s, HID!SendKeys(s)) /\ Keeps(s, HID!SendMouse(s))
<1>1. Keeps(s, HID!SendKeys(s))
  BY DEF Keeps, HID!SendKeys, Shaped, Inputs
<1>2. Keeps(s, HID!SendMouse(s))
  BY DEF Keeps, HID!SendMouse, Shaped, Inputs
<1>3. QED
  BY <1>1, <1>2

LEMMA KeepsTwice ==
    ASSUME NEW s, NEW t, NEW u, Keeps(s, t), Keeps(t, u)
    PROVE  Keeps(s, u)
  BY DEF Keeps

LEMMA ToggleKeeps ==
    ASSUME NEW s, Shaped(s), NEW to, NEW b
    PROVE  Keeps(s, HID!Toggle(s, to, b))
<1>1. CASE (b \in s.modifiers) <=> (b \in to)
  BY <1>1 DEF HID!Toggle, Keeps
<1>2. CASE ~ ((b \in s.modifiers) <=> (b \in to))
  <2> DEFINE mods == IF b \in to THEN s.modifiers \cup {b} ELSE s.modifiers \ {b}
             u == [s EXCEPT !.modifiers = mods]
  <2>1. HID!Toggle(s, to, b) = HID!SendKeys(u)
    BY <1>2 DEF HID!Toggle
  <2> HIDE DEF mods
  <2>2. Keeps(s, u)
    BY DEF Keeps, Shaped, Inputs
  <2> HIDE DEF u
  <2>3. Shaped(u)
    BY <2>2 DEF Keeps
  <2>4. Keeps(u, HID!SendKeys(u))
    BY <2>3, ReportSteps
  <2>5. QED
    BY <2>1, <2>2, <2>4, KeepsTwice
<1>3. QED
  BY <1>1, <1>2

LEMMA SetModifiersKeeps ==
    ASSUME NEW s, Shaped(s), NEW m
    PROVE  Keeps(s, HID!SetModifiers(s, m))
<1> DEFINE to == HID!Requested(s.modifiers, m)
           Go(t, b) == HID!Toggle(t, to, b)
           t1 == Go(s, "LeftControl")
           t2 == Go(t1, "LeftShift")
           t3 == Go(t2, "LeftAlt")
           t4 == Go(t3, "LeftGUI")
           t5 == Go(t4, "RightControl")
           t6 == Go(t5, "RightShift")
           t7 == Go(t6, "RightAlt")
           t8 == Go(t7, "RightGUI")
<1>1. HID!SetModifiers(s, m) = t8
  BY DEF HID!SetModifiers, HID!ToggleLeft, HID!ToggleRight
<1>2. ASSUME NEW t, NEW b, Keeps(s, t) PROVE Keeps(s, Go(t, b))
  <2>1. Shaped(t)
    BY <1>2 DEF Keeps
  <2>2. Keeps(t, HID!Toggle(t, to, b))
    BY <2>1, ToggleKeeps
  <2>3. QED
    BY <1>2, <2>2, KeepsTwice
<1>3. Keeps(s, s)
  BY DEF Keeps
<1> HIDE DEF to, Go
<1>4. Keeps(s, t1) /\ Keeps(s, t2)
  BY <1>2, <1>3
<1> HIDE DEF t1, t2
<1>5. Keeps(s, t3) /\ Keeps(s, t4)
  BY <1>2, <1>4
<1> HIDE DEF t3, t4
<1>6. Keeps(s, t5) /\ Keeps(s, t6)
  BY <1>2, <1>5
<1> HIDE DEF t5, t6
<1>7. Keeps(s, t7) /\ Keeps(s, t8)
  BY <1>2, <1>6
<1>8. QED
  BY <1>1, <1>7

(* A button goes down, or up.                                              *)
Buttoned(s, t, B) == Shaped(t) /\ t.pressed = s.pressed /\ t.buttonState = B

LEMMA ButtonSteps ==
    ASSUME NEW s, Shaped(s), NEW n
    PROVE  /\ Buttoned(s, HID!ButtonDown(s, n), s.buttonState \cup {n})
           /\ Buttoned(s, HID!ButtonUp(s, n), s.buttonState \ {n})
           /\ Buttoned(s, HID!SendMouse(s), s.buttonState)
<1>1. Buttoned(s, HID!ButtonDown(s, n), s.buttonState \cup {n})
  <2> DEFINE u == [s EXCEPT !.buttonState = s.buttonState \cup {n}]
  <2>1. Shaped(u) /\ u.pressed = s.pressed /\ u.buttonState = s.buttonState \cup {n}
    BY DEF Shaped, Inputs
  <2>2. HID!ButtonDown(s, n) = HID!SendMouse(u)
    BY DEF HID!ButtonDown
  <2> HIDE DEF u
  <2>3. QED
    BY <2>1, <2>2, ReportSteps DEF Keeps, Buttoned
<1>2. Buttoned(s, HID!ButtonUp(s, n), s.buttonState \ {n})
  <2> DEFINE u == [s EXCEPT !.buttonState = s.buttonState \ {n}]
  <2>1. Shaped(u) /\ u.pressed = s.pressed /\ u.buttonState = s.buttonState \ {n}
    BY DEF Shaped, Inputs
  <2>2. HID!ButtonUp(s, n) = HID!SendMouse(u)
    BY DEF HID!ButtonUp
  <2> HIDE DEF u
  <2>3. QED
    BY <2>1, <2>2, ReportSteps DEF Keeps, Buttoned
<1>3. Buttoned(s, HID!SendMouse(s), s.buttonState)
  BY ReportSteps DEF Keeps, Buttoned
<1>4. QED
  BY <1>1, <1>2, <1>3

LEMMA HIDPButtonFacts ==
    ASSUME NEW s, Shaped(s), NEW action \in {"Press", "Release", "Click"}, NEW n, NEW m
    PROVE  Buttoned(s, HID!HIDPButton(s, action, n, m),
                    IF action = "Press" THEN s.buttonState \cup {n} ELSE s.buttonState \ {n})
<1> DEFINE B == IF action = "Press" THEN s.buttonState \cup {n} ELSE s.buttonState \ {n}
           set == HID!SetModifiers(s, m)
           tap == HID!ButtonDown(set, n)
           up == HID!ButtonUp(tap, n)
           done == CASE action = "Press" -> HID!ButtonDown(set, n)
                     [] action = "Release" -> HID!ButtonUp(set, n)
                     [] action = "Click" -> HID!SendMouse(up)
<1>1. HID!HIDPButton(s, action, n, m) = HID!SetModifiers(done, HID!Bits(s.modifiers))
  BY DEF HID!HIDPButton, HID!ButtonTap
<1>2. Shaped(set) /\ set.pressed = s.pressed /\ set.buttonState = s.buttonState
  BY SetModifiersKeeps DEF Keeps
<1> HIDE DEF set
<1>3. Buttoned(set, tap, s.buttonState \cup {n})
  BY <1>2, ButtonSteps
<1>4. Buttoned(tap, up, (s.buttonState \cup {n}) \ {n})
  BY <1>3, ButtonSteps DEF Buttoned
<1>5. Buttoned(up, HID!SendMouse(up), (s.buttonState \cup {n}) \ {n})
  BY <1>4, ButtonSteps DEF Buttoned
<1>6. Buttoned(set, HID!ButtonUp(set, n), s.buttonState \ {n})
  BY <1>2, ButtonSteps
<1>7. (s.buttonState \cup {n}) \ {n} = s.buttonState \ {n}
  OBVIOUS
<1>8. Buttoned(s, done, B)
  <2>1. CASE action = "Press"
    BY <1>2, <1>3, <2>1 DEF Buttoned
  <2>2. CASE action = "Release"
    BY <1>2, <1>6, <2>2 DEF Buttoned
  <2>3. CASE action = "Click"
    <3>1. done = HID!SendMouse(up)
      BY <2>3
    <3>2. Shaped(done) /\ done.pressed = s.pressed /\ done.buttonState = s.buttonState \ {n}
      BY <1>2, <1>3, <1>4, <1>5, <1>7, <3>1 DEF Buttoned
    <3> HIDE DEF done
    <3>3. QED
      BY <2>3, <3>2 DEF Buttoned
  <2>4. QED
    BY <2>1, <2>2, <2>3
<1> HIDE DEF done, B
<1>9. Shaped(done)
  BY <1>8 DEF Buttoned
<1>10. Buttoned(s, HID!SetModifiers(done, HID!Bits(s.modifiers)), B)
  BY <1>8, <1>9, SetModifiersKeeps DEF Buttoned, Keeps
<1>11. QED
  BY <1>1, <1>10 DEF B

(* The keys that hard keys press at the host.                              *)
HostCodes == {"A", "UpArrow", "Return"}
KeysOf(p) == {p[i] : i \in 1 .. Len(p)}
Distinct(p) == \A i, j \in 1 .. Len(p) : p[i] = p[j] => i = j

(* A key goes down, or up: no other key does.                              *)
Keyed(s, t, S, K) ==
    /\ Shaped(t) /\ t.buttonState = s.buttonState
    /\ t.pressed \in Seq(S) /\ Distinct(t.pressed) /\ KeysOf(t.pressed) \subseteq K

LEMMA PressSteps ==
    ASSUME NEW s, Shaped(s), NEW S, s.pressed \in Seq(S), Distinct(s.pressed), NEW k \in S
    PROVE  Keyed(s, HID!Press(s, k), S, KeysOf(s.pressed) \cup {k})
<1> DEFINE u == [s EXCEPT !.pressed = Append(s.pressed, k)]
<1>1. CASE HID!KeyPressed(s, k) \/ Len(s.pressed) = MaxPressed
  <2>1. HID!Press(s, k) = HID!SendKeys(s)
    BY <1>1 DEF HID!Press
  <2>2. Keeps(s, HID!SendKeys(s))
    BY ReportSteps
  <2>3. QED
    BY <2>1, <2>2 DEF Keeps, Keyed
<1>2. CASE ~ (HID!KeyPressed(s, k) \/ Len(s.pressed) = MaxPressed)
  <2>1. HID!Press(s, k) = HID!SendKeys(u)
    BY <1>2 DEF HID!Press
  <2>2. Shaped(u) /\ u.pressed = Append(s.pressed, k) /\ u.buttonState = s.buttonState
    BY DEF Shaped, Inputs
  <2> HIDE DEF u
  <2>3. Keeps(u, HID!SendKeys(u))
    BY <2>2, ReportSteps
  <2> DEFINE p == s.pressed
             q == Append(p, k)
  <2>4. q \in Seq(S) /\ Len(q) = Len(p) + 1 /\ Len(p) \in Nat /\ q[Len(p) + 1] = k
        /\ \A i \in 1 .. Len(p) : q[i] = p[i]
    OBVIOUS
  <2>5. \A i \in 1 .. Len(p) : p[i] # k
    BY <1>2 DEF HID!KeyPressed
  <2>6. Distinct(p)
    OBVIOUS
  <2> HIDE DEF p, q
  <2>7. Distinct(q)
    BY <2>4, <2>5, <2>6 DEF Distinct
  <2>8. KeysOf(q) \subseteq KeysOf(p) \cup {k}
    <3> SUFFICES ASSUME NEW i \in 1 .. Len(q) PROVE q[i] \in KeysOf(p) \cup {k}
      BY DEF KeysOf
    <3>1. i \in 1 .. Len(p) \/ i = Len(p) + 1
      BY <2>4
    <3>2. QED
      BY <2>4, <3>1 DEF KeysOf
  <2>9. QED
    BY <2>1, <2>2, <2>3, <2>4, <2>7, <2>8 DEF Keeps, Keyed, p, q
<1>3. QED
  BY <1>1, <1>2

LEMMA WithoutFacts ==
    ASSUME NEW S, NEW p \in Seq(S), Distinct(p), NEW i \in 1 .. Len(p)
    PROVE  /\ HID!Without(p, i) \in Seq(S)
           /\ Distinct(HID!Without(p, i))
           /\ KeysOf(HID!Without(p, i)) \subseteq KeysOf(p) \ {p[i]}
<1> DEFINE n == Len(p) - 1
           q == HID!Without(p, i)
<1>0. n \in Nat /\ Len(p) = n + 1 /\ i \in 1 .. n + 1 /\ \A j \in 1 .. n + 1 : p[j] \in S
  OBVIOUS
<1>1. q = [j \in 1 .. n |-> IF j < i THEN p[j] ELSE p[j + 1]]
  BY DEF HID!Without
<1> HIDE DEF n, q
<1>2. \A j \in 1 .. n : q[j] \in S
  BY <1>0, <1>1
<1>3. q \in Seq(S) /\ Len(q) = n
  BY <1>0, <1>1, <1>2
<1>4. ASSUME NEW j \in 1 .. n
      PROVE  \E m \in 1 .. n + 1 : q[j] = p[m] /\ m # i /\ m = IF j < i THEN j ELSE j + 1
  BY <1>0, <1>1
<1>5. Distinct(q)
  <2> SUFFICES ASSUME NEW j \in 1 .. n, NEW l \in 1 .. n, q[j] = q[l] PROVE j = l
    BY <1>3 DEF Distinct
  <2>1. PICK a \in 1 .. n + 1 : q[j] = p[a] /\ a = IF j < i THEN j ELSE j + 1
    BY <1>4
  <2>2. PICK b \in 1 .. n + 1 : q[l] = p[b] /\ b = IF l < i THEN l ELSE l + 1
    BY <1>4
  <2>3. a = b
    BY <1>0, <2>1, <2>2 DEF Distinct
  <2>4. QED
    BY <1>0, <2>1, <2>2, <2>3
<1>6. KeysOf(q) \subseteq KeysOf(p) \ {p[i]}
  <2> SUFFICES ASSUME NEW j \in 1 .. n PROVE q[j] \in KeysOf(p) \ {p[i]}
    BY <1>3 DEF KeysOf
  <2>1. PICK m \in 1 .. n + 1 : q[j] = p[m] /\ m # i
    BY <1>4
  <2>2. p[m] # p[i]
    BY <1>0, <2>1 DEF Distinct
  <2>3. QED
    BY <1>0, <2>1, <2>2 DEF KeysOf
<1>7. QED
  BY <1>3, <1>5, <1>6 DEF q

LEMMA ReleaseSteps ==
    ASSUME NEW s, Shaped(s), NEW S, s.pressed \in Seq(S), Distinct(s.pressed), NEW k
    PROVE  Keyed(s, HID!Release(s, k), S, KeysOf(s.pressed) \ {k})
<1> DEFINE p == s.pressed
           Here(i) == p[i] = k /\ \A j \in 1 .. i - 1 : p[j] # k
           first == CHOOSE i \in 1 .. Len(p) : Here(i)
           q == HID!Without(p, first)
           u == [s EXCEPT !.pressed = q]
<1>1. CASE HID!KeyPressed(s, k)
  <2>1. HID!Release(s, k) = HID!SendKeys(u)
    BY <1>1 DEF HID!Release
  <2> HIDE DEF q
  <2>2. Shaped(u) /\ u.pressed = q /\ u.buttonState = s.buttonState
    BY DEF Shaped, Inputs
  <2>3. PICK i \in 1 .. Len(p) : p[i] = k
    BY <1>1 DEF HID!KeyPressed
  <2>4. Distinct(p) /\ p \in Seq(S)
    OBVIOUS
  <2> HIDE DEF u, p
  <2>5. Here(i)
    <3> SUFFICES ASSUME NEW j \in 1 .. i - 1 PROVE p[j] # k
      BY <2>3
    <3>1. Len(p) \in Nat /\ i \in 1 .. Len(p)
      BY <2>3, <2>4
    <3>2. j \in 1 .. Len(p) /\ j # i
      BY <3>1
    <3>3. QED
      BY <2>3, <2>4, <3>2 DEF Distinct
  <2>6. first \in 1 .. Len(p) /\ p[first] = k
    BY <2>3, <2>5
  <2> HIDE DEF first
  <2>7. /\ HID!Without(p, first) \in Seq(S) /\ Distinct(HID!Without(p, first))
        /\ KeysOf(HID!Without(p, first)) \subseteq KeysOf(p) \ {p[first]}
    BY <2>4, <2>6, WithoutFacts
  <2>8. Keeps(u, HID!SendKeys(u))
    BY <2>2, ReportSteps
  <2>9. QED
    BY <2>1, <2>2, <2>6, <2>7, <2>8 DEF Keeps, Keyed, p, q
<1>2. CASE ~ HID!KeyPressed(s, k)
  <2>1. HID!Release(s, k) = s
    BY <1>2 DEF HID!Release
  <2>2. k \notin KeysOf(s.pressed)
    BY <1>2 DEF HID!KeyPressed, KeysOf
  <2>3. QED
    BY <2>1, <2>2 DEF Keyed
<1>3. QED
  BY <1>1, <1>2

LEMMA ClickSteps ==
    ASSUME NEW s, Shaped(s), NEW S, s.pressed \in Seq(S), Distinct(s.pressed), NEW k
    PROVE  Keyed(s, HID!Release(HID!Press(s, k), k), S, KeysOf(s.pressed) \ {k})
<1> DEFINE T == S \cup {k}
           t == HID!Press(s, k)
           u == HID!Release(t, k)
<1>1. s.pressed \in Seq(T) /\ k \in T
  OBVIOUS
<1> HIDE DEF T
<1>2. Keyed(s, t, T, KeysOf(s.pressed) \cup {k})
  BY <1>1, PressSteps
<1> HIDE DEF t
<1>3. Keyed(t, u, T, KeysOf(t.pressed) \ {k})
  BY <1>2, ReleaseSteps DEF Keyed
<1> HIDE DEF u
<1>4. KeysOf(u.pressed) \subseteq KeysOf(s.pressed) \ {k}
  BY <1>2, <1>3 DEF Keyed
<1>5. u.pressed \in Seq(S)
  <2>1. KeysOf(s.pressed) \subseteq S
    BY DEF KeysOf
  <2>2. u.pressed \in Seq(T)
    BY <1>3 DEF Keyed
  <2>3. \A i \in 1 .. Len(u.pressed) : u.pressed[i] \in S
    BY <1>4, <2>1 DEF KeysOf
  <2>4. QED
    BY <2>2, <2>3
<1>6. QED
  BY <1>2, <1>3, <1>4, <1>5 DEF Keyed, t, u

LEMMA KeyedThenKept ==
    ASSUME NEW s, NEW t, NEW u, NEW S, NEW K, Keyed(s, t, S, K), Keeps(t, u)
    PROVE  Keyed(s, u, S, K)
  BY DEF Keeps, Keyed

LEMMA NormalKeyKeeps ==
    ASSUME NEW s, Shaped(s)
    PROVE  Keeps(s, HID!NormalKey(s))
<1> DEFINE st == [b \in {} |->
                    CASE s.modstate[b] \in {"Pressed", "Sticky", "StickyPressed"} -> "Released"
                      [] s.modstate[b] = "LockedPressed" -> "Locked"
                      [] OTHER -> s.modstate[b]]
           u == [s EXCEPT !.modstate = st]
           m == HID!Bits(s.modifiers \ HID!Sticky(s))
<1>1. HID!NormalKey(s) = HID!SetModifiers(u, m)
  BY DEF HID!NormalKey
<1> HIDE DEF st, m
<1>2. Keeps(s, u)
  BY DEF Keeps, Shaped, Inputs
<1> HIDE DEF u
<1>3. Shaped(u)
  BY <1>2 DEF Keeps
<1>4. Keeps(u, HID!SetModifiers(u, m))
  BY <1>3, SetModifiersKeeps
<1>5. QED
  BY <1>1, <1>2, <1>4, KeepsTwice

LEMMA HIDPKeyboardFacts ==
    ASSUME NEW s, Shaped(s), NEW S, s.pressed \in Seq(S), Distinct(s.pressed),
           NEW action \in {"Press", "Release", "Click"}, NEW k, action = "Press" => k \in S,
           NEW m
    PROVE  Keyed(s, HID!HIDPKeyboard(s, action, k, m), S,
                 IF action = "Press" THEN KeysOf(s.pressed) \cup {k} ELSE KeysOf(s.pressed) \ {k})
<1> DEFINE K == IF action = "Press" THEN KeysOf(s.pressed) \cup {k} ELSE KeysOf(s.pressed) \ {k}
           set == HID!SetModifiers(s, m)
           typed == HID!Typed(set, action, k)
           restored == HID!SetModifiers(typed, HID!Bits(s.modifiers))
<1>1. \/ HID!HIDPKeyboard(s, action, k, m) = restored
      \/ HID!HIDPKeyboard(s, action, k, m) = HID!NormalKey(restored)
  BY DEF HID!HIDPKeyboard
<1>2. Shaped(set) /\ set.pressed = s.pressed /\ set.buttonState = s.buttonState
  BY SetModifiersKeeps DEF Keeps
<1> HIDE DEF set
<1>3. Keyed(set, typed, S, K)
  <2>1. CASE action = "Press"
    <3>1. typed = HID!Press(set, k)
      BY <2>1 DEF HID!Typed
    <3>2. Keyed(set, HID!Press(set, k), S, KeysOf(s.pressed) \cup {k})
      BY <1>2, <2>1, PressSteps
    <3>3. QED
      BY <2>1, <3>1, <3>2
  <2>2. CASE action = "Release"
    <3>1. typed = HID!Release(set, k)
      BY <2>2 DEF HID!Typed
    <3>2. Keyed(set, HID!Release(set, k), S, KeysOf(s.pressed) \ {k})
      BY <1>2, ReleaseSteps
    <3>3. QED
      BY <2>2, <3>1, <3>2
  <2>3. CASE action = "Click"
    <3>1. typed = HID!Release(HID!Press(set, k), k)
      BY <2>3 DEF HID!Typed
    <3>2. Keyed(set, HID!Release(HID!Press(set, k), k), S, KeysOf(s.pressed) \ {k})
      BY <1>2, ClickSteps
    <3>3. QED
      BY <2>3, <3>1, <3>2
  <2>4. QED
    BY <2>1, <2>2, <2>3
<1> HIDE DEF K, typed
<1>4. Keyed(s, typed, S, K)
  BY <1>2, <1>3 DEF Keyed
<1>5. Keeps(typed, restored)
  BY <1>4, SetModifiersKeeps DEF Keyed
<1>6. Keyed(s, restored, S, K)
  BY <1>4, <1>5, KeyedThenKept
<1> HIDE DEF restored
<1>7. Keeps(restored, HID!NormalKey(restored))
  BY <1>6, NormalKeyKeeps DEF Keyed
<1>8. Keyed(s, HID!NormalKey(restored), S, K)
  BY <1>6, <1>7, KeyedThenKept
<1>9. QED
  BY <1>1, <1>6, <1>8 DEF K

LEMMA ButTwice ==
    ASSUME NEW n, NEW t, NEW u, NEW C, NEW D, But(n, t, C), But(t, u, D)
    PROVE  But(n, u, C \cup D)
  BY DEF But

LEMMA InputFacts ==
    ASSUME NEW n, Record(n), NEW s, Shaped(s)
    PROVE  But(n, Input(n, s), {"hidp"}) /\ Keeps(s, Input(n, s).hidp)
<1> DEFINE u == [s EXCEPT !.keyboard = <<>>, !.mouse = <<>>]
<1>1. Input(n, s) = [n EXCEPT !.hidp = u]
  BY DEF Input
<1>2. Keeps(s, u)
  BY DEF Keeps, Shaped, Inputs
<1> HIDE DEF u
<1>3. But(n, [n EXCEPT !.hidp = u], {"hidp"}) /\ [n EXCEPT !.hidp = u].hidp = u
  BY DEF But, Record, Fields
<1>4. QED
  BY <1>1, <1>2, <1>3

(* A call of the input side changes n.hidp only.                           *)
ButtonCalled(n, t, B) == But(n, t, {"hidp"}) /\ Buttoned(n.hidp, t.hidp, B)
KeyCalled(n, t, K) == But(n, t, {"hidp"}) /\ Keyed(n.hidp, t.hidp, HostCodes, K)

LEMMA ButtonCall ==
    ASSUME NEW n, Record(n), Shaped(n.hidp), NEW action \in {"Press", "Release", "Click"}, NEW b
    PROVE  ButtonCalled(n, HIDPButton(n, action, b),
                        IF action = "Press" THEN n.hidp.buttonState \cup {b}
                        ELSE n.hidp.buttonState \ {b})
<1> DEFINE B == IF action = "Press" THEN n.hidp.buttonState \cup {b}
                ELSE n.hidp.buttonState \ {b}
           s == HID!HIDPButton(n.hidp, action, b, HID!ModCurrent)
<1>1. Buttoned(n.hidp, s, B)
  BY HIDPButtonFacts
<1>2. HIDPButton(n, action, b) = Input(n, s)
  BY DEF HIDPButton
<1> HIDE DEF s, B
<1>3. But(n, Input(n, s), {"hidp"}) /\ Keeps(s, Input(n, s).hidp)
  BY <1>1, InputFacts DEF Buttoned
<1>4. QED
  BY <1>1, <1>2, <1>3 DEF ButtonCalled, Buttoned, Keeps, B

LEMMA KeyCall ==
    ASSUME NEW n, Record(n), Shaped(n.hidp), n.hidp.pressed \in Seq(HostCodes),
           Distinct(n.hidp.pressed), NEW action \in {"Press", "Release", "Click"},
           NEW k, action = "Press" => k \in HostCodes
    PROVE  KeyCalled(n, HIDPKeyboard(n, action, k),
                     IF action = "Press" THEN KeysOf(n.hidp.pressed) \cup {k}
                     ELSE KeysOf(n.hidp.pressed) \ {k})
<1> DEFINE K == IF action = "Press" THEN KeysOf(n.hidp.pressed) \cup {k}
                ELSE KeysOf(n.hidp.pressed) \ {k}
           s == HID!HIDPKeyboard(n.hidp, action, k, HID!ModCurrent)
<1>1. Keyed(n.hidp, s, HostCodes, K)
  BY HIDPKeyboardFacts
<1>2. HIDPKeyboard(n, action, k) = Input(n, s)
  BY DEF HIDPKeyboard
<1> HIDE DEF s, K
<1>3. But(n, Input(n, s), {"hidp"}) /\ Keeps(s, Input(n, s).hidp)
  BY <1>1, InputFacts DEF Keyed
<1>4. QED
  BY <1>1, <1>2, <1>3 DEF KeyCalled, Keyed, Keeps, K
-----------------------------------------------------------------------------
(* What is down at the host, and on the pad, is in the set E; what the     *)
(* program tells only while hardkeyOverride is set is down only with it.   *)
HostRight(n, E) ==
    /\ n.hidp.pressed \in Seq(HostCodes) /\ Distinct(n.hidp.pressed)
    /\ \A x \in KeysOf(n.hidp.pressed) : x \in E /\ (n.override \/ x = "A")
    /\ \A b \in n.hidp.buttonState : \/ b = 1 /\ n.override /\ "button" \in E
                                     \/ n.drag /\ b = Buttons[n.selected]
    /\ n.timer => n.hardkey # "none" /\ n.override /\ "pointer" \in E
    /\ n.trackPen => "stroke" \in E
    /\ n.drag => n.dragmode
    /\ n.dragmode \in BOOLEAN

HostFields == {"hidp", "hardkey", "timer", "override", "trackPen", "drag", "dragmode", "selected"}

(* What may be down.                                                       *)
Wanted(n) == {"A"} \cup (IF n.override THEN {"UpArrow", "Return", "button", "pointer"} ELSE {})
             \cup (IF n.trackPen THEN {"stroke"} ELSE {})

LEMMA HostMono ==
    ASSUME NEW n, NEW t, \A f \in HostFields : t[f] = n[f],
           NEW D, NEW E, HostRight(n, D), D \cap Wanted(n) \subseteq E
    PROVE  HostRight(t, E)
<1>1. /\ t.hidp = n.hidp /\ t.hardkey = n.hardkey /\ t.timer = n.timer
      /\ t.override = n.override /\ t.trackPen = n.trackPen /\ t.drag = n.drag
      /\ t.dragmode = n.dragmode /\ t.selected = n.selected
  BY DEF HostFields
<1>2. KeysOf(n.hidp.pressed) \subseteq HostCodes
  BY DEF HostRight, KeysOf
<1>3. ASSUME NEW x \in KeysOf(n.hidp.pressed) PROVE x \in E /\ (n.override \/ x = "A")
  BY <1>2 DEF HostRight, HostCodes, Wanted
<1>4. n.override /\ "button" \in D => "button" \in E
  BY DEF Wanted
<1>5. n.override /\ "pointer" \in D => "pointer" \in E
  BY DEF Wanted
<1>6. n.trackPen /\ "stroke" \in D => "stroke" \in E
  BY DEF Wanted
<1>7. QED
  BY <1>1, <1>3, <1>4, <1>5, <1>6 DEF HostRight

Formed(n) == Record(n) /\ Shaped(n.hidp)

(* A step from n to t keeps all that, but for the fields C.                *)
HostKept(n, t, C, E) == But(n, t, C) /\ Shaped(t.hidp) /\ HostRight(t, E)

DragFields == {"hidp", "drag", "dragmode", "selected"}

LEMMA DragStopFacts ==
    ASSUME NEW n, Formed(n), NEW E, HostRight(n, E)
    PROVE  HostKept(n, DragStop(n), DragFields, E) /\ ~ DragStop(n).drag
<1>1. CASE ~ n.drag
  BY <1>1 DEF DragStop, HostKept, Formed, But
<1>2. CASE n.drag
  <2> DEFINE m == [n EXCEPT !.drag = FALSE]
             b == Buttons[n.selected]
             k == HIDPButton(m, "Release", b)
             l == [k EXCEPT !.selected = "Left"]
             t == [l EXCEPT !.dragmode = FALSE]
  <2>1. DragStop(n) = t
    BY <1>2 DEF DragStop, UpdateButtonAfterClick, MouseButtonIDToNumber
  <2> HIDE DEF b
  <2>2. But(n, m, {"drag"}) /\ m.hidp = n.hidp
    BY DEF Formed, But, Record, Fields
  <2> HIDE DEF m
  <2>3. ButtonCalled(m, k, m.hidp.buttonState \ {b})
    BY <2>2, ButtonCall DEF Formed, But
  <2> HIDE DEF k
  <2> But(k, l, {"selected"})
    BY <2>3 DEF ButtonCalled, But, Record, Fields
  <2> HIDE DEF l
  <2> But(l, t, {"dragmode"}) /\ t.dragmode = FALSE
    BY DEF But, Record, Fields
  <2>4. But(k, t, {"selected", "dragmode"}) /\ t.hidp = k.hidp /\ t.dragmode = FALSE
    BY DEF But, Fields
  <2> HIDE DEF t
  <2>5. But(n, t, DragFields)
    BY <2>2, <2>3, <2>4 DEF But, ButtonCalled, DragFields
  <2>6. t.drag = m.drag /\ m.drag = FALSE
    BY <2>2, <2>3, <2>4 DEF But, ButtonCalled, Fields, m, Formed, Record
  <2>7. /\ t.hardkey = n.hardkey /\ t.timer = n.timer /\ t.override = n.override
        /\ t.trackPen = n.trackPen
    BY <2>5 DEF But, Fields, DragFields
  <2>8. /\ Shaped(t.hidp) /\ t.hidp.pressed = n.hidp.pressed
        /\ t.hidp.buttonState = n.hidp.buttonState \ {b}
    BY <2>2, <2>3, <2>4 DEF ButtonCalled, Buttoned
  <2>9. HostRight(t, E)
    BY <2>6, <2>7, <2>8 DEF HostRight, b
  <2>10. QED
    BY <2>1, <2>5, <2>6, <2>8, <2>9 DEF HostKept
<1>3. QED
  BY <1>1, <1>2

LEMMA DragStartFacts ==
    ASSUME NEW n, Formed(n), NEW E, HostRight(n, E)
    PROVE  HostKept(n, DragStart(n), DragFields, E)
<1>1. CASE n.drag
  BY <1>1 DEF DragStart, HostKept, Formed, But
<1>2. CASE ~ n.drag
  <2> DEFINE m == [n EXCEPT !.dragmode = TRUE]
             b == Buttons[n.selected]
             k == HIDPButton(m, "Press", b)
             t == [k EXCEPT !.drag = TRUE]
  <2>1. DragStart(n) = t
    BY <1>2 DEF DragStart, MouseButtonIDToNumber
  <2> HIDE DEF b
  <2>2. But(n, m, {"dragmode"}) /\ m.hidp = n.hidp /\ m.dragmode = TRUE
    BY DEF Formed, But, Record, Fields
  <2> HIDE DEF m
  <2>3. ButtonCalled(m, k, m.hidp.buttonState \cup {b})
    BY <2>2, ButtonCall DEF Formed, But
  <2> HIDE DEF k
  <2>4. But(k, t, {"drag"}) /\ t.hidp = k.hidp /\ t.drag = TRUE
    BY <2>3 DEF ButtonCalled, But, Record, Fields
  <2> HIDE DEF t
  <2>5. But(n, t, DragFields)
    BY <2>2, <2>3, <2>4 DEF But, ButtonCalled, DragFields
  <2>6. t.dragmode = TRUE
    BY <2>2, <2>3, <2>4 DEF But, ButtonCalled, Fields
  <2>7. /\ t.hardkey = n.hardkey /\ t.timer = n.timer /\ t.override = n.override
        /\ t.trackPen = n.trackPen
    BY <2>5 DEF But, Fields, DragFields
  <2>8. t.selected = n.selected
    BY <2>2, <2>3, <2>4 DEF But, ButtonCalled, Fields
  <2>9. /\ Shaped(t.hidp) /\ t.hidp.pressed = n.hidp.pressed
        /\ t.hidp.buttonState = n.hidp.buttonState \cup {b}
    BY <2>2, <2>3, <2>4 DEF ButtonCalled, Buttoned
  <2>10. HostRight(t, E)
    BY <1>2, <2>4, <2>6, <2>7, <2>8, <2>9 DEF HostRight, b
  <2>11. QED
    BY <2>1, <2>5, <2>9, <2>10 DEF HostKept
<1>3. QED
  BY <1>1, <1>2

(* The Drag checkbox is set, with no drag under it.                        *)
LEMMA DragModeFacts ==
    ASSUME NEW n, Formed(n), NEW E, HostRight(n, E), NEW enabled \in BOOLEAN,
           ~ (n.drag /\ enabled)
    PROVE  HostKept(n, DragMode(n, enabled), DragFields, E) /\ ~ DragMode(n, enabled).drag
<1> DEFINE m == IF n.drag /\ ~ enabled THEN DragStop(n) ELSE n
           t == [m EXCEPT !.dragmode = enabled]
<1>1. DragMode(n, enabled) = t
  BY DEF DragMode
<1>2. HostKept(n, m, DragFields, E) /\ ~ m.drag
  <2>1. CASE n.drag
    BY <2>1, DragStopFacts
  <2>2. CASE ~ n.drag
    BY <2>2 DEF HostKept, Formed, But
  <2>3. QED
    BY <2>1, <2>2
<1> HIDE DEF m
<1>3. But(m, t, {"dragmode"}) /\ t.dragmode = enabled /\ t.drag = m.drag
  BY <1>2 DEF HostKept, But, Record, Fields
<1> HIDE DEF t
<1>4. But(n, t, DragFields)
  BY <1>2, <1>3 DEF HostKept, But, DragFields
<1>5. /\ t.hidp = m.hidp /\ t.hardkey = m.hardkey /\ t.timer = m.timer
      /\ t.override = m.override /\ t.trackPen = m.trackPen /\ t.selected = m.selected
  BY <1>3 DEF But, Fields
<1>6. HostRight(t, E)
  BY <1>2, <1>3, <1>5 DEF HostRight, HostKept
<1>7. QED
  BY <1>1, <1>2, <1>3, <1>4, <1>5, <1>6 DEF HostKept

(* Which button is selected matters to a drag only.                        *)
LEMMA SelectFacts ==
    ASSUME NEW n, NEW t, NEW E, HostKept(n, t, DragFields, E), ~ t.drag, NEW id
    PROVE  HostKept(n, [t EXCEPT !.selected = id], DragFields, E)
<1> DEFINE u == [t EXCEPT !.selected = id]
<1>1. But(t, u, {"selected"})
  BY DEF HostKept, But, Record, Fields
<1> HIDE DEF u
<1>2. But(n, u, DragFields)
  BY <1>1 DEF HostKept, But, DragFields
<1>3. /\ u.hidp = t.hidp /\ u.hardkey = t.hardkey /\ u.timer = t.timer
      /\ u.override = t.override /\ u.trackPen = t.trackPen /\ u.drag = t.drag
      /\ u.dragmode = t.dragmode
  BY <1>1 DEF But, Fields
<1>4. QED
  BY <1>2, <1>3 DEF HostKept, HostRight, u

LEMMA TapButtonFacts ==
    ASSUME NEW n, Formed(n), NEW E, HostRight(n, E), NEW id
    PROVE  HostKept(n, SelectButton(n, id), DragFields, E)
<1>1. CASE n.drag
  <2>1. HostKept(n, DragMode(n, FALSE), DragFields, E) /\ ~ DragMode(n, FALSE).drag
    BY DragModeFacts
  <2>2. HostKept(n, [DragMode(n, FALSE) EXCEPT !.selected = id], DragFields, E)
    BY <2>1, SelectFacts
  <2>3. QED
    BY <1>1, <2>2 DEF SelectButton
<1>2. CASE ~ n.drag
  <2>1. HostKept(n, n, DragFields, E)
    BY DEF HostKept, Formed, But
  <2>2. HostKept(n, [n EXCEPT !.selected = id], DragFields, E)
    BY <1>2, <2>1, SelectFacts
  <2>3. QED
    BY <1>2, <2>2 DEF SelectButton
<1>3. QED
  BY <1>1, <1>2

LEMMA TapDragFacts ==
    ASSUME NEW n, Formed(n), n.dragmode \in BOOLEAN, NEW E, HostRight(n, E)
    PROVE  HostKept(n, SelectDrag(n), DragFields, E)
<1>1. ~ (n.drag /\ ~ n.dragmode)
  BY DEF HostRight
<1>2. HostKept(n, DragMode(n, ~ n.dragmode), DragFields, E)
  BY <1>1, DragModeFacts
<1>3. QED
  BY <1>2 DEF SelectDrag

LEMMA ClickFacts ==
    ASSUME NEW n, Formed(n), NEW E, HostRight(n, E)
    PROVE  HostKept(n, MousePadDoClick(n), DragFields, E)
<1>1. CASE n.dragmode
  BY <1>1, DragStopFacts, DragStartFacts DEF MousePadDoClick
<1>2. CASE ~ n.dragmode
  <2> DEFINE b == Buttons[n.selected]
             k == HIDPButton(n, "Click", b)
  <2>1. MousePadDoClick(n) = [k EXCEPT !.selected = "Left"]
    BY <1>2 DEF MousePadDoClick, UpdateButtonAfterClick, MouseButtonIDToNumber
  <2> HIDE DEF b
  <2>2. ButtonCalled(n, k, n.hidp.buttonState \ {b})
    BY ButtonCall DEF Formed
  <2> HIDE DEF k
  <2>3. /\ k.hardkey = n.hardkey /\ k.timer = n.timer /\ k.override = n.override
        /\ k.trackPen = n.trackPen /\ k.drag = n.drag /\ k.dragmode = n.dragmode
        /\ k.selected = n.selected
    BY <2>2 DEF ButtonCalled, But, Fields
  <2>4. ~ n.drag
    BY <1>2 DEF HostRight
  <2>5. HostKept(n, k, DragFields, E) /\ ~ k.drag
    BY <2>2, <2>3, <2>4 DEF ButtonCalled, Buttoned, HostKept, HostRight, But, DragFields
  <2>6. QED
    BY <2>1, <2>5, SelectFacts
<1>3. QED
  BY <1>1, <1>2

PenFields == DragFields \cup {"trackPen", "moved"}

(* When the pen is lifted nothing follows it any more.                     *)
LEMMA PenUpFacts ==
    ASSUME NEW n, Formed(n), NEW E, HostRight(n, E), NEW tap
    PROVE  HostKept(n, PenUp(n, tap), PenFields, E \ {"stroke"})
<1> DEFINE D == E \ {"stroke"}
           done == [[n EXCEPT !.trackPen = FALSE] EXCEPT !.moved = FALSE]
<1>1. CASE ~ n.trackPen
  <2>1. E \cap Wanted(n) \subseteq D
    BY <1>1 DEF Wanted
  <2> HIDE DEF D
  <2>2. HostRight(n, D)
    BY <2>1, HostMono
  <2>3. QED
    BY <1>1, <2>2 DEF PenUp, HostKept, Formed, But, D
<1>2. CASE n.trackPen
  <2> DEFINE k == [n EXCEPT !.trackPen = FALSE]
  <2>1. But(n, k, {"trackPen"}) /\ k.trackPen = FALSE
    BY DEF Formed, But, Record, Fields
  <2> HIDE DEF k
  <2>2. But(k, done, {"moved"})
    BY <2>1 DEF But, Record, Fields, k
  <2>3. done = [n EXCEPT !.trackPen = FALSE, !.moved = FALSE]
    OBVIOUS
  <2>4. PenUp(n, tap) = IF tap /\ ~ n.moved THEN MousePadDoClick(done) ELSE done
    BY <1>2, <2>3 DEF PenUp
  <2> HIDE DEF done
  <2>5. /\ done.hidp = n.hidp /\ done.hardkey = n.hardkey /\ done.timer = n.timer
        /\ done.override = n.override /\ done.drag = n.drag /\ done.dragmode = n.dragmode
        /\ done.selected = n.selected /\ done.trackPen = FALSE
    BY <2>1, <2>2 DEF But, Fields
  <2>6. HostRight(done, D)
    <3>1. KeysOf(n.hidp.pressed) \subseteq HostCodes
      BY DEF HostRight, KeysOf
    <3>2. QED
      BY <2>5, <3>1 DEF HostRight, HostCodes
  <2> HIDE DEF D
  <2>7. Formed(done)
    BY <2>2, <2>5 DEF Formed, But
  <2>8. HostKept(done, MousePadDoClick(done), DragFields, D)
    BY <2>6, <2>7, ClickFacts
  <2>9. HostKept(done, done, DragFields, D)
    BY <2>6, <2>7 DEF HostKept, Formed, But
  <2>10. HostKept(done, PenUp(n, tap), DragFields, D)
    BY <2>4, <2>8, <2>9
  <2>11. But(n, done, {"trackPen", "moved"})
    BY <2>1, <2>2 DEF But
  <2>12. But(n, PenUp(n, tap), {"trackPen", "moved"} \cup DragFields)
    BY <2>10, <2>11, ButTwice DEF HostKept
  <2>13. {"trackPen", "moved"} \cup DragFields = PenFields
    BY DEF PenFields
  <2>14. But(n, PenUp(n, tap), PenFields)
    BY <2>12, <2>13
  <2>15. QED
    BY <2>10, <2>14 DEF HostKept, D
<1>3. QED
  BY <1>1, <1>2
-----------------------------------------------------------------------------
(* The commands of the hard keys in use, and what one acts on.             *)
HardCommands == [cmd : {"HardKey"}, key : {"Up", "Center", "A", "SideSelect", "Hard1", "Hard2"},
                 action : {"Press", "Release"}]
Characters == {p[2] : p \in Letters} \cup {p[1] : p \in Symbols}
              \cup {Named[chr] : chr \in DOMAIN Named}
              \cup {TreoOptions[key] : key \in DOMAIN TreoOptions}
Clicks == [cmd : {"Keyboard"}, key : Characters, action : {"Click"},
           shift : {"on", "off", "current"}]
Switches == [cmd : {"SwitchForms", "SwitchScreens"}]
Command == HardCommands \cup Clicks \cup Switches

Acts(c, form) == CASE c.key = "A" -> "A" [] c.key = "SideSelect" -> "button"
                   [] OTHER -> Meaning(c.key, form)

KeyFields == {"hidp", "hardkey", "timer"}
MayPress(n, c) == n.override \/ c.key = "A"

(* A button is pressed, or released.                                       *)
LEMMA HardButtonFacts ==
    ASSUME NEW n, Formed(n), NEW E, NEW action \in {"Press", "Release"}, n.override,
           IF action = "Press" THEN HostRight(n, E) /\ "button" \in E
           ELSE HostRight(n, E \cup {"button"})
    PROVE  HostKept(n, HIDPButton(n, action, 1), KeyFields, E)
<1> DEFINE t == HIDPButton(n, action, 1)
<1>1. ButtonCalled(n, t, IF action = "Press" THEN n.hidp.buttonState \cup {1}
                         ELSE n.hidp.buttonState \ {1})
  BY ButtonCall DEF Formed
<1> HIDE DEF t
<1>2. /\ t.hardkey = n.hardkey /\ t.timer = n.timer /\ t.override = n.override
      /\ t.trackPen = n.trackPen /\ t.drag = n.drag /\ t.dragmode = n.dragmode
      /\ t.selected = n.selected
  BY <1>1 DEF ButtonCalled, But, Fields
<1>3. But(n, t, KeyFields) /\ Shaped(t.hidp) /\ t.hidp.pressed = n.hidp.pressed
  BY <1>1 DEF ButtonCalled, Buttoned, But, KeyFields
<1>4. KeysOf(n.hidp.pressed) \subseteq HostCodes
  BY DEF HostRight, KeysOf
<1>5. CASE action = "Press"
  <2>1. t.hidp.buttonState = n.hidp.buttonState \cup {1}
    BY <1>1, <1>5 DEF ButtonCalled, Buttoned
  <2>2. QED
    BY <1>2, <1>3, <1>5, <2>1 DEF HostKept, HostRight, t
<1>6. CASE action = "Release"
  <2>1. t.hidp.buttonState = n.hidp.buttonState \ {1}
    BY <1>1, <1>6 DEF ButtonCalled, Buttoned
  <2>2. HostRight(t, E)
    BY <1>2, <1>3, <1>4, <1>6, <2>1 DEF HostRight, HostCodes
  <2>3. QED
    BY <1>3, <2>2 DEF HostKept, t
<1>7. QED
  BY <1>5, <1>6

(* A key of the host is pressed, or released, or clicked.                  *)
LEMMA HardTypeFacts ==
    ASSUME NEW n, Formed(n), NEW E, NEW action \in {"Press", "Release", "Click"}, NEW k,
           action = "Press" => k \in HostCodes /\ k \in E /\ (n.override \/ k = "A"),
           IF action = "Release" THEN HostRight(n, E \cup {k}) /\ k \in HostCodes
           ELSE HostRight(n, E)
    PROVE  HostKept(n, HIDPKeyboard(n, action, k), KeyFields, E)
<1> DEFINE t == HIDPKeyboard(n, action, k)
           K == IF action = "Press" THEN KeysOf(n.hidp.pressed) \cup {k}
                ELSE KeysOf(n.hidp.pressed) \ {k}
<1>1. KeyCalled(n, t, K)
  BY KeyCall DEF Formed, HostRight
<1> HIDE DEF t
<1>2. /\ t.hardkey = n.hardkey /\ t.timer = n.timer /\ t.override = n.override
      /\ t.trackPen = n.trackPen /\ t.drag = n.drag /\ t.dragmode = n.dragmode
      /\ t.selected = n.selected
  BY <1>1 DEF KeyCalled, But, Fields
<1>3. /\ But(n, t, KeyFields) /\ Shaped(t.hidp) /\ t.hidp.buttonState = n.hidp.buttonState
      /\ t.hidp.pressed \in Seq(HostCodes) /\ Distinct(t.hidp.pressed)
      /\ KeysOf(t.hidp.pressed) \subseteq K
  BY <1>1 DEF KeyCalled, Keyed, But, KeyFields
<1>4. ASSUME NEW x \in KeysOf(t.hidp.pressed) PROVE x \in E /\ (n.override \/ x = "A")
  BY <1>3 DEF HostRight
<1>5. \A x \in {"button", "pointer", "stroke"} : action = "Release" => x # k
  BY DEF HostCodes
<1>6. /\ \A b \in n.hidp.buttonState : \/ b = 1 /\ n.override /\ "button" \in E
                                       \/ n.drag /\ b = Buttons[n.selected]
      /\ n.timer => n.hardkey # "none" /\ n.override /\ "pointer" \in E
      /\ n.trackPen => "stroke" \in E
      /\ n.drag => n.dragmode
  BY <1>5 DEF HostRight
<1>7. HostRight(t, E)
  BY <1>2, <1>3, <1>4, <1>6 DEF HostRight
<1>8. QED
  BY <1>3, <1>7 DEF HostKept, t

(* The commands that come from a hard key: a press of what is explained,   *)
(* or a release of what need not be any more.                              *)
LEMMA HardKeyFacts ==
    ASSUME NEW n, Formed(n), NEW E, NEW c \in HardCommands, MayPress(n, c),
           IF c.action = "Press" THEN HostRight(n, E) /\ Acts(c, n.form) \in E
           ELSE HostRight(n, E \cup {Acts(c, n.form)})
    PROVE  \/ HostKept(n, Handle(n, c), KeyFields, E)
           \/ \E d \in Switches : Handle(n, c) = Enqueue(n, d) /\ c.action = "Press"
<1> DEFINE x == Acts(c, n.form)
<1>1. /\ c.cmd = "HardKey" /\ c.action \in {"Press", "Release"}
      /\ c.key \in {"Up", "Center", "A", "SideSelect", "Hard1", "Hard2"}
  BY DEF HardCommands
<1>2. Handle(n, c) = IF n.form = "Mouse" /\ MouseFormHandles(c)
                     THEN MouseFormHardKey(n, c.key, c.action)
                     ELSE ExecuteHardKey(n, c.key, c.action)
  BY <1>1 DEF Handle
<1>3. CASE c.key = "A"
  <2>1. Handle(n, c) = HIDPKeyboard(n, c.action, "A")
    BY <1>1, <1>2, <1>3 DEF MouseFormHandles, Arrows, ExecuteHardKey, KeyCodes
  <2>2. x = "A"
    BY <1>3 DEF Acts
  <2> HIDE DEF x
  <2>3. HostKept(n, HIDPKeyboard(n, c.action, "A"), KeyFields, E)
    BY <1>1, <2>2, HardTypeFacts DEF HostCodes, x
  <2>4. QED
    BY <2>1, <2>3
<1>4. CASE c.key = "SideSelect" \/ (c.key = "Center" /\ n.form = "Mouse")
  <2>1. Handle(n, c) = HIDPButton(n, c.action, 1)
    BY <1>1, <1>2, <1>4
       DEF MouseFormHandles, Arrows, MouseFormHardKey, ExecuteHardKey, KeyCodes
  <2>2. x = "button"
    BY <1>4 DEF Acts, Meaning
  <2>3. n.override
    BY <1>4 DEF MayPress
  <2>4. HostKept(n, HIDPButton(n, c.action, 1), KeyFields, E)
    BY <1>1, <2>2, <2>3, HardButtonFacts
  <2>5. QED
    BY <2>1, <2>4
<1>5. CASE c.key = "Up" /\ n.form = "Mouse"
  <2> DEFINE on == c.action = "Press"
             m == [n EXCEPT !.hardkey = IF on THEN c.key ELSE "none"]
             t == [m EXCEPT !.timer = on]
  <2>1. Handle(n, c) = MoveKey(n, c.key, c.action)
    BY <1>1, <1>2, <1>5 DEF MouseFormHandles, Arrows, MouseFormHardKey
  <2>2. t = [n EXCEPT !.hardkey = IF on THEN c.key ELSE "none", !.timer = on]
    OBVIOUS
  <2>3. MoveKey(n, c.key, c.action) = t
    <3>1. CASE c.action = "Press"
      BY <3>1, <2>2 DEF MoveKey
    <3>2. CASE c.action = "Release"
      BY <3>2, <2>2 DEF MoveKey
    <3>3. QED
      BY <1>1, <3>1, <3>2
  <2>4. x = "pointer" /\ n.override
    BY <1>5 DEF Acts, Meaning, MayPress
  <2>5. But(n, m, {"hardkey"}) /\ m.hardkey = IF on THEN "Up" ELSE "none"
    BY <1>5 DEF Formed, But, Record, Fields
  <2> HIDE DEF m, on
  <2>6. But(m, t, {"timer"}) /\ t.timer = on
    BY <2>5 DEF But, Record, Fields
  <2> HIDE DEF t
  <2>7. But(n, t, KeyFields)
    BY <2>5, <2>6 DEF But, KeyFields
  <2>8. /\ t.hardkey = (IF on THEN "Up" ELSE "none") /\ t.override = n.override
        /\ t.trackPen = n.trackPen /\ t.drag = n.drag /\ t.dragmode = n.dragmode
        /\ t.selected = n.selected /\ t.hidp = n.hidp
    BY <2>5, <2>6 DEF But, Fields
  <2>9. KeysOf(n.hidp.pressed) \subseteq HostCodes
    BY DEF HostRight, KeysOf
  <2>10. HostRight(t, E)
    BY <2>4, <2>6, <2>8, <2>9 DEF HostRight, HostCodes, on
  <2>11. QED
    BY <2>1, <2>3, <2>7, <2>8, <2>10 DEF HostKept, Formed
<1>6. CASE c.key \in {"Up", "Center"} /\ n.form # "Mouse"
  <2> DEFINE k == KeyCodes[c.key]
  <2>1. Handle(n, c) = HIDPKeyboard(n, c.action, k)
    BY <1>2, <1>6 DEF ExecuteHardKey, KeyCodes
  <2>2. x = k /\ k \in HostCodes
    BY <1>6 DEF Acts, Meaning, KeyCodes, HostCodes
  <2>3. n.override
    BY <1>6 DEF MayPress
  <2> HIDE DEF x, k
  <2>4. HostKept(n, HIDPKeyboard(n, c.action, k), KeyFields, E)
    BY <1>1, <2>2, <2>3, HardTypeFacts DEF x
  <2>5. QED
    BY <2>1, <2>4
<1>7. CASE c.key \in {"Hard1", "Hard2"}
  <2> DEFINE d == [cmd |-> IF c.key = "Hard1" THEN "SwitchForms" ELSE "SwitchScreens"]
  <2>1. Handle(n, c) = IF c.action \in {"Press", "Click"} THEN Enqueue(n, d) ELSE n
    BY <1>1, <1>2, <1>7 DEF MouseFormHandles, Arrows, ExecuteHardKey, KeyCodes
  <2>2. CASE c.action = "Press"
    <3>1. d \in Switches
      BY DEF Switches
    <3>2. QED
      BY <2>1, <2>2, <3>1
  <2>3. CASE c.action = "Release"
    <3>1. x = "nothing"
      BY <1>7 DEF Acts, Meaning
    <3> DEFINE D == E \cup {x}
    <3>2. HostRight(n, D)
      BY <2>3
    <3>3. D \cap Wanted(n) \subseteq E
      BY <3>1 DEF Wanted
    <3> HIDE DEF D
    <3>4. HostRight(n, E)
      BY <3>2, <3>3, HostMono
    <3>5. QED
      BY <2>1, <2>3, <3>4 DEF HostKept, Formed, But
  <2>4. QED
    BY <1>1, <2>2, <2>3
<1>8. QED
  BY <1>1, <1>3, <1>4, <1>5, <1>6, <1>7
-----------------------------------------------------------------------------
(* What the events of a key become.                                        *)
Fingers == {"Up", "Center", "Side", "a", "Hard1", "Hard2"}
KeyOf(f) == CASE f = "a" -> "A" [] f = "Side" -> "SideSelect" [] OTHER -> f

Nothing(cmds) == cmds = <<>> \/ \E c \in Clicks : cmds = <<c>>

(* Of what the keys in use stand for only "a" is a letter.                 *)
LEMMA LetterFacts ==
    ASSUME NEW p \in Letters,
           NEW chr \in {"RockerUp", "HardRockerCenter", "Side", "Hard5", "Hard1", "Hard2", "&",
                        "NavChange"}
    PROVE  p[1] # chr /\ p[2] # chr
<1>1. p[1] # chr
  BY DEF Letters
<1>2. p[2] # chr
  BY DEF Letters
<1>3. QED
  BY <1>1, <1>2

LEMMA LetterA ==
    ASSUME NEW p \in Letters
    PROVE  p[2] # "a" /\ (p[1] = "a" => p[2] = "A")
<1>1. p[2] # "a"
  BY DEF Letters
<1>2. p[1] = "a" => p[2] = "A"
  BY DEF Letters
<1>3. QED
  BY <1>1, <1>2

LEMMA VirtualFacts ==
    ASSUME NEW chr
    PROVE  Nothing(virtualChars(chr))
<1> DEFINE Yields(k, shift) == virtualChars(chr) = Click(k, shift)
<1>1. ASSUME NEW k \in Characters, NEW shift \in {"on", "off", "current"}, Yields(k, shift)
      PROVE  Nothing(virtualChars(chr))
  <2> DEFINE c == [cmd |-> "Keyboard", key |-> k, action |-> "Click", shift |-> shift]
  <2>1. c \in Clicks
    BY DEF Clicks
  <2>2. QED
    BY <1>1, <2>1 DEF Nothing, Click
<1>2. /\ \A p \in Letters : p[2] \in Characters
      /\ \A p \in Symbols : p[1] \in Characters
      /\ \A k \in DOMAIN Named : Named[k] \in Characters
  BY DEF Characters
<1>3. CASE chr \in DOMAIN Named
  <2>1. virtualChars(chr) = Click(Named[chr], "current")
    BY <1>3 DEF virtualChars
  <2>2. QED
    BY <1>1, <1>2, <1>3, <2>1
<1>4. CASE chr \notin DOMAIN Named /\ \E p \in Letters : p[1] = chr
  <2> DEFINE q == CHOOSE p \in Letters : p[1] = chr
  <2>1. q \in Letters
    BY <1>4
  <2>2. virtualChars(chr) = Click(q[2], "off")
    BY <1>4 DEF virtualChars
  <2>3. QED
    BY <1>1, <1>2, <2>1, <2>2
<1>5. CASE /\ chr \notin DOMAIN Named /\ ~ \E p \in Letters : p[1] = chr
           /\ \E p \in Letters : p[2] = chr
  <2>1. virtualChars(chr) = Click(chr, "on")
    BY <1>5 DEF virtualChars
  <2>2. QED
    BY <1>1, <1>2, <1>5, <2>1
<1>6. CASE /\ chr \notin DOMAIN Named /\ ~ \E p \in Letters : p[1] = chr
           /\ ~ \E p \in Letters : p[2] = chr
  <2>1. CASE \E p \in Symbols : p[1] = chr
    <3>1. virtualChars(chr) = Click(chr, "off")
      BY <1>6, <2>1 DEF virtualChars
    <3>2. QED
      BY <1>1, <1>2, <2>1, <3>1
  <2>2. CASE (~ \E p \in Symbols : p[1] = chr) /\ \E p \in Symbols : p[2] = chr
    <3> DEFINE q == CHOOSE p \in Symbols : p[2] = chr
    <3>1. q \in Symbols
      BY <2>2
    <3>2. virtualChars(chr) = Click(q[1], "on")
      BY <1>6, <2>2 DEF virtualChars
    <3>3. QED
      BY <1>1, <1>2, <3>1, <3>2
  <2>3. CASE (~ \E p \in Symbols : p[1] = chr) /\ ~ \E p \in Symbols : p[2] = chr
    <3>1. virtualChars(chr) = <<>>
      BY <1>6, <2>3 DEF virtualChars
    <3>2. QED
      BY <3>1 DEF Nothing
  <2>4. QED
    BY <2>1, <2>2, <2>3
<1>7. QED
  BY <1>3, <1>4, <1>5, <1>6

LEMMA NotEnabled ==
    ASSUME NEW device, NEW override, NEW e
    PROVE  Process(device, FALSE, override, e) = <<>>
  BY DEF Process, TreoNotifyCallback, HardKeyProcessEvent, Pass

(* Repetitions do nothing.                                                 *)
LEMMA RepeatFacts ==
    ASSUME NEW device, NEW enabled, NEW override, NEW e,
           e.type = "KeyHold" \/ (e.type = "KeyDown" /\ e.repeat /\ ~ e.on /\ ~ e.virtual)
    PROVE  Process(device, enabled, override, e) = <<>>
<1>1. TreoNotifyCallback(device, enabled, override, e) \in {Pass, Handled(<<>>)}
  BY DEF TreoNotifyCallback
<1>2. HardKeyProcessEvent(device, enabled, override, TRUE, e) \in {Pass, Handled(<<>>)}
  BY DEF HardKeyProcessEvent
<1>3. HardKeyProcessEvent(device, enabled, override, FALSE, e) \in {Pass, Handled(<<>>)}
  BY DEF HardKeyProcessEvent
<1>4. Pass.cmds = <<>> /\ Handled(<<>>).cmds = <<>>
  BY DEF Pass, Handled
<1>5. QED
  BY <1>1, <1>2, <1>3, <1>4 DEF Process

NonLetters == {"RockerUp", "HardRockerCenter", "Side", "Hard5", "Hard1", "Hard2", "&", "NavChange"}

LEMMA NonLetterFacts ==
    ASSUME NEW e, e.chr \in NonLetters, e.key # "none", NEW action
    PROVE  /\ Nothing(DefaultHandler(e, action).cmds)
           /\ action = "Release" => DefaultHandler(e, action).cmds = <<>>
<1>1. ~ \E p \in Letters : e.chr \in {p[1], p[2]}
  BY LetterFacts DEF NonLetters
<1>2. e.chr \notin DOMAIN TypedKeys
  BY DEF NonLetters, TypedKeys
<1>3. DefaultHandler(e, action) = IF action = "Release" \/ virtualChars(e.chr) = <<>> THEN Pass
                                  ELSE Handled(virtualChars(e.chr))
  BY <1>1, <1>2 DEF DefaultHandler
<1>4. Pass.cmds = <<>> /\ Handled(virtualChars(e.chr)).cmds = virtualChars(e.chr)
  BY DEF Pass, Handled
<1>5. Nothing(<<>>) /\ Nothing(virtualChars(e.chr))
  BY VirtualFacts DEF Nothing
<1> HIDE DEF Nothing
<1>6. QED
  BY <1>3, <1>4, <1>5

LEMMA LetterAFacts ==
    ASSUME NEW e, e.chr = "a", e.key # "none", NEW action
    PROVE  DefaultHandler(e, action).cmds = HardKey("A", action)
<1> DEFINE q == CHOOSE p \in Letters : e.chr \in {p[1], p[2]}
<1>1. <<"a", "A">> \in Letters /\ e.chr \in {<<"a", "A">>[1], <<"a", "A">>[2]}
  BY DEF Letters
<1>2. q \in Letters /\ e.chr \in {q[1], q[2]}
  BY <1>1
<1>3. q[2] = "A"
  BY <1>2, LetterA
<1>4. DefaultHandler(e, action) = Handled(HardKey(q[2], action))
  BY <1>1 DEF DefaultHandler
<1>5. QED
  BY <1>3, <1>4 DEF Handled

(* An event that is new to the program.                                    *)
Fresher(e) == e.type \in {"KeyDown", "KeyUp"} /\ ~ (e.type = "KeyDown" /\ e.repeat)

LEMMA SecondPass ==
    ASSUME NEW device \in Devices, NEW override, NEW e, Fresher(e)
    PROVE  HardKeyProcessEvent(device, TRUE, override, FALSE, e) = DefaultHandler(e, Action(e))
<1>1. TreoSpecials(FALSE, e, Action(e)) = Pass /\ TungstenSpecials(FALSE, e, Action(e)) = Pass
  BY DEF TreoSpecials, TungstenSpecials
<1>2. Pass.handled = "no"
  BY DEF Pass
<1> HIDE DEF Pass
<1>3. QED
  BY <1>1, <1>2 DEF HardKeyProcessEvent, Fresher, Devices

LEMMA FirstPass ==
    ASSUME NEW device \in Devices, NEW e, Fresher(e)
    PROVE  LET special == CASE device = "Treo"     -> TreoSpecials(TRUE, e, Action(e))
                            [] device = "Tungsten" -> TungstenSpecials(TRUE, e, Action(e))
                            [] OTHER               -> Pass
           IN  HardKeyProcessEvent(device, TRUE, TRUE, TRUE, e) =
                   IF special.handled # "no" THEN special ELSE DefaultOverrides(e, Action(e))
  BY DEF HardKeyProcessEvent, Fresher

(* Without hardkeyOverride only what is typed becomes a command.           *)
LEMMA WithoutOverride ==
    ASSUME NEW device \in Devices, NEW e, Fresher(e)
    PROVE  Process(device, TRUE, FALSE, e) = DefaultHandler(e, Action(e)).cmds
<1>1. TreoNotifyCallback(device, TRUE, FALSE, e) = Pass
  BY DEF TreoNotifyCallback
<1>2. HardKeyProcessEvent(device, TRUE, FALSE, TRUE, e) = Pass
  BY DEF HardKeyProcessEvent
<1>3. Pass.handled = "no"
  BY DEF Pass
<1>4. HardKeyProcessEvent(device, TRUE, FALSE, FALSE, e) = DefaultHandler(e, Action(e))
  BY SecondPass
<1>5. QED
  BY <1>1, <1>2, <1>3, <1>4 DEF Process

(* What the notification leaves, and the first pass, is typed.             *)
LEMMA WithOverride ==
    ASSUME NEW device \in Devices, NEW e, Fresher(e), e.key \notin DOMAIN SideKeys
    PROVE  LET first == HardKeyProcessEvent(device, TRUE, TRUE, TRUE, e)
           IN  Process(device, TRUE, TRUE, e) =
                   IF first.handled = "yes" THEN first.cmds ELSE DefaultHandler(e, Action(e)).cmds
<1>1. TreoNotifyCallback(device, TRUE, TRUE, e) = Pass
  BY DEF TreoNotifyCallback, Fresher
<1>2. Pass.handled = "no"
  BY DEF Pass
<1>3. HardKeyProcessEvent(device, TRUE, TRUE, FALSE, e) = DefaultHandler(e, Action(e))
  BY SecondPass
<1>4. QED
  BY <1>1, <1>2, <1>3 DEF Process

(* The event of a key that is struck, or lifted.                           *)
Stroke(type) == IF type = "KeyDown" THEN "Press" ELSE "Release"

LEMMA EventFacts ==
    ASSUME NEW f \in Fingers, NEW type \in {"KeyDown", "KeyUp"}, NEW option \in BOOLEAN,
           NEW device, r.device = device, ~ (f = "Side" /\ device = "Treo" /\ type = "KeyUp")
    PROVE  LET e == Event(f, type, option)
           IN  /\ Fresher(e) /\ Action(e) = Stroke(type) /\ e.option = option
               /\ e.chr = CASE f = "Up" -> "RockerUp" [] f = "Center" -> "HardRockerCenter"
                            [] f = "a" -> (IF option THEN "&" ELSE "a")
                            [] f = "Side" /\ device # "Treo" -> "Hard5" [] OTHER -> f
               /\ e.key = CASE f = "a" -> "A" [] f = "Side" /\ device = "Treo" -> "SideKey"
                            [] OTHER -> f
<1>1. CASE f = "Up"
  BY <1>1 DEF Event, Fresher, Action, Stroke
<1>2. CASE f = "Center"
  BY <1>2 DEF Event, Fresher, Action, Stroke
<1>3. CASE f = "a"
  <2>1. CASE option
    BY <1>3, <2>1 DEF Event, Fresher, Action, Stroke
  <2>2. CASE ~ option
    BY <1>3, <2>2 DEF Event, Fresher, Action, Stroke
  <2>3. QED
    BY <2>1, <2>2
<1>4. CASE f = "Side" /\ device = "Treo"
  <2>1. type = "KeyDown"
    BY <1>4
  <2>2. QED
    BY <1>4, <2>1 DEF Event, Fresher, Action, Stroke
<1>5. CASE f = "Side" /\ device # "Treo"
  BY <1>5 DEF Event, Fresher, Action, Stroke
<1>6. CASE f \in {"Hard1", "Hard2"}
  BY <1>6 DEF Event, Fresher, Action, Stroke
<1>7. QED
  BY <1>1, <1>2, <1>3, <1>4, <1>5, <1>6 DEF Fingers

(* The commands of a key that is struck, or lifted; what the key types is  *)
(* left open.                                                              *)
Yields(cmds, f, action, override) ==
    \/ cmds = HardKey(KeyOf(f), action) /\ (override \/ f = "a")
    \/ Nothing(cmds) /\ action = "Press"
    \/ cmds = <<>> /\ ~ (override \/ f = "a")

CharOf(f) == CASE f = "Up" -> "RockerUp" [] f = "Center" -> "HardRockerCenter"
               [] f = "Side" -> "Hard5" [] OTHER -> f
Recognised(first, f, type) ==
    /\ first.handled = "yes"
    /\ \/ first.cmds = HardKey(KeyOf(f), Stroke(type))
       \/ Nothing(first.cmds) /\ type = "KeyDown"

LEMMA FirstFacts ==
    ASSUME NEW device \in Devices, NEW f \in Fingers \ {"a"}, device = "Other" => f # "Side",
           device = "Treo" => f # "Side",
           NEW type \in {"KeyDown", "KeyUp"}, NEW e, Fresher(e), Action(e) = Stroke(type),
           e.chr = CharOf(f), e.key = f
    PROVE  Recognised(HardKeyProcessEvent(device, TRUE, TRUE, TRUE, e), f, type)
<1> DEFINE action == Action(e)
<1>1. CASE device = "Treo"
  <2>1. Chr(e) \in DOMAIN TreoKeys /\ TreoKeys[Chr(e)] = f /\ f # "Side"
    BY <1>1 DEF Chr, CharOf, TreoKeys, Fingers
  <2> DEFINE click == Click(TreoOptions[f], "current")
             special == TreoSpecials(TRUE, e, action)
  <2>2. special = IF e.option /\ action # "Release" /\ f \in DOMAIN TreoOptions
                  THEN Handled(click) ELSE Handled(HardKey(f, action))
    <3>1. f \notin {"Period", "Zero"}
      BY DEF Fingers
    <3>2. e.key # "none"
      BY DEF Fingers
    <3> HIDE DEF click, action
    <3>3. QED
      BY <2>1, <3>1, <3>2 DEF TreoSpecials, click
  <2>3. Handled(click).handled = "yes" /\ Handled(HardKey(f, action)).handled = "yes"
        /\ Handled(click).cmds = click /\ Handled(HardKey(f, action)).cmds = HardKey(f, action)
    BY DEF Handled
  <2>4. KeyOf(f) = f
    BY <2>1 DEF KeyOf
  <2>5. f \in DOMAIN TreoOptions => Nothing(click)
    <3> SUFFICES ASSUME f \in DOMAIN TreoOptions PROVE Nothing(click)
      OBVIOUS
    <3>1. TreoOptions[f] \in Characters
      BY DEF Characters
    <3> DEFINE c == [cmd |-> "Keyboard", key |-> TreoOptions[f], action |-> "Click",
                     shift |-> "current"]
    <3>2. c \in Clicks
      BY <3>1 DEF Clicks
    <3>3. QED
      BY <3>2 DEF Nothing, Click
  <2> HIDE DEF special, click
  <2>6. /\ special.handled = "yes"
        /\ special.cmds = HardKey(f, action) \/ (Nothing(special.cmds) /\ action # "Release")
    BY <2>2, <2>3, <2>5
  <2>7. HardKeyProcessEvent(device, TRUE, TRUE, TRUE, e) = special
    BY <1>1, <2>6, FirstPass DEF special
  <2>8. QED
    BY <2>4, <2>6, <2>7 DEF Stroke, Recognised
<1>2. CASE device = "Tungsten"
  <2> DEFINE special == TungstenSpecials(TRUE, e, action)
  <2>1. HardKeyProcessEvent(device, TRUE, TRUE, TRUE, e) =
            IF special.handled # "no" THEN special ELSE DefaultOverrides(e, action)
    BY <1>2, FirstPass
  <2>2. CASE f = "Side"
    <3>1. special = Handled(HardKey("SideSelect", action))
      BY <2>2 DEF TungstenSpecials, CharOf
    <3>2. special.handled = "yes" /\ special.cmds = HardKey("SideSelect", action)
      <4>1. /\ Handled(HardKey("SideSelect", action)).handled = "yes"
            /\ Handled(HardKey("SideSelect", action)).cmds = HardKey("SideSelect", action)
        BY DEF Handled
      <4> HIDE DEF special
      <4>2. QED
        BY <3>1, <4>1
    <3>3. KeyOf(f) = "SideSelect"
      BY <2>2 DEF KeyOf
    <3>4. QED
      BY <2>1, <3>2, <3>3 DEF Recognised
  <2>3. CASE f # "Side"
    <3>1. special = Pass
      BY <2>3 DEF TungstenSpecials, CharOf, Fingers
    <3>2. DefaultOverrides(e, action) = Handled(HardKey(f, action))
      BY <2>3 DEF DefaultOverrides, OverriddenKeys, CharOf, Fingers
    <3>3. Pass.handled = "no" /\ Handled(HardKey(f, action)).handled = "yes"
          /\ Handled(HardKey(f, action)).cmds = HardKey(f, action)
      BY DEF Pass, Handled
    <3>4. KeyOf(f) = f
      BY <2>3 DEF KeyOf
    <3>5. QED
      BY <2>1, <3>1, <3>2, <3>3, <3>4 DEF Recognised
  <2>4. QED
    BY <2>2, <2>3
<1>3. CASE device = "Other"
  <2>1. HardKeyProcessEvent(device, TRUE, TRUE, TRUE, e) = DefaultOverrides(e, action)
    <3>1. Pass.handled = "no"
      BY DEF Pass
    <3>2. QED
      BY <1>3, <3>1, FirstPass
  <2>2. DefaultOverrides(e, action) = Handled(HardKey(f, action))
    BY <1>3 DEF DefaultOverrides, OverriddenKeys, CharOf, Fingers
  <2>3. Handled(HardKey(f, action)).handled = "yes"
        /\ Handled(HardKey(f, action)).cmds = HardKey(f, action)
    BY DEF Handled
  <2>4. KeyOf(f) = f
    BY <1>3 DEF KeyOf
  <2>5. QED
    BY <2>1, <2>2, <2>3, <2>4 DEF Recognised
<1>4. QED
  BY <1>1, <1>2, <1>3 DEF Devices

(* The key on the side of a Treo is handled in the notification.           *)
LEMMA SideFacts ==
    ASSUME NEW e, e.chr = "Side", e.key = "SideKey", e.type = "KeyDown", e.up,
           NEW up \in BOOLEAN, e.on = up, e.repeat = up
    PROVE  Process("Treo", TRUE, TRUE, e) =
               HardKey("SideSelect", IF up THEN "Release" ELSE "Press")
<1> DEFINE cmds == HardKey("SideSelect", IF up THEN "Release" ELSE "Press")
           asked == TreoNotifyCallback("Treo", TRUE, TRUE, e)
<1>1. "SideKey" \in DOMAIN SideKeys /\ SideKeys["SideKey"] = "SideSelect"
  BY DEF SideKeys
<1>2. e.chr \notin Untouched
  BY DEF Untouched
<1>3. asked = Handled(cmds)
  <2>1. CASE up
    BY <1>1, <1>2, <2>1 DEF TreoNotifyCallback
  <2>2. CASE ~ up
    <3>1. Action(e) = "Press"
      BY DEF Action
    <3>2. QED
      BY <1>1, <1>2, <2>2, <3>1 DEF TreoNotifyCallback
  <2>3. QED
    BY <2>1, <2>2
<1> HIDE DEF cmds
<1>4. Handled(cmds).handled = "yes" /\ Handled(cmds).cmds = cmds
  BY DEF Handled
<1> HIDE DEF asked
<1>5. asked.handled = "yes" /\ asked.cmds = cmds
  BY <1>3, <1>4
<1>6. QED
  BY <1>5 DEF Process, asked, cmds

LEMMA KeyFacts ==
    ASSUME NEW f \in Fingers, NEW type \in {"KeyDown", "KeyUp"}, NEW option \in BOOLEAN,
           r.device \in Devices, r.device = "Other" => f # "Side", NEW override \in BOOLEAN,
           ~ (f = "a" /\ option)
    PROVE  Yields(Process(r.device, TRUE, override, Event(f, type, option)), f, Stroke(type),
                  override)
<1> DEFINE e == Event(f, type, option)
           P == Process(r.device, TRUE, override, e)
<1>1. CASE f = "Side" /\ r.device = "Treo"
  <2>1. CASE override
    <3>1. e.chr = "Side" /\ e.key = "SideKey" /\ e.type = "KeyDown" /\ e.up
      BY <1>1 DEF Event
    <3>2. type = "KeyUp" => e.on = TRUE /\ e.repeat = TRUE
      BY <1>1 DEF Event
    <3>3. type = "KeyDown" => e.on = FALSE /\ e.repeat = FALSE
      BY <1>1 DEF Event
    <3> HIDE DEF e
    <3>4. type = "KeyUp" => Process("Treo", TRUE, TRUE, e) = HardKey("SideSelect", "Release")
      BY <3>1, <3>2, SideFacts
    <3>5. type = "KeyDown" => Process("Treo", TRUE, TRUE, e) = HardKey("SideSelect", "Press")
      BY <3>1, <3>3, SideFacts
    <3>6. P = HardKey("SideSelect", Stroke(type))
      BY <1>1, <2>1, <3>4, <3>5 DEF Stroke
    <3>7. QED
      BY <1>1, <2>1, <3>6 DEF Yields, KeyOf, e
  <2>2. CASE ~ override /\ type = "KeyDown"
    <3>1. Fresher(e) /\ e.chr = "Side" /\ e.key # "none"
      BY <1>1, <2>2, EventFacts
    <3> HIDE DEF e
    <3>2. P = DefaultHandler(e, Action(e)).cmds
      BY <1>1, <2>2, <3>1, WithoutOverride
    <3>3. Nothing(P)
      <4>1. e.chr \in NonLetters
        BY <3>1 DEF NonLetters
      <4> HIDE DEF P
      <4>2. Nothing(DefaultHandler(e, Action(e)).cmds)
        BY <3>1, <4>1, NonLetterFacts
      <4>3. QED
        BY <3>2, <4>2
    <3>4. QED
      BY <2>2, <3>3 DEF Yields, Stroke, e
  <2>3. CASE ~ override /\ type = "KeyUp"
    <3>1. e.type = "KeyDown" /\ e.repeat /\ ~ e.virtual
      BY <1>1, <2>3 DEF Event
    <3> HIDE DEF e
    <3>2. TreoNotifyCallback(r.device, TRUE, override, e) = Pass
      BY <2>3 DEF TreoNotifyCallback
    <3>3. HardKeyProcessEvent(r.device, TRUE, override, TRUE, e) = Pass
      BY <2>3 DEF HardKeyProcessEvent
    <3>4. HardKeyProcessEvent(r.device, TRUE, override, FALSE, e) = Handled(<<>>)
      BY <3>1 DEF HardKeyProcessEvent
    <3>5. Pass.handled = "no" /\ Handled(<<>>).cmds = <<>>
      BY DEF Pass, Handled
    <3>6. P = <<>>
      BY <3>2, <3>3, <3>4, <3>5 DEF Process
    <3>7. QED
      BY <1>1, <2>3, <3>6 DEF Yields, Stroke, e
  <2>4. QED
    BY <2>1, <2>2, <2>3
<1>2. CASE f = "a"
  <2>1. Fresher(e) /\ e.chr = "a" /\ e.key = "A" /\ Action(e) = Stroke(type)
    BY <1>2, EventFacts
  <2> HIDE DEF e
  <2>2. DefaultHandler(e, Action(e)).cmds = HardKey("A", Stroke(type))
    BY <2>1, LetterAFacts
  <2>3. CASE ~ override
    BY <1>2, <2>1, <2>2, <2>3, WithoutOverride DEF Yields, KeyOf, e
  <2>4. CASE override
    <3>1. TreoSpecials(TRUE, e, Action(e)) = Pass /\ TungstenSpecials(TRUE, e, Action(e)) = Pass
      BY <2>1 DEF TreoSpecials, TungstenSpecials, Chr, TreoKeys, TreoUntouched
    <3>2. DefaultOverrides(e, Action(e)) = Pass
      BY <2>1 DEF DefaultOverrides, OverriddenKeys
    <3>3. Pass.handled = "no"
      BY DEF Pass
    <3> HIDE DEF Pass
    <3>4. HardKeyProcessEvent(r.device, TRUE, TRUE, TRUE, e) = Pass
      BY <2>1, <3>1, <3>2, <3>3, FirstPass DEF Devices
    <3>5. e.key \notin DOMAIN SideKeys
      BY <2>1 DEF SideKeys
    <3>6. P = DefaultHandler(e, Action(e)).cmds
      BY <2>1, <2>4, <3>3, <3>4, <3>5, WithOverride
    <3>7. QED
      BY <1>2, <2>2, <2>4, <3>6 DEF Yields, KeyOf, e
  <2>5. QED
    BY <2>3, <2>4
<1>3. CASE f # "a" /\ ~ (f = "Side" /\ r.device = "Treo")
  <2>1. Fresher(e) /\ e.chr = CharOf(f) /\ e.key = f /\ Action(e) = Stroke(type)
    BY <1>3, EventFacts DEF Fingers, CharOf
  <2>2. CharOf(f) \in NonLetters
    BY <1>3 DEF Fingers, CharOf, NonLetters
  <2>3. f \notin DOMAIN SideKeys /\ f # "none"
    BY DEF Fingers, SideKeys
  <2> HIDE DEF e
  <2>4. CASE ~ override
    <3>1. P = DefaultHandler(e, Action(e)).cmds
      BY <2>1, <2>4, WithoutOverride
    <3>2. Nothing(P) /\ (type = "KeyUp" => P = <<>>)
      BY <2>1, <2>2, <2>3, <3>1, NonLetterFacts DEF Stroke
    <3>3. QED
      BY <1>3, <2>4, <3>2 DEF Yields, Stroke, e
  <2>5. CASE override
    <3> DEFINE first == HardKeyProcessEvent(r.device, TRUE, TRUE, TRUE, e)
    <3>1. Recognised(first, f, type)
      <4>1. f \in Fingers \ {"a"} /\ (r.device = "Treo" => f # "Side")
        BY <1>3
      <4> HIDE DEF first
      <4>2. QED
        BY <2>1, <4>1, FirstFacts DEF first
    <3>2. P = first.cmds
      BY <2>1, <2>3, <2>5, <3>1, WithOverride DEF Recognised
    <3> HIDE DEF first
    <3>3. QED
      BY <2>5, <3>1, <3>2 DEF Recognised, Yields, Stroke, e
  <2>6. QED
    BY <2>4, <2>5
<1>4. QED
  BY <1>1, <1>2, <1>3

(* Keys that no pass knows are typed, if at all.                           *)
LEMMA TypedFacts ==
    ASSUME NEW device \in Devices, NEW override \in BOOLEAN, NEW e, Fresher(e),
           e.chr \in {"a", "A", "&"}, e.key \in {"A", "none"}, e.chr = "&" \/ e.key = "none"
    PROVE  /\ Nothing(Process(device, TRUE, override, e))
           /\ Action(e) = "Release" /\ e.key = "A" => Process(device, TRUE, override, e) = <<>>
<1> DEFINE D == DefaultHandler(e, Action(e)).cmds
           P == Process(device, TRUE, override, e)
<1>1. Nothing(D) /\ (Action(e) = "Release" /\ e.key = "A" => D = <<>>)
  <2>1. CASE e.key = "A"
    BY <2>1, NonLetterFacts DEF NonLetters
  <2>2. CASE e.key = "none"
    <3>1. DefaultHandler(e, Action(e)) \in {Pass, Handled(virtualChars(e.chr))}
      BY <2>2 DEF DefaultHandler
    <3>2. Pass.cmds = <<>> /\ Handled(virtualChars(e.chr)).cmds = virtualChars(e.chr)
      BY DEF Pass, Handled
    <3>3. Nothing(<<>>) /\ Nothing(virtualChars(e.chr))
      BY VirtualFacts DEF Nothing
    <3> HIDE DEF Nothing
    <3>4. QED
      BY <2>2, <3>1, <3>2, <3>3
  <2>3. QED
    BY <2>1, <2>2
<1>2. P = D
  <2>1. CASE ~ override
    BY <2>1, WithoutOverride
  <2>2. CASE override
    <3>1. TreoSpecials(TRUE, e, Action(e)) = Pass /\ TungstenSpecials(TRUE, e, Action(e)) = Pass
      BY DEF TreoSpecials, TungstenSpecials, Chr, TreoKeys, TreoUntouched
    <3>2. DefaultOverrides(e, Action(e)) = Pass
      BY DEF DefaultOverrides, OverriddenKeys
    <3>3. Pass.handled = "no"
      BY DEF Pass
    <3> HIDE DEF Pass
    <3>4. HardKeyProcessEvent(device, TRUE, TRUE, TRUE, e) = Pass
      BY <3>1, <3>2, <3>3, FirstPass DEF Devices
    <3>5. e.key \notin DOMAIN SideKeys
      BY DEF SideKeys
    <3>6. QED
      BY <2>2, <3>3, <3>4, <3>5, WithOverride
  <2>3. QED
    BY <2>1, <2>2
<1>3. QED
  BY <1>1, <1>2

(* Option makes another character of "a".                                  *)
LEMMA OptionFacts ==
    ASSUME NEW type \in {"KeyDown", "KeyUp"}, r.device \in Devices, NEW override \in BOOLEAN
    PROVE  /\ Nothing(Process(r.device, TRUE, override, Event("a", type, TRUE)))
           /\ type = "KeyUp" => Process(r.device, TRUE, override, Event("a", type, TRUE)) = <<>>
<1> DEFINE e == Event("a", type, TRUE)
<1>1. Fresher(e) /\ e.chr = "&" /\ e.key = "A" /\ (type = "KeyUp" => Action(e) = "Release")
  BY DEF Event, Fresher, Action
<1> HIDE DEF e
<1>2. QED
  BY <1>1, TypedFacts DEF e

LEMMA WriteFacts ==
    ASSUME NEW chr \in {"a", "A"}, r.device \in Devices, NEW override \in BOOLEAN
    PROVE  Nothing(Process(r.device, TRUE, override,
                           [Event("none", "KeyDown", FALSE) EXCEPT !.chr = chr]))
<1> DEFINE e == [Event("none", "KeyDown", FALSE) EXCEPT !.chr = chr]
<1>1. Fresher(e) /\ e.chr = chr /\ e.key = "none"
  BY DEF Event, Fresher
<1> HIDE DEF e
<1>2. QED
  BY <1>1, TypedFacts DEF e

(* The navigator's event: each direction that has changed, as it is now.   *)
Nav == [type |-> "KeyDown", option |-> FALSE, up |-> TRUE, repeat |-> FALSE, on |-> FALSE,
        virtual |-> FALSE, key |-> "Nav", chr |-> "NavChange"]
NavEvent(changed, down) ==
    [x \in DOMAIN Nav \cup {"changed", "down"} |->
        CASE x = "changed" -> changed [] x = "down" -> down [] OTHER -> Nav[x]]

Turned(cmds, changed, down) ==
    /\ cmds \in Seq(HardCommands)
    /\ \A i \in 1 .. Len(cmds) :
           cmds[i].key \in changed
           /\ cmds[i].action = IF cmds[i].key \in down THEN "Press" ELSE "Release"
    /\ \A key \in changed : \E i \in 1 .. Len(cmds) : cmds[i].key = key

LEMMA NavChangeFacts ==
    ASSUME NEW e, e.changed \subseteq {"Up", "Center"}
    PROVE  Turned(NavChange(e), e.changed, e.down)
<1> DEFINE Of(key) == [cmd |-> "HardKey", key |-> key,
                       action |-> IF key \in e.down THEN "Press" ELSE "Release"]
           Change(key) == IF key \notin e.changed THEN <<>> ELSE <<Of(key)>>
<1>1. NavChange(e) = Change("Up") \o Change("Down") \o Change("Left") \o Change("Right")
                     \o Change("Center")
  BY DEF NavChange, HardKey
<1>2. Change("Down") = <<>> /\ Change("Left") = <<>> /\ Change("Right") = <<>>
  OBVIOUS
<1>3. ASSUME NEW key \in {"Up", "Center"}
      PROVE  /\ Of(key) \in HardCommands /\ Of(key).key = key
             /\ Of(key).action = IF key \in e.down THEN "Press" ELSE "Release"
  BY <1>3 DEF HardCommands
<1> DEFINE U == Of("Up")
           C == Of("Center")
<1>4. U \in HardCommands /\ C \in HardCommands
  BY <1>3
<1>5. U.key = "Up" /\ U.action = IF "Up" \in e.down THEN "Press" ELSE "Release"
  BY <1>3
<1>6. C.key = "Center" /\ C.action = IF "Center" \in e.down THEN "Press" ELSE "Release"
  BY <1>3
<1>7. Change("Up") = (IF "Up" \in e.changed THEN <<U>> ELSE <<>>)
      /\ Change("Center") = (IF "Center" \in e.changed THEN <<C>> ELSE <<>>)
  OBVIOUS
<1> HIDE DEF U, C, Change, Of
<1>8. NavChange(e) = (IF "Up" \in e.changed THEN <<U>> ELSE <<>>)
                     \o (IF "Center" \in e.changed THEN <<C>> ELSE <<>>)
  <2>1. <<U>> \in Seq(HardCommands) /\ <<C>> \in Seq(HardCommands) /\ <<>> \in Seq(HardCommands)
    BY <1>4
  <2>2. \A s \in Seq(HardCommands) : s \o <<>> = s
    OBVIOUS
  <2>3. QED
    BY <1>1, <1>2, <1>7, <2>1, <2>2
<1>9. CASE "Up" \in e.changed /\ "Center" \in e.changed
  <2> DEFINE q == <<U>> \o <<C>>
  <2>1. NavChange(e) = q
    BY <1>8, <1>9
  <2>2. q \in Seq(HardCommands) /\ Len(q) = 2 /\ q[1] = U /\ q[2] = C
    BY <1>4
  <2> HIDE DEF q
  <2>3. QED
    BY <1>5, <1>6, <1>9, <2>1, <2>2 DEF Turned
<1>10. CASE "Up" \in e.changed /\ "Center" \notin e.changed
  <2>1. NavChange(e) = <<U>>
    BY <1>8, <1>10
  <2>2. QED
    BY <1>4, <1>5, <1>10, <2>1 DEF Turned
<1>11. CASE "Up" \notin e.changed /\ "Center" \in e.changed
  <2>1. NavChange(e) = <<C>>
    BY <1>8, <1>11
  <2>2. QED
    BY <1>4, <1>6, <1>11, <2>1 DEF Turned
<1>12. CASE "Up" \notin e.changed /\ "Center" \notin e.changed
  <2>1. NavChange(e) = <<>>
    BY <1>8, <1>12
  <2>2. QED
    BY <1>12, <2>1 DEF Turned
<1>13. QED
  BY <1>9, <1>10, <1>11, <1>12

(* Without hardkeyOverride the navigator is left to the system.            *)
Steered(cmds, override, changed, down) ==
    IF override THEN Turned(cmds, changed, down) ELSE Nothing(cmds)

LEMMA NavigateFacts ==
    ASSUME NEW changed \in SUBSET {"Up", "Center"}, NEW down, NEW override \in BOOLEAN,
           r.device \in {"Tungsten", "Other"}
    PROVE  Steered(Process(r.device, TRUE, override, NavEvent(changed, down)), override, changed,
                   down)
<1> DEFINE e == NavEvent(changed, down)
           P == Process(r.device, TRUE, override, e)
<1>1. DOMAIN Nav = {"type", "option", "up", "repeat", "on", "virtual", "key", "chr"}
  BY DEF Nav
<1>2. Nav.type = "KeyDown" /\ ~ Nav.repeat /\ Nav.key = "Nav" /\ Nav.chr = "NavChange"
  BY DEF Nav
<1>3. e = [x \in DOMAIN Nav \cup {"changed", "down"} |->
              CASE x = "changed" -> changed [] x = "down" -> down [] OTHER -> Nav[x]]
  BY DEF NavEvent
<1> HIDE DEF e
<1>4. /\ e.type = "KeyDown" /\ ~ e.repeat /\ e.key = "Nav" /\ e.chr = "NavChange"
      /\ e.changed = changed /\ e.down = down
  BY <1>1, <1>2, <1>3
<1>5. Fresher(e)
  BY <1>4 DEF Fresher
<1>6. r.device \in Devices
  BY DEF Devices
<1>7. Nothing(DefaultHandler(e, Action(e)).cmds)
  <2>1. e.chr \in NonLetters /\ e.key # "none"
    BY <1>4 DEF NonLetters
  <2>2. QED
    BY <2>1, NonLetterFacts
<1>8. CASE ~ override
  <2>1. P = DefaultHandler(e, Action(e)).cmds
    BY <1>5, <1>6, <1>8, WithoutOverride
  <2>2. QED
    BY <1>7, <1>8, <2>1 DEF Steered, e
<1>9. CASE override
  <2>1. TungstenSpecials(TRUE, e, Action(e)) = Pass
    BY <1>4 DEF TungstenSpecials
  <2>2. Pass.handled = "no"
    BY DEF Pass
  <2>3. DefaultOverrides(e, Action(e)) = Handled(NavChange(e))
    BY <1>4 DEF DefaultOverrides
  <2>4. HardKeyProcessEvent(r.device, TRUE, TRUE, TRUE, e) = Handled(NavChange(e))
    BY <1>5, <1>6, <2>1, <2>2, <2>3, FirstPass
  <2>5. Handled(NavChange(e)).handled = "yes" /\ Handled(NavChange(e)).cmds = NavChange(e)
    BY DEF Handled
  <2>6. e.key \notin DOMAIN SideKeys
    BY <1>4 DEF SideKeys
  <2>7. P = NavChange(e)
    BY <1>5, <1>6, <1>9, <2>4, <2>5, <2>6, WithOverride
  <2>8. Turned(NavChange(e), changed, down)
    BY <1>4, NavChangeFacts
  <2>9. QED
    BY <1>9, <2>7, <2>8 DEF Steered, e
<1>10. QED
  BY <1>8, <1>9
-----------------------------------------------------------------------------
(* The events that wait: loads, each with its open behind it, but for an   *)
(* open at the head of the form that is loaded.  Once a form is the one    *)
(* that is asked for, so are those behind it.                              *)
Forms == {"Mouse", "Keyboard"}
EventType == [type : {"load", "open"}, form : Forms]

EventsRight(E, form, asked) ==
    /\ E \in Seq(EventType)
    /\ \A i \in 1 .. Len(E) : E[i].type = "load" =>
           i < Len(E) /\ E[i + 1].type = "open" /\ E[i + 1].form = E[i].form
    /\ \A i \in 1 .. Len(E) - 1 : E[i].type = "open" => E[i + 1].type = "load"
    /\ Len(E) > 0 /\ E[1].type = "open" => E[1].form = form
    /\ \A i, j \in 1 .. Len(E) : i < j /\ E[i].form = asked => E[j].form = asked
    /\ \A i \in 1 .. Len(E) : E[i].form \in {form, asked}

Pair(form) == <<[type |-> "load", form |-> form], [type |-> "open", form |-> form]>>

LEMMA AskedFacts ==
    ASSUME NEW E, NEW form \in Forms, NEW asked \in Forms, EventsRight(E, form, asked)
    PROVE  EventsRight(E \o Pair(asked), form, asked)
<1> DEFINE N == Len(E)
           a == [type |-> "load", form |-> asked]
           b == [type |-> "open", form |-> asked]
           q == E \o Pair(asked)
<1>1. a \in EventType /\ b \in EventType /\ E \in Seq(EventType) /\ N \in Nat
  BY DEF EventType, EventsRight
<1>2. a.type = "load" /\ a.form = asked /\ b.type = "open" /\ b.form = asked
  OBVIOUS
<1>3. Pair(asked) = <<a, b>>
  BY DEF Pair
<1> HIDE DEF a, b
<1>4. /\ q \in Seq(EventType) /\ Len(q) = N + 2 /\ \A i \in 1 .. N : q[i] = E[i]
  BY <1>1, <1>3
<1>5. q[N + 1] = a /\ q[N + 2] = b
  BY <1>1, <1>3
<1>6. \A i \in 1 .. N : q[i].form = E[i].form /\ q[i].type = E[i].type
  BY <1>4
<1>7. q[N + 1].type = "load" /\ q[N + 1].form = asked /\ q[N + 2].type = "open"
      /\ q[N + 2].form = asked
  BY <1>2, <1>5
<1> HIDE DEF q, N
<1>8. \A i \in 1 .. N + 2 : i \in 1 .. N \/ i = N + 1 \/ i = N + 2
  BY <1>1
<1>9. ASSUME NEW i \in 1 .. N + 2, q[i].type = "load"
      PROVE  i < N + 2 /\ q[i + 1].type = "open" /\ q[i + 1].form = q[i].form
  <2>1. CASE i \in 1 .. N
    <3>1. i < N /\ E[i + 1].type = "open" /\ E[i + 1].form = E[i].form
      BY <1>6, <1>9, <2>1 DEF EventsRight, N
    <3>2. i + 1 \in 1 .. N
      BY <1>1, <2>1, <3>1
    <3>3. QED
      BY <1>1, <1>6, <2>1, <3>1, <3>2
  <2>2. CASE i = N + 1
    BY <1>1, <1>7, <2>2
  <2>3. QED
    BY <1>7, <1>8, <1>9, <2>1, <2>2
<1>10. ASSUME NEW i \in 1 .. N + 1, q[i].type = "open" PROVE q[i + 1].type = "load"
  <2>1. i \in 1 .. N
    BY <1>1, <1>7, <1>10
  <2>2. CASE i = N
    BY <1>7, <2>2
  <2>3. CASE i # N
    <3>1. i \in 1 .. N - 1 /\ i + 1 \in 1 .. N
      BY <1>1, <2>1, <2>3
    <3>2. E[i].type = "open"
      BY <1>6, <1>10, <2>1
    <3>3. E[i + 1].type = "load"
      BY <3>1, <3>2 DEF EventsRight, N
    <3>4. QED
      BY <1>6, <3>1, <3>3
  <2>4. QED
    BY <2>2, <2>3
<1>11. q[1].type = "open" => q[1].form = form
  <2>1. CASE N = 0
    BY <1>7, <2>1
  <2>2. CASE N > 0
    <3>1. 1 \in 1 .. N
      BY <1>1, <2>2
    <3>2. QED
      BY <1>6, <2>2, <3>1 DEF EventsRight, N
  <2>3. QED
    BY <1>1, <2>1, <2>2
<1>12. ASSUME NEW i \in 1 .. N + 2, NEW j \in 1 .. N + 2, i < j, q[i].form = asked
       PROVE  q[j].form = asked
  <2>1. CASE j \in 1 .. N
    <3>1. i \in 1 .. N
      BY <1>1, <1>12, <2>1
    <3>2. QED
      BY <1>6, <1>12, <2>1, <3>1 DEF EventsRight, N
  <2>2. QED
    BY <1>7, <1>8, <2>1
<1>13. ASSUME NEW i \in 1 .. N + 2 PROVE q[i].form \in {form, asked}
  <2>1. CASE i \in 1 .. N
    BY <1>6, <2>1 DEF EventsRight, N
  <2>2. QED
    BY <1>7, <1>8, <2>1
<1>14. Len(q) = N + 2 /\ Len(q) - 1 = N + 1
  BY <1>1, <1>4
<1>15. \A i \in 1 .. Len(q) : q[i].type = "load" =>
           i < Len(q) /\ q[i + 1].type = "open" /\ q[i + 1].form = q[i].form
  BY <1>4, <1>9
<1>16. \A i \in 1 .. Len(q) - 1 : q[i].type = "open" => q[i + 1].type = "load"
  BY <1>10, <1>14
<1>17. \A i, j \in 1 .. Len(q) : i < j /\ q[i].form = asked => q[j].form = asked
  BY <1>4, <1>12
<1>18. \A i \in 1 .. Len(q) : q[i].form \in {form, asked}
  BY <1>4, <1>13
<1>19. EventsRight(q, form, asked)
  BY <1>4, <1>11, <1>15, <1>16, <1>17, <1>18 DEF EventsRight
<1>20. QED
  BY <1>19 DEF q

(* Another form is asked for: not the one that is shown, unless nothing is *)
(* waiting.                                                                *)
LEMMA OtherAsked ==
    ASSUME NEW E, NEW form \in Forms, NEW asked \in Forms, EventsRight(E, form, asked),
           NEW to \in Forms, to # form \/ E = <<>>
    PROVE  EventsRight(E, form, to)
<1>1. CASE E = <<>>
  BY <1>1 DEF EventsRight
<1>2. CASE to = asked
  BY <1>2
<1>3. CASE E # <<>> /\ to # asked
  <2>1. asked = form
    BY <1>3 DEF Forms
  <2>2. \A i \in 1 .. Len(E) : E[i].form = form /\ E[i].form # to
    BY <1>3, <2>1 DEF EventsRight
  <2>3. QED
    BY <2>1, <2>2 DEF EventsRight
<1>4. QED
  BY <1>1, <1>2, <1>3

LEMMA TailFacts ==
    ASSUME NEW E \in Seq(EventType), E # <<>>
    PROVE  /\ Tail(E) \in Seq(EventType) /\ Len(Tail(E)) = Len(E) - 1 /\ Len(E) \in Nat \ {0}
           /\ \A i \in 1 .. Len(E) - 1 : Tail(E)[i] = E[i + 1] /\ i + 1 \in 1 .. Len(E)
           /\ Head(E) = E[1] /\ Head(E) \in EventType
  OBVIOUS

(* The form at the head is loaded; its open is next.                       *)
LEMMA LoadedFacts ==
    ASSUME NEW E, NEW form \in Forms, NEW asked \in Forms, EventsRight(E, form, asked),
           E # <<>>, Head(E).type = "load"
    PROVE  /\ EventsRight(Tail(E), Head(E).form, asked)
           /\ Tail(E) # <<>> /\ Head(Tail(E)).type = "open" /\ Head(E).form \in {form, asked}
<1> DEFINE N == Len(E)
           q == Tail(E)
           to == Head(E).form
<1>1. E \in Seq(EventType)
  BY DEF EventsRight
<1>2. /\ q \in Seq(EventType) /\ Len(q) = N - 1 /\ N \in Nat \ {0}
      /\ \A i \in 1 .. N - 1 : q[i] = E[i + 1] /\ i + 1 \in 1 .. N
      /\ Head(E) = E[1] /\ 1 \in 1 .. N
  BY <1>1, TailFacts
<1>3. to = E[1].form /\ E[1].type = "load"
  BY <1>2
<1>4. 1 < N /\ E[2].type = "open" /\ E[2].form = to
  BY <1>2, <1>3 DEF EventsRight
<1> HIDE DEF q, N, to
<1>5. q[1].type = "open" /\ q[1].form = to
  BY <1>2, <1>4
<1>6. to \in {form, asked}
  BY <1>2, <1>3 DEF EventsRight, N
<1>7. ASSUME NEW i \in 1 .. N - 1, q[i].type = "load"
      PROVE  i < N - 1 /\ q[i + 1].type = "open" /\ q[i + 1].form = q[i].form
  <2>1. i + 1 < N /\ E[i + 1 + 1].type = "open" /\ E[i + 1 + 1].form = E[i + 1].form
    BY <1>2, <1>7 DEF EventsRight, N
  <2>2. i + 1 \in 1 .. N - 1
    BY <1>2, <2>1
  <2>3. QED
    BY <1>2, <2>1, <2>2
<1>8. ASSUME NEW i \in 1 .. N - 1 - 1, q[i].type = "open" PROVE q[i + 1].type = "load"
  <2>1. i \in 1 .. N - 1 /\ i + 1 \in 1 .. N - 1
    BY <1>2
  <2>2. E[i + 1].type = "open"
    BY <1>2, <1>8, <2>1
  <2>3. E[i + 1 + 1].type = "load"
    BY <2>1, <2>2 DEF EventsRight, N
  <2>4. QED
    BY <1>2, <2>1, <2>3
<1>9. ASSUME NEW i \in 1 .. N - 1, NEW j \in 1 .. N - 1, i < j, q[i].form = asked
      PROVE  q[j].form = asked
  <2>1. i + 1 \in 1 .. N /\ j + 1 \in 1 .. N /\ i + 1 < j + 1
    BY <1>2, <1>9
  <2>2. E[i + 1].form = asked
    BY <1>2, <1>9
  <2>3. E[j + 1].form = asked
    BY <2>1, <2>2 DEF EventsRight, N
  <2>4. QED
    BY <1>2, <2>3
<1>10. ASSUME NEW i \in 1 .. N - 1 PROVE q[i].form \in {to, asked}
  <2>1. i + 1 \in 1 .. N /\ 1 < i + 1 /\ q[i] = E[i + 1]
    BY <1>2
  <2>2. CASE to = asked
    <3>1. E[1].form = asked
      BY <1>3, <2>2
    <3>2. E[i + 1].form = asked
      BY <1>2, <2>1, <3>1 DEF EventsRight, N
    <3>3. QED
      BY <2>1, <3>2
  <2>3. CASE to # asked
    BY <1>6, <2>1, <2>3 DEF EventsRight, N
  <2>4. QED
    BY <2>2, <2>3
<1>11. EventsRight(q, to, asked)
  BY <1>2, <1>5, <1>7, <1>8, <1>9, <1>10 DEF EventsRight
<1>12. q # <<>> /\ Head(q) = q[1]
  BY <1>2, <1>4
<1>13. QED
  BY <1>5, <1>6, <1>11, <1>12 DEF q, to

(* The form that is loaded is opened.                                      *)
LEMMA OpenedFacts ==
    ASSUME NEW E, NEW form \in Forms, NEW asked \in Forms, EventsRight(E, form, asked),
           E # <<>>, Head(E).type = "open"
    PROVE  EventsRight(Tail(E), form, asked) /\ Head(E).form = form
<1> DEFINE N == Len(E)
           q == Tail(E)
<1>1. E \in Seq(EventType)
  BY DEF EventsRight
<1>2. /\ q \in Seq(EventType) /\ Len(q) = N - 1 /\ N \in Nat \ {0}
      /\ \A i \in 1 .. N - 1 : q[i] = E[i + 1] /\ i + 1 \in 1 .. N
      /\ Head(E) = E[1] /\ 1 \in 1 .. N
  BY <1>1, TailFacts
<1>3. E[1].type = "open"
  BY <1>2
<1>4. E[1].form = form
  BY <1>2, <1>3 DEF EventsRight
<1> HIDE DEF q, N
<1>5. N > 1 => q[1].type = "load"
  BY <1>2, <1>3 DEF EventsRight, N
<1>6. ASSUME NEW i \in 1 .. N - 1, q[i].type = "load"
      PROVE  i < N - 1 /\ q[i + 1].type = "open" /\ q[i + 1].form = q[i].form
  <2>1. i + 1 < N /\ E[i + 1 + 1].type = "open" /\ E[i + 1 + 1].form = E[i + 1].form
    <3>1. i + 1 \in 1 .. N /\ E[i + 1].type = "load"
      BY <1>2, <1>6
    <3>2. QED
      BY <3>1 DEF EventsRight, N
  <2>2. i + 1 \in 1 .. N - 1
    BY <1>2, <2>1
  <2>3. QED
    BY <1>2, <2>1, <2>2
<1>7. ASSUME NEW i \in 1 .. N - 1 - 1, q[i].type = "open" PROVE q[i + 1].type = "load"
  <2>1. i \in 1 .. N - 1 /\ i + 1 \in 1 .. N - 1
    BY <1>2
  <2>2. E[i + 1].type = "open"
    BY <1>2, <1>7, <2>1
  <2>3. E[i + 1 + 1].type = "load"
    BY <2>1, <2>2 DEF EventsRight, N
  <2>4. QED
    BY <1>2, <2>1, <2>3
<1>8. ASSUME NEW i \in 1 .. N - 1, NEW j \in 1 .. N - 1, i < j, q[i].form = asked
      PROVE  q[j].form = asked
  <2>1. i + 1 \in 1 .. N /\ j + 1 \in 1 .. N /\ i + 1 < j + 1
    BY <1>2, <1>8
  <2>2. E[i + 1].form = asked
    BY <1>2, <1>8
  <2>3. E[j + 1].form = asked
    BY <2>1, <2>2 DEF EventsRight, N
  <2>4. QED
    BY <1>2, <2>3
<1>9. ASSUME NEW i \in 1 .. N - 1 PROVE q[i].form \in {form, asked}
  BY <1>2 DEF EventsRight, N
<1>10. EventsRight(q, form, asked)
  BY <1>2, <1>5, <1>6, <1>7, <1>8, <1>9 DEF EventsRight
<1>11. QED
  BY <1>2, <1>4, <1>10 DEF q
-----------------------------------------------------------------------------
(* What holds of every state r.                                            *)
NextType(n) == IF n.events = <<>> THEN "none" ELSE Head(n.events).type

GoalRight(n) ==
    /\ n.goal \in {"none", n.asked}
    /\ n.goal = "none" => n.form = n.asked /\ (n.drawn \/ NextType(n) = "open" \/ n.lost)
    /\ n.goal # "none" /\ ~ n.switched => n.form # n.goal \/ n.drawn
    /\ n.over \in {"none", "menu"} /\ (n.enabled <=> n.over = "none")
    /\ n.over = "menu" => n.drawn /\ n.goal = "none" /\ n.events = <<>> /\ n.cmds = <<>>

GoalOf(n) == n.goal \in {"none", n.asked} /\ (n.goal = "none" => n.form = n.asked)

FInv(n) == EventsRight(n.events, n.form, n.asked) /\ GoalRight(n)

(* What the fingers hold, or may be left from one; and what a command that *)
(* waits will release.                                                     *)
Held(n) == {Meaning(f, n.form) : f \in n.fingers}
Releases(n) == {i \in 1 .. Len(n.cmds) : n.cmds[i] \in HardCommands
                                         /\ n.cmds[i].action = "Release"}
Letting(n) == {Acts(n.cmds[i], n.form) : i \in Releases(n)}
Explained(n) == Held(n) \cup n.stuck \cup Letting(n)

(* A press that waits is of a key that is held.                            *)
CommandsRight(n) ==
    /\ n.cmds \in Seq(Command)
    /\ \A i \in 1 .. Len(n.cmds) : n.cmds[i] \in HardCommands =>
           /\ MayPress(n, n.cmds[i])
           /\ n.cmds[i].action = "Press" => Acts(n.cmds[i], n.form) \in Held(n)

KInv(n) == HostRight(n, Explained(n)) /\ CommandsRight(n)

KnownKeys(device) == Keyboards[device] \subseteq Fingers
                     /\ (device = "Other" => "Side" \notin Keyboards[device])

Typed(n) == /\ Formed(n) /\ n.device \in Devices /\ KnownKeys(n.device) /\ n.override \in BOOLEAN
            /\ n.enabled \in BOOLEAN /\ n.dragmode \in BOOLEAN
            /\ n.form \in Forms /\ n.asked \in Forms

IInv(n) == Typed(n) /\ FInv(n) /\ KInv(n)

TypedFields == {"hidp", "device", "override", "enabled", "dragmode", "form", "asked"}
FormFields == {"events", "form", "asked", "goal", "switched", "drawn", "lost", "over", "enabled",
               "cmds"}
KeysFields == {"form", "fingers", "stuck", "cmds"}

LEMMA TypedSame ==
    ASSUME NEW n, Typed(n), NEW t, Record(t), \A f \in TypedFields : t[f] = n[f]
    PROVE  Typed(t)
  BY DEF Typed, Formed, TypedFields

LEMMA FormSame ==
    ASSUME NEW n, FInv(n), NEW t, \A f \in FormFields : t[f] = n[f]
    PROVE  FInv(t)
<1>1. /\ t.events = n.events /\ t.form = n.form /\ t.asked = n.asked /\ t.goal = n.goal
      /\ t.switched = n.switched /\ t.drawn = n.drawn /\ t.lost = n.lost /\ t.over = n.over
      /\ t.enabled = n.enabled /\ t.cmds = n.cmds
  BY DEF FormFields
<1>2. QED
  BY <1>1 DEF FInv, GoalRight, NextType

LEMMA WordsSame ==
    ASSUME NEW n, NEW t, \A f \in KeysFields : t[f] = n[f], t.override = n.override
    PROVE  Explained(t) = Explained(n) /\ (CommandsRight(n) => CommandsRight(t))
<1>1. t.form = n.form /\ t.fingers = n.fingers /\ t.stuck = n.stuck /\ t.cmds = n.cmds
  BY DEF KeysFields
<1>2. Held(t) = Held(n)
  BY <1>1 DEF Held
<1>3. Letting(t) = Letting(n)
  BY <1>1 DEF Letting, Releases
<1>4. Explained(t) = Explained(n)
  BY <1>1, <1>2, <1>3 DEF Explained
<1>5. CommandsRight(n) => CommandsRight(t)
  BY <1>1, <1>2 DEF CommandsRight, MayPress
<1>6. QED
  BY <1>4, <1>5

(* A step that only changes what is down, and how the pad is.              *)
LEMMA KeysKept ==
    ASSUME NEW n, CommandsRight(n), NEW t, NEW C, HostKept(n, t, C, Explained(n)),
           C \cap KeysFields = {}, "override" \notin C
    PROVE  KInv(t)
<1>1. \A f \in KeysFields : t[f] = n[f]
  BY DEF HostKept, But, KeysFields, Fields
<1>2. t.override = n.override
  BY DEF HostKept, But, Fields
<1>3. QED
  BY <1>1, <1>2, WordsSame DEF KInv, HostKept

(* A step that only changes who explains what is down.                     *)
LEMMA WordsChange ==
    ASSUME NEW n, KInv(n), NEW t, \A f \in HostFields : t[f] = n[f],
           Explained(n) \cap Wanted(n) \subseteq Explained(t), CommandsRight(t)
    PROVE  KInv(t)
<1> DEFINE D == Explained(n)
           E == Explained(t)
<1>1. HostRight(n, D) /\ D \cap Wanted(n) \subseteq E
  BY DEF KInv
<1> HIDE DEF D, E
<1>2. HostRight(t, E)
  BY <1>1, HostMono
<1>3. QED
  BY <1>2 DEF KInv, E

LEMMA KeysSame ==
    ASSUME NEW n, KInv(n), NEW t, \A f \in HostFields \cup KeysFields : t[f] = n[f]
    PROVE  KInv(t)
<1>1. \A f \in HostFields : t[f] = n[f]
  OBVIOUS
<1>2. \A f \in KeysFields : t[f] = n[f]
  OBVIOUS
<1>3. t.override = n.override
  BY DEF HostFields
<1>4. Explained(t) = Explained(n) /\ CommandsRight(t)
  BY <1>2, <1>3, WordsSame DEF KInv
<1>5. QED
  BY <1>1, <1>4, WordsChange

(* What is not down any more is forgotten after each step.                 *)
LEMMA Pruned ==
    ASSUME NEW n, IInv(n)
    PROVE  IInv([n EXCEPT !.stuck = n.stuck \cap DownNow(n)])
<1> DEFINE t == [n EXCEPT !.stuck = n.stuck \cap DownNow(n)]
<1>1. But(n, t, {"stuck"}) /\ t.stuck = n.stuck \cap DownNow(n)
  BY DEF IInv, Typed, Formed, But, Record, Fields
<1> HIDE DEF t
<1>2. Typed(t)
  BY <1>1, TypedSame DEF IInv, But, TypedFields, Fields
<1>3. FInv(t)
  BY <1>1, FormSame DEF IInv, But, FormFields, Fields
<1>4. /\ t.form = n.form /\ t.fingers = n.fingers /\ t.cmds = n.cmds /\ t.override = n.override
      /\ t.hidp = n.hidp /\ t.hardkey = n.hardkey /\ t.timer = n.timer
      /\ t.trackPen = n.trackPen /\ t.drag = n.drag /\ t.dragmode = n.dragmode
      /\ t.selected = n.selected
  BY <1>1 DEF But, Fields
<1>5. Held(t) = Held(n) /\ Letting(t) = Letting(n)
  BY <1>4 DEF Held, Letting, Releases
<1>6. Explained(n) \cap DownNow(n) \subseteq Explained(t)
  BY <1>1, <1>5 DEF Explained
<1>7. CommandsRight(t)
  BY <1>4, <1>5 DEF IInv, KInv, CommandsRight, MayPress
<1>8. HostRight(n, Explained(n))
  BY DEF IInv, KInv
<1>9. KeysOf(n.hidp.pressed) \subseteq DownNow(n)
  BY DEF KeysOf, DownNow
<1>10. (1 \in n.hidp.buttonState => "button" \in DownNow(n))
       /\ (n.timer => "pointer" \in DownNow(n)) /\ (n.trackPen => "stroke" \in DownNow(n))
  BY DEF DownNow
<1>11. HostRight(t, Explained(t))
  BY <1>4, <1>6, <1>8, <1>9, <1>10 DEF HostRight
<1>12. QED
  BY <1>2, <1>3, <1>7, <1>11 DEF IInv, KInv, t
-----------------------------------------------------------------------------
(* Asking for a form.                                                      *)
GoalFields == {"events", "goal", "late", "switched"}

(* The state is right, and the event at the head is the same.              *)
Front(n, t) == n.events # <<>> => t.events # <<>> /\ Head(t.events) = Head(n.events)
Asking(n, t) == But(n, t, GoalFields) /\ FInv(t) /\ Front(n, t)

LEMMA GotoFields ==
    ASSUME NEW n, Record(n), NEW form
    PROVE  But(n, FrmGotoForm(n, form), {"events"})
           /\ FrmGotoForm(n, form).events = n.events \o Pair(form)
<1> DEFINE E == n.events \o Pair(form)
<1>1. FrmGotoForm(n, form) = [n EXCEPT !.events = E]
  BY DEF FrmGotoForm, Pair
<1> HIDE DEF E
<1>2. QED
  BY <1>1 DEF But, Record, Fields, E

LEMMA FrontFacts ==
    ASSUME NEW E \in Seq(EventType), NEW form \in Forms
    PROVE  E # <<>> => E \o Pair(form) # <<>> /\ Head(E \o Pair(form)) = Head(E)
<1> DEFINE a == [type |-> "load", form |-> form]
           b == [type |-> "open", form |-> form]
           q == E \o <<a, b>>
<1>1. a \in EventType /\ b \in EventType
  BY DEF EventType
<1> HIDE DEF a, b
<1>2. q \in Seq(EventType) /\ Len(q) = Len(E) + 2 /\ \A i \in 1 .. Len(E) : q[i] = E[i]
  BY <1>1
<1> HIDE DEF q
<1>3. E # <<>> => q # <<>> /\ Head(q) = Head(E)
  BY <1>2
<1>4. QED
  BY <1>3 DEF Pair, a, b, q

(* The goal is asked for once more.                                        *)
LEMMA GotoFacts ==
    ASSUME NEW n, Typed(n), FInv(n), n.goal # "none"
    PROVE  Asking(n, FrmGotoForm(n, n.goal))
<1> DEFINE t == FrmGotoForm(n, n.goal)
<1>1. n.goal = n.asked /\ n.asked \in Forms /\ n.form \in Forms
  BY DEF FInv, GoalRight, Typed
<1>2. But(n, t, {"events"}) /\ t.events = n.events \o Pair(n.asked)
  BY <1>1, GotoFields DEF Typed, Formed
<1> HIDE DEF t
<1>3. EventsRight(t.events, n.form, n.asked)
  BY <1>1, <1>2, AskedFacts DEF FInv
<1>4. /\ t.form = n.form /\ t.asked = n.asked /\ t.goal = n.goal
      /\ t.switched = n.switched /\ t.drawn = n.drawn /\ t.lost = n.lost /\ t.over = n.over
      /\ t.enabled = n.enabled /\ t.cmds = n.cmds
  BY <1>2 DEF But, Fields
<1>5. GoalRight(t)
  BY <1>4 DEF FInv, GoalRight
<1>6. n.events \in Seq(EventType)
  BY DEF FInv, EventsRight
<1>7. Front(n, t)
  BY <1>1, <1>2, <1>6, FrontFacts DEF Front
<1>8. But(n, t, GoalFields)
  BY <1>2 DEF But, GoalFields
<1>9. QED
  BY <1>3, <1>4, <1>5, <1>7, <1>8 DEF Asking, FInv, t

LEMMA AskingTyped ==
    ASSUME NEW n, Typed(n), NEW t, Asking(n, t)
    PROVE  Typed(t)
  BY TypedSame DEF Asking, But, GoalFields, TypedFields, Fields

LEMMA AskingTwice ==
    ASSUME NEW n, NEW t, NEW u, Asking(n, t), Asking(t, u)
    PROVE  Asking(n, u)
<1>1. But(n, u, GoalFields)
  BY DEF Asking, But
<1>2. QED
  BY <1>1 DEF Asking, Front

LEMMA AskLateFacts ==
    ASSUME NEW n, Typed(n), FInv(n)
    PROVE  Asking(n, AskLate(n)) /\ AskLate(n).goal = n.goal /\ AskLate(n).switched = n.switched
<1>1. CASE n.goal # "none" /\ n.late
  <2> DEFINE m == [n EXCEPT !.late = FALSE]
             t == FrmGotoForm(m, n.goal)
  <2>1. AskLate(n) = t
    BY <1>1 DEF AskLate
  <2>2. But(n, m, {"late"})
    BY DEF Typed, Formed, But, Record, Fields
  <2> HIDE DEF m
  <2>3. Typed(m) /\ FInv(m)
    BY <2>2, TypedSame, FormSame DEF But, TypedFields, FormFields, Fields
  <2>4. m.goal = n.goal /\ m.switched = n.switched /\ m.events = n.events
    BY <2>2 DEF But, Fields
  <2>5. Asking(m, t)
    BY <1>1, <2>3, <2>4, GotoFacts
  <2>6. But(m, t, {"events"})
    BY <2>3, GotoFields DEF Typed, Formed
  <2> HIDE DEF t
  <2>7. t.goal = n.goal /\ t.switched = n.switched
    BY <2>4, <2>6 DEF But, Fields
  <2>8. But(n, t, GoalFields)
    BY <2>2, <2>6 DEF But, GoalFields
  <2>9. QED
    BY <2>1, <2>4, <2>5, <2>7, <2>8 DEF Asking, Front
<1>2. CASE ~ (n.goal # "none" /\ n.late)
  BY <1>2 DEF AskLate, Asking, Front, But, Typed, Formed
<1>3. QED
  BY <1>1, <1>2

(* The goal is dropped when it is met.                                     *)
LEMMA NoGoalFields ==
    ASSUME NEW n, Record(n)
    PROVE  But(n, NoGoal(n), {"goal", "late", "switched"}) /\ NoGoal(n).goal = "none"
<1> DEFINE a == [n EXCEPT !.goal = "none"]
           b == [a EXCEPT !.late = FALSE]
           c == [b EXCEPT !.switched = FALSE]
<1>1. NoGoal(n) = c
  BY DEF NoGoal
<1>2. But(n, a, {"goal"}) /\ a.goal = "none"
  BY DEF But, Record, Fields
<1> HIDE DEF a
<1>3. But(a, b, {"late"})
  BY <1>2 DEF But, Record, Fields
<1> HIDE DEF b
<1>4. But(b, c, {"switched"})
  BY <1>3 DEF But, Record, Fields
<1> HIDE DEF c
<1>5. But(n, c, {"goal", "late", "switched"}) /\ c.goal = "none"
  BY <1>2, <1>3, <1>4 DEF But, Fields
<1>6. QED
  BY <1>1, <1>5

LEMMA AskAgainFacts ==
    ASSUME NEW n, Typed(n), FInv(n)
    PROVE  /\ Asking(n, AskAgain(n))
           /\ AskAgain(n).goal # "none" => AskAgain(n).switched
<1>1. CASE n.goal = "none" \/ n.switched
  BY <1>1 DEF AskAgain, Asking, Front, But, Typed, Formed
<1>2. CASE n.goal # "none" /\ ~ n.switched /\ n.form = n.goal
  <2> DEFINE t == NoGoal(n)
  <2>1. AskAgain(n) = t
    BY <1>2 DEF AskAgain
  <2>2. But(n, t, {"goal", "late", "switched"}) /\ t.goal = "none"
    BY NoGoalFields DEF Typed, Formed
  <2> HIDE DEF t
  <2>3. /\ t.form = n.form /\ t.asked = n.asked /\ t.events = n.events
        /\ t.drawn = n.drawn /\ t.lost = n.lost /\ t.over = n.over
        /\ t.enabled = n.enabled /\ t.cmds = n.cmds
    BY <2>2 DEF But, Fields
  <2>4. n.form = n.asked /\ n.drawn
    BY <1>2 DEF FInv, GoalRight
  <2>5. FInv(t)
    BY <2>2, <2>3, <2>4 DEF FInv, GoalRight
  <2>6. QED
    BY <2>1, <2>2, <2>3, <2>5 DEF Asking, Front, But, GoalFields
<1>3. CASE n.goal # "none" /\ ~ n.switched /\ n.form # n.goal
  <2> DEFINE m == [n EXCEPT !.switched = TRUE]
             t == FrmGotoForm(m, n.goal)
  <2>1. AskAgain(n) = t
    BY <1>3 DEF AskAgain
  <2>2. But(n, m, {"switched"}) /\ m.switched = TRUE
    BY DEF Typed, Formed, But, Record, Fields
  <2> HIDE DEF m
  <2>3. /\ m.form = n.form /\ m.asked = n.asked /\ m.goal = n.goal /\ m.events = n.events
        /\ m.drawn = n.drawn /\ m.lost = n.lost /\ m.over = n.over
        /\ m.enabled = n.enabled /\ m.cmds = n.cmds
    BY <2>2 DEF But, Fields
  <2>4. FInv(m)
    BY <1>3, <2>2, <2>3 DEF FInv, GoalRight
  <2>5. Typed(m)
    BY <2>2, TypedSame DEF But, TypedFields, Fields
  <2>6. Asking(m, t)
    BY <1>3, <2>3, <2>4, <2>5, GotoFacts
  <2>7. But(m, t, {"events"})
    BY <2>5, GotoFields DEF Typed, Formed
  <2> HIDE DEF t
  <2>8. t.switched = TRUE
    BY <2>2, <2>7 DEF But, Fields
  <2>9. But(n, t, GoalFields)
    BY <2>2, <2>7 DEF But, GoalFields
  <2>10. QED
    BY <2>1, <2>3, <2>6, <2>8, <2>9 DEF Asking, Front
<1>4. QED
  BY <1>1, <1>2, <1>3

(* At each turn of the event loop.                                         *)
LEMMA TurnFacts ==
    ASSUME IInv(r)
    PROVE  /\ Asking(r, Turn) /\ IInv(Turn)
           /\ Turn.goal # "none" => Turn.switched
<1> DEFINE m == AskAgain(r)
           t == AskLate(m)
<1>1. Typed(r) /\ FInv(r) /\ KInv(r)
  BY DEF IInv
<1>2. Asking(r, m) /\ (m.goal # "none" => m.switched)
  BY <1>1, AskAgainFacts
<1>3. Turn = t
  BY DEF Turn
<1> HIDE DEF m
<1>4. Typed(m) /\ FInv(m)
  BY <1>1, <1>2, AskingTyped DEF Asking
<1>5. Asking(m, t) /\ t.goal = m.goal /\ t.switched = m.switched
  BY <1>4, AskLateFacts
<1> HIDE DEF t
<1>6. Asking(r, t)
  BY <1>2, <1>5, AskingTwice
<1>7. Typed(t)
  BY <1>1, <1>6, AskingTyped
<1>8. KInv(t)
  BY <1>1, <1>6, KeysSame DEF Asking, But, GoalFields, HostFields, KeysFields, Fields
<1>9. QED
  BY <1>2, <1>3, <1>5, <1>6, <1>7, <1>8 DEF IInv, Asking

(* Another form is asked for.                                              *)
SwitchFields == {"events", "goal", "late", "switched", "asked"}

LEMMA SwitchFacts ==
    ASSUME NEW n, IInv(n), NEW form \in Forms, n.over = "none",
           form # n.form \/ (n.events = <<>> /\ n.drawn)
    PROVE  IInv(SwitchToForm(n, form))
<1> DEFINE a == [n EXCEPT !.goal = form]
           b == [a EXCEPT !.late = FALSE]
           c == [b EXCEPT !.switched = FALSE]
           d == [c EXCEPT !.asked = form]
           t == FrmGotoForm(d, form)
<1>1. SwitchToForm(n, form) = t
  BY DEF SwitchToForm
<1>2. Typed(n) /\ FInv(n) /\ KInv(n) /\ n.form \in Forms /\ n.asked \in Forms
  BY DEF IInv, Typed
<1>3. But(n, a, {"goal"}) /\ a.goal = form
  BY <1>2 DEF Typed, Formed, But, Record, Fields
<1> HIDE DEF a
<1>4. But(a, b, {"late"})
  BY <1>3 DEF But, Record, Fields
<1> HIDE DEF b
<1>5. But(b, c, {"switched"})
  BY <1>4 DEF But, Record, Fields
<1> HIDE DEF c
<1>6. But(c, d, {"asked"}) /\ d.asked = form
  BY <1>5 DEF But, Record, Fields
<1> HIDE DEF d
<1>7. But(d, t, {"events"}) /\ t.events = d.events \o Pair(form)
  BY <1>6, GotoFields DEF But
<1> HIDE DEF t
<1>8. But(n, t, SwitchFields)
  BY <1>3, <1>4, <1>5, <1>6, <1>7 DEF But, SwitchFields
<1>9. t.goal = form /\ t.asked = form /\ t.events = n.events \o Pair(form)
  <2>1. b.goal = form /\ b.events = n.events
    BY <1>3, <1>4 DEF But, Fields
  <2>2. c.goal = form /\ c.events = n.events
    BY <1>5, <2>1 DEF But, Fields
  <2>3. d.goal = form /\ d.events = n.events
    BY <1>6, <2>2 DEF But, Fields
  <2>4. QED
    BY <1>6, <1>7, <2>3 DEF But, Fields
<1>10. /\ t.form = n.form /\ t.drawn = n.drawn /\ t.over = n.over /\ t.enabled = n.enabled
       /\ t.cmds = n.cmds
  BY <1>8 DEF But, SwitchFields, Fields
<1>11. EventsRight(n.events, n.form, form)
  BY <1>2, OtherAsked DEF FInv
<1>12. EventsRight(t.events, n.form, form)
  BY <1>2, <1>9, <1>11, AskedFacts
<1>13. form # "none"
  BY DEF Forms
<1>14. GoalRight(t)
  BY <1>2, <1>9, <1>10, <1>13 DEF FInv, GoalRight
<1>15. Typed(t)
  BY <1>2, <1>8, <1>9 DEF Typed, Formed, But, SwitchFields, Fields
<1>16. KInv(t)
  BY <1>2, <1>8, KeysSame DEF But, SwitchFields, HostFields, KeysFields, Fields
<1>17. QED
  BY <1>1, <1>9, <1>10, <1>12, <1>14, <1>15, <1>16 DEF IInv, FInv
-----------------------------------------------------------------------------
(* The steps.                                                              *)
LEMMA BecomesRight ==
    ASSUME NEW n, IInv(n), Becomes(n)
    PROVE  IInv(r')
  BY Pruned DEF Becomes

LEMMA NoCommands ==
    ASSUME NEW n, n.cmds = <<>>
    PROVE  CommandsRight(n) /\ Letting(n) = {} /\ Explained(n) = Held(n) \cup n.stuck
<1>1. n.cmds \in Seq(Command) /\ Len(n.cmds) = 0
  OBVIOUS
<1>2. Releases(n) = {}
  BY <1>1 DEF Releases
<1>3. Letting(n) = {}
  BY <1>2 DEF Letting
<1>4. QED
  BY <1>1, <1>3 DEF CommandsRight, Explained

(* The next event is taken.                                                *)
LEMMA TakenFacts ==
    ASSUME IInv(r), r.events # <<>>
    PROVE  LET m == [Turn EXCEPT !.events = Tail(Turn.events)]
           IN  /\ But(Turn, m, {"events"}) /\ m.events = Tail(Turn.events)
               /\ Turn.events # <<>> /\ Head(Turn.events) = Head(r.events)
               /\ r.over = "none" /\ Typed(m) /\ KInv(m)
               /\ \A f \in Fields \ GoalFields : m[f] = r[f]
<1> DEFINE m == [Turn EXCEPT !.events = Tail(Turn.events)]
<1>1. IInv(Turn) /\ Asking(r, Turn)
  BY TurnFacts
<1>2. But(Turn, m, {"events"}) /\ m.events = Tail(Turn.events)
  BY <1>1 DEF IInv, Typed, Formed, But, Record, Fields
<1> HIDE DEF m
<1>3. Typed(m)
  BY <1>1, <1>2, TypedSame DEF IInv, But, TypedFields, Fields
<1>4. KInv(m)
  BY <1>1, <1>2, KeysSame DEF IInv, But, HostFields, KeysFields, Fields
<1>5. r.over = "none"
  BY DEF IInv, FInv, GoalRight
<1>6. Turn.events # <<>> /\ Head(Turn.events) = Head(r.events)
  BY <1>1 DEF Asking, Front
<1>7. \A f \in Fields \ GoalFields : m[f] = r[f]
  BY <1>1, <1>2 DEF Asking, But, GoalFields
<1>8. QED
  BY <1>2, <1>3, <1>4, <1>5, <1>6, <1>7 DEF m

Loaded(n, t, form) ==
    /\ But(n, t, {"form", "drawn", "stuck"}) /\ t.form = form /\ t.drawn = FALSE
    /\ t.stuck = n.stuck \cup {Meaning(f, n.form) : f \in Crossed(n, form)}

LEMMA AppInitFields ==
    ASSUME NEW n, Record(n), NEW form
    PROVE  Loaded(n, AppInitForm(n, form), form)
<1> DEFINE S == n.stuck \cup {Meaning(f, n.form) : f \in Crossed(n, form)}
           a == [n EXCEPT !.form = form]
           b == [a EXCEPT !.drawn = FALSE]
           t == [b EXCEPT !.stuck = S]
<1>1. AppInitForm(n, form) = t
  <2> DEFINE T == {Meaning(f, n.form) : f \in Crossed(n, form)}
  <2>1. AppInitForm(n, form) = [n EXCEPT !.form = form, !.drawn = FALSE, !.stuck = @ \cup T]
    BY DEF AppInitForm
  <2>2. S = n.stuck \cup T
    OBVIOUS
  <2> HIDE DEF T, S
  <2>3. b.stuck = n.stuck
    BY DEF Record, Fields
  <2>4. QED
    BY <2>1, <2>2, <2>3
<1> HIDE DEF S
<1>2. But(n, a, {"form"}) /\ a.form = form
  BY DEF But, Record, Fields
<1> HIDE DEF a
<1>3. But(a, b, {"drawn"}) /\ b.drawn = FALSE
  BY <1>2 DEF But, Record, Fields
<1> HIDE DEF b
<1>4. But(b, t, {"stuck"}) /\ t.stuck = S
  BY <1>3 DEF But, Record, Fields
<1> HIDE DEF t
<1>5. But(n, t, {"form", "drawn", "stuck"}) /\ t.form = form /\ t.drawn = FALSE
  BY <1>2, <1>3, <1>4 DEF But, Fields
<1>6. QED
  BY <1>1, <1>4, <1>5 DEF S, Loaded

LEMMA LoadRight ==
    ASSUME IInv(r), Load
    PROVE  IInv(r')
<1> DEFINE E == Turn.events
           m == [Turn EXCEPT !.events = Tail(E)]
           form == Head(r.events).form
           t == AppInitForm(m, form)
<1>1. r.cmds = <<>> /\ r.events # <<>> /\ Head(r.events).type = "load" /\ Becomes(t)
  BY DEF Load, NextEvent
<1>2. IInv(Turn) /\ Asking(r, Turn) /\ (Turn.goal # "none" => Turn.switched)
  BY TurnFacts
<1>3. /\ But(Turn, m, {"events"}) /\ m.events = Tail(E) /\ E # <<>> /\ Head(E) = Head(r.events)
      /\ r.over = "none" /\ Typed(m) /\ KInv(m) /\ \A f \in Fields \ GoalFields : m[f] = r[f]
  BY <1>1, TakenFacts
<1> HIDE DEF m, E
<1>4. Turn.form \in Forms /\ Turn.asked \in Forms /\ EventsRight(E, Turn.form, Turn.asked)
      /\ GoalRight(Turn)
  BY <1>2 DEF IInv, Typed, FInv, E
<1>5. /\ EventsRight(Tail(E), Head(E).form, Turn.asked) /\ Tail(E) # <<>>
      /\ Head(Tail(E)).type = "open" /\ Head(E).form \in {Turn.form, Turn.asked}
  BY <1>1, <1>3, <1>4, LoadedFacts
<1>6. Record(m)
  BY <1>3 DEF But
<1>7. /\ But(m, t, {"form", "drawn", "stuck"}) /\ t.form = form /\ t.drawn = FALSE
      /\ t.stuck = m.stuck \cup {Meaning(f, m.form) : f \in Crossed(m, form)}
  <2> HIDE DEF form
  <2>1. Loaded(m, t, form)
    BY <1>6, AppInitFields
  <2> HIDE DEF t
  <2>2. QED
    BY <2>1 DEF Loaded
<1> HIDE DEF t
<1>8. /\ t.asked = Turn.asked /\ t.events = Tail(E) /\ t.goal = Turn.goal
      /\ t.switched = Turn.switched /\ t.over = Turn.over /\ t.enabled = Turn.enabled
      /\ t.cmds = r.cmds /\ t.fingers = m.fingers /\ t.over = r.over
  BY <1>3, <1>7 DEF But, Fields, GoalFields
<1>9. form = Head(E).form /\ form \in Forms
  BY <1>3, <1>4, <1>5
<1>10. Typed(t)
  BY <1>3, <1>7, <1>9 DEF Typed, Formed, But, Fields
<1>11. FInv(t)
  <2>1. NextType(t) = "open"
    BY <1>5, <1>8 DEF NextType
  <2>2. t.goal = "none" => t.form = t.asked
    BY <1>4, <1>5, <1>7, <1>8, <1>9 DEF GoalRight
  <2>3. GoalRight(t)
    BY <1>2, <1>3, <1>4, <1>8, <2>1, <2>2 DEF GoalRight
  <2>4. EventsRight(t.events, t.form, t.asked)
    BY <1>5, <1>7, <1>8, <1>9
  <2>5. QED
    BY <2>3, <2>4 DEF FInv
<1>12. KInv(t)
  <2>1. \A f \in HostFields : t[f] = m[f]
    BY <1>7 DEF But, Fields, HostFields
  <2>2. t.cmds = <<>> /\ m.cmds = <<>>
    BY <1>1, <1>3, <1>8 DEF Fields, GoalFields
  <2>3. /\ CommandsRight(t) /\ Explained(m) = Held(m) \cup m.stuck
        /\ Explained(t) = Held(t) \cup t.stuck
    BY <2>2, NoCommands
  <2>4. Held(m) \subseteq Explained(t)
    <3> SUFFICES ASSUME NEW f \in m.fingers PROVE Meaning(f, m.form) \in Explained(t)
      BY DEF Held
    <3>1. CASE f \in Crossed(m, form)
      BY <1>7, <2>3, <3>1
    <3>2. CASE f \notin Crossed(m, form)
      BY <1>7, <1>8, <2>3, <3>2 DEF Crossed, Held
    <3>3. QED
      BY <3>1, <3>2
  <2>5. Explained(m) \cap Wanted(m) \subseteq Explained(t)
    BY <1>7, <2>3, <2>4
  <2>6. QED
    BY <1>3, <2>1, <2>3, <2>5, WordsChange
<1>13. QED
  BY <1>1, <1>10, <1>11, <1>12, BecomesRight DEF IInv

LEMMA FormDrawnRight ==
    ASSUME NEW n, IInv(n), n.drawn
    PROVE  IInv(FormDrawn(n, n.form))
<1>1. Typed(n) /\ FInv(n) /\ KInv(n)
  BY DEF IInv
<1>2. CASE n.goal \notin {"none", n.form}
  <2> DEFINE t == FrmGotoForm(n, n.goal)
  <2>1. Asking(n, t)
    BY <1>1, <1>2, GotoFacts
  <2>2. FormDrawn(n, n.form) = t
    BY <1>2 DEF FormDrawn
  <2> HIDE DEF t
  <2>3. Typed(t)
    BY <1>1, <2>1, AskingTyped
  <2>4. KInv(t)
    BY <1>1, <2>1, KeysSame DEF Asking, But, GoalFields, HostFields, KeysFields, Fields
  <2>5. QED
    BY <2>1, <2>2, <2>3, <2>4 DEF IInv, Asking
<1>3. CASE n.goal \in {"none", n.form}
  <2> DEFINE t == NoGoal(n)
  <2>1. FormDrawn(n, n.form) = t
    BY <1>3 DEF FormDrawn
  <2>2. But(n, t, {"goal", "late", "switched"}) /\ t.goal = "none"
    BY <1>1, NoGoalFields DEF Typed, Formed
  <2> HIDE DEF t
  <2>3. Typed(t)
    BY <1>1, <2>2, TypedSame DEF But, TypedFields, Fields
  <2>4. KInv(t)
    BY <1>1, <2>2, KeysSame DEF But, HostFields, KeysFields, Fields
  <2>5. /\ t.form = n.form /\ t.asked = n.asked /\ t.events = n.events
        /\ t.drawn = n.drawn /\ t.lost = n.lost /\ t.over = n.over
        /\ t.enabled = n.enabled /\ t.cmds = n.cmds
    BY <2>2 DEF But, Fields
  <2>6. n.form = n.asked
    BY <1>1, <1>3 DEF FInv, GoalRight
  <2>7. FInv(t)
    BY <1>1, <2>2, <2>5, <2>6 DEF FInv, GoalRight
  <2>8. QED
    BY <2>1, <2>3, <2>4, <2>7 DEF IInv
<1>4. QED
  BY <1>2, <1>3

(* A form is opened, or drawn anew.                                        *)
LEMMA OpenFormRight ==
    ASSUME NEW m, Typed(m), KInv(m), EventsRight(m.events, m.form, m.asked), GoalOf(m),
           m.over = "none"
    PROVE  IInv(OpenForm(m, m.form))
<1> DEFINE form == m.form
           a == IF form = "Mouse" THEN DragMode(m, FALSE) ELSE m
           b == [a EXCEPT !.drawn = TRUE]
           c == [b EXCEPT !.enabled = TRUE]
           d == [c EXCEPT !.lost = FALSE]
<1>1. OpenForm(m, form) = FormDrawn(d, form)
  BY DEF OpenForm
<1> HIDE DEF form
<1>2. HostKept(m, a, DragFields, Explained(m))
  <2>1. CASE form = "Mouse"
    <3>1. Formed(m) /\ HostRight(m, Explained(m))
      BY DEF Typed, KInv
    <3>2. HostKept(m, DragMode(m, FALSE), DragFields, Explained(m))
      BY <3>1, DragModeFacts
    <3>3. QED
      BY <2>1, <3>2
  <2>2. CASE form # "Mouse"
    BY <2>2 DEF HostKept, Typed, Formed, But, KInv
  <2>3. QED
    BY <2>1, <2>2
<1>3. a.dragmode \in BOOLEAN
  <2>1. m.dragmode \in BOOLEAN
    BY DEF Typed
  <2>2. CASE form = "Mouse"
    <3> DEFINE k == IF m.drag /\ ~ FALSE THEN DragStop(m) ELSE m
    <3>1. a = [k EXCEPT !.dragmode = FALSE]
      BY <2>2 DEF DragMode
    <3>2. Record(k)
      <4>1. Formed(m) /\ HostRight(m, Explained(m))
        BY DEF Typed, KInv
      <4>2. Record(DragStop(m))
        BY <4>1, DragStopFacts DEF HostKept, But
      <4>3. QED
        BY <4>1, <4>2 DEF Formed
    <3> HIDE DEF k
    <3>3. QED
      BY <3>1, <3>2 DEF Record, Fields
  <2>3. CASE form # "Mouse"
    BY <2>1, <2>3
  <2>4. QED
    BY <2>2, <2>3
<1> HIDE DEF a
<1>4. KInv(a)
  <2>1. DragFields \cap KeysFields = {} /\ "override" \notin DragFields
    BY DEF DragFields, KeysFields
  <2>2. QED
    BY <1>2, <2>1, KeysKept DEF KInv
<1>5. But(a, b, {"drawn"}) /\ b.drawn = TRUE
  BY <1>2 DEF HostKept, But, Record, Fields
<1> HIDE DEF b
<1>6. But(b, c, {"enabled"}) /\ c.enabled = TRUE
  BY <1>5 DEF But, Record, Fields
<1> HIDE DEF c
<1>7. But(c, d, {"lost"})
  BY <1>6 DEF But, Record, Fields
<1> HIDE DEF d
<1>8. But(a, d, {"drawn", "enabled", "lost"}) /\ d.drawn = TRUE /\ d.enabled = TRUE
  BY <1>5, <1>6, <1>7 DEF But, Fields
<1>9. /\ d.form = m.form /\ d.asked = m.asked /\ d.events = m.events /\ d.goal = m.goal
      /\ d.over = m.over /\ d.device = m.device /\ d.override = m.override
      /\ d.dragmode = a.dragmode /\ d.hidp = a.hidp
  <2>1. /\ a.form = m.form /\ a.asked = m.asked /\ a.events = m.events /\ a.goal = m.goal
        /\ a.over = m.over /\ a.device = m.device /\ a.override = m.override
    BY <1>2 DEF HostKept, But, DragFields, Fields
  <2>2. /\ d.form = a.form /\ d.asked = a.asked /\ d.events = a.events /\ d.goal = a.goal
        /\ d.over = a.over /\ d.device = a.device /\ d.override = a.override
        /\ d.dragmode = a.dragmode /\ d.hidp = a.hidp
    BY <1>8 DEF But, Fields
  <2>3. QED
    BY <2>1, <2>2
<1>10. Typed(d)
  BY <1>2, <1>3, <1>8, <1>9 DEF Typed, Formed, But, HostKept
<1>11. FInv(d)
  BY <1>8, <1>9 DEF FInv, GoalRight, GoalOf
<1>12. KInv(d)
  BY <1>4, <1>8, KeysSame DEF But, HostFields, KeysFields, Fields
<1>13. IInv(FormDrawn(d, d.form))
  BY <1>8, <1>10, <1>11, <1>12, FormDrawnRight DEF IInv
<1>14. QED
  BY <1>1, <1>9, <1>13 DEF form

LEMMA OpenRight ==
    ASSUME IInv(r), Open
    PROVE  IInv(r')
<1> DEFINE E == Turn.events
           m == [Turn EXCEPT !.events = Tail(E)]
           form == Head(r.events).form
<1>0. Becomes(OpenForm(m, form))
  BY DEF Open
<1>1. r.cmds = <<>> /\ r.events # <<>> /\ Head(r.events).type = "open"
  BY DEF Open, NextEvent
<1>2. IInv(Turn)
  BY TurnFacts
<1>3. /\ But(Turn, m, {"events"}) /\ m.events = Tail(E) /\ E # <<>> /\ Head(E) = Head(r.events)
      /\ r.over = "none" /\ Typed(m) /\ KInv(m) /\ \A f \in Fields \ GoalFields : m[f] = r[f]
  BY <1>1, TakenFacts
<1> HIDE DEF m, E
<1>4. Turn.form \in Forms /\ Turn.asked \in Forms /\ EventsRight(E, Turn.form, Turn.asked)
      /\ GoalOf(Turn)
  BY <1>2 DEF IInv, Typed, FInv, E, GoalRight, GoalOf
<1>5. EventsRight(Tail(E), Turn.form, Turn.asked) /\ form = Turn.form
  BY <1>1, <1>3, <1>4, OpenedFacts
<1>6. m.form = Turn.form /\ m.asked = Turn.asked /\ m.goal = Turn.goal /\ m.over = r.over
  BY <1>3 DEF But, Fields, GoalFields
<1>7. EventsRight(m.events, m.form, m.asked) /\ GoalOf(m)
  BY <1>3, <1>4, <1>5, <1>6 DEF GoalOf
<1>8. IInv(OpenForm(m, m.form))
  BY <1>3, <1>6, <1>7, OpenFormRight
<1>9. QED
  BY <1>0, <1>5, <1>6, <1>8, BecomesRight

LEMMA UpdateRight ==
    ASSUME IInv(r), Update
    PROVE  IInv(r')
<1>1. r.over = "none" /\ Becomes(OpenForm(Turn, r.form))
  BY DEF Update
<1>2. IInv(Turn) /\ Turn.form = r.form /\ Turn.over = r.over
  <2>1. IInv(Turn) /\ But(r, Turn, GoalFields)
    BY TurnFacts DEF Asking
  <2>2. QED
    BY <2>1 DEF But, GoalFields, Fields
<1>3. Typed(Turn) /\ KInv(Turn) /\ EventsRight(Turn.events, Turn.form, Turn.asked) /\ GoalOf(Turn)
  BY <1>2 DEF IInv, FInv, GoalRight, GoalOf
<1>4. IInv(OpenForm(Turn, Turn.form))
  BY <1>1, <1>2, <1>3, OpenFormRight
<1>5. QED
  BY <1>1, <1>2, <1>4, BecomesRight

LEMMA IdleRight ==
    ASSUME IInv(r), Idle
    PROVE  IInv(r')
  BY TurnFacts, BecomesRight DEF Idle

LEMMA TwoSecondsRight ==
    ASSUME IInv(r), TwoSeconds
    PROVE  IInv(r')
<1> DEFINE t == [r EXCEPT !.late = TRUE]
<1>1. But(r, t, {"late"})
  BY DEF IInv, Typed, Formed, But, Record, Fields
<1>2. Becomes(t)
  BY DEF TwoSeconds
<1> HIDE DEF t
<1>3. Typed(t)
  BY <1>1, TypedSame DEF IInv, But, TypedFields, Fields
<1>4. FInv(t)
  BY <1>1, FormSame DEF IInv, But, FormFields, Fields
<1>5. KInv(t)
  BY <1>1, KeysSame DEF IInv, But, HostFields, KeysFields, Fields
<1>6. QED
  BY <1>2, <1>3, <1>4, <1>5, BecomesRight DEF IInv

LEMMA CommandFacts ==
    ASSUME NEW c \in Command
    PROVE  /\ c \in HardCommands <=> c.cmd = "HardKey"
           /\ c.cmd \in {"HardKey", "Keyboard", "SwitchForms", "SwitchScreens"}
           /\ c.cmd = "Keyboard" => c.action = "Click"
<1>1. ASSUME c \in HardCommands PROVE c.cmd = "HardKey"
  BY <1>1 DEF HardCommands
<1>2. ASSUME c \in Clicks PROVE c.cmd = "Keyboard" /\ c.action = "Click"
  BY <1>2 DEF Clicks
<1>3. ASSUME c \in Switches PROVE c.cmd \in {"SwitchForms", "SwitchScreens"}
  BY <1>3 DEF Switches
<1>4. QED
  BY <1>1, <1>2, <1>3 DEF Command

(* A form is asked for by a command that is queued.                        *)
LEMMA EnqueueRight ==
    ASSUME NEW n, IInv(n), n.over = "none", NEW d \in Switches
    PROVE  IInv(Enqueue(n, d))
<1> DEFINE q == Append(n.cmds, d)
           t == Enqueue(n, d)
<1>1. t = [n EXCEPT !.cmds = q]
  BY DEF Enqueue
<1>2. n.cmds \in Seq(Command) /\ d \in Command
  BY DEF IInv, KInv, CommandsRight, Command
<1>3. /\ q \in Seq(Command) /\ Len(q) = Len(n.cmds) + 1 /\ Len(n.cmds) \in Nat
      /\ \A i \in 1 .. Len(n.cmds) : q[i] = n.cmds[i]
      /\ q[Len(n.cmds) + 1] = d
  BY <1>2
<1> HIDE DEF q
<1>4. But(n, t, {"cmds"}) /\ t.cmds = q
  BY <1>1 DEF IInv, Typed, Formed, But, Record, Fields
<1> HIDE DEF t
<1>5. Typed(t)
  BY <1>4, TypedSame DEF IInv, But, TypedFields, Fields
<1>6. /\ t.form = n.form /\ t.fingers = n.fingers /\ t.stuck = n.stuck /\ t.override = n.override
      /\ t.events = n.events /\ t.asked = n.asked /\ t.goal = n.goal
      /\ t.switched = n.switched /\ t.drawn = n.drawn /\ t.lost = n.lost /\ t.over = n.over
      /\ t.enabled = n.enabled
  BY <1>4 DEF But, Fields
<1>7. FInv(t)
  BY <1>6 DEF IInv, FInv, GoalRight, NextType
<1>8. d \notin HardCommands
  BY DEF Switches, HardCommands
<1>9. Held(t) = Held(n)
  BY <1>6 DEF Held
<1>10. Letting(n) \subseteq Letting(t)
  <2> SUFFICES ASSUME NEW i \in Releases(n) PROVE Acts(n.cmds[i], n.form) \in Letting(t)
    BY DEF Letting
  <2>1. i \in Releases(t) /\ t.cmds[i] = n.cmds[i]
    BY <1>3, <1>4 DEF Releases
  <2>2. QED
    BY <1>6, <2>1 DEF Letting
<1>11. Explained(n) \cap Wanted(n) \subseteq Explained(t)
  BY <1>6, <1>9, <1>10 DEF Explained
<1>12. CommandsRight(t)
  <2> SUFFICES ASSUME NEW i \in 1 .. Len(t.cmds), t.cmds[i] \in HardCommands
               PROVE  /\ MayPress(t, t.cmds[i])
                      /\ t.cmds[i].action = "Press" => Acts(t.cmds[i], t.form) \in Held(t)
    BY <1>3, <1>4 DEF CommandsRight
  <2>1. i \in 1 .. Len(n.cmds) /\ t.cmds[i] = n.cmds[i]
    BY <1>3, <1>4, <1>8
  <2>2. QED
    BY <1>6, <1>9, <2>1 DEF IInv, KInv, CommandsRight, MayPress
<1>13. KInv(t)
  <2>1. \A f \in HostFields : t[f] = n[f]
    BY <1>4 DEF But, HostFields, Fields
  <2>2. QED
    BY <1>11, <1>12, <2>1, WordsChange DEF IInv
<1>14. QED
  BY <1>5, <1>7, <1>13 DEF IInv, t

(* The next command is taken: what it releases is explained by it alone.   *)
Freed(c, form) == IF c \in HardCommands /\ c.action = "Release" THEN {Acts(c, form)} ELSE {}

CommandTaken(a, c) ==
    /\ Typed(a) /\ FInv(a) /\ a.over = "none" /\ CommandsRight(a)
    /\ c \in Command /\ HostRight(a, Explained(a) \cup Freed(c, a.form))
    /\ c \in HardCommands => /\ MayPress(a, c)
                             /\ c.action = "Press" => Acts(c, a.form) \in Explained(a)

LEMMA CommandTakenFacts ==
    ASSUME IInv(r), r.cmds # <<>>
    PROVE  CommandTaken(AskLate([r EXCEPT !.cmds = Tail(r.cmds)]), Head(r.cmds))
<1> DEFINE q == Tail(r.cmds)
           c == Head(r.cmds)
           m == [r EXCEPT !.cmds = q]
           a == AskLate(m)
<1>1. Typed(r) /\ FInv(r) /\ KInv(r) /\ r.cmds \in Seq(Command)
  BY DEF IInv, KInv, CommandsRight
<1>2. /\ q \in Seq(Command) /\ Len(q) = Len(r.cmds) - 1 /\ Len(r.cmds) \in Nat \ {0}
      /\ \A i \in 1 .. Len(r.cmds) - 1 : q[i] = r.cmds[i + 1] /\ i + 1 \in 1 .. Len(r.cmds)
      /\ c = r.cmds[1] /\ c \in Command /\ 1 \in 1 .. Len(r.cmds)
  BY <1>1
<1> HIDE DEF q, c
<1>3. But(r, m, {"cmds"}) /\ m.cmds = q
  BY <1>1 DEF Typed, Formed, But, Record, Fields
<1> HIDE DEF m
<1>4. Typed(m)
  BY <1>1, <1>3, TypedSame DEF But, TypedFields, Fields
<1>5. r.over = "none"
  BY <1>1 DEF FInv, GoalRight
<1>6. FInv(m)
  <2>1. /\ m.form = r.form /\ m.events = r.events /\ m.asked = r.asked /\ m.goal = r.goal
        /\ m.switched = r.switched /\ m.drawn = r.drawn /\ m.lost = r.lost /\ m.over = r.over
        /\ m.enabled = r.enabled
    BY <1>3 DEF But, Fields
  <2>2. QED
    BY <1>1, <1>5, <2>1 DEF FInv, GoalRight, NextType
<1>7. Asking(m, a)
  BY <1>4, <1>6, AskLateFacts
<1> HIDE DEF a
<1>8. Typed(a) /\ FInv(a)
  BY <1>4, <1>7, AskingTyped DEF Asking
<1>9. /\ a.form = r.form /\ a.fingers = r.fingers /\ a.stuck = r.stuck
      /\ a.override = r.override /\ a.over = r.over /\ a.cmds = q
  <2>1. /\ m.form = r.form /\ m.fingers = r.fingers /\ m.stuck = r.stuck
        /\ m.override = r.override /\ m.over = r.over /\ m.cmds = q
    BY <1>3 DEF But, Fields
  <2>2. QED
    BY <1>7, <2>1 DEF Asking, But, GoalFields, Fields
<1>10. Held(a) = Held(r)
  BY <1>9 DEF Held
<1>11. ASSUME NEW i \in 1 .. Len(q), q[i] \in HardCommands
       PROVE  MayPress(a, q[i]) /\ (q[i].action = "Press" => Acts(q[i], a.form) \in Held(a))
  <2>1. i + 1 \in 1 .. Len(r.cmds) /\ r.cmds[i + 1] = q[i]
    BY <1>2
  <2>2. QED
    BY <1>1, <1>9, <1>10, <1>11, <2>1 DEF KInv, CommandsRight, MayPress
<1>12. CommandsRight(a)
  BY <1>2, <1>9, <1>11 DEF CommandsRight
<1>13. Letting(r) \subseteq Letting(a) \cup Freed(c, a.form)
  <2> SUFFICES ASSUME NEW i \in Releases(r)
               PROVE  Acts(r.cmds[i], r.form) \in Letting(a) \cup Freed(c, a.form)
    BY DEF Letting
  <2>1. CASE i = 1
    BY <1>2, <1>9, <2>1 DEF Releases, Freed
  <2>2. CASE i # 1
    <3> DEFINE j == i - 1
    <3>1. j \in 1 .. Len(r.cmds) - 1 /\ i = j + 1
      BY <1>2, <2>2 DEF Releases
    <3> HIDE DEF j
    <3>2. q[j] = r.cmds[i] /\ j \in 1 .. Len(q)
      BY <1>2, <3>1
    <3>3. j \in Releases(a) /\ a.cmds[j] = r.cmds[i]
      BY <1>9, <3>2 DEF Releases
    <3>4. QED
      BY <1>9, <3>3 DEF Letting
  <2>3. QED
    BY <2>1, <2>2
<1>14. HostRight(a, Explained(a) \cup Freed(c, a.form))
  <2> DEFINE D == Explained(r)
             E == Explained(a) \cup Freed(c, a.form)
  <2>1. D \cap Wanted(r) \subseteq E
    BY <1>9, <1>10, <1>13 DEF Explained
  <2>2. \A f \in HostFields : a[f] = r[f]
    BY <1>3, <1>7 DEF Asking, But, GoalFields, HostFields, Fields
  <2>3. HostRight(r, D)
    BY <1>1 DEF KInv
  <2> HIDE DEF D, E
  <2>4. HostRight(a, E)
    BY <2>1, <2>2, <2>3, HostMono
  <2>5. QED
    BY <2>4 DEF E
<1>15. c \in HardCommands => /\ MayPress(a, c)
                             /\ c.action = "Press" => Acts(c, a.form) \in Explained(a)
  BY <1>1, <1>2, <1>9, <1>10 DEF KInv, CommandsRight, MayPress, Explained
<1>16. CommandTaken(a, c)
  BY <1>2, <1>5, <1>8, <1>9, <1>12, <1>14, <1>15 DEF CommandTaken
<1>17. QED
  BY <1>16 DEF a, m, c, q

LEMMA HandleRight ==
    ASSUME NEW a, NEW c, CommandTaken(a, c)
    PROVE  IInv(Handle(a, c))
<1> DEFINE E == Explained(a)
           t == Handle(a, c)
<1>1. /\ Typed(a) /\ FInv(a) /\ a.over = "none" /\ CommandsRight(a) /\ c \in Command
      /\ HostRight(a, E \cup Freed(c, a.form)) /\ Formed(a) /\ a.form \in Forms
  BY DEF CommandTaken, Typed
<1>2. c \in HardCommands => /\ MayPress(a, c) /\ (c.action = "Press" => Acts(c, a.form) \in E)
  BY DEF CommandTaken
<1> HIDE DEF E
<1>3. ASSUME HostKept(a, t, KeyFields, E) PROVE IInv(t)
  <2>1. Typed(t)
    BY <1>1, <1>3 DEF Typed, Formed, HostKept, But, KeyFields, Fields
  <2>2. FInv(t)
    BY <1>1, <1>3, FormSame DEF HostKept, But, KeyFields, FormFields, Fields
  <2>3. KeyFields \cap KeysFields = {} /\ "override" \notin KeyFields
    BY DEF KeyFields, KeysFields
  <2>4. KInv(t)
    BY <1>1, <1>3, <2>3, KeysKept DEF E
  <2>5. QED
    BY <2>1, <2>2, <2>4 DEF IInv
<1>4. ASSUME Freed(c, a.form) = {} PROVE HostRight(a, E) /\ IInv(a)
  BY <1>1, <1>4 DEF IInv, KInv, E
<1>5. CASE c \in HardCommands
  <2>1. c.action \in {"Press", "Release"}
    BY <1>5 DEF HardCommands
  <2>2. IF c.action = "Press" THEN HostRight(a, E) /\ Acts(c, a.form) \in E
        ELSE HostRight(a, E \cup {Acts(c, a.form)})
    <3>1. CASE c.action = "Press"
      BY <1>2, <1>4, <1>5, <3>1 DEF Freed
    <3>2. CASE c.action = "Release"
      BY <1>1, <1>5, <3>2 DEF Freed
    <3>3. QED
      BY <2>1, <3>1, <3>2
  <2>3. \/ HostKept(a, t, KeyFields, E)
        \/ \E d \in Switches : t = Enqueue(a, d) /\ c.action = "Press"
    BY <1>1, <1>2, <1>5, <2>2, HardKeyFacts
  <2>4. ASSUME NEW d \in Switches, t = Enqueue(a, d), c.action = "Press" PROVE IInv(t)
    <3>1. IInv(a)
      BY <1>4, <2>4 DEF Freed
    <3>2. QED
      BY <1>1, <2>4, <3>1, EnqueueRight
  <2>5. QED
    BY <1>3, <2>3, <2>4
<1>6. CASE c \notin HardCommands
  <2>1. IInv(a) /\ HostRight(a, E)
    BY <1>4, <1>6 DEF Freed
  <2>2. c.cmd \in {"Keyboard", "SwitchForms", "SwitchScreens"}
        /\ (c.cmd = "Keyboard" => c.action = "Click")
    BY <1>1, <1>6, CommandFacts
  <2>3. CASE c.cmd = "Keyboard"
    <3>1. t = HIDPKeyboard(a, "Click", c.key)
      BY <2>2, <2>3 DEF Handle
    <3>2. HostKept(a, HIDPKeyboard(a, "Click", c.key), KeyFields, E)
      BY <1>1, <2>1, HardTypeFacts
    <3>3. QED
      BY <1>3, <3>1, <3>2
  <2>4. CASE c.cmd = "SwitchScreens"
    <3>1. t = IF a.form = "Mouse" THEN SwitchToForm(a, "Keyboard") ELSE a
      BY <2>4 DEF Handle
    <3>2. a.form = "Mouse" => IInv(SwitchToForm(a, "Keyboard"))
      BY <1>1, <2>1, SwitchFacts DEF Forms
    <3>3. QED
      BY <2>1, <3>1, <3>2
  <2>5. CASE c.cmd = "SwitchForms"
    <3>1. t = SwitchToForm(a, Other(a.form))
      BY <2>5 DEF Handle
    <3>2. Other(a.form) \in Forms /\ Other(a.form) # a.form
      BY DEF Other, Forms
    <3>3. IInv(SwitchToForm(a, Other(a.form)))
      BY <1>1, <2>1, <3>2, SwitchFacts
    <3>4. QED
      BY <3>1, <3>3
  <2>6. QED
    BY <2>2, <2>3, <2>4, <2>5
<1>7. QED
  BY <1>5, <1>6

LEMMA ExecuteRight ==
    ASSUME IInv(r), Execute
    PROVE  IInv(r')
<1> DEFINE t == Handle(AskLate([r EXCEPT !.cmds = Tail(r.cmds)]), Head(r.cmds))
<1>1. r.cmds # <<>> /\ Becomes(t)
  BY DEF Execute
<1>2. IInv(t)
  BY <1>1, CommandTakenFacts, HandleRight
<1> HIDE DEF t
<1>3. QED
  BY <1>1, <1>2, BecomesRight
-----------------------------------------------------------------------------
(* Keys.                                                                   *)
StrikeFields == {"cmds", "fingers", "stuck"}

(* The user strikes or lifts keys, and the commands P come of it.          *)
Struck(n, t, P) == But(n, t, StrikeFields) /\ t.cmds = P /\ (n.enabled \/ P = <<>>)

LEMMA StruckFacts ==
    ASSUME NEW n, IInv(n), n.cmds = <<>>, NEW P, NEW t, Struck(n, t, P)
    PROVE  /\ Typed(t) /\ FInv(t) /\ t.form = n.form /\ t.override = n.override
           /\ \A f \in HostFields : t[f] = n[f]
<1>1. Typed(t)
  BY TypedSame DEF IInv, Struck, StrikeFields, But, TypedFields, Fields
<1>2. /\ t.form = n.form /\ t.events = n.events /\ t.asked = n.asked /\ t.goal = n.goal
      /\ t.switched = n.switched /\ t.drawn = n.drawn /\ t.lost = n.lost /\ t.over = n.over
      /\ t.enabled = n.enabled /\ t.override = n.override
  BY DEF Struck, StrikeFields, But, Fields
<1>3. FInv(n) /\ (n.over = "menu" => t.cmds = <<>>)
  BY DEF IInv, FInv, GoalRight, Struck
<1>4. FInv(t)
  BY <1>2, <1>3 DEF FInv, GoalRight, NextType
<1>5. \A f \in HostFields : t[f] = n[f]
  BY DEF Struck, StrikeFields, But, HostFields, Fields
<1>6. QED
  BY <1>1, <1>2, <1>4, <1>5

(* If the commands are right, and what was explained still is, so is t.    *)
LEMMA StruckRight ==
    ASSUME NEW n, IInv(n), n.cmds = <<>>, NEW P, NEW t, Struck(n, t, P), CommandsRight(t),
           \A x \in (Held(n) \cup n.stuck) \cap Wanted(n) :
               x \in Held(t) \cup t.stuck \cup Letting(t)
    PROVE  IInv(t)
<1>1. Typed(t) /\ FInv(t) /\ \A f \in HostFields : t[f] = n[f]
  BY StruckFacts
<1>2. Explained(n) = Held(n) \cup n.stuck
  BY NoCommands
<1>3. Explained(n) \cap Wanted(n) \subseteq Explained(t)
  BY <1>2 DEF Explained
<1>4. KInv(n)
  BY DEF IInv
<1>5. KInv(t)
  BY <1>1, <1>3, <1>4, WordsChange
<1>6. QED
  BY <1>1, <1>5 DEF IInv

LEMMA NothingRight ==
    ASSUME NEW n, Nothing(n.cmds)
    PROVE  CommandsRight(n)
<1>1. CASE n.cmds = <<>>
  BY <1>1, NoCommands
<1>2. ASSUME NEW c \in Clicks, n.cmds = <<c>> PROVE CommandsRight(n)
  <2>1. c \in Command /\ c \notin HardCommands
    BY DEF Command, Clicks, HardCommands
  <2>2. n.cmds \in Seq(Command) /\ Len(n.cmds) = 1 /\ n.cmds[1] = c
    BY <1>2, <2>1
  <2>3. QED
    BY <2>1, <2>2 DEF CommandsRight
<1>3. QED
  BY <1>1, <1>2 DEF Nothing

LEMMA HardKeyRight ==
    ASSUME NEW n, NEW f \in Fingers, NEW action \in {"Press", "Release"},
           n.cmds = HardKey(KeyOf(f), action), n.override \/ f = "a",
           action = "Press" => Meaning(f, n.form) \in Held(n)
    PROVE  CommandsRight(n) /\ (action = "Release" => Meaning(f, n.form) \in Letting(n))
<1> DEFINE c == [cmd |-> "HardKey", key |-> KeyOf(f), action |-> action]
<1>1. KeyOf(f) \in {"Up", "Center", "A", "SideSelect", "Hard1", "Hard2"}
      /\ (KeyOf(f) = "A" <=> f = "a")
  BY DEF Fingers, KeyOf
<1>2. c \in HardCommands /\ c.action = action /\ c.key = KeyOf(f)
  BY <1>1 DEF HardCommands
<1>3. Acts(c, n.form) = Meaning(f, n.form)
  BY DEF Acts, Meaning, KeyOf, Fingers
<1>4. n.cmds = <<c>>
  BY DEF HardKey
<1> HIDE DEF c
<1>5. n.cmds \in Seq(Command) /\ Len(n.cmds) = 1 /\ n.cmds[1] = c
  BY <1>2, <1>4 DEF Command
<1>6. MayPress(n, c)
  BY <1>1, <1>2 DEF MayPress
<1>7. CommandsRight(n)
  BY <1>2, <1>3, <1>5, <1>6 DEF CommandsRight
<1>8. ASSUME action = "Release" PROVE Meaning(f, n.form) \in Letting(n)
  <2>1. 1 \in Releases(n)
    BY <1>2, <1>5, <1>8 DEF Releases
  <2>2. QED
    BY <1>3, <1>5, <2>1 DEF Letting
<1>9. QED
  BY <1>7, <1>8

(* What an event becomes is queued.                                        *)
LEMMA ProcessFields ==
    ASSUME NEW n, Record(n), n.cmds = <<>>, NEW e, NEW S,
           Process(n.device, n.enabled, n.override, e) \in Seq(S)
    PROVE  But(n, Process1(n, e), {"cmds"})
           /\ Process1(n, e).cmds = Process(n.device, n.enabled, n.override, e)
<1> DEFINE P == Process(n.device, n.enabled, n.override, e)
           q == n.cmds \o P
<1>1. q = P
  BY DEF Process1
<1>2. Process1(n, e) = [n EXCEPT !.cmds = q]
  BY DEF Process1
<1> HIDE DEF P, q
<1>3. But(n, [n EXCEPT !.cmds = q], {"cmds"}) /\ [n EXCEPT !.cmds = q].cmds = q
  BY DEF But, Record, Fields
<1>4. QED
  BY <1>1, <1>2, <1>3 DEF P

LEMMA SomeCommands ==
    ASSUME NEW P
    PROVE  /\ Nothing(P) => P \in Seq(Command)
           /\ \A f \in Fingers, action \in {"Press", "Release"} :
                  P = HardKey(KeyOf(f), action) => P \in Seq(Command)
           /\ P \in Seq(HardCommands) => P \in Seq(Command)
<1>1. ASSUME Nothing(P) PROVE P \in Seq(Command)
  <2>1. CASE P = <<>>
    BY <2>1
  <2>2. ASSUME NEW c \in Clicks, P = <<c>> PROVE P \in Seq(Command)
    <3>1. c \in Command
      BY DEF Command
    <3>2. QED
      BY <2>2, <3>1
  <2>3. QED
    BY <1>1, <2>1, <2>2 DEF Nothing
<1>2. ASSUME NEW f \in Fingers, NEW action \in {"Press", "Release"},
             P = HardKey(KeyOf(f), action)
      PROVE  P \in Seq(Command)
  <2> DEFINE c == [cmd |-> "HardKey", key |-> KeyOf(f), action |-> action]
  <2>1. KeyOf(f) \in {"Up", "Center", "A", "SideSelect", "Hard1", "Hard2"}
    BY DEF Fingers, KeyOf
  <2>2. c \in Command
    BY <2>1 DEF Command, HardCommands
  <2>3. P = <<c>>
    BY <1>2 DEF HardKey
  <2> HIDE DEF c
  <2>4. QED
    BY <2>2, <2>3
<1>3. HardCommands \subseteq Command
  BY DEF Command
<1>4. P \in Seq(HardCommands) => P \in Seq(Command)
  BY <1>3
<1>5. QED
  BY <1>1, <1>2, <1>4

LEMMA TurnSame ==
    ASSUME IInv(r)
    PROVE  /\ IInv(Turn) /\ Turn.cmds = r.cmds /\ Turn.device = r.device
           /\ Turn.fingers = r.fingers /\ Turn.form = r.form /\ Turn.enabled = r.enabled
           /\ Turn.override = r.override /\ Turn.over = r.over
           /\ Record(Turn) /\ r.device \in Devices /\ r.override \in BOOLEAN
           /\ r.enabled \in BOOLEAN /\ KnownKeys(r.device)
<1>1. IInv(Turn) /\ But(r, Turn, GoalFields)
  BY TurnFacts DEF Asking
<1>2. Turn.cmds = r.cmds /\ Turn.device = r.device /\ Turn.fingers = r.fingers
      /\ Turn.form = r.form /\ Turn.enabled = r.enabled /\ Turn.override = r.override
      /\ Turn.over = r.over
  BY <1>1 DEF But, GoalFields, Fields
<1>3. QED
  BY <1>1, <1>2 DEF But, IInv, Typed

(* The keys that can be struck.                                            *)
LEMMA StruckKeys ==
    ASSUME IInv(r), NEW f \in Keyboards[r.device]
    PROVE  f \in Fingers /\ (r.device = "Other" => f # "Side")
  BY DEF IInv, Typed, KnownKeys

LEMMA PressRight ==
    ASSUME IInv(r), NEW f \in Keyboards[r.device], NEW option \in BOOLEAN, Press(f, option)
    PROVE  IInv(r')
<1> DEFINE n == Turn
           e == Event(f, "KeyDown", option)
           P == Process(n.device, n.enabled, n.override, e)
           m == Process1(n, e)
           t == [m EXCEPT !.fingers = m.fingers \cup {f}]
<1>1. r.cmds = <<>> /\ Becomes(t)
  BY DEF Press, Strikes
<1>2. /\ IInv(n) /\ n.cmds = r.cmds /\ n.device = r.device /\ n.fingers = r.fingers
      /\ n.enabled = r.enabled /\ n.override = r.override /\ Record(n)
      /\ r.device \in Devices /\ r.override \in BOOLEAN /\ r.enabled \in BOOLEAN
  BY TurnSame
<1>3. f \in Fingers /\ (r.device = "Other" => f # "Side")
  BY StruckKeys
<1> HIDE DEF n
<1>4. \/ P = <<>>
      \/ n.enabled /\ Nothing(P)
      \/ n.enabled /\ P = HardKey(KeyOf(f), "Press") /\ (n.override \/ f = "a")
  <2>1. CASE ~ r.enabled
    BY <1>2, <2>1, NotEnabled
  <2>2. CASE r.enabled
    <3>1. P = Process(r.device, TRUE, r.override, e)
      BY <1>2, <2>2
    <3> HIDE DEF P
    <3>2. CASE f = "a" /\ option
      <4>1. Nothing(Process(r.device, TRUE, r.override, Event("a", "KeyDown", TRUE)))
        BY <1>2, OptionFacts
      <4>2. QED
        BY <1>2, <2>2, <3>1, <3>2, <4>1
    <3>3. CASE ~ (f = "a" /\ option)
      <4>1. Yields(Process(r.device, TRUE, r.override, e), f, Stroke("KeyDown"), r.override)
        BY <1>2, <1>3, <3>3, KeyFacts
      <4>2. Yields(P, f, "Press", r.override)
        BY <3>1, <4>1 DEF Stroke
      <4>3. QED
        BY <1>2, <2>2, <4>2 DEF Yields
    <3>4. QED
      BY <3>2, <3>3
  <2>3. QED
    BY <1>2, <2>1, <2>2
<1> HIDE DEF e
<1>5. P \in Seq(Command)
  <2>1. P = <<>> => Nothing(P)
    BY DEF Nothing
  <2> HIDE DEF P
  <2>2. QED
    BY <1>3, <1>4, <2>1, SomeCommands
<1>6. But(n, m, {"cmds"}) /\ m.cmds = P
  BY <1>1, <1>2, <1>5, ProcessFields
<1> HIDE DEF P, m
<1>7. But(m, t, {"fingers"}) /\ t.fingers = m.fingers \cup {f}
  BY <1>6 DEF But, Record, Fields
<1> HIDE DEF t
<1>8. /\ t.fingers = n.fingers \cup {f} /\ t.stuck = n.stuck /\ t.cmds = P
      /\ t.form = n.form /\ t.override = n.override
  BY <1>6, <1>7 DEF But, Fields
<1>9. Struck(n, t, P)
  BY <1>4, <1>6, <1>7, <1>8 DEF Struck, But, StrikeFields
<1>10. Meaning(f, t.form) \in Held(t) /\ Held(n) \subseteq Held(t)
  BY <1>8 DEF Held
<1>11. CommandsRight(t)
  <2>1. P = <<>> => Nothing(P)
    BY DEF Nothing
  <2>2. CASE Nothing(P)
    BY <1>8, <2>2, NothingRight
  <2>3. CASE P = HardKey(KeyOf(f), "Press") /\ (n.override \/ f = "a")
    BY <1>3, <1>8, <1>10, <2>3, HardKeyRight
  <2>4. QED
    BY <1>4, <2>1, <2>2, <2>3
<1>12. IInv(t)
  BY <1>1, <1>2, <1>8, <1>9, <1>10, <1>11, StruckRight
<1>13. QED
  BY <1>1, <1>12, BecomesRight

(* Keys that repeat, and what is written on the Graffiti area.             *)
LEMMA NothingStruck ==
    ASSUME IInv(r), r.cmds = <<>>, NEW e, Becomes(Process1(Turn, e)),
           r.enabled => Nothing(Process(r.device, TRUE, r.override, e))
    PROVE  IInv(r')
<1> DEFINE n == Turn
           P == Process(n.device, n.enabled, n.override, e)
           t == Process1(n, e)
<1>1. /\ IInv(n) /\ n.cmds = r.cmds /\ n.device = r.device
      /\ n.enabled = r.enabled /\ n.override = r.override /\ Record(n) /\ r.enabled \in BOOLEAN
  BY TurnSame
<1> HIDE DEF n
<1>2. P = <<>> \/ (n.enabled /\ Nothing(P))
  <2>1. CASE ~ r.enabled
    BY <1>1, <2>1, NotEnabled
  <2>2. CASE r.enabled
    BY <1>1, <2>2
  <2>3. QED
    BY <2>1, <2>2
<1>3. Nothing(P)
  BY <1>2 DEF Nothing
<1>4. P \in Seq(Command)
  <2> HIDE DEF P
  <2>1. QED
    BY <1>3, SomeCommands
<1>5. But(n, t, {"cmds"}) /\ t.cmds = P
  BY <1>1, <1>4, ProcessFields
<1> HIDE DEF P, t
<1>6. t.fingers = n.fingers /\ t.stuck = n.stuck /\ t.form = n.form
  BY <1>5 DEF But, Fields
<1>7. Struck(n, t, P)
  BY <1>2, <1>5 DEF Struck, But, StrikeFields
<1>8. CommandsRight(t)
  BY <1>3, <1>5, NothingRight
<1>9. Held(t) = Held(n)
  BY <1>6 DEF Held
<1>10. IInv(t)
  BY <1>1, <1>6, <1>7, <1>8, <1>9, StruckRight
<1>11. QED
  BY <1>10, BecomesRight DEF n, t

LEMMA RepeatRight ==
    ASSUME IInv(r), NEW f \in Keyboards[r.device], NEW type \in {"KeyDown", "KeyHold"},
           Repeat(f, type)
    PROVE  IInv(r')
<1> DEFINE b == Event(f, type, FALSE)
           e == [b EXCEPT !.repeat = type = "KeyDown"]
<1>1. f \in Fingers
  BY StruckKeys
<1>2. e.type = type /\ e.repeat = (type = "KeyDown") /\ ~ e.on /\ ~ e.virtual
  BY <1>1 DEF Event, Fingers
<1>3. r.cmds = <<>> /\ Becomes(Process1(Turn, e))
  BY DEF Repeat, Strikes
<1> HIDE DEF e
<1>4. Process(r.device, TRUE, r.override, e) = <<>>
  <2>1. e.type = "KeyHold" \/ (e.type = "KeyDown" /\ e.repeat /\ ~ e.on /\ ~ e.virtual)
    BY <1>2
  <2>2. QED
    BY <2>1, RepeatFacts
<1>5. Nothing(Process(r.device, TRUE, r.override, e))
  BY <1>4 DEF Nothing
<1>6. QED
  BY <1>3, <1>5, NothingStruck

LEMMA WriteRight ==
    ASSUME IInv(r), NEW chr \in {"a", "A"}, Write(chr)
    PROVE  IInv(r')
<1> DEFINE e == [Event("none", "KeyDown", FALSE) EXCEPT !.chr = chr]
<1>1. r.cmds = <<>> /\ Becomes(Process1(Turn, e))
  BY DEF Write, Strikes
<1>2. r.device \in Devices /\ r.override \in BOOLEAN
  BY TurnSame
<1>3. Nothing(Process(r.device, TRUE, r.override, e))
  BY <1>2, WriteFacts
<1> HIDE DEF e
<1>4. QED
  BY <1>1, <1>3, NothingStruck

(* What a finger stands for that is lifted is explained no more, unless    *)
(* the program is not told.                                                *)
LiftedTo(n, t, lifted, unseen) ==
    /\ unseen \subseteq lifted
    /\ n.fingers \ lifted \subseteq t.fingers /\ t.form = n.form
    /\ t.stuck = (n.stuck \ {Meaning(f, n.form) : f \in lifted \ unseen})
                 \cup {Meaning(f, n.form) : f \in unseen}

LEMMA LiftedFacts ==
    ASSUME NEW n, NEW t, NEW lifted, NEW unseen, LiftedTo(n, t, lifted, unseen),
           NEW x \in Held(n) \cup n.stuck
    PROVE  x \in Held(t) \cup t.stuck \/ \E f \in lifted \ unseen : x = Meaning(f, n.form)
<1>1. CASE x \in n.stuck
  BY <1>1 DEF LiftedTo
<1>2. ASSUME NEW f \in n.fingers, x = Meaning(f, n.form)
      PROVE  x \in Held(t) \cup t.stuck \/ \E g \in lifted \ unseen : x = Meaning(g, n.form)
  <2>1. CASE f \in unseen
    BY <1>2, <2>1 DEF LiftedTo
  <2>2. CASE f \in lifted \ unseen
    BY <1>2, <2>2
  <2>3. CASE f \notin lifted
    <3>1. f \in t.fingers /\ x = Meaning(f, t.form)
      BY <1>2, <2>3 DEF LiftedTo
    <3>2. QED
      BY <3>1 DEF Held
  <2>4. QED
    BY <2>1, <2>2, <2>3
<1>3. QED
  BY <1>1, <1>2 DEF Held

(* The fields of Lifted.                                                   *)
LEMMA LiftedFields ==
    ASSUME NEW n, Record(n), NEW lifted, NEW unseen, unseen \subseteq lifted
    PROVE  LET t == Lifted(n, lifted, unseen)
           IN  /\ But(n, t, {"fingers", "stuck"}) /\ t.fingers = n.fingers \ lifted
               /\ LiftedTo(n, t, lifted, unseen)
<1> DEFINE S == (n.stuck \ {Meaning(f, n.form) : f \in lifted \ unseen})
                \cup {Meaning(f, n.form) : f \in unseen}
           a == [n EXCEPT !.fingers = n.fingers \ lifted]
           t == [a EXCEPT !.stuck = S]
<1>1. Lifted(n, lifted, unseen) = t
  <2> DEFINE A == {Meaning(f, n.form) : f \in lifted \ unseen}
             B == {Meaning(f, n.form) : f \in unseen}
  <2>1. Lifted(n, lifted, unseen) = [n EXCEPT !.fingers = @ \ lifted, !.stuck = (@ \ A) \cup B]
    BY DEF Lifted
  <2>2. S = (n.stuck \ A) \cup B
    OBVIOUS
  <2> HIDE DEF A, B, S
  <2>3. a.stuck = n.stuck
    BY DEF Record, Fields
  <2>4. QED
    BY <2>1, <2>2, <2>3
<1> HIDE DEF S
<1>2. But(n, a, {"fingers"}) /\ a.fingers = n.fingers \ lifted
  BY DEF But, Record, Fields
<1> HIDE DEF a
<1>3. But(a, t, {"stuck"}) /\ t.stuck = S
  BY <1>2 DEF But, Record, Fields
<1> HIDE DEF t
<1>4. But(n, t, {"fingers", "stuck"}) /\ t.fingers = n.fingers \ lifted /\ t.form = n.form
  BY <1>2, <1>3 DEF But, Fields
<1>5. LiftedTo(n, t, lifted, unseen)
  BY <1>3, <1>4 DEF LiftedTo, S
<1>6. QED
  BY <1>1, <1>4, <1>5

(* Without hardkeyOverride only a letter is down at the host.              *)
LEMMA Unwanted ==
    ASSUME NEW n, NEW f \in Fingers \ {"a"}, ~ n.override
    PROVE  Meaning(f, n.form) \notin Wanted(n)
<1>1. Meaning(f, n.form) \in {"pointer", "UpArrow", "button", "Return", "nothing"}
  BY DEF Meaning, Fingers
<1>2. QED
  BY <1>1 DEF Wanted

LEMMA ReleaseRight ==
    ASSUME IInv(r), NEW f \in Keyboards[r.device], NEW option \in BOOLEAN, Release(f, option)
    PROVE  IInv(r')
<1> DEFINE n == Turn
           e == Event(f, "KeyUp", option)
           P == Process(n.device, n.enabled, n.override, e)
           m == Process1(n, e)
           U == Unseen(r, {f}, option)
           t == Lifted(m, {f}, U)
<1>1. r.cmds = <<>> /\ Becomes(t)
  BY DEF Release, Strikes
<1>2. /\ IInv(n) /\ n.cmds = r.cmds /\ n.device = r.device /\ n.fingers = r.fingers
      /\ n.enabled = r.enabled /\ n.override = r.override /\ Record(n) /\ n.form = r.form
      /\ r.device \in Devices /\ r.override \in BOOLEAN /\ r.enabled \in BOOLEAN
  BY TurnSame
<1>3. f \in Fingers /\ (r.device = "Other" => f # "Side")
  BY StruckKeys
<1>4. U = IF ~ r.enabled \/ (f = "a" /\ option) THEN {f} ELSE {}
  BY DEF Unseen
<1> HIDE DEF n, U
<1>5. \/ P = <<>> /\ U = {f}
      \/ n.enabled /\ P = HardKey(KeyOf(f), "Release") /\ (n.override \/ f = "a")
      \/ P = <<>> /\ ~ (n.override \/ f = "a")
  <2>1. CASE ~ r.enabled
    BY <1>2, <1>4, <2>1, NotEnabled
  <2>2. CASE r.enabled
    <3>1. P = Process(r.device, TRUE, r.override, e)
      BY <1>2, <2>2
    <3> HIDE DEF P
    <3>2. CASE f = "a" /\ option
      <4>1. Process(r.device, TRUE, r.override, Event("a", "KeyUp", TRUE)) = <<>>
        BY <1>2, OptionFacts
      <4>2. QED
        BY <1>2, <1>4, <3>1, <3>2, <4>1
    <3>3. CASE ~ (f = "a" /\ option)
      <4>1. Yields(Process(r.device, TRUE, r.override, e), f, Stroke("KeyUp"), r.override)
        BY <1>2, <1>3, <3>3, KeyFacts
      <4>2. Yields(P, f, "Release", r.override)
        BY <3>1, <4>1 DEF Stroke
      <4>3. QED
        BY <1>2, <2>2, <4>2 DEF Yields
    <3>4. QED
      BY <3>2, <3>3
  <2>3. QED
    BY <1>2, <2>1, <2>2
<1> HIDE DEF e
<1>6. P \in Seq(Command)
  <2>1. P = <<>> => Nothing(P)
    BY DEF Nothing
  <2> HIDE DEF P
  <2>2. QED
    BY <1>3, <1>5, <2>1, SomeCommands
<1>7. But(n, m, {"cmds"}) /\ m.cmds = P
  BY <1>1, <1>2, <1>6, ProcessFields
<1> HIDE DEF P, m
<1>8. But(m, t, {"fingers", "stuck"}) /\ LiftedTo(m, t, {f}, U)
  <2>1. Record(m) /\ U \subseteq {f}
    BY <1>4, <1>7 DEF But
  <2>2. QED
    BY <2>1, LiftedFields
<1> HIDE DEF t
<1>9. /\ m.fingers = n.fingers /\ m.stuck = n.stuck /\ m.form = n.form
      /\ t.form = n.form /\ t.override = n.override /\ t.cmds = P
  BY <1>7, <1>8 DEF But, Fields
<1>10. LiftedTo(n, t, {f}, U)
  BY <1>8, <1>9 DEF LiftedTo
<1>11. Struck(n, t, P)
  BY <1>5, <1>7, <1>8, <1>9 DEF Struck, But, StrikeFields
<1>12. /\ CommandsRight(t)
       /\ P = HardKey(KeyOf(f), "Release") /\ (n.override \/ f = "a")
              => Meaning(f, n.form) \in Letting(t)
  <2>1. CASE P = <<>>
    <3>1. CommandsRight(t)
      BY <1>9, <2>1, NoCommands
    <3>2. P # HardKey(KeyOf(f), "Release")
      BY <2>1 DEF HardKey
    <3>3. QED
      BY <3>1, <3>2
  <2>2. CASE P = HardKey(KeyOf(f), "Release") /\ (n.override \/ f = "a")
    BY <1>3, <1>9, <2>2, HardKeyRight
  <2>3. QED
    BY <1>5, <2>1, <2>2
<1>13. ASSUME NEW x \in (Held(n) \cup n.stuck) \cap Wanted(n)
       PROVE  x \in Held(t) \cup t.stuck \cup Letting(t)
  <2>1. x \in Held(t) \cup t.stuck \/ \E g \in {f} \ U : x = Meaning(g, n.form)
    BY <1>10, LiftedFacts
  <2>2. CASE f \notin U /\ x = Meaning(f, n.form)
    <3>1. CASE P = HardKey(KeyOf(f), "Release") /\ (n.override \/ f = "a")
      BY <1>12, <2>2, <3>1
    <3>2. CASE ~ (n.override \/ f = "a")
      <4>1. Meaning(f, n.form) \notin Wanted(n)
        BY <1>3, <3>2, Unwanted
      <4>2. QED
        BY <2>2, <4>1
    <3>3. QED
      BY <1>5, <2>2, <3>1, <3>2
  <2>3. QED
    BY <2>1, <2>2
<1>14. IInv(t)
  BY <1>1, <1>2, <1>11, <1>12, <1>13, StruckRight
<1>15. QED
  BY <1>1, <1>14, BecomesRight

(* The commands of a navigator, one for each direction that has changed.   *)
LEMMA TurnedRight ==
    ASSUME NEW n, n.override, NEW changed \in SUBSET {"Up", "Center"}, NEW down,
           Turned(n.cmds, changed, down), n.fingers = down
    PROVE  /\ CommandsRight(n)
           /\ \A f \in changed \ down : Meaning(f, n.form) \in Letting(n)
<1>1. n.cmds \in Seq(HardCommands)
      /\ \A i \in 1 .. Len(n.cmds) :
             n.cmds[i].key \in changed
             /\ n.cmds[i].action = IF n.cmds[i].key \in down THEN "Press" ELSE "Release"
  BY DEF Turned
<1>2. \A key \in changed : \E i \in 1 .. Len(n.cmds) : n.cmds[i].key = key
  BY DEF Turned
<1>3. n.cmds \in Seq(Command)
  BY <1>1, SomeCommands
<1>4. ASSUME NEW c, c.key \in {"Up", "Center"} PROVE Acts(c, n.form) = Meaning(c.key, n.form)
  BY <1>4 DEF Acts
<1>5. ASSUME NEW i \in 1 .. Len(n.cmds), n.cmds[i].action = "Press"
      PROVE  Acts(n.cmds[i], n.form) \in Held(n)
  <2>1. n.cmds[i].key \in down /\ n.cmds[i].key \in {"Up", "Center"}
    BY <1>1, <1>5
  <2>2. QED
    BY <1>4, <2>1 DEF Held
<1>6. CommandsRight(n)
  BY <1>3, <1>5 DEF CommandsRight, MayPress
<1>7. ASSUME NEW f \in changed \ down PROVE Meaning(f, n.form) \in Letting(n)
  <2>1. PICK i \in 1 .. Len(n.cmds) : n.cmds[i].key = f
    BY <1>2
  <2>2. n.cmds[i].action = "Release" /\ n.cmds[i] \in HardCommands
    BY <1>1, <2>1
  <2>3. i \in Releases(n)
    BY <2>2 DEF Releases
  <2>4. Acts(n.cmds[i], n.form) = Meaning(f, n.form)
    BY <1>4, <2>1
  <2>5. QED
    BY <2>3, <2>4 DEF Letting
<1>8. QED
  BY <1>6, <1>7

LEMMA NavigateRight ==
    ASSUME IInv(r), NEW changed \in (SUBSET Navigator) \ {{}}, Navigate(changed)
    PROVE  IInv(r')
<1> DEFINE n == Turn
           down == (r.fingers \cup changed) \ (r.fingers \cap changed)
           lifted == r.fingers \cap changed
           b == Event("Nav", "KeyDown", FALSE)
           c == [b EXCEPT !.chr = "NavChange"]
           e == [x \in DOMAIN c \cup {"changed", "down"} |->
                    CASE x = "changed" -> changed [] x = "down" -> down [] OTHER -> c[x]]
           P == Process(n.device, n.enabled, n.override, e)
           m == Process1(n, e)
           U == Unseen(r, lifted, FALSE)
           l == Lifted(m, lifted, U)
           t == [l EXCEPT !.fingers = down]
<1>1. r.cmds = <<>> /\ Becomes(t)
  BY DEF Navigate, Strikes
<1>2. /\ IInv(n) /\ n.cmds = r.cmds /\ n.device = r.device /\ n.fingers = r.fingers
      /\ n.enabled = r.enabled /\ n.override = r.override /\ Record(n) /\ n.form = r.form
      /\ r.device \in Devices /\ r.override \in BOOLEAN /\ r.enabled \in BOOLEAN
  BY TurnSame
<1>3. changed \in SUBSET {"Up", "Center"} /\ r.device \in {"Tungsten", "Other"}
  <2>1. r.device # "Treo"
    <3>1. r.device = "Treo" => Navigator = {}
      BY DEF Navigator
    <3>2. QED
      BY <3>1
  <2>2. Navigator = {"Up", "Center"}
    BY <2>1 DEF Navigator
  <2>3. changed \in SUBSET {"Up", "Center"}
    BY <2>2
  <2>4. QED
    BY <1>2, <2>1, <2>3 DEF Devices
<1>4. U \subseteq lifted /\ (r.enabled => U = {}) /\ (~ r.enabled => U = lifted)
  BY <1>3 DEF Unseen
<1>5. e = NavEvent(changed, down)
  <2>1. c = Nav
    <3>1. b = [type |-> "KeyDown", option |-> FALSE, up |-> TRUE, repeat |-> FALSE, on |-> FALSE,
               virtual |-> FALSE, key |-> "Nav", chr |-> "Nav"]
      BY DEF Event
    <3> DEFINE S == {"type", "option", "up", "repeat", "on", "virtual", "key", "chr"}
    <3> HIDE DEF b
    <3>2. c = [x \in S |-> c[x]] /\ Nav = [x \in S |-> Nav[x]]
      BY <3>1 DEF Nav
    <3>3. /\ c.type = Nav.type /\ c.option = Nav.option /\ c.up = Nav.up /\ c.repeat = Nav.repeat
          /\ c.on = Nav.on /\ c.virtual = Nav.virtual /\ c.key = Nav.key /\ c.chr = Nav.chr
      BY <3>1 DEF Nav
    <3> HIDE DEF c
    <3>4. QED
      BY <3>2, <3>3
  <2> HIDE DEF c
  <2>2. QED
    BY <2>1 DEF NavEvent
<1> HIDE DEF n, U, e
<1>6. /\ down = (n.fingers \cup changed) \ (n.fingers \cap changed)
      /\ lifted = n.fingers \cap changed
  BY <1>2
<1> HIDE DEF down, lifted
<1>7. \/ P = <<>> /\ U = lifted
      \/ n.enabled /\ n.override /\ Turned(P, changed, down)
      \/ n.enabled /\ ~ n.override /\ Nothing(P)
  <2>1. CASE ~ r.enabled
    BY <1>2, <1>4, <2>1, NotEnabled
  <2>2. CASE r.enabled
    <3>1. P = Process(r.device, TRUE, r.override, NavEvent(changed, down))
      BY <1>2, <1>5, <2>2
    <3>2. Steered(Process(r.device, TRUE, r.override, NavEvent(changed, down)), r.override,
                  changed, down)
      BY <1>2, <1>3, NavigateFacts
    <3> HIDE DEF P
    <3>3. IF r.override THEN Turned(P, changed, down) ELSE Nothing(P)
      BY <3>1, <3>2 DEF Steered
    <3>4. QED
      BY <1>2, <2>2, <3>3
  <2>3. QED
    BY <1>2, <2>1, <2>2
<1>8. P \in Seq(Command)
  <2>1. P = <<>> => Nothing(P)
    BY DEF Nothing
  <2>2. Turned(P, changed, down) => P \in Seq(HardCommands)
    BY DEF Turned
  <2> HIDE DEF P
  <2>3. QED
    BY <1>7, <2>1, <2>2, SomeCommands
<1>9. But(n, m, {"cmds"}) /\ m.cmds = P
  BY <1>1, <1>2, <1>8, ProcessFields
<1> HIDE DEF P, m
<1>10. But(m, l, {"fingers", "stuck"}) /\ LiftedTo(m, l, lifted, U)
  <2>1. Record(m)
    BY <1>9 DEF But
  <2>2. QED
    BY <1>4, <2>1, LiftedFields
<1> HIDE DEF l
<1>11. But(l, t, {"fingers"}) /\ t.fingers = down
  BY <1>10 DEF But, Record, Fields
<1> HIDE DEF t
<1>12. /\ m.fingers = n.fingers /\ m.stuck = n.stuck /\ m.form = n.form
       /\ l.form = n.form /\ t.form = n.form /\ t.override = n.override /\ t.cmds = P
       /\ t.stuck = l.stuck
  BY <1>9, <1>10, <1>11 DEF But, Fields
<1>13. n.fingers \ lifted \subseteq t.fingers
  BY <1>6, <1>11
<1>14. LiftedTo(n, t, lifted, U)
  BY <1>10, <1>12, <1>13 DEF LiftedTo
<1>15. Struck(n, t, P)
  BY <1>7, <1>9, <1>10, <1>11, <1>12 DEF Struck, But, StrikeFields
<1>16. /\ CommandsRight(t)
       /\ n.override => U = lifted \/ \A f \in changed \ down : Meaning(f, n.form) \in Letting(t)
  <2>1. P = <<>> => Nothing(P)
    BY DEF Nothing
  <2>2. CASE Nothing(P) /\ (U = lifted \/ ~ n.override)
    BY <1>12, <2>2, NothingRight
  <2>3. CASE n.override /\ Turned(P, changed, down)
    <3>1. /\ CommandsRight(t)
          /\ \A f \in changed \ down : Meaning(f, t.form) \in Letting(t)
      BY <1>3, <1>11, <1>12, <2>3, TurnedRight
    <3>2. QED
      BY <1>12, <3>1
  <2>4. QED
    BY <1>7, <2>1, <2>2, <2>3
<1>17. ASSUME NEW x \in (Held(n) \cup n.stuck) \cap Wanted(n)
       PROVE  x \in Held(t) \cup t.stuck \cup Letting(t)
  <2>1. x \in Held(t) \cup t.stuck \/ \E g \in lifted \ U : x = Meaning(g, n.form)
    BY <1>14, LiftedFacts
  <2>2. ASSUME NEW g \in lifted \ U, x = Meaning(g, n.form)
        PROVE  x \in Letting(t)
    <3>1. g \in changed \ down /\ g \in Fingers \ {"a"}
      BY <1>3, <1>6, <2>2 DEF Fingers
    <3>2. n.override
      BY <2>2, <3>1, Unwanted
    <3>3. U # lifted
      BY <2>2
    <3>4. QED
      BY <1>16, <2>2, <3>1, <3>2, <3>3
  <2>3. QED
    BY <2>1, <2>2
<1>18. IInv(t)
  BY <1>1, <1>2, <1>15, <1>16, <1>17, StruckRight
<1>19. QED
  BY <1>1, <1>18, BecomesRight
-----------------------------------------------------------------------------
(* The pen, menus and dialogs.                                             *)
LEMMA HardKeyTimeoutRight ==
    ASSUME IInv(r), HardKeyTimeout
    PROVE  IInv(r')
<1> DEFINE t == [r EXCEPT !.timer = (r.form = "Mouse" /\ r.hardkey # "none")]
<1>1. r.timer /\ Becomes(t)
  BY DEF HardKeyTimeout, HardKeyTimer
<1>2. But(r, t, {"timer"})
  BY DEF IInv, Typed, Formed, But, Record, Fields
<1> HIDE DEF t
<1>3. Typed(t)
  BY <1>2, TypedSame DEF IInv, But, TypedFields, Fields
<1>4. FInv(t)
  BY <1>2, FormSame DEF IInv, But, FormFields, Fields
<1>5. /\ t.hidp = r.hidp /\ t.hardkey = r.hardkey /\ t.override = r.override
      /\ t.trackPen = r.trackPen /\ t.drag = r.drag /\ t.dragmode = r.dragmode
      /\ t.selected = r.selected
  BY <1>2 DEF But, Fields
<1>6. HostRight(r, Explained(r)) /\ CommandsRight(r) /\ Shaped(r.hidp)
  BY DEF IInv, KInv, Typed, Formed
<1>7. HostKept(r, t, {"timer"}, Explained(r))
  BY <1>1, <1>2, <1>5, <1>6 DEF HostKept, HostRight
<1>8. KInv(t)
  <2>1. {"timer"} \cap KeysFields = {} /\ "override" \notin {"timer"}
    BY DEF KeysFields
  <2>2. QED
    BY <1>6, <1>7, <2>1, KeysKept
<1>9. QED
  BY <1>1, <1>3, <1>4, <1>8, BecomesRight DEF IInv

(* A step of the pad or the buttons, with what they explain unchanged.     *)
LEMMA PadRight ==
    ASSUME NEW n, IInv(n), NEW t, HostKept(n, t, PenFields, Explained(n))
    PROVE  IInv(t)
<1>1. t.dragmode \in BOOLEAN
  BY DEF HostKept, HostRight
<1>2. Typed(t)
  BY <1>1 DEF HostKept, But, PenFields, DragFields, IInv, Typed, Formed, Fields
<1>3. FInv(t)
  BY FormSame DEF HostKept, But, PenFields, DragFields, IInv, FormFields, Fields
<1>4. KInv(t)
  <2>1. PenFields \cap KeysFields = {} /\ "override" \notin PenFields
    BY DEF PenFields, DragFields, KeysFields
  <2>2. QED
    BY <2>1, KeysKept DEF IInv, KInv
<1>5. QED
  BY <1>2, <1>3, <1>4 DEF IInv

LEMMA PenDownRight ==
    ASSUME IInv(r), PenDown
    PROVE  IInv(r')
<1> DEFINE n == Turn
           m == [n EXCEPT !.fingers = n.fingers \cup {"pen"}]
           a == [m EXCEPT !.trackPen = TRUE]
           t == [a EXCEPT !.moved = FALSE]
<1>1. r.cmds = <<>> /\ r.form = "Mouse" /\ Becomes(t)
  BY DEF PenDown, OnMouseForm, Quiet, MousePadHandler
<1>2. IInv(n) /\ n.cmds = r.cmds /\ Record(n) /\ n.form = r.form
  BY TurnSame
<1> HIDE DEF n
<1>3. But(n, m, {"fingers"}) /\ m.fingers = n.fingers \cup {"pen"}
  BY <1>2 DEF But, Record, Fields
<1> HIDE DEF m
<1>4. But(m, a, {"trackPen"})
  BY <1>3 DEF But, Record, Fields
<1> HIDE DEF a
<1>5. But(a, t, {"moved"})
  BY <1>4 DEF But, Record, Fields
<1> HIDE DEF t
<1>6. But(n, t, {"fingers", "trackPen", "moved"})
  BY <1>3, <1>4, <1>5 DEF But
<1>7. /\ t.fingers = n.fingers \cup {"pen"} /\ t.form = n.form /\ t.stuck = n.stuck
      /\ t.cmds = <<>> /\ n.cmds = <<>>
  BY <1>1, <1>2, <1>3, <1>4, <1>5 DEF But, Fields
<1>8. Typed(t)
  BY <1>2, <1>6, TypedSame DEF IInv, But, TypedFields, Fields
<1>9. FInv(t)
  BY <1>2, <1>6, FormSame DEF IInv, But, FormFields, Fields
<1>10. /\ t.hidp = n.hidp /\ t.hardkey = n.hardkey /\ t.timer = n.timer
       /\ t.override = n.override /\ t.drag = n.drag /\ t.dragmode = n.dragmode
       /\ t.selected = n.selected
  BY <1>6 DEF But, Fields
<1>11. "stroke" \in Held(t) /\ Held(n) \subseteq Held(t)
  <2>1. Meaning("pen", t.form) = "stroke"
    BY <1>1, <1>2, <1>7 DEF Meaning
  <2>2. QED
    BY <1>7, <2>1 DEF Held
<1>12. /\ CommandsRight(t) /\ Explained(n) = Held(n) \cup n.stuck
       /\ Explained(t) = Held(t) \cup t.stuck
  BY <1>7, NoCommands
<1>13. HostRight(n, Explained(n))
  BY <1>2 DEF IInv, KInv
<1>14. Explained(n) \subseteq Explained(t) /\ "stroke" \in Explained(t)
  BY <1>7, <1>11, <1>12
<1>15. HostRight(t, Explained(t))
  BY <1>10, <1>13, <1>14 DEF HostRight
<1>16. QED
  BY <1>1, <1>8, <1>9, <1>12, <1>15, BecomesRight DEF IInv, KInv

LEMMA PenDragRight ==
    ASSUME IInv(r), PenDrag
    PROVE  IInv(r')
<1> DEFINE n == Turn
           t == PenMove(n)
<1>1. Becomes(t)
  BY DEF PenDrag
<1>2. IInv(n) /\ Record(n)
  BY TurnSame
<1> HIDE DEF n
<1>3. But(n, t, {"moved"})
  BY <1>2 DEF PenMove, MousePadDoMovement, But, Record, Fields
<1> HIDE DEF t
<1>4. Typed(t)
  BY <1>2, <1>3, TypedSame DEF IInv, But, TypedFields, Fields
<1>5. FInv(t)
  BY <1>2, <1>3, FormSame DEF IInv, But, FormFields, Fields
<1>6. KInv(t)
  BY <1>2, <1>3, KeysSame DEF IInv, But, HostFields, KeysFields, Fields
<1>7. QED
  BY <1>1, <1>4, <1>5, <1>6, BecomesRight DEF IInv

LEMMA TapButtonRight ==
    ASSUME IInv(r), NEW id, TapButton(id)
    PROVE  IInv(r')
<1> DEFINE n == Turn
           t == SelectButton(n, id)
<1>1. Becomes(t)
  BY DEF TapButton
<1>2. IInv(n)
  BY TurnSame
<1> HIDE DEF n
<1>3. HostKept(n, t, DragFields, Explained(n))
  BY <1>2, TapButtonFacts DEF IInv, Typed, KInv
<1>4. HostKept(n, t, PenFields, Explained(n))
  BY <1>3 DEF HostKept, But, PenFields
<1> HIDE DEF t
<1>5. IInv(t)
  BY <1>2, <1>4, PadRight
<1>6. QED
  BY <1>1, <1>5, BecomesRight

LEMMA TapDragRight ==
    ASSUME IInv(r), TapDrag
    PROVE  IInv(r')
<1> DEFINE n == Turn
           t == SelectDrag(n)
<1>1. Becomes(t)
  BY DEF TapDrag
<1>2. IInv(n)
  BY TurnSame
<1> HIDE DEF n
<1>3. HostKept(n, t, DragFields, Explained(n))
  BY <1>2, TapDragFacts DEF IInv, Typed, KInv
<1>4. HostKept(n, t, PenFields, Explained(n))
  BY <1>3 DEF HostKept, But, PenFields
<1> HIDE DEF t
<1>5. IInv(t)
  BY <1>2, <1>4, PadRight
<1>6. QED
  BY <1>1, <1>5, BecomesRight

LEMMA LiftPenRight ==
    ASSUME IInv(r), NEW tap \in BOOLEAN, LiftPen(tap)
    PROVE  IInv(r')
<1> DEFINE n == Turn
           k == IF n.form = "Mouse" THEN PenUp(n, tap) ELSE n
           t == Lifted(k, {"pen"}, {})
           E == Held(n) \cup n.stuck
<1>1. /\ IInv(n) /\ n.cmds = r.cmds /\ Record(n) /\ n.form = r.form /\ r.cmds = <<>>
  BY TurnSame DEF LiftPen, Strikes
<1>2. Becomes(t)
  <2>1. CASE r.form = "Mouse"
    <3>1. Becomes(Lifted(PenUp(n, tap), {"pen"}, {}))
      BY <2>1 DEF LiftPen
    <3> HIDE DEF n
    <3>2. QED
      BY <1>1, <2>1, <3>1
  <2>2. CASE r.form # "Mouse"
    <3>1. Becomes(Lifted(n, {"pen"}, {}))
      BY <2>2 DEF LiftPen
    <3> HIDE DEF n
    <3>2. QED
      BY <1>1, <2>2, <3>1
  <2>3. QED
    BY <2>1, <2>2
<1> HIDE DEF n
<1>3. HostRight(n, E)
  <2>1. Explained(n) = E /\ HostRight(n, Explained(n))
    BY <1>1, NoCommands DEF IInv, KInv
  <2> HIDE DEF E
  <2>2. QED
    BY <2>1
<1>4. n.form = "Mouse" => HostKept(n, k, PenFields, E \ {"stroke"})
  <2>1. Formed(n)
    BY <1>1 DEF IInv, Typed
  <2> HIDE DEF E
  <2>2. QED
    BY <1>3, <2>1, PenUpFacts
<1>5. n.form # "Mouse" => HostKept(n, k, PenFields, E \ {"nothing"})
  <2>1. Formed(n) /\ (n.form # "Mouse" => k = n)
    BY <1>1 DEF IInv, Typed
  <2>2. (E \cap Wanted(n)) \subseteq E \ {"nothing"}
    BY DEF Wanted
  <2> DEFINE D == E \ {"nothing"}
  <2> HIDE DEF E, D
  <2>3. E \cap Wanted(n) \subseteq D
    BY <2>2 DEF D
  <2>4. HostRight(n, D)
    BY <1>3, <2>3, HostMono
  <2>5. QED
    BY <2>1, <2>4 DEF HostKept, Formed, But, D
<1>6. Meaning("pen", n.form) = IF n.form = "Mouse" THEN "stroke" ELSE "nothing"
  BY DEF Meaning
<1> DEFINE D == E \ {Meaning("pen", n.form)}
<1> HIDE DEF E
<1>7. HostKept(n, k, PenFields, D)
  BY <1>4, <1>5, <1>6
<1> HIDE DEF k, D
<1>8. But(k, t, {"fingers", "stuck"}) /\ LiftedTo(k, t, {"pen"}, {})
  BY <1>7, LiftedFields DEF HostKept, But
<1> HIDE DEF t
<1>9. /\ k.fingers = n.fingers /\ k.stuck = n.stuck /\ k.form = n.form
      /\ t.cmds = <<>>
  BY <1>1, <1>7, <1>8 DEF HostKept, But, PenFields, DragFields, Fields
<1>10. LiftedTo(n, t, {"pen"}, {})
  BY <1>8, <1>9 DEF LiftedTo
<1>11. D \subseteq Held(t) \cup t.stuck
  <2>1. ASSUME NEW x \in D PROVE x \in Held(t) \cup t.stuck
    <3>1. x \in Held(n) \cup n.stuck /\ x # Meaning("pen", n.form)
      BY <2>1 DEF D, E
    <3>2. x \in Held(t) \cup t.stuck \/ \E g \in {"pen"} \ {} : x = Meaning(g, n.form)
      BY <1>10, <3>1, LiftedFacts
    <3>3. QED
      BY <3>1, <3>2
  <2>2. QED
    BY <2>1
<1>12. CommandsRight(t) /\ Explained(t) = Held(t) \cup t.stuck
  BY <1>9, NoCommands
<1>13. HostRight(t, Explained(t))
  <2> DEFINE W == Explained(t)
  <2>1. D \cap Wanted(k) \subseteq W
    BY <1>11, <1>12
  <2>2. \A f \in HostFields : t[f] = k[f]
    BY <1>8 DEF But, HostFields, Fields
  <2>3. HostRight(k, D)
    BY <1>7 DEF HostKept
  <2> HIDE DEF W
  <2>4. HostRight(t, W)
    BY <2>1, <2>2, <2>3, HostMono
  <2>5. QED
    BY <2>4 DEF W
<1>14. t.dragmode \in BOOLEAN /\ Shaped(t.hidp) /\ Record(t)
  BY <1>7, <1>8, <1>13 DEF HostKept, HostRight, But, Fields
<1>15. \A f \in Fields \ (PenFields \cup {"fingers", "stuck"}) : t[f] = n[f]
  BY <1>7, <1>8 DEF HostKept, But
<1>16. Typed(t)
  BY <1>1, <1>14, <1>15 DEF IInv, Typed, Formed, PenFields, DragFields, Fields
<1>17. FInv(t)
  <2>1. \A f \in FormFields : t[f] = n[f]
    BY <1>15 DEF FormFields, PenFields, DragFields, Fields
  <2>2. QED
    BY <1>1, <2>1, FormSame DEF IInv
<1>18. IInv(t)
  BY <1>12, <1>13, <1>16, <1>17 DEF IInv, KInv
<1>19. QED
  BY <1>2, <1>18, BecomesRight

(* No event waits if none is next.                                         *)
LEMMA QuietFacts ==
    ASSUME IInv(r), Quiet
    PROVE  r.cmds = <<>> /\ r.events = <<>>
<1>1. r.events \in Seq(EventType) /\ r.cmds = <<>> /\ NextEvent = "none"
  BY DEF IInv, FInv, EventsRight, Quiet
<1>2. r.events # <<>> => Head(r.events) \in EventType
  BY <1>1
<1>3. \A e \in EventType : e.type # "none"
  BY DEF EventType
<1>4. QED
  BY <1>1, <1>2, <1>3 DEF NextEvent

(* A menu is over the form, or is not.                                     *)
Menu(n, over, enabled) == [n EXCEPT !.over = over, !.enabled = enabled]

LEMMA MenuFields ==
    ASSUME NEW n, Record(n), NEW over, NEW enabled
    PROVE  /\ But(n, Menu(n, over, enabled), {"over", "enabled"})
           /\ Menu(n, over, enabled).over = over /\ Menu(n, over, enabled).enabled = enabled
<1> DEFINE a == [n EXCEPT !.over = over]
           t == [a EXCEPT !.enabled = enabled]
<1>1. But(n, a, {"over"}) /\ a.over = over
  BY DEF But, Record, Fields
<1>2. t = Menu(n, over, enabled)
  BY DEF Menu
<1> HIDE DEF a
<1>3. But(a, t, {"enabled"}) /\ t.enabled = enabled
  BY <1>1 DEF But, Record, Fields
<1> HIDE DEF t
<1>4. But(n, t, {"over", "enabled"}) /\ t.over = over /\ t.enabled = enabled
  BY <1>1, <1>3 DEF But, Fields
<1>5. QED
  BY <1>2, <1>4

LEMMA MenuRight ==
    ASSUME NEW n, NEW over, NEW enabled \in BOOLEAN, IInv(n), n.cmds = <<>>, n.events = <<>>,
           n.drawn, n.goal = "none", over \in {"none", "menu"}, enabled <=> over = "none"
    PROVE  IInv(Menu(n, over, enabled))
<1> DEFINE t == Menu(n, over, enabled)
<1>1. But(n, t, {"over", "enabled"}) /\ t.over = over /\ t.enabled = enabled
  BY MenuFields DEF IInv, Typed, Formed
<1> HIDE DEF t
<1>2. /\ t.form = n.form /\ t.events = n.events /\ t.asked = n.asked /\ t.goal = n.goal
      /\ t.switched = n.switched /\ t.drawn = n.drawn /\ t.lost = n.lost /\ t.cmds = n.cmds
      /\ t.hidp = n.hidp /\ t.device = n.device /\ t.override = n.override
      /\ t.dragmode = n.dragmode
  BY <1>1 DEF But, Fields
<1>3. Typed(t)
  BY <1>1, <1>2 DEF IInv, Typed, Formed, But
<1>4. FInv(t)
  BY <1>1, <1>2 DEF IInv, FInv, GoalRight
<1>5. KInv(t)
  BY <1>1, KeysSame DEF IInv, But, HostFields, KeysFields, Fields
<1>6. QED
  BY <1>3, <1>4, <1>5 DEF IInv, t

LEMMA OpenMenuRight ==
    ASSUME IInv(r), OpenMenu
    PROVE  IInv(r')
<1>1. r.drawn /\ r.goal = "none" /\ Quiet /\ Becomes(Menu(r, "menu", FALSE))
  BY DEF OpenMenu, Menu
<1>2. r.cmds = <<>> /\ r.events = <<>>
  BY <1>1, QuietFacts
<1>3. IInv(Menu(r, "menu", FALSE))
  BY <1>1, <1>2, MenuRight
<1>4. QED
  BY <1>1, <1>3, BecomesRight

LEMMA LeaveMenuRight ==
    ASSUME IInv(r), Quiet, r.over = "menu"
    PROVE  /\ IInv(LeaveMenu(r)) /\ LeaveMenu(r).over = "none"
           /\ LeaveMenu(r).events = <<>> /\ LeaveMenu(r).drawn
<1>1. r.drawn /\ r.goal = "none"
  BY DEF IInv, FInv, GoalRight
<1>2. LeaveMenu(r) = Menu(r, "none", TRUE)
  BY DEF LeaveMenu, Menu
<1>3. r.cmds = <<>> /\ r.events = <<>>
  BY QuietFacts
<1>4. IInv(Menu(r, "none", TRUE))
  BY <1>1, <1>3, MenuRight
<1>5. LeaveMenu(r).over = "none" /\ LeaveMenu(r).events = r.events /\ LeaveMenu(r).drawn = r.drawn
  BY DEF LeaveMenu, IInv, Typed, Formed, Record, Fields
<1>6. QED
  BY <1>1, <1>2, <1>3, <1>4, <1>5

LEMMA CloseMenuRight ==
    ASSUME IInv(r), CloseMenu
    PROVE  IInv(r')
  BY LeaveMenuRight, BecomesRight DEF CloseMenu

LEMMA ChooseFormRight ==
    ASSUME IInv(r), NEW form \in {"Mouse", "Keyboard"}, ChooseForm(form)
    PROVE  IInv(r')
<1> DEFINE n == LeaveMenu(r)
           t == SwitchToForm(n, form)
<1>1. Quiet /\ r.over = "menu" /\ Becomes(t)
  BY DEF ChooseForm
<1>2. IInv(n) /\ n.over = "none" /\ n.events = <<>> /\ n.drawn
  BY <1>1, LeaveMenuRight
<1> HIDE DEF n
<1>3. IInv(t)
  BY <1>2, SwitchFacts DEF Forms
<1> HIDE DEF t
<1>4. QED
  BY <1>1, <1>3, BecomesRight

LEMMA DialogRight ==
    ASSUME IInv(r), NEW lifted \in SUBSET r.fingers, Dialog(lifted)
    PROVE  IInv(r')
<1> DEFINE l == Lifted(r, lifted, lifted)
           lost == l.lost \/ (r.goal = "none" /\ ~ r.drawn)
           a == [l EXCEPT !.lost = lost]
           t == [a EXCEPT !.events = <<>>]
<1>1. r.cmds = <<>> /\ Becomes([l EXCEPT !.lost = lost, !.events = <<>>])
  BY DEF Dialog
<1>2. Becomes(t)
  <2> HIDE DEF l, lost
  <2>1. [l EXCEPT !.lost = lost, !.events = <<>>] = t
    OBVIOUS
  <2>2. QED
    BY <1>1, <2>1
<1>3. But(r, l, {"fingers", "stuck"}) /\ LiftedTo(r, l, lifted, lifted)
  BY LiftedFields DEF IInv, Typed, Formed
<1> HIDE DEF l
<1>4. /\ l.cmds = <<>> /\ l.goal = r.goal /\ l.drawn = r.drawn
  BY <1>1, <1>3 DEF But, Fields
<1>5. IInv(l)
  <2>1. Struck(r, l, <<>>)
    BY <1>3, <1>4 DEF Struck, But, StrikeFields
  <2>2. CommandsRight(l)
    BY <1>4, NoCommands
  <2>3. ASSUME NEW x \in Held(r) \cup r.stuck PROVE x \in Held(l) \cup l.stuck
    <3>1. x \in Held(l) \cup l.stuck \/ \E g \in lifted \ lifted : x = Meaning(g, r.form)
      BY <1>3, LiftedFacts
    <3>2. QED
      BY <3>1
  <2>4. QED
    BY <1>1, <2>1, <2>2, <2>3, StruckRight
<1> HIDE DEF lost
<1>6. But(l, a, {"lost"}) /\ a.lost = lost
  BY <1>3 DEF But, Record, Fields
<1> HIDE DEF a
<1>7. But(a, t, {"events"}) /\ t.events = <<>>
  BY <1>6 DEF But, Record, Fields
<1> HIDE DEF t
<1>8. But(l, t, {"lost", "events"}) /\ t.lost = lost
  BY <1>6, <1>7 DEF But, Fields
<1>9. /\ t.form = l.form /\ t.asked = l.asked /\ t.goal = l.goal
      /\ t.switched = l.switched /\ t.drawn = l.drawn /\ t.cmds = l.cmds /\ t.over = l.over
      /\ t.enabled = l.enabled
  BY <1>8 DEF But, Fields
<1>10. Typed(t)
  BY <1>5, <1>8, TypedSame DEF IInv, But, TypedFields, Fields
<1>11. KInv(t)
  BY <1>5, <1>8, KeysSame DEF IInv, But, HostFields, KeysFields, Fields
<1>12. EventsRight(t.events, t.form, t.asked)
  <2>1. Len(t.events) = 0 /\ t.events \in Seq(EventType)
    BY <1>7
  <2>2. QED
    BY <2>1 DEF EventsRight
<1>13. GoalRight(l)
  BY <1>5 DEF IInv, FInv
<1>14. GoalRight(t)
  BY <1>4, <1>7, <1>8, <1>9, <1>13 DEF GoalRight, lost
<1>15. QED
  BY <1>2, <1>10, <1>11, <1>12, <1>14, BecomesRight DEF IInv, FInv
-----------------------------------------------------------------------------
(* The first state.                                                        *)
LEMMA FreshRight ==
    ASSUME Init
    PROVE  IInv(r)
<1>1. PICK hand \in Hands : r = Fresh(hand)
  BY DEF Init
<1> DEFINE h == HID!NewHIDP
<1>2. h = [f \in Inputs |-> h[f]] /\ h.pressed = <<>> /\ h.buttonState = {}
  BY DEF HID!NewHIDP, Inputs
<1> HIDE DEF h
<1>3. /\ r.device = hand.device /\ r.override = hand.override /\ r.hidp = h
      /\ r.form = "Mouse" /\ r.asked = "Mouse" /\ r.drawn = TRUE /\ r.goal = "none"
      /\ r.switched = FALSE /\ r.lost = FALSE /\ r.events = <<>> /\ r.over = "none"
      /\ r.enabled = TRUE /\ r.cmds = <<>> /\ r.fingers = {} /\ r.stuck = {}
      /\ r.timer = FALSE /\ r.dragmode = FALSE /\ r.drag = FALSE /\ r.trackPen = FALSE
  BY <1>1 DEF Fresh, h
<1>4. Record(r)
  BY <1>1 DEF Fresh, Record, Fields
<1>5. hand.device \in Devices /\ hand.override \in BOOLEAN /\ KnownKeys(hand.device)
  BY RemoteAssumption DEF KnownKeys, Fingers
<1>6. Typed(r)
  BY <1>2, <1>3, <1>4, <1>5 DEF Typed, Formed, Shaped, Forms
<1>7. r.events \in Seq(EventType) /\ Len(r.events) = 0
  BY <1>3
<1>8. FInv(r)
  BY <1>3, <1>7 DEF FInv, EventsRight, GoalRight
<1>9. CommandsRight(r)
  BY <1>3, NoCommands
<1>10. r.hidp.pressed = <<>> /\ <<>> \in Seq(HostCodes) /\ Len(<<>>) = 0
  BY <1>2, <1>3
<1>11. Distinct(r.hidp.pressed) /\ KeysOf(r.hidp.pressed) = {}
  BY <1>10 DEF Distinct, KeysOf
<1>12. HostRight(r, Explained(r))
  BY <1>2, <1>3, <1>10, <1>11 DEF HostRight
<1>13. QED
  BY <1>6, <1>8, <1>9, <1>12 DEF IInv, KInv

LEMMA NextRight ==
    ASSUME IInv(r), Next
    PROVE  IInv(r')
<1>1. CASE Execute \/ Load \/ Open \/ Update \/ Idle \/ TwoSeconds \/ HardKeyTimeout
  BY <1>1, ExecuteRight, LoadRight, OpenRight, UpdateRight, IdleRight, TwoSecondsRight,
     HardKeyTimeoutRight
<1>2. ASSUME NEW f \in Keyboards[r.device] \ Navigator, NEW option \in BOOLEAN,
             Press(f, option) \/ Release(f, option)
      PROVE  IInv(r')
  BY <1>2, PressRight, ReleaseRight
<1>3. ASSUME NEW f \in Keyboards[r.device] \ Navigator, NEW type \in {"KeyDown", "KeyHold"},
             Repeat(f, type)
      PROVE  IInv(r')
  BY <1>3, RepeatRight
<1>4. ASSUME NEW changed \in (SUBSET Navigator) \ {{}}, Navigate(changed) PROVE IInv(r')
  BY <1>4, NavigateRight
<1>5. ASSUME NEW chr \in {"a", "A"}, Write(chr) PROVE IInv(r')
  BY <1>5, WriteRight
<1>6. CASE PenDown \/ PenDrag \/ TapDrag \/ OpenMenu \/ CloseMenu
  BY <1>6, PenDownRight, PenDragRight, TapDragRight, OpenMenuRight, CloseMenuRight
<1>7. ASSUME NEW tap \in BOOLEAN, LiftPen(tap) PROVE IInv(r')
  BY <1>7, LiftPenRight
<1>8. ASSUME NEW id \in Choices, TapButton(id) PROVE IInv(r')
  BY <1>8, TapButtonRight
<1>9. ASSUME NEW form \in {"Mouse", "Keyboard"}, ChooseForm(form) PROVE IInv(r')
  BY <1>9, ChooseFormRight
<1>10. ASSUME NEW lifted \in SUBSET r.fingers, Dialog(lifted) PROVE IInv(r')
  BY <1>10, DialogRight
<1>11. QED
  BY <1>1, <1>2, <1>3, <1>4, <1>5, <1>6, <1>7, <1>8, <1>9, <1>10 DEF Next

(* In every state of the remote what is down at the host, or on the pad,   *)
(* is explained by a finger, by what is stuck, or by a release that is     *)
(* queued; and the events that wait lead to the form that was asked for    *)
(* last.                                                                   *)
THEOREM Invariant == Spec => []IInv(r)
<1>1. Init => IInv(r)
  BY FreshRight
<1>2. IInv(r) /\ [Next]_r => IInv(r)'
  <2>1. CASE Next
    BY <2>1, NextRight
  <2>2. CASE UNCHANGED r
    BY <2>2
  <2>3. QED
    BY <2>1, <2>2
<1>3. QED
  BY <1>1, <1>2, PTL DEF Spec

(* With no command waiting, every key and button that is down at the host  *)
(* is the meaning of a finger that holds it, is stuck, or, for a button,   *)
(* is that of a drag.                                                      *)
THEOREM KeysTheorem == Spec => []KeysExplained
<1>1. IInv(r) => KeysExplained
  <2> SUFFICES ASSUME IInv(r), r.cmds = <<>>
               PROVE  /\ \A i \in 1 .. Len(r.hidp.pressed) : r.hidp.pressed[i] \in HeldOrStuck
                      /\ \A n \in r.hidp.buttonState : \/ n = 1 /\ "button" \in HeldOrStuck
                                                       \/ r.drag /\ n = Buttons[r.selected]
    BY DEF KeysExplained
  <2>1. Explained(r) = Held(r) \cup r.stuck /\ HostRight(r, Explained(r))
    BY NoCommands DEF IInv, KInv
  <2>2. HeldOrStuck = Held(r) \cup r.stuck
    BY DEF HeldOrStuck, HeldNow, Held
  <2>3. HostRight(r, HeldOrStuck)
    BY <2>1, <2>2
  <2>4. QED
    BY <2>3 DEF HostRight, KeysOf
<1>2. QED
  BY <1>1, Invariant, PTL

(* With no command waiting, on the mouse form, the timer moves the pointer *)
(* only while an arrow is held, or after one was lifted or crossed to      *)
(* another form where the mouse form could not see it, until it next sees  *)
(* an arrow released; and the pad follows the pen in the same way.         *)
THEOREM PointerTheorem == Spec => []PointerRests
<1>1. IInv(r) => PointerRests
  <2> SUFFICES ASSUME IInv(r), r.cmds = <<>>, r.form = "Mouse"
               PROVE  /\ r.timer => r.hardkey # "none" /\ "pointer" \in HeldOrStuck
                      /\ r.trackPen => "stroke" \in HeldOrStuck
    BY DEF PointerRests, HeldOrStuck
  <2>1. Explained(r) = Held(r) \cup r.stuck /\ HostRight(r, Explained(r))
    BY NoCommands DEF IInv, KInv
  <2>2. HeldOrStuck = Held(r) \cup r.stuck
    BY DEF HeldOrStuck, HeldNow, Held
  <2>3. HostRight(r, HeldOrStuck)
    BY <2>1, <2>2
  <2>4. QED
    BY <2>3 DEF HostRight
<1>2. QED
  BY <1>1, Invariant, PTL

(* When nothing is on its way the form that was asked for last is shown,   *)
(* and listens to the hard keys unless a menu is over it; except that a    *)
(* dialog may have kept it closed when nobody waited for its opening.      *)
THEOREM FormTheorem == Spec => []FormReached
<1>1. IInv(r) => FormReached
  <2> SUFFICES ASSUME IInv(r), Quiet, r.goal = "none", ~ r.lost
               PROVE  r.form = r.asked /\ r.drawn /\ (r.enabled <=> r.over = "none")
    BY DEF FormReached
  <2>1. r.events = <<>>
    BY QuietFacts
  <2>2. NextType(r) = "none"
    BY <2>1 DEF NextType
  <2>3. QED
    BY <2>2 DEF IInv, FInv, GoalRight
<1>2. QED
  BY <1>1, Invariant, PTL
=============================================================================
