------------------------- MODULE HIDProtocolProofs -------------------------
(***************************************************************************)
(* For all sets of modifiers, keys, buttons and masks: the latches, the    *)
(* modifier bits and the user's fingers agree, a sticky modifier has a     *)
(* timer, and a connected host knows the state.  Every operation is a      *)
(* composition of three kinds of steps: a report, a modifier that is       *)
(* toggled and reported, and a change of the latches.  The lemmas follow   *)
(* the running call through them.                                          *)
(*                                                                         *)
(* After that, what the host sees: a click is so many strokes with the     *)
(* modifiers its mask asks for, no key that nobody holds is shown, and     *)
(* motion does not wait on an idle channel.  First strokes as sets of      *)
(* places in a sequence of reports, then what a call adds to the reports   *)
(* of the keyboard, then those of the mouse, then the actions.             *)
(***************************************************************************)
EXTENDS HIDProtocol, FiniteSetTheorems, TLAPS

MouseReport == [buttons : SUBSET Buttons, x : Int]

(* A running call: hidp with the reports it has sent so far.               *)
Call == [modifiers : SUBSET Mods, modstate : [Mods -> ModStates],
         modtimer : 0 .. StickyTime, pressed : KeyBuffer,
         buttonState : SUBSET Buttons, X : Int, posChanged : BOOLEAN,
         keyboard : Seq(ReportType), mouse : Seq(MouseReport)]

(* What the call leaves with the host is the state it has reached.         *)
KeysTold(s)    == Told(s).keyboard = KeyReport(s.modifiers, s.pressed)
ButtonsTold(s) == Told(s).buttons = s.buttonState
Synced(s)      == KeysTold(s) /\ ButtonsTold(s)

Latched(s, fingers) ==
    \A b \in Mods : Consistent(s.modstate[b], b \in s.modifiers, b \in fingers)

Timed(s) == Sticky(s) # {} => s.modtimer > 0

SameLatches(s, t) == t.modstate = s.modstate /\ t.modtimer = s.modtimer

(* What every operation preserves.                                         *)
Good(s, fingers) == s \in Call /\ Latched(s, fingers) /\ Timed(s)

(* A keyboard report says what is pressed.                                 *)
LEMMA KeyReportType ==
    ASSUME NEW mods \in SUBSET Mods, NEW pressed \in Seq(Keys)
    PROVE  KeyReport(mods, pressed) \in ReportType
<1>1. \A i \in 1 .. Len(pressed) : pressed[i] \in Keys
  OBVIOUS
<1>2. {pressed[i] : i \in 1 .. Len(pressed)} \subseteq Keys
  BY <1>1
<1>3. QED
  BY <1>2 DEF KeyReport, ReportType

(* Sending a keyboard report changes nothing but what the host knows.      *)
LEMMA SendKeysStep ==
    ASSUME NEW s \in Call, NEW t, t = SendKeys(s)
    PROVE  /\ t \in Call /\ SameLatches(s, t) /\ t.modifiers = s.modifiers
           /\ t.pressed = s.pressed /\ t.buttonState = s.buttonState
           /\ KeysTold(t) /\ (ButtonsTold(s) => ButtonsTold(t))
           /\ t.posChanged = s.posChanged
<1> DEFINE r == KeyReport(s.modifiers, s.pressed)
<1>1. r \in ReportType
  BY KeyReportType DEF Call, KeyBuffer
<1>2. t = [s EXCEPT !.keyboard = Append(s.keyboard, r)]
  BY DEF SendKeys
<1>3. s.keyboard \in Seq(ReportType)
  BY DEF Call
<1> HIDE DEF r
<1>4. /\ Append(s.keyboard, r) \in Seq(ReportType)
      /\ Append(s.keyboard, r) # <<>>
      /\ Append(s.keyboard, r)[Len(Append(s.keyboard, r))] = r
  BY <1>1, <1>3
<1>5. /\ t \in Call /\ SameLatches(s, t) /\ t.modifiers = s.modifiers
      /\ t.pressed = s.pressed /\ t.buttonState = s.buttonState
      /\ t.keyboard = Append(s.keyboard, r) /\ t.mouse = s.mouse
      /\ t.posChanged = s.posChanged
  BY <1>2, <1>4 DEF Call, SameLatches
<1>6. KeysTold(t)
  BY <1>4, <1>5 DEF KeysTold, Told, r
<1>7. ButtonsTold(s) => ButtonsTold(t)
  BY <1>5 DEF ButtonsTold, Told
<1>8. QED
  BY <1>5, <1>6, <1>7

(* A report of the mouse.                                                  *)
LEMMA SendMouseStep ==
    ASSUME NEW s \in Call, NEW t, t = SendMouse(s)
    PROVE  /\ t \in Call /\ SameLatches(s, t) /\ t.modifiers = s.modifiers
           /\ t.pressed = s.pressed /\ t.buttonState = s.buttonState
           /\ ButtonsTold(t) /\ (KeysTold(s) => KeysTold(t)) /\ ~ t.posChanged
<1> DEFINE r == [buttons |-> s.buttonState, x |-> Normalized(s.X)]
<1>0. Normalized(s.X) \in Int /\ s.X - Normalized(s.X) \in Int
  BY HIDPAssumption DEF Call, Normalized
<1>1. r \in MouseReport /\ r.buttons = s.buttonState
  BY <1>0 DEF Call, MouseReport
<1>2. t = [s EXCEPT !.mouse = Append(s.mouse, r), !.posChanged = FALSE,
                    !.X = s.X - Normalized(s.X)]
  BY DEF SendMouse
<1>3. s.mouse \in Seq(MouseReport)
  BY DEF Call
<1> HIDE DEF r
<1>4. /\ Append(s.mouse, r) \in Seq(MouseReport)
      /\ Append(s.mouse, r) # <<>>
      /\ Append(s.mouse, r)[Len(Append(s.mouse, r))] = r
  BY <1>1, <1>3
<1>5. /\ t \in Call /\ SameLatches(s, t) /\ t.modifiers = s.modifiers
      /\ t.pressed = s.pressed /\ t.buttonState = s.buttonState
      /\ t.keyboard = s.keyboard /\ t.mouse = Append(s.mouse, r)
      /\ ~ t.posChanged
  BY <1>0, <1>2, <1>4 DEF Call, SameLatches
<1>6. ButtonsTold(t)
  BY <1>1, <1>4, <1>5 DEF ButtonsTold, Told
<1>7. KeysTold(s) => KeysTold(t)
  BY <1>5 DEF KeysTold, Told
<1>8. QED
  BY <1>5, <1>6, <1>7

(* One modifier after the other: t is s with the modifiers in done as `to` *)
(* wants them, and the host still in step if it was.                       *)
Towards(s, t, to, done) ==
    /\ t \in Call /\ SameLatches(s, t)
    /\ t.pressed = s.pressed /\ t.buttonState = s.buttonState
    /\ \A c \in Mods : c \in t.modifiers <=> (IF c \in done THEN c \in to ELSE c \in s.modifiers)
    /\ KeysTold(s) => KeysTold(t)
    /\ ButtonsTold(s) => ButtonsTold(t)

(* One toggle carries the call one modifier further.                       *)
LEMMA ToggleStep ==
    ASSUME NEW s \in Call, NEW to \in SUBSET Mods, NEW done, NEW b, NEW t,
           Towards(s, t, to, done)
    PROVE  Towards(s, Toggle(t, to, b), to, done \cup {b})
<1> DEFINE mods == IF b \in to THEN t.modifiers \cup {b} ELSE t.modifiers \ {b}
           u == [t EXCEPT !.modifiers = mods]
<1>0. t \in Call /\ t.modifiers \in SUBSET Mods
  BY DEF Towards, Call
<1>1. CASE (b \in t.modifiers) <=> (b \in to)
  <2>1. Toggle(t, to, b) = t
    BY <1>1 DEF Toggle
  <2>2. QED
    BY <2>1, <1>1 DEF Towards
<1>2. CASE ~ ((b \in t.modifiers) <=> (b \in to))
  <2>1. Toggle(t, to, b) = SendKeys(u)
    BY <1>2 DEF Toggle
  <2>2. mods \in SUBSET Mods
    BY <1>0
  <2>3. \A c \in Mods : c \in mods <=> (IF c = b THEN c \in to ELSE c \in t.modifiers)
    OBVIOUS
  <2> HIDE DEF mods
  <2>4. /\ u \in Call /\ SameLatches(t, u) /\ u.pressed = t.pressed
        /\ u.buttonState = t.buttonState /\ u.modifiers = mods
        /\ u.mouse = t.mouse
    BY <1>0, <2>2 DEF Call, SameLatches
  <2>5. ButtonsTold(t) => ButtonsTold(u)
    BY <2>4 DEF ButtonsTold, Told
  <2> HIDE DEF u
  <2> DEFINE v == SendKeys(u)
  <2>6. /\ v \in Call /\ SameLatches(u, v) /\ v.modifiers = u.modifiers
        /\ v.pressed = u.pressed /\ v.buttonState = u.buttonState
        /\ KeysTold(v) /\ (ButtonsTold(u) => ButtonsTold(v))
    BY <2>4, SendKeysStep
  <2> HIDE DEF v
  <2>7. Towards(s, v, to, done \cup {b})
    <3>1. SameLatches(s, v) /\ v.pressed = s.pressed /\ v.buttonState = s.buttonState
      BY <2>4, <2>6 DEF Towards, SameLatches
    <3>2. ButtonsTold(s) => ButtonsTold(v)
      BY <2>5, <2>6 DEF Towards
    <3>3. \A c \in Mods : c \in v.modifiers <=>
              (IF c \in done \cup {b} THEN c \in to ELSE c \in s.modifiers)
      BY <2>3, <2>4, <2>6 DEF Towards
    <3>4. QED
      BY <2>6, <3>1, <3>2, <3>3 DEF Towards
  <2>8. QED
    BY <2>1, <2>7 DEF v
<1>3. QED
  BY <1>1, <1>2

(* SetModifiers reaches the modifiers it is asked for.                     *)
LEMMA SetModifiersStep ==
    ASSUME NEW s \in Call, NEW m, Requested(s.modifiers, m) \in SUBSET Mods,
           NEW t, t = SetModifiers(s, m)
    PROVE  /\ t \in Call /\ SameLatches(s, t) /\ t.modifiers = Requested(s.modifiers, m)
           /\ t.pressed = s.pressed /\ t.buttonState = s.buttonState
           /\ (KeysTold(s) => KeysTold(t)) /\ (ButtonsTold(s) => ButtonsTold(t))
<1> DEFINE to == Requested(s.modifiers, m)
<1> HIDE DEF to
<1>0. to \in SUBSET Mods
  BY DEF to
<1>1. Towards(s, s, to, {})
  BY DEF Towards, SameLatches
<1> DEFINE s1 == Toggle(s, to, "LeftControl")
           s2 == Toggle(s1, to, "LeftShift")
           s3 == Toggle(s2, to, "LeftAlt")
           s4 == Toggle(s3, to, "LeftGUI")
           s5 == Toggle(s4, to, "RightControl")
           s6 == Toggle(s5, to, "RightShift")
           s7 == Toggle(s6, to, "RightAlt")
           s8 == Toggle(s7, to, "RightGUI")
<1>2. t = s8
  BY DEF SetModifiers, ToggleLeft, ToggleRight, to
<1> HIDE DEF s8, s7, s6, s5, s4, s3, s2, s1
<1>3. Towards(s, s1, to, {"LeftControl"})
  <2>1. Towards(s, s1, to, {} \cup {"LeftControl"})
    BY <1>0, <1>1, ToggleStep DEF s1
  <2>2. {} \cup {"LeftControl"} = {"LeftControl"}
    OBVIOUS
  <2>3. QED
    BY <2>1, <2>2
<1>4. Towards(s, s2, to, {"LeftControl"} \cup {"LeftShift"})
  BY <1>0, <1>3, ToggleStep DEF s2
<1>5. Towards(s, s3, to, {"LeftControl"} \cup {"LeftShift"} \cup {"LeftAlt"})
  BY <1>0, <1>4, ToggleStep DEF s3
<1>6. Towards(s, s4, to, {"LeftControl"} \cup {"LeftShift"} \cup {"LeftAlt"} \cup {"LeftGUI"})
  BY <1>0, <1>5, ToggleStep DEF s4
<1> DEFINE left == {"LeftControl"} \cup {"LeftShift"} \cup {"LeftAlt"} \cup {"LeftGUI"}
<1>7. left = {"LeftControl", "LeftShift", "LeftAlt", "LeftGUI"}
  OBVIOUS
<1>8. Towards(s, s4, to, left)
  BY <1>6
<1> HIDE DEF left
<1>9. Towards(s, s5, to, left \cup {"RightControl"})
  BY <1>0, <1>8, ToggleStep DEF s5
<1>10. Towards(s, s6, to, left \cup {"RightControl"} \cup {"RightShift"})
  BY <1>0, <1>9, ToggleStep DEF s6
<1>11. Towards(s, s7, to, left \cup {"RightControl"} \cup {"RightShift"} \cup {"RightAlt"})
  BY <1>0, <1>10, ToggleStep DEF s7
<1> DEFINE all == left \cup {"RightControl"} \cup {"RightShift"} \cup {"RightAlt"}
                  \cup {"RightGUI"}
<1>12. Towards(s, s8, to, all)
  BY <1>0, <1>11, ToggleStep DEF s8
<1>13. Mods \subseteq all
  BY <1>7, HIDPAssumption DEF AllMods
<1> HIDE DEF all
<1>14. t.modifiers = to
  <2>1. t.modifiers \in SUBSET Mods
    BY <1>2, <1>12 DEF Towards, Call
  <2>2. \A c \in Mods : c \in t.modifiers <=> c \in to
    BY <1>2, <1>12, <1>13 DEF Towards
  <2>3. QED
    BY <2>1, <2>2, <1>0
<1>15. QED
  BY <1>2, <1>12, <1>14 DEF Towards, to
-----------------------------------------------------------------------------
(* A step of a call that keeps the latches.                                *)
Reports(s, t) == t \in Call /\ SameLatches(s, t) /\ (Synced(s) => Synced(t))

(* A step of a call that moves the latches: it keeps everything in step    *)
(* when the user's fingers move from before to after.                      *)
Latches(s, t, before, after) ==
    /\ t \in Call
    /\ Latched(s, before) /\ Timed(s) => Latched(t, after) /\ Timed(t)
    /\ Synced(s) => Synced(t)

(* Such steps compose.                                                     *)
LEMMA LatchesCompose ==
    ASSUME NEW s, NEW t, NEW u, NEW f, NEW g, NEW h,
           Latches(s, t, f, g), Latches(t, u, g, h)
    PROVE  Latches(s, u, f, h)
  BY DEF Latches

(* Steps that restore the modifiers in the end move no latch.              *)
LEMMA ReportsLatch ==
    ASSUME NEW s, NEW t, NEW f, Reports(s, t), t.modifiers = s.modifiers
    PROVE  Latches(s, t, f, f)
<1>1. Latched(s, f) => Latched(t, f)
  BY DEF Reports, SameLatches, Latched
<1>2. Timed(s) => Timed(t)
  BY DEF Reports, SameLatches, Timed, Sticky
<1>3. QED
  BY <1>1, <1>2 DEF Reports, Latches

(* Steps that keep the latches compose.                                    *)
LEMMA ReportsCompose ==
    ASSUME NEW s, NEW t, NEW u, Reports(s, t), Reports(t, u)
    PROVE  Reports(s, u)
  BY DEF Reports, SameLatches

(* New latches st for fingers g, with a timer and modifiers that fit them. *)
LatchMove(s, st, timer, mods, f, g) ==
    /\ s \in Call /\ st \in [Mods -> ModStates] /\ timer \in 0 .. StickyTime
    /\ mods \in SUBSET Mods
    /\ Latched(s, f) => \A b \in Mods : Consistent(st[b], b \in mods, b \in g)
    /\ (\E b \in Mods : st[b] = "Sticky")
         => timer > 0 \/ (Sticky(s) # {} /\ timer = s.modtimer)

WithLatches(s, st, timer, mods) ==
    SetModifiers([s EXCEPT !.modstate = st, !.modtimer = timer], Bits(mods))

(* The latches are set first, and the modifiers reported after that.       *)
LEMMA LatchStep ==
    ASSUME NEW s, NEW st, NEW timer, NEW mods, NEW f, NEW g,
           LatchMove(s, st, timer, mods, f, g)
    PROVE  Latches(s, WithLatches(s, st, timer, mods), f, g)
<1> DEFINE t == WithLatches(s, st, timer, mods)
<1>0. /\ s \in Call /\ st \in [Mods -> ModStates] /\ timer \in 0 .. StickyTime
      /\ mods \in SUBSET Mods
  BY DEF LatchMove
<1> DEFINE u == [s EXCEPT !.modstate = st, !.modtimer = timer]
<1>1. /\ u \in Call /\ u.modifiers = s.modifiers /\ u.pressed = s.pressed
      /\ u.buttonState = s.buttonState /\ u.modstate = st /\ u.modtimer = timer
      /\ u.keyboard = s.keyboard /\ u.mouse = s.mouse
  BY <1>0 DEF Call
<1>2. t = SetModifiers(u, Bits(mods))
  BY DEF WithLatches
<1> HIDE DEF u, t
<1>3. Requested(u.modifiers, Bits(mods)) = mods
  BY DEF Requested, Bits
<1>4. /\ t \in Call /\ SameLatches(u, t) /\ t.modifiers = mods
      /\ (KeysTold(u) => KeysTold(t)) /\ (ButtonsTold(u) => ButtonsTold(t))
  BY <1>0, <1>1, <1>2, <1>3, SetModifiersStep
<1>5. Synced(s) => Synced(u)
  BY <1>1 DEF Synced, KeysTold, ButtonsTold, Told
<1>6. Latched(s, f) => Latched(t, g)
  BY <1>1, <1>4 DEF LatchMove, Latched, SameLatches
<1>7. Timed(s) => Timed(t)
  BY <1>1, <1>4 DEF LatchMove, Timed, Sticky, SameLatches
<1>8. QED
  BY <1>4, <1>5, <1>6, <1>7 DEF Latches, Synced, t

(* Pressing a modifier puts a finger on it.                                *)
LEMMA ModifierPressStep ==
    ASSUME NEW s \in Call, NEW b \in Mods, NEW f
    PROVE  Latches(s, ModifierPress(s, b), f, f \cup {b})
<1> DEFINE st == s.modstate[b]
           next == CASE st = "Released" -> "Pressed"
                     [] st = "Sticky"   -> "StickyPressed"
                     [] st = "Locked"   -> "LockedPressed"
                     [] OTHER           -> st
           mods == CASE st = "Released" -> s.modifiers \cup {b}
                     [] st = "Locked"   -> s.modifiers \ {b}
                     [] OTHER           -> s.modifiers
           states == [s.modstate EXCEPT ![b] = next]
<1>1. st \in ModStates /\ s.modifiers \in SUBSET Mods /\ s.modtimer \in 0 .. StickyTime
      /\ s.modstate \in [Mods -> ModStates]
  BY DEF Call
<1>2. next \in ModStates /\ next # "Sticky"
  BY <1>1 DEF ModStates
<1>3. mods \in SUBSET Mods
  BY <1>1
<1>4. Consistent(st, b \in s.modifiers, b \in f) => Consistent(next, b \in mods, TRUE)
  BY <1>1 DEF ModStates, Consistent
<1>5. \A c \in Mods : c # b => (c \in mods <=> c \in s.modifiers)
  OBVIOUS
<1>6. ModifierPress(s, b) = SetModifiers([s EXCEPT !.modstate[b] = next], Bits(mods))
  BY DEF ModifierPress
<1>7. ModifierPress(s, b) = WithLatches(s, states, s.modtimer, mods)
  <2>1. [s EXCEPT !.modstate[b] = next]
          = [s EXCEPT !.modstate = states, !.modtimer = s.modtimer]
    BY DEF Call
  <2>2. QED
    BY <2>1, <1>6 DEF WithLatches
<1> HIDE DEF next, mods
<1>8. states \in [Mods -> ModStates]
      /\ \A c \in Mods : states[c] = IF c = b THEN next ELSE s.modstate[c]
  BY <1>1, <1>2
<1> HIDE DEF states
<1>9. Latched(s, f) => \A c \in Mods : Consistent(states[c], c \in mods, c \in f \cup {b})
  <2> SUFFICES ASSUME Latched(s, f), NEW c \in Mods
               PROVE  Consistent(states[c], c \in mods, c \in f \cup {b})
    OBVIOUS
  <2>1. CASE c = b
    <3>1. Consistent(st, b \in s.modifiers, b \in f)
      BY DEF Latched
    <3>2. Consistent(next, b \in mods, TRUE)
      BY <3>1, <1>4
    <3>3. QED
      BY <3>2, <2>1, <1>8 DEF Consistent
  <2>2. CASE c # b
    <3>1. Consistent(s.modstate[c], c \in s.modifiers, c \in f)
      BY DEF Latched
    <3>2. QED
      BY <3>1, <2>2, <1>5, <1>8 DEF Consistent
  <2>3. QED
    BY <2>1, <2>2
<1>10. (\E c \in Mods : states[c] = "Sticky") => Sticky(s) # {}
  BY <1>2, <1>8 DEF Sticky
<1>11. LatchMove(s, states, s.modtimer, mods, f, f \cup {b})
  BY <1>1, <1>3, <1>8, <1>9, <1>10 DEF LatchMove
<1>12. QED
  BY <1>7, <1>11, LatchStep

(* Releasing a modifier takes the finger off, and starts the timer when    *)
(* it becomes sticky.                                                      *)
LEMMA ModifierReleaseStep ==
    ASSUME NEW s \in Call, NEW b \in Mods, NEW f
    PROVE  Latches(s, ModifierRelease(s, b), f, f \ {b})
<1> DEFINE st == s.modstate[b]
           next == CASE st = "Pressed"       -> "Sticky"
                     [] st = "StickyPressed" -> "Locked"
                     [] st = "Locked"        -> "Locked"
                     [] OTHER                -> "Released"
           mods == CASE st \in {"Released", "Sticky"} -> s.modifiers \ {b}
                     [] st = "Locked"                 -> s.modifiers \cup {b}
                     [] OTHER                         -> s.modifiers
           timer == IF st = "Pressed" THEN StickyTime ELSE s.modtimer
           states == [s.modstate EXCEPT ![b] = next]
<1>1. st \in ModStates /\ s.modifiers \in SUBSET Mods /\ s.modtimer \in 0 .. StickyTime
      /\ s.modstate \in [Mods -> ModStates]
  BY DEF Call
<1>2. next \in ModStates /\ (next = "Sticky" => st = "Pressed")
  BY <1>1 DEF ModStates
<1>3. mods \in SUBSET Mods
  BY <1>1
<1>4. Consistent(st, b \in s.modifiers, b \in f) => Consistent(next, b \in mods, FALSE)
  BY <1>1 DEF ModStates, Consistent
<1>5. \A c \in Mods : c # b => (c \in mods <=> c \in s.modifiers)
  OBVIOUS
<1>6. timer \in 0 .. StickyTime /\ (st = "Pressed" => timer > 0)
      /\ (st # "Pressed" => timer = s.modtimer)
  BY <1>1, HIDPAssumption
<1>7. ModifierRelease(s, b) = WithLatches(s, states, timer, mods)
  <2>1. ModifierRelease(s, b)
          = SetModifiers([s EXCEPT !.modstate[b] = next, !.modtimer = timer], Bits(mods))
    BY DEF ModifierRelease
  <2>2. [s EXCEPT !.modstate[b] = next, !.modtimer = timer]
          = [s EXCEPT !.modstate = states, !.modtimer = timer]
    BY DEF Call
  <2>3. QED
    BY <2>1, <2>2 DEF WithLatches
<1> HIDE DEF next, mods, timer
<1>8. states \in [Mods -> ModStates]
      /\ \A c \in Mods : states[c] = IF c = b THEN next ELSE s.modstate[c]
  BY <1>1, <1>2
<1> HIDE DEF states
<1>9. Latched(s, f) => \A c \in Mods : Consistent(states[c], c \in mods, c \in f \ {b})
  <2> SUFFICES ASSUME Latched(s, f), NEW c \in Mods
               PROVE  Consistent(states[c], c \in mods, c \in f \ {b})
    OBVIOUS
  <2>1. CASE c = b
    <3>1. Consistent(st, b \in s.modifiers, b \in f)
      BY DEF Latched
    <3>2. Consistent(next, b \in mods, FALSE)
      BY <3>1, <1>4
    <3>3. QED
      BY <3>2, <2>1, <1>8 DEF Consistent
  <2>2. CASE c # b
    <3>1. Consistent(s.modstate[c], c \in s.modifiers, c \in f)
      BY DEF Latched
    <3>2. QED
      BY <3>1, <2>2, <1>5, <1>8 DEF Consistent
  <2>3. QED
    BY <2>1, <2>2
<1>10. (\E c \in Mods : states[c] = "Sticky")
         => timer > 0 \/ (Sticky(s) # {} /\ timer = s.modtimer)
  BY <1>2, <1>6, <1>8 DEF Sticky
<1>11. LatchMove(s, states, timer, mods, f, f \ {b})
  BY <1>3, <1>6, <1>8, <1>9, <1>10 DEF LatchMove
<1>12. QED
  BY <1>7, <1>11, LatchStep

(* A typed key releases the sticky modifiers and uses up the others.       *)
LEMMA NormalKeyStep ==
    ASSUME NEW s \in Call, NEW f
    PROVE  Latches(s, NormalKey(s), f, f)
<1> DEFINE st == [b \in Mods |->
                     CASE s.modstate[b] \in {"Pressed", "Sticky", "StickyPressed"} -> "Released"
                       [] s.modstate[b] = "LockedPressed" -> "Locked"
                       [] OTHER -> s.modstate[b]]
           mods == s.modifiers \ Sticky(s)
<1>1. s.modifiers \in SUBSET Mods /\ s.modtimer \in 0 .. StickyTime
      /\ s.modstate \in [Mods -> ModStates]
  BY DEF Call
<1>2. \A b \in Mods : st[b] \in ModStates /\ st[b] # "Sticky"
  BY <1>1 DEF ModStates
<1>3. st \in [Mods -> ModStates] /\ mods \in SUBSET Mods
  BY <1>1, <1>2
<1>4. NormalKey(s) = WithLatches(s, st, s.modtimer, mods)
  <2>1. NormalKey(s) = SetModifiers([s EXCEPT !.modstate = st], Bits(mods))
    BY DEF NormalKey
  <2> HIDE DEF st
  <2>2. [s EXCEPT !.modstate = st] = [s EXCEPT !.modstate = st, !.modtimer = s.modtimer]
    BY DEF Call
  <2>3. QED
    BY <2>1, <2>2 DEF WithLatches
<1>5. Latched(s, f) => \A b \in Mods : Consistent(st[b], b \in mods, b \in f)
  <2> SUFFICES ASSUME Latched(s, f), NEW b \in Mods
               PROVE  Consistent(st[b], b \in mods, b \in f)
    OBVIOUS
  <2>1. Consistent(s.modstate[b], b \in s.modifiers, b \in f) /\ s.modstate[b] \in ModStates
    BY <1>1 DEF Latched
  <2>2. b \in mods <=> (b \in s.modifiers /\ s.modstate[b] # "Sticky")
    BY DEF Sticky
  <2>3. QED
    BY <2>1, <2>2 DEF Consistent, ModStates
<1> HIDE DEF st, mods
<1>6. LatchMove(s, st, s.modtimer, mods, f, f)
  BY <1>1, <1>2, <1>3, <1>5 DEF LatchMove
<1>7. QED
  BY <1>4, <1>6, LatchStep

(* The sticky timer releases all sticky modifiers.                         *)
LEMMA StickyTimerStep ==
    ASSUME NEW s \in Call, NEW f
    PROVE  Latches(s, StickyTimer(s), f, f)
<1> DEFINE st == [b \in Mods |->
                     IF s.modstate[b] = "Sticky" THEN "Released" ELSE s.modstate[b]]
           mods == s.modifiers \ Sticky(s)
<1>1. s.modifiers \in SUBSET Mods /\ 0 \in 0 .. StickyTime
      /\ s.modstate \in [Mods -> ModStates]
  BY HIDPAssumption DEF Call
<1>2. \A b \in Mods : st[b] \in ModStates /\ st[b] # "Sticky"
  BY <1>1 DEF ModStates
<1>3. st \in [Mods -> ModStates] /\ mods \in SUBSET Mods
  BY <1>1, <1>2
<1>4. StickyTimer(s) = WithLatches(s, st, 0, mods)
  <2>1. StickyTimer(s) = SetModifiers([s EXCEPT !.modtimer = 0, !.modstate = st], Bits(mods))
    BY DEF StickyTimer
  <2> HIDE DEF st
  <2>2. [s EXCEPT !.modtimer = 0, !.modstate = st] = [s EXCEPT !.modstate = st, !.modtimer = 0]
    BY DEF Call
  <2>3. QED
    BY <2>1, <2>2 DEF WithLatches
<1>5. Latched(s, f) => \A b \in Mods : Consistent(st[b], b \in mods, b \in f)
  <2> SUFFICES ASSUME Latched(s, f), NEW b \in Mods
               PROVE  Consistent(st[b], b \in mods, b \in f)
    OBVIOUS
  <2>1. Consistent(s.modstate[b], b \in s.modifiers, b \in f) /\ s.modstate[b] \in ModStates
    BY <1>1 DEF Latched
  <2>2. b \in mods <=> (b \in s.modifiers /\ s.modstate[b] # "Sticky")
    BY DEF Sticky
  <2>3. QED
    BY <2>1, <2>2 DEF Consistent, ModStates
<1> HIDE DEF st, mods
<1>6. LatchMove(s, st, 0, mods, f, f)
  BY <1>1, <1>2, <1>3, <1>5 DEF LatchMove
<1>7. QED
  BY <1>4, <1>6, LatchStep

(* HIDPKeyboard for a modifier key: presses and releases of it.            *)
LEMMA HIDPModifierStep ==
    ASSUME NEW s \in Call, NEW a \in Actions, NEW b \in Mods, NEW f
    PROVE  Latches(s, HIDPModifier(s, a, b), f, IF a = "Press" THEN f \cup {b} ELSE f \ {b})
<1>1. ASSUME NEW r \in Call, NEW g
      PROVE  Latches(r, ModifierRelease(ModifierPress(r, b), b), g, g \ {b})
  <2>1. Latches(r, ModifierPress(r, b), g, g \cup {b})
    BY ModifierPressStep
  <2>2. ModifierPress(r, b) \in Call
    BY <2>1 DEF Latches
  <2>3. Latches(ModifierPress(r, b), ModifierRelease(ModifierPress(r, b), b),
                g \cup {b}, (g \cup {b}) \ {b})
    BY <2>2, ModifierReleaseStep
  <2>4. (g \cup {b}) \ {b} = g \ {b}
    OBVIOUS
  <2>5. QED
    BY <2>1, <2>3, <2>4, LatchesCompose
<1>2. CASE a = "Press"
  BY <1>2, ModifierPressStep DEF HIDPModifier
<1>3. CASE a = "Release"
  BY <1>3, ModifierReleaseStep DEF HIDPModifier
<1>4. CASE a = "Click"
  BY <1>4, <1>1 DEF HIDPModifier
<1>5. CASE a = "DoubleClick"
  <2> DEFINE t == ModifierRelease(ModifierPress(s, b), b)
             u == ModifierRelease(ModifierPress(t, b), b)
  <2>1. Latches(s, t, f, f \ {b})
    BY <1>1
  <2>2. t \in Call
    BY <2>1 DEF Latches
  <2> HIDE DEF t
  <2>3. Latches(t, u, f \ {b}, (f \ {b}) \ {b})
    BY <1>1, <2>2
  <2>4. (f \ {b}) \ {b} = f \ {b}
    OBVIOUS
  <2>5. HIDPModifier(s, a, b) = u
    BY <1>5 DEF HIDPModifier, t
  <2> HIDE DEF u
  <2>6. Latches(s, u, f, f \ {b})
    BY <2>1, <2>3, <2>4, LatchesCompose
  <2>7. QED
    BY <2>5, <2>6, <1>5
<1>6. QED
  BY <1>2, <1>3, <1>4, <1>5 DEF Actions
-----------------------------------------------------------------------------
(* Keys that go down or up are reported at once.                           *)
LEMMA ChangeKeys ==
    ASSUME NEW s \in Call, NEW p \in KeyBuffer
    PROVE  Reports(s, SendKeys([s EXCEPT !.pressed = p]))
<1> DEFINE u == [s EXCEPT !.pressed = p]
           t == SendKeys(u)
<1>1. u \in Call /\ SameLatches(s, u) /\ u.buttonState = s.buttonState /\ u.mouse = s.mouse
  BY DEF Call, SameLatches
<1> HIDE DEF u
<1>2. /\ t \in Call /\ SameLatches(u, t) /\ t.buttonState = u.buttonState
      /\ KeysTold(t) /\ (ButtonsTold(u) => ButtonsTold(t))
  BY <1>1, SendKeysStep
<1> HIDE DEF t
<1>3. ButtonsTold(s) => ButtonsTold(u)
  BY <1>1 DEF ButtonsTold, Told
<1>4. Reports(s, t)
  BY <1>1, <1>2, <1>3 DEF Reports, SameLatches, Synced
<1>5. QED
  BY <1>4 DEF t, u

(* Buttons that go down or up are reported at once.                        *)
LEMMA ChangeButtons ==
    ASSUME NEW s \in Call, NEW d \in SUBSET Buttons
    PROVE  Reports(s, SendMouse([s EXCEPT !.buttonState = d]))
<1> DEFINE u == [s EXCEPT !.buttonState = d]
           t == SendMouse(u)
<1>1. /\ u \in Call /\ SameLatches(s, u) /\ u.modifiers = s.modifiers
      /\ u.pressed = s.pressed /\ u.keyboard = s.keyboard
  BY DEF Call, SameLatches
<1> HIDE DEF u
<1>2. /\ t \in Call /\ SameLatches(u, t)
      /\ ButtonsTold(t) /\ (KeysTold(u) => KeysTold(t))
  BY <1>1, SendMouseStep
<1> HIDE DEF t
<1>3. KeysTold(s) => KeysTold(u)
  BY <1>1 DEF KeysTold, Told
<1>4. Reports(s, t)
  BY <1>1, <1>2, <1>3 DEF Reports, SameLatches, Synced
<1>5. QED
  BY <1>4 DEF t, u

(* A report of what has not changed.                                       *)
LEMMA JustReport ==
    ASSUME NEW s \in Call
    PROVE  Reports(s, SendKeys(s)) /\ Reports(s, SendMouse(s)) /\ Reports(s, s)
<1>1. Reports(s, SendKeys(s))
  BY SendKeysStep DEF Reports, Synced
<1>2. Reports(s, SendMouse(s))
  BY SendMouseStep DEF Reports, Synced
<1>3. QED
  BY <1>1, <1>2 DEF Reports, SameLatches

(* HIDPKeyboard's part for a press: a key is remembered, or was already.   *)
LEMMA PressStep ==
    ASSUME NEW s \in Call, NEW k \in Keys
    PROVE  Reports(s, Press(s, k))
<1>1. CASE KeyPressed(s, k) \/ Len(s.pressed) = KeyBufferSize
  BY <1>1, JustReport DEF Press
<1>2. CASE ~ (KeyPressed(s, k) \/ Len(s.pressed) = KeyBufferSize)
  <2>1. Append(s.pressed, k) \in KeyBuffer
    <3>1. /\ s.pressed \in Seq(Keys) /\ Len(s.pressed) <= KeyBufferSize
          /\ Len(s.pressed) # KeyBufferSize
      BY <1>2 DEF Call, KeyBuffer
    <3>2. /\ Append(s.pressed, k) \in Seq(Keys)
          /\ Len(Append(s.pressed, k)) = Len(s.pressed) + 1
      BY <3>1
    <3>3. Len(Append(s.pressed, k)) <= KeyBufferSize
      BY <3>1, <3>2, HIDPAssumption
    <3>4. QED
      BY <3>2, <3>3 DEF KeyBuffer
  <2>2. Press(s, k) = SendKeys([s EXCEPT !.pressed = Append(s.pressed, k)])
    BY <1>2 DEF Press
  <2>3. QED
    BY <2>1, <2>2, ChangeKeys
<1>3. QED
  BY <1>1, <1>2

(* Taking an element out of a sequence leaves a shorter sequence.          *)
LEMMA WithoutType ==
    ASSUME NEW keys \in Seq(Keys), Len(keys) > 0, NEW i
    PROVE  Without(keys, i) \in Seq(Keys) /\ Len(Without(keys, i)) = Len(keys) - 1
<1>1. Len(keys) - 1 \in Nat
  OBVIOUS
<1>2. ASSUME NEW j \in 1 .. Len(keys) - 1
      PROVE  (IF j < i THEN keys[j] ELSE keys[j + 1]) \in Keys
  <2>1. keys[j] \in Keys /\ keys[j + 1] \in Keys
    OBVIOUS
  <2>2. QED
    BY <2>1
<1>3. QED
  BY <1>1, <1>2 DEF Without

(* And for a release: a key that was remembered is forgotten.              *)
LEMMA ReleaseStep ==
    ASSUME NEW s \in Call, NEW k \in Keys
    PROVE  Reports(s, Release(s, k))
<1>1. CASE ~ KeyPressed(s, k)
  BY <1>1, JustReport DEF Release
<1>2. CASE KeyPressed(s, k)
  <2> DEFINE first == CHOOSE i \in 1 .. Len(s.pressed) :
                          s.pressed[i] = k /\ \A j \in 1 .. i - 1 : s.pressed[j] # k
             p == Without(s.pressed, first)
  <2>1. s.pressed \in Seq(Keys) /\ Len(s.pressed) <= KeyBufferSize
    BY DEF Call, KeyBuffer
  <2>2. Len(s.pressed) > 0
    BY <2>1, <1>2 DEF KeyPressed
  <2>3. Release(s, k) = SendKeys([s EXCEPT !.pressed = p])
    BY <1>2 DEF Release
  <2> HIDE DEF first
  <2>4. p \in KeyBuffer
    <3>1. p \in Seq(Keys) /\ Len(p) = Len(s.pressed) - 1
      BY <2>1, <2>2, WithoutType
    <3>2. Len(p) <= KeyBufferSize
      BY <2>1, <3>1, HIDPAssumption
    <3>3. QED
      BY <3>1, <3>2 DEF KeyBuffer
  <2> HIDE DEF p
  <2>5. QED
    BY <2>3, <2>4, ChangeKeys
<1>3. QED
  BY <1>1, <1>2

(* Typing and clicking consist of such reports.                            *)
LEMMA TypedStep ==
    ASSUME NEW s \in Call, NEW a \in Actions, NEW k \in Keys
    PROVE  Reports(s, Typed(s, a, k))
<1>1. ASSUME NEW r \in Call
      PROVE  Reports(r, Release(Press(r, k), k))
  <2>1. Reports(r, Press(r, k))
    BY PressStep
  <2>2. Press(r, k) \in Call
    BY <2>1 DEF Reports
  <2>3. Reports(Press(r, k), Release(Press(r, k), k))
    BY <2>2, ReleaseStep
  <2>4. QED
    BY <2>1, <2>3, ReportsCompose
<1>2. CASE a = "Press"
  BY <1>2, PressStep DEF Typed
<1>3. CASE a = "Release"
  BY <1>3, ReleaseStep DEF Typed
<1>4. CASE a = "Click"
  BY <1>4, <1>1 DEF Typed
<1>5. CASE a = "DoubleClick"
  <2> DEFINE t == Release(Press(s, k), k)
             u == Release(Press(t, k), k)
  <2>1. Reports(s, t)
    BY <1>1
  <2>2. t \in Call
    BY <2>1 DEF Reports
  <2> HIDE DEF t
  <2>3. Reports(t, u)
    BY <1>1, <2>2
  <2>4. Typed(s, a, k) = u
    BY <1>5 DEF Typed, t
  <2> HIDE DEF u
  <2>5. QED
    BY <2>1, <2>3, <2>4, ReportsCompose
<1>6. QED
  BY <1>2, <1>3, <1>4, <1>5 DEF Actions

(* The masks of the callers ask for modifiers that exist.                  *)
LEMMA RequestedType ==
    ASSUME NEW mods \in SUBSET Mods, NEW m \in Masks
    PROVE  Requested(mods, m) \in SUBSET Mods
<1>1. m \in MaskType
  BY HIDPAssumption
<1>2. CASE ~ m.current
  <2>1. m.bits \in SUBSET Mods
    BY <1>1, <1>2 DEF MaskType
  <2>2. QED
    BY <2>1, <1>2 DEF Requested
<1>3. CASE m.current
  <2>1. "ShiftOn" \in m.bits => "LeftShift" \in Mods
    BY <1>3, HIDPAssumption
  <2>2. "RightAltOn" \in m.bits => "RightAlt" \in Mods
    BY <1>3, HIDPAssumption
  <2>3. QED
    BY <1>3, <2>1, <2>2 DEF Requested
<1>4. QED
  BY <1>2, <1>3

(* SetModifiers keeps the latches and the host in step.                    *)
LEMMA SetModifiersReports ==
    ASSUME NEW s \in Call, NEW m, Requested(s.modifiers, m) \in SUBSET Mods
    PROVE  /\ Reports(s, SetModifiers(s, m))
           /\ SetModifiers(s, m).modifiers = Requested(s.modifiers, m)
  BY SetModifiersStep DEF Reports, Synced

(* Modifiers that were borrowed for a step are given back after it.        *)
LEMMA Borrowed ==
    ASSUME NEW s \in Call, NEW m \in Masks, NEW t, Reports(SetModifiers(s, m), t), NEW f
    PROVE  Latches(s, SetModifiers(t, Bits(s.modifiers)), f, f)
<1> DEFINE u == SetModifiers(t, Bits(s.modifiers))
<1>1. s.modifiers \in SUBSET Mods
  BY DEF Call
<1>2. Reports(s, SetModifiers(s, m))
  BY <1>1, RequestedType, SetModifiersReports
<1>3. t \in Call
  BY DEF Reports
<1>4. Requested(t.modifiers, Bits(s.modifiers)) = s.modifiers
  BY DEF Requested, Bits
<1>5. Reports(t, u) /\ u.modifiers = s.modifiers
  BY <1>1, <1>3, <1>4, SetModifiersReports
<1> HIDE DEF u
<1>6. Reports(s, u)
  BY <1>2, <1>5, ReportsCompose
<1>7. Latches(s, u, f, f)
  BY <1>5, <1>6, ReportsLatch
<1>8. QED
  BY <1>7 DEF u

(* A keystroke keeps the latches in step, with its borrowed modifiers.     *)
LEMMA HIDPKeyboardStep ==
    ASSUME NEW s \in Call, NEW a \in Actions, NEW k \in Keys, NEW m \in Masks, NEW f
    PROVE  Latches(s, HIDPKeyboard(s, a, k, m), f, f)
<1> DEFINE set == SetModifiers(s, m)
           t == Typed(set, a, k)
           restored == SetModifiers(t, Bits(s.modifiers))
<1>1. s.modifiers \in SUBSET Mods
  BY DEF Call
<1>2. set \in Call
  BY <1>1, RequestedType, SetModifiersReports DEF Reports
<1>3. Reports(set, t)
  BY <1>2, TypedStep
<1>4. Latches(s, restored, f, f)
  BY <1>3, Borrowed
<1>5. restored \in Call
  BY <1>4 DEF Latches
<1>6. HIDPKeyboard(s, a, k, m)
        = IF a # "Press" /\ m.current THEN NormalKey(restored) ELSE restored
  BY DEF HIDPKeyboard
<1> HIDE DEF restored
<1>7. Latches(restored, NormalKey(restored), f, f)
  BY <1>5, NormalKeyStep
<1>8. Latches(s, NormalKey(restored), f, f)
  BY <1>4, <1>7, LatchesCompose
<1>9. QED
  BY <1>4, <1>6, <1>8

(* So does a mouse button.                                                 *)
LEMMA HIDPButtonStep ==
    ASSUME NEW s \in Call, NEW a \in Actions, NEW n \in Buttons, NEW m \in Masks, NEW f
    PROVE  Latches(s, HIDPButton(s, a, n, m), f, f)
<1> DEFINE set == SetModifiers(s, m)
           tap == ButtonTap(set, n)
           done == CASE a = "Press"       -> ButtonDown(set, n)
                     [] a = "Release"     -> ButtonUp(set, n)
                     [] a = "Click"       -> SendMouse(tap)
                     [] a = "DoubleClick" -> SendMouse(ButtonTap(tap, n))
<1>1. s.modifiers \in SUBSET Mods
  BY DEF Call
<1>2. set \in Call
  BY <1>1, RequestedType, SetModifiersReports DEF Reports
<1>3. HIDPButton(s, a, n, m) = SetModifiers(done, Bits(s.modifiers))
  BY DEF HIDPButton
<1> HIDE DEF set
<1>4. ASSUME NEW r \in Call
      PROVE  /\ Reports(r, ButtonDown(r, n)) /\ ButtonDown(r, n) \in Call
             /\ Reports(r, ButtonUp(r, n)) /\ ButtonUp(r, n) \in Call
  <2>1. r.buttonState \cup {n} \in SUBSET Buttons /\ r.buttonState \ {n} \in SUBSET Buttons
    BY DEF Call
  <2>2. Reports(r, ButtonDown(r, n))
    BY <2>1, ChangeButtons DEF ButtonDown
  <2>3. Reports(r, ButtonUp(r, n))
    BY <2>1, ChangeButtons DEF ButtonUp
  <2>4. QED
    BY <2>2, <2>3 DEF Reports
<1>5. ASSUME NEW r \in Call
      PROVE  Reports(r, ButtonTap(r, n)) /\ ButtonTap(r, n) \in Call
  <2> DEFINE d == ButtonDown(r, n)
  <2>1. Reports(r, d) /\ d \in Call
    BY <1>4
  <2> HIDE DEF d
  <2>2. Reports(d, ButtonUp(d, n)) /\ ButtonUp(d, n) \in Call
    BY <2>1, <1>4
  <2>3. ButtonTap(r, n) = ButtonUp(d, n)
    BY DEF ButtonTap, d
  <2>4. QED
    BY <2>1, <2>2, <2>3, ReportsCompose
<1>6. Reports(set, tap) /\ tap \in Call
  BY <1>2, <1>5
<1> HIDE DEF tap
<1>7. Reports(tap, ButtonTap(tap, n)) /\ ButtonTap(tap, n) \in Call
  BY <1>6, <1>5
<1>8. Reports(set, ButtonTap(tap, n))
  BY <1>6, <1>7, ReportsCompose
<1>9. Reports(set, SendMouse(tap)) /\ Reports(set, SendMouse(ButtonTap(tap, n)))
  BY <1>6, <1>7, <1>8, JustReport, ReportsCompose
<1>10. Reports(set, done)
  BY <1>2, <1>4, <1>9 DEF Actions
<1> HIDE DEF done
<1>11. QED
  BY <1>3, <1>10, Borrowed DEF set
-----------------------------------------------------------------------------
(* A full report brings any host into step.                                *)
LEMMA FullReport ==
    ASSUME NEW s \in Call, NEW t, t = HIDPSendReport(s, TRUE)
    PROVE  /\ t \in Call /\ SameLatches(s, t) /\ t.modifiers = s.modifiers
           /\ t.pressed = s.pressed /\ t.buttonState = s.buttonState /\ Synced(t)
           /\ ~ t.posChanged
<1> DEFINE u == SendMouse(s)
<1>1. /\ u \in Call /\ SameLatches(s, u) /\ u.modifiers = s.modifiers
      /\ u.pressed = s.pressed /\ u.buttonState = s.buttonState /\ ButtonsTold(u)
      /\ ~ u.posChanged
  BY SendMouseStep
<1>2. t = SendKeys(u)
  BY DEF HIDPSendReport
<1> HIDE DEF u
<1>3. QED
  BY <1>1, <1>2, SendKeysStep DEF SameLatches, Synced

(* Motion is reported without touching a latch.                            *)
LEMMA MotionReport ==
    ASSUME NEW s \in Call, NEW f
    PROVE  Latches(s, HIDPSendReport(s, FALSE), f, f)
<1>1. /\ Reports(s, SendMouse(s)) /\ SendMouse(s).modifiers = s.modifiers
      /\ Reports(s, s)
  BY JustReport, SendMouseStep
<1>2. Latches(s, SendMouse(s), f, f) /\ Latches(s, s, f, f)
  BY <1>1, ReportsLatch
<1>3. QED
  BY <1>2 DEF HIDPSendReport

(* A reset leaves every latch released, which suits any fingers.           *)
LEMMA HIDPResetStep ==
    ASSUME NEW s \in Call, NEW f
    PROVE  /\ Latches(s, HIDPReset(s), f, f)
           /\ HIDPReset(s).pressed = <<>> /\ ~ HIDPReset(s).posChanged
<1> DEFINE n == Len(s.pressed)
           ups == [i \in 1 .. n |-> KeyReport(s.modifiers, SubSeq(s.pressed, 1, n - i))]
           keys == s.keyboard \o ups
           released == [s EXCEPT !.pressed = <<>>, !.keyboard = keys]
           off == SetModifiers(released, Bits({}))
           cleared == [off EXCEPT !.modstate = [b \in Mods |-> "Released"], !.modtimer = 0,
                                  !.X = 0, !.buttonState = {}]
           t == HIDPSendReport(cleared, TRUE)
<1>0. HIDPReset(s) = t
  BY DEF HIDPReset
<1>1. s.pressed \in Seq(Keys) /\ s.modifiers \in SUBSET Mods /\ s.keyboard \in Seq(ReportType)
  BY DEF Call, KeyBuffer
<1>2. n \in Nat /\ \A i \in 1 .. n : SubSeq(s.pressed, 1, n - i) \in Seq(Keys)
  BY <1>1
<1>3. \A i \in 1 .. n : KeyReport(s.modifiers, SubSeq(s.pressed, 1, n - i)) \in ReportType
  BY <1>1, <1>2, KeyReportType
<1>4. ups \in Seq(ReportType)
  BY <1>2, <1>3
<1> HIDE DEF ups
<1>5. keys \in Seq(ReportType)
  BY <1>1, <1>4
<1> HIDE DEF keys
<1>6. released \in Call /\ released.pressed = <<>>
  <2>1. <<>> \in KeyBuffer
    BY HIDPAssumption DEF KeyBuffer
  <2> DEFINE none == <<>>
  <2> HIDE DEF none
  <2>2. [s EXCEPT !.pressed = none, !.keyboard = keys] \in Call
        /\ [s EXCEPT !.pressed = none, !.keyboard = keys].pressed = none
    BY <1>5, <2>1 DEF Call, none
  <2>3. QED
    BY <2>2 DEF none
<1> HIDE DEF released
<1>7. Requested(released.modifiers, Bits({})) = {}
  BY DEF Requested, Bits
<1>8. off \in Call /\ off.modifiers = {} /\ off.pressed = <<>>
  BY <1>6, <1>7, SetModifiersStep
<1> HIDE DEF off
<1>9. /\ cleared \in Call /\ cleared.modifiers = {} /\ cleared.modtimer = 0
      /\ cleared.modstate = [b \in Mods |-> "Released"] /\ cleared.pressed = <<>>
  <2> DEFINE rest == [b \in Mods |-> "Released"]
  <2>1. rest \in [Mods -> ModStates]
    BY DEF ModStates
  <2>2. 0 \in 0 .. StickyTime /\ 0 \in Int /\ {} \in SUBSET Buttons
    BY HIDPAssumption
  <2> DEFINE u == [off EXCEPT !.modstate = rest, !.modtimer = 0, !.X = 0, !.buttonState = {}]
  <2>3. cleared = u
    OBVIOUS
  <2> HIDE DEF rest, cleared
  <2>4. u \in Call /\ u.modifiers = off.modifiers /\ u.modtimer = 0 /\ u.modstate = rest
        /\ u.pressed = off.pressed
    BY <1>8, <2>1, <2>2 DEF Call
  <2> HIDE DEF u
  <2>5. QED
    BY <1>8, <2>3, <2>4 DEF rest
<1> HIDE DEF cleared
<1>10. t \in Call /\ SameLatches(cleared, t) /\ t.modifiers = {} /\ Synced(t)
       /\ t.pressed = <<>> /\ ~ t.posChanged
  BY <1>9, FullReport
<1> HIDE DEF t
<1>11. \A b \in Mods : t.modstate[b] = "Released" /\ b \notin t.modifiers
  BY <1>9, <1>10 DEF SameLatches
<1>12. Latched(t, f) /\ Timed(t)
  BY <1>11 DEF Latched, Consistent, Timed, Sticky
<1>13. QED
  BY <1>0, <1>10, <1>12 DEF Latches
-----------------------------------------------------------------------------
(* The inductive invariant.                                                *)
IInv == TypeOK /\ ModConsistent /\ StickyTimed /\ HostInSync

(* Between two calls no report is pending.                                 *)
LEMMA Between ==
    ASSUME TypeOK
    PROVE  /\ hidp \in Call /\ hidp.keyboard = <<>> /\ hidp.mouse = <<>>
           /\ Told(hidp).keyboard = host.keyboard /\ Told(hidp).buttons = host.buttons
<1>1. hidp \in Call /\ hidp.keyboard = <<>> /\ hidp.mouse = <<>>
  <2>1. {<<>>} \subseteq Seq(ReportType) /\ {<<>>} \subseteq Seq(MouseReport)
    OBVIOUS
  <2> DEFINE empty == {<<>>}
  <2>2. empty \subseteq Seq(ReportType) /\ empty \subseteq Seq(MouseReport)
    BY <2>1
  <2>3. hidp \in [modifiers : SUBSET Mods, modstate : [Mods -> ModStates],
                  modtimer : 0 .. StickyTime, pressed : KeyBuffer,
                  buttonState : SUBSET Buttons, X : Int, posChanged : BOOLEAN,
                  keyboard : empty, mouse : empty]
    BY DEF TypeOK
  <2> HIDE DEF empty
  <2>4. hidp \in Call /\ hidp.keyboard \in empty /\ hidp.mouse \in empty
    BY <2>2, <2>3 DEF Call
  <2>5. QED
    BY <2>4 DEF empty
<1>2. QED
  BY <1>1 DEF Told

(* What a call tells the host is a report.                                 *)
LEMMA ToldType ==
    ASSUME TypeOK, NEW s \in Call
    PROVE  Told(s) \in [keyboard : ReportType, buttons : SUBSET Buttons]
<1>1. s.keyboard \in Seq(ReportType) /\ s.mouse \in Seq(MouseReport)
  BY DEF Call
<1>2. s.keyboard # <<>> => s.keyboard[Len(s.keyboard)] \in ReportType
  BY <1>1
<1>3. s.mouse # <<>> => s.mouse[Len(s.mouse)] \in MouseReport
  BY <1>1
<1>4. host.keyboard \in ReportType /\ host.buttons \in SUBSET Buttons
  BY DEF TypeOK
<1>5. s.mouse # <<>> => s.mouse[Len(s.mouse)].buttons \in SUBSET Buttons
  BY <1>3 DEF MouseReport
<1>6. QED
  BY <1>2, <1>4, <1>5 DEF Told

(* What is stored when a call is over.                                     *)
Stored(s) == [s EXCEPT !.keyboard = <<>>, !.mouse = <<>>]

(* Storing a call keeps its state.                                         *)
LEMMA StoredStep ==
    ASSUME NEW s \in Call
    PROVE  /\ Stored(s) \in [modifiers : SUBSET Mods, modstate : [Mods -> ModStates],
                  modtimer : 0 .. StickyTime, pressed : KeyBuffer,
                  buttonState : SUBSET Buttons, X : Int, posChanged : BOOLEAN,
                  keyboard : {<<>>}, mouse : {<<>>}]
           /\ SameLatches(s, Stored(s)) /\ Stored(s).modifiers = s.modifiers
           /\ Stored(s).pressed = s.pressed /\ Stored(s).buttonState = s.buttonState
  BY DEF Call, Stored, SameLatches

(* A call that leaves latches and fingers in step, the host told if it is  *)
(* connected, and nothing else of the wrong type, preserves the invariant. *)
LEMMA CallStep ==
    ASSUME IInv, NEW s, Latches(hidp, s, held, held'), hidp' = Stored(s),
           held' \in SUBSET Mods, down' \in SUBSET Keys, linked' \in BOOLEAN,
           busy' \in BOOLEAN,
           host' \in [keyboard : ReportType, buttons : SUBSET Buttons],
           linked' => host' = Told(s) /\ Synced(s)
    PROVE  IInv'
<1>1. s \in Call /\ Latched(s, held') /\ Timed(s)
  <2>1. Latched(hidp, held) /\ Timed(hidp)
    BY DEF IInv, ModConsistent, Latched, StickyTimed, Timed
  <2>2. QED
    BY <2>1 DEF Latches
<1>2. TypeOK'
  BY <1>1, StoredStep DEF TypeOK
<1>3. /\ hidp'.modstate = s.modstate /\ hidp'.modtimer = s.modtimer
      /\ hidp'.modifiers = s.modifiers /\ hidp'.pressed = s.pressed
      /\ hidp'.buttonState = s.buttonState
  BY <1>1, StoredStep DEF SameLatches
<1>4. ModConsistent'
  BY <1>1, <1>3 DEF ModConsistent, Latched
<1>5. StickyTimed'
  BY <1>1, <1>3 DEF StickyTimed, Timed, Sticky
<1>6. HostInSync'
  BY <1>3 DEF HostInSync, Synced, KeysTold, ButtonsTold
<1>7. QED
  BY <1>2, <1>4, <1>5, <1>6 DEF IInv

(* In particular a call of the user, the timer or the host.                *)
LEMMA DoneStep ==
    ASSUME IInv, NEW s, Latches(hidp, s, held, held'), Done(s),
           held' \in SUBSET Mods, down' \in SUBSET Keys, linked' = linked
    PROVE  IInv'
<1>1. s \in Call
  BY DEF Latches
<1>2. TypeOK
  BY DEF IInv
<1>3. hidp' = Stored(s) /\ host' = (IF linked THEN Told(s) ELSE host)
  BY DEF Done, Stored
<1>4. linked' \in BOOLEAN /\ busy' \in BOOLEAN
  <2>1. linked' \in BOOLEAN
    BY <1>2 DEF TypeOK
  <2>2. busy' = (linked /\ (busy \/ s.keyboard # <<>> \/ s.mouse # <<>>))
    BY DEF Done
  <2>3. QED
    BY <2>1, <2>2
<1>5. host' \in [keyboard : ReportType, buttons : SUBSET Buttons]
  <2>1. Told(s) \in [keyboard : ReportType, buttons : SUBSET Buttons]
    BY <1>1, <1>2, ToldType
  <2>2. host \in [keyboard : ReportType, buttons : SUBSET Buttons]
    BY <1>2 DEF TypeOK
  <2>3. QED
    BY <1>3, <2>1, <2>2
<1>6. linked' => host' = Told(s) /\ Synced(s)
  <2> SUFFICES ASSUME linked PROVE host' = Told(s) /\ Synced(s)
    OBVIOUS
  <2>1. Synced(hidp)
    BY <1>2, Between DEF IInv, HostInSync, Synced, KeysTold, ButtonsTold
  <2>2. QED
    BY <2>1, <1>3 DEF Latches
<1>7. QED
  BY <1>3, <1>4, <1>5, <1>6, CallStep

(* The invariant holds after f_HIDPInit.                                   *)
LEMMA InitStep == HIDPInit => IInv
<1> SUFFICES ASSUME HIDPInit PROVE IInv
  OBVIOUS
<1> DEFINE rest == [b \in Mods |-> "Released"]
           none == <<>>
<1>1. rest \in [Mods -> ModStates] /\ none \in KeyBuffer /\ none \in Seq(Keys)
  BY HIDPAssumption DEF ModStates, KeyBuffer
<1>2. 0 \in 0 .. StickyTime
  BY HIDPAssumption
<1>3. /\ hidp = [modifiers |-> {}, modstate |-> rest, modtimer |-> 0, pressed |-> none,
                buttonState |-> {}, X |-> 0, posChanged |-> FALSE,
                keyboard |-> none, mouse |-> none]
      /\ held = {} /\ down = {} /\ linked = FALSE /\ busy = FALSE /\ host = Nobody
  BY DEF HIDPInit, NewHIDP
<1>4. none \in {<<>>}
  OBVIOUS
<1>5. Nobody \in [keyboard : ReportType, buttons : SUBSET Buttons]
  <2>1. KeyReport({}, <<>>) \in ReportType
    BY <1>1, KeyReportType
  <2>2. QED
    BY <2>1 DEF Nobody
<1>6. \A b \in Mods : rest[b] = "Released"
  OBVIOUS
<1> DEFINE empty == {<<>>}
<1> HIDE DEF rest, none, empty
<1>7. hidp \in [modifiers : SUBSET Mods, modstate : [Mods -> ModStates],
                modtimer : 0 .. StickyTime, pressed : KeyBuffer,
                buttonState : SUBSET Buttons, X : Int, posChanged : BOOLEAN,
                keyboard : empty, mouse : empty]
  BY <1>1, <1>2, <1>3, <1>4 DEF empty
<1>8. TypeOK
  BY <1>3, <1>5, <1>7 DEF TypeOK, empty
<1>9. ModConsistent /\ StickyTimed /\ HostInSync
  BY <1>3, <1>6 DEF ModConsistent, Consistent, StickyTimed, Sticky, HostInSync
<1>10. QED
  BY <1>8, <1>9 DEF IInv

(* The timer counts down without touching anything else.                   *)
LEMMA CountDown ==
    ASSUME IInv, hidp.modtimer > 1
    PROVE  Latches(hidp, [hidp EXCEPT !.modtimer = @ - 1], held, held)
<1> DEFINE left == hidp.modtimer - 1
           s == [hidp EXCEPT !.modtimer = left]
<1>1. hidp \in Call /\ hidp.modtimer \in 0 .. StickyTime
  BY Between DEF IInv, Call
<1>2. left \in 0 .. StickyTime /\ left > 0
  BY <1>1, HIDPAssumption
<1> HIDE DEF left
<1>3. /\ s \in Call /\ s.modtimer = left /\ s.modifiers = hidp.modifiers
      /\ s.modstate = hidp.modstate /\ s.pressed = hidp.pressed
      /\ s.buttonState = hidp.buttonState /\ s.keyboard = hidp.keyboard
      /\ s.mouse = hidp.mouse
  BY <1>1, <1>2 DEF Call
<1>4. Latched(hidp, held) => Latched(s, held)
  BY <1>3 DEF Latched
<1>5. Synced(hidp) => Synced(s)
  BY <1>3 DEF Synced, KeysTold, ButtonsTold, Told
<1>6. Timed(s)
  BY <1>2, <1>3 DEF Timed
<1> HIDE DEF s
<1>7. Latches(hidp, s, held, held)
  BY <1>3, <1>4, <1>5, <1>6 DEF Latches
<1>8. QED
  BY <1>7 DEF s, left

(* Motion is collected, and sent if the channel is idle.                   *)
LEMMA MovedStep ==
    ASSUME IInv, NEW x \in Moves
    PROVE  Latches(hidp, Moved(hidp, x), held, held)
<1> DEFINE sum == hidp.X + x
           s == [hidp EXCEPT !.X = sum, !.posChanged = TRUE]
<1>1. hidp \in Call
  BY Between DEF IInv
<1>2. sum \in Int
  BY <1>1, HIDPAssumption DEF Call
<1> HIDE DEF sum
<1>3. /\ s \in Call /\ s.modtimer = hidp.modtimer /\ s.modifiers = hidp.modifiers
      /\ s.modstate = hidp.modstate /\ s.pressed = hidp.pressed
      /\ s.buttonState = hidp.buttonState /\ s.keyboard = hidp.keyboard
      /\ s.mouse = hidp.mouse
  BY <1>1, <1>2 DEF Call
<1> HIDE DEF s
<1>4. Synced(hidp) => Synced(s)
  BY <1>3 DEF Synced, KeysTold, ButtonsTold, Told
<1>5. Reports(hidp, s)
  BY <1>3, <1>4 DEF Reports, SameLatches
<1>6. Latches(hidp, s, held, held)
  BY <1>3, <1>5, ReportsLatch
<1>7. Latches(s, HIDPSendReport(s, FALSE), held, held)
  BY <1>3, MotionReport
<1>8. Latches(hidp, HIDPSendReport(s, FALSE), held, held)
  BY <1>6, <1>7, LatchesCompose
<1>9. Moved(hidp, x) = IF linked /\ ~ busy THEN HIDPSendReport(s, FALSE) ELSE s
  BY DEF Moved, s, sum
<1>10. QED
  BY <1>6, <1>8, <1>9

(* Every step of the keyboard, the mouse, the timer and the connection     *)
(* preserves the invariant.                                                *)
LEMMA NextStep == IInv /\ [Next]_vars => IInv'
<1> SUFFICES ASSUME IInv, [Next]_vars PROVE IInv'
  OBVIOUS
<1>1. /\ hidp \in Call /\ held \in SUBSET Mods /\ down \in SUBSET Keys
      /\ linked \in BOOLEAN /\ busy \in BOOLEAN
      /\ host \in [keyboard : ReportType, buttons : SUBSET Buttons]
  BY Between DEF IInv, TypeOK
<1>2. TypeOK
  BY DEF IInv
<1>3. Synced(hidp) <=> /\ host.keyboard = KeyReport(hidp.modifiers, hidp.pressed)
                       /\ host.buttons = hidp.buttonState
  BY <1>2, Between DEF Synced, KeysTold, ButtonsTold
<1>4. ASSUME NEW a \in Actions, NEW b \in Mods, Modifier(a, b)
      PROVE  IInv'
  <2>1. held' = (IF a = "Press" THEN held \cup {b} ELSE held \ {b}) /\ held' \in SUBSET Mods
    BY <1>1, <1>4 DEF Modifier
  <2>2. Latches(hidp, HIDPModifier(hidp, a, b), held, held')
    BY <1>1, <2>1, HIDPModifierStep
  <2>3. QED
    BY <1>1, <1>4, <2>1, <2>2, DoneStep DEF Modifier
<1>5. ASSUME NEW a \in Actions, NEW k \in Keys, NEW m \in Masks, Key(a, k, m)
      PROVE  IInv'
  <2>1. down' \in SUBSET Keys /\ held' = held /\ linked' = linked
    BY <1>1, <1>5 DEF Key
  <2>2. Latches(hidp, HIDPKeyboard(hidp, a, k, m), held, held')
    BY <1>1, <2>1, HIDPKeyboardStep
  <2>3. QED
    BY <1>1, <1>5, <2>1, <2>2, DoneStep DEF Key
<1>6. ASSUME NEW a \in Actions, NEW n \in Buttons, NEW m \in Masks, Button(a, n, m)
      PROVE  IInv'
  <2>1. down' = down /\ held' = held /\ linked' = linked
    BY <1>6 DEF Button
  <2>2. Latches(hidp, HIDPButton(hidp, a, n, m), held, held')
    BY <1>1, <2>1, HIDPButtonStep
  <2>3. QED
    BY <1>1, <1>6, <2>1, <2>2, DoneStep DEF Button
<1>7. ASSUME NEW x \in Moves, MouseMove(x)
      PROVE  IInv'
  <2>1. down' = down /\ held' = held /\ linked' = linked
    BY <1>7 DEF MouseMove
  <2>2. Latches(hidp, Moved(hidp, x), held, held')
    BY <2>1, MovedStep
  <2>3. QED
    BY <1>1, <1>7, <2>1, <2>2, DoneStep DEF MouseMove
<1>8. CASE SendComplete
  <2>1. CASE UNCHANGED vars
    BY <2>1 DEF vars, IInv, TypeOK, ModConsistent, StickyTimed, Sticky, HostInSync
  <2>2. CASE ~ UNCHANGED vars
    <3> DEFINE s == HIDPSendReport(hidp, FALSE)
    <3>1. Latches(hidp, s, held, held)
      BY <1>1, MotionReport
    <3>2. /\ hidp' = Stored(s) /\ host' = Told(s) /\ busy' \in BOOLEAN
          /\ held' = held /\ down' = down /\ linked' = linked
      BY <1>8, <2>2 DEF SendComplete, Stored
    <3> HIDE DEF s
    <3>3. s \in Call /\ Told(s) \in [keyboard : ReportType, buttons : SUBSET Buttons]
      BY <1>2, <3>1, ToldType DEF Latches
    <3>4. linked' => Synced(s)
      BY <1>3, <3>1, <3>2 DEF Latches, IInv, HostInSync
    <3>5. QED
      BY <1>1, <3>1, <3>2, <3>3, <3>4, CallStep
  <2>3. QED
    BY <2>1, <2>2
<1>9. CASE Tick
  <2>1. /\ hidp.modtimer > 0 /\ hidp.modtimer \in Nat
        /\ down' = down /\ held' = held /\ linked' = linked
    BY <1>1, <1>9, HIDPAssumption DEF Tick, Call
  <2>2. CASE hidp.modtimer = 1
    <3>1. Latches(hidp, StickyTimer(hidp), held, held')
      BY <1>1, <2>1, StickyTimerStep
    <3>2. QED
      BY <1>1, <1>9, <2>1, <2>2, <3>1, DoneStep DEF Tick
  <2>3. CASE hidp.modtimer # 1
    <3> DEFINE s == [hidp EXCEPT !.modtimer = @ - 1]
    <3>1. Latches(hidp, s, held, held')
      BY <2>1, <2>3, CountDown
    <3>2. Done(s)
      BY <1>9, <2>3 DEF Tick
    <3> HIDE DEF s
    <3>3. QED
      BY <1>1, <2>1, <3>1, <3>2, DoneStep
  <2>4. QED
    BY <2>2, <2>3
<1>10. CASE Connected
  <2> DEFINE s == HIDPSendReport(hidp, TRUE)
  <2>1. s \in Call /\ SameLatches(hidp, s) /\ s.modifiers = hidp.modifiers /\ Synced(s)
    BY <1>1, FullReport
  <2>2. /\ hidp' = Stored(s) /\ host' = Told(s) /\ busy' = TRUE /\ linked' = TRUE
        /\ held' = held /\ down' = down
    BY <1>10 DEF Connected, Stored
  <2> HIDE DEF s
  <2>3. Latches(hidp, s, held, held)
    BY <2>1, ReportsLatch DEF Reports
  <2>4. Told(s) \in [keyboard : ReportType, buttons : SUBSET Buttons]
    BY <1>2, <2>1, ToldType
  <2>5. QED
    BY <1>1, <2>1, <2>2, <2>3, <2>4, CallStep
<1>11. Nobody \in [keyboard : ReportType, buttons : SUBSET Buttons]
  <2>1. <<>> \in Seq(Keys)
    OBVIOUS
  <2>2. KeyReport({}, <<>>) \in ReportType
    BY <2>1, KeyReportType
  <2>3. QED
    BY <2>2 DEF Nobody
<1>12. CASE Dropped
  <2>1. /\ hidp' = hidp /\ host' = Nobody /\ busy' = FALSE /\ linked' = FALSE
        /\ held' = held /\ down' = down
    BY <1>12 DEF Dropped
  <2>2. QED
    BY <1>11, <2>1 DEF IInv, TypeOK, ModConsistent, StickyTimed, Sticky, HostInSync
<1>13. CASE Disconnect
  <2> DEFINE s == HIDPReset(hidp)
  <2>1. Latches(hidp, s, held, held)
    BY <1>1, HIDPResetStep
  <2>2. /\ hidp' = Stored(s) /\ host' = Nobody /\ busy' = FALSE /\ linked' = FALSE
        /\ held' = held /\ down' = down
    BY <1>13 DEF Disconnect, Stored
  <2> HIDE DEF s
  <2>3. QED
    BY <1>1, <1>11, <2>1, <2>2, CallStep
<1>14. CASE HostReset
  <2>1. down' = down /\ held' = held /\ linked' = linked
    BY <1>14 DEF HostReset
  <2>2. Latches(hidp, HIDPReset(hidp), held, held')
    BY <1>1, <2>1, HIDPResetStep
  <2>3. QED
    BY <1>1, <1>14, <2>1, <2>2, DoneStep DEF HostReset
<1>15. CASE UNCHANGED vars
  BY <1>15 DEF vars, IInv, TypeOK, ModConsistent, StickyTimed, Sticky, HostInSync
<1>16. QED
  BY <1>4, <1>5, <1>6, <1>7, <1>8, <1>9, <1>10, <1>12, <1>13, <1>14, <1>15 DEF Next

(* The invariant holds in every reachable state.                           *)
THEOREM Invariant == Spec => []IInv
<1>1. HIDPInit => IInv
  BY InitStep
<1>2. IInv /\ [Next]_vars => IInv'
  BY NextStep
<1>3. QED
  BY <1>1, <1>2, PTL DEF Spec

(* The keyboard state of HIDProtocol.c always has its type.                *)
THEOREM TypeCorrect == Spec => []TypeOK
<1>1. IInv => TypeOK
  BY DEF IInv
<1>2. QED
  BY Invariant, <1>1, PTL

(* The latches, the modifier bits and the user's fingers always agree.     *)
THEOREM LatchesCorrect == Spec => []ModConsistent
<1>1. IInv => ModConsistent
  BY DEF IInv
<1>2. QED
  BY Invariant, <1>1, PTL

(* The shared timer runs whenever a modifier is sticky.                    *)
THEOREM TimerCorrect == Spec => []StickyTimed
<1>1. IInv => StickyTimed
  BY DEF IInv
<1>2. QED
  BY Invariant, <1>1, PTL

(* A connected host has been told the keys, modifiers and buttons.         *)
THEOREM HostCorrect == Spec => []HostInSync
<1>1. IInv => HostInSync
  BY DEF IInv
<1>2. QED
  BY Invariant, <1>1, PTL

-----------------------------------------------------------------------------
(* What the host sees.                                                     *)

(* The strokes: n places, among len reports, no two of them neighbours and *)
(* the last report none of them.                                           *)
Apart(D, n, len) ==
    /\ D \subseteq 1 .. len /\ len \notin D
    /\ IsFiniteSet(D) /\ Cardinality(D) = n
    /\ \A i \in D : i + 1 \notin D

LEMMA NoStrokes == Apart({}, 0, 0)
  BY FS_EmptySet DEF Apart

LEMMA LaterStrokes ==
    ASSUME NEW len \in Nat, NEW more \in Nat, len <= more, NEW D, NEW n, Apart(D, n, len)
    PROVE  Apart(D, n, more)
  BY DEF Apart

(* A report that shows the key and one that does not.                      *)
LEMMA OneStroke ==
    ASSUME NEW len \in Nat, NEW n \in Nat, NEW D, Apart(D, n, len)
    PROVE  Apart(D \cup {len + 1}, n + 1, len + 2)
<1>1. D \subseteq 1 .. len /\ len \notin D /\ IsFiniteSet(D) /\ Cardinality(D) = n
      /\ \A i \in D : i + 1 \notin D
  BY DEF Apart
<1>2. len + 1 \notin D
  BY <1>1
<1>3. IsFiniteSet(D \cup {len + 1}) /\ Cardinality(D \cup {len + 1}) = n + 1
  BY <1>1, <1>2, FS_AddElement
<1>4. D \cup {len + 1} \subseteq 1 .. len + 2 /\ len + 2 \notin D \cup {len + 1}
  BY <1>1
<1>5. \A i \in D \cup {len + 1} : i + 1 \notin D \cup {len + 1}
  <2> SUFFICES ASSUME NEW i \in D \cup {len + 1} PROVE i + 1 \notin D \cup {len + 1}
    OBVIOUS
  <2>1. CASE i = len + 1
    BY <1>1, <2>1
  <2>2. CASE i \in D
    <3>1. i \in 1 .. len /\ i # len /\ i + 1 \notin D
      BY <1>1, <2>2
    <3>2. QED
      BY <3>1
  <2>3. QED
    BY <2>1, <2>2
<1>6. QED
  BY <1>3, <1>4, <1>5 DEF Apart
-----------------------------------------------------------------------------
(* The reports of a call that show a key or a button.                      *)
KeyPlaces(s, k)    == {i \in 1 .. Len(s.keyboard) : k \in s.keyboard[i].keys}
ButtonPlaces(s, n) == {i \in 1 .. Len(s.mouse) : n \in s.mouse[i].buttons}

(* n strokes of k, each with these modifiers.                              *)
Showed(s, k, n, mods) ==
    /\ Apart(KeyPlaces(s, k), n, Len(s.keyboard))
    /\ \A i \in KeyPlaces(s, k) : s.keyboard[i].modifiers = mods

(* A step that reports modifiers, and no key that was not down before it.  *)
Quiet(s, t) ==
    /\ t.pressed = s.pressed /\ t.buttonState = s.buttonState
    /\ t.mouse = s.mouse /\ t.posChanged = s.posChanged
    /\ Len(s.keyboard) <= Len(t.keyboard)
    /\ \A i \in 1 .. Len(s.keyboard) : t.keyboard[i] = s.keyboard[i]
    /\ \A k \in Keys : ~ KeyPressed(s, k) => KeyPlaces(t, k) = KeyPlaces(s, k)

LEMMA QuietCompose ==
    ASSUME NEW s \in Call, NEW t \in Call, NEW u \in Call, Quiet(s, t), Quiet(t, u)
    PROVE  Quiet(s, u)
<1>1. Len(s.keyboard) \in Nat /\ Len(t.keyboard) \in Nat /\ Len(u.keyboard) \in Nat
  BY DEF Call
<1>2. \A i \in 1 .. Len(s.keyboard) : u.keyboard[i] = s.keyboard[i]
  BY <1>1 DEF Quiet
<1>3. \A k \in Keys : KeyPressed(t, k) <=> KeyPressed(s, k)
  BY DEF Quiet, KeyPressed
<1>4. \A k \in Keys : ~ KeyPressed(s, k) => KeyPlaces(u, k) = KeyPlaces(s, k)
  BY <1>3 DEF Quiet
<1>5. QED
  BY <1>1, <1>2, <1>4 DEF Quiet

LEMMA QuietShowed ==
    ASSUME NEW s \in Call, NEW t \in Call, Quiet(s, t), NEW k \in Keys, ~ KeyPressed(s, k),
           NEW n, NEW mods, Showed(s, k, n, mods)
    PROVE  Showed(t, k, n, mods)
<1>1. Len(s.keyboard) \in Nat /\ Len(t.keyboard) \in Nat
  BY DEF Call
<1>2. KeyPlaces(t, k) = KeyPlaces(s, k) /\ Len(s.keyboard) <= Len(t.keyboard)
  BY DEF Quiet
<1>3. Apart(KeyPlaces(t, k), n, Len(t.keyboard))
  BY <1>1, <1>2, LaterStrokes DEF Showed
<1>4. \A i \in KeyPlaces(s, k) : t.keyboard[i] = s.keyboard[i]
  BY DEF Quiet, KeyPlaces
<1>5. QED
  BY <1>2, <1>3, <1>4 DEF Showed

(* A report shows keys that are down.                                      *)
LEMMA KeysReported ==
    ASSUME NEW s \in Call, NEW k \in Keys
    PROVE  /\ k \in KeyReport(s.modifiers, s.pressed).keys => KeyPressed(s, k)
           /\ KeyPressed(s, k) /\ Len(s.pressed) <= MaxKeys
                 => k \in KeyReport(s.modifiers, s.pressed).keys
           /\ KeyReport(s.modifiers, s.pressed).modifiers = s.modifiers
<1>1. Len(s.pressed) \in Nat /\ MaxKeys \in Nat /\ k # RollOver
  BY HIDPAssumption DEF Call, KeyBuffer
<1>2. QED
  BY <1>1 DEF KeyReport, KeyPressed

(* What one report adds.                                                   *)
LEMMA SendKeysAdds ==
    ASSUME NEW s \in Call, NEW t, t = SendKeys(s), NEW k
    PROVE  /\ t \in Call /\ Len(t.keyboard) = Len(s.keyboard) + 1
           /\ t.mouse = s.mouse /\ t.posChanged = s.posChanged /\ t.modstate = s.modstate
           /\ t.pressed = s.pressed /\ t.buttonState = s.buttonState
           /\ t.modifiers = s.modifiers
           /\ \A i \in 1 .. Len(s.keyboard) : t.keyboard[i] = s.keyboard[i]
           /\ t.keyboard[Len(s.keyboard) + 1] = KeyReport(s.modifiers, s.pressed)
           /\ KeyPlaces(t, k) = KeyPlaces(s, k) \cup
                  (IF k \in KeyReport(s.modifiers, s.pressed).keys
                   THEN {Len(s.keyboard) + 1} ELSE {})
<1> DEFINE r == KeyReport(s.modifiers, s.pressed)
           q == s.keyboard
<1>1. r \in ReportType /\ q \in Seq(ReportType)
  BY KeyReportType DEF Call, KeyBuffer
<1>2. t = [s EXCEPT !.keyboard = Append(q, r)]
  BY DEF SendKeys
<1>3. /\ t \in Call /\ t.mouse = s.mouse /\ t.posChanged = s.posChanged
      /\ t.modstate = s.modstate /\ t.pressed = s.pressed /\ t.modifiers = s.modifiers
      /\ t.buttonState = s.buttonState
  <2>1. t \in Call /\ t.pressed = s.pressed /\ t.modifiers = s.modifiers
        /\ t.buttonState = s.buttonState
    BY SendKeysStep
  <2> HIDE DEF r, q
  <2>2. QED
    BY <1>2, <2>1 DEF Call
<1>4. t.keyboard = Append(q, r)
  <2> HIDE DEF r, q
  <2>1. QED
    BY <1>2 DEF Call
<1> HIDE DEF r, q
<1>5. /\ Len(q) \in Nat /\ Len(Append(q, r)) = Len(q) + 1
      /\ \A i \in 1 .. Len(q) : Append(q, r)[i] = q[i]
      /\ Append(q, r)[Len(q) + 1] = r
  BY <1>1
<1>6. KeyPlaces(t, k) = KeyPlaces(s, k) \cup (IF k \in r.keys THEN {Len(q) + 1} ELSE {})
  <2>1. KeyPlaces(t, k) = {i \in 1 .. Len(q) + 1 : k \in Append(q, r)[i].keys}
    BY <1>4, <1>5 DEF KeyPlaces
  <2>2. KeyPlaces(s, k) = {i \in 1 .. Len(q) : k \in q[i].keys}
    BY DEF KeyPlaces, q
  <2>3. 1 .. Len(q) + 1 = (1 .. Len(q)) \cup {Len(q) + 1}
    BY <1>5
  <2>4. QED
    BY <1>5, <2>1, <2>2, <2>3
<1>7. QED
  BY <1>3, <1>4, <1>5, <1>6 DEF q, r

LEMMA SendKeysQuiet ==
    ASSUME NEW s \in Call PROVE Quiet(s, SendKeys(s)) /\ Quiet(s, s)
<1> DEFINE t == SendKeys(s)
<1>1. Len(s.keyboard) \in Nat
  BY DEF Call
<1>2. ASSUME NEW k \in Keys, ~ KeyPressed(s, k)
      PROVE  KeyPlaces(t, k) = KeyPlaces(s, k)
  <2> DEFINE r == KeyReport(s.modifiers, s.pressed)
  <2>1. k \notin r.keys
    BY <1>2, KeysReported
  <2>2. KeyPlaces(t, k) = KeyPlaces(s, k) \cup
            (IF k \in r.keys THEN {Len(s.keyboard) + 1} ELSE {})
    BY SendKeysAdds
  <2> HIDE DEF r, t
  <2>3. QED
    BY <2>1, <2>2
<1>3. /\ Len(t.keyboard) = Len(s.keyboard) + 1
      /\ t.mouse = s.mouse /\ t.posChanged = s.posChanged
      /\ t.pressed = s.pressed /\ t.buttonState = s.buttonState
      /\ \A i \in 1 .. Len(s.keyboard) : t.keyboard[i] = s.keyboard[i]
  BY SendKeysAdds
<1> HIDE DEF t
<1>4. Quiet(s, t) /\ Quiet(s, s)
  BY <1>1, <1>2, <1>3 DEF Quiet
<1>5. QED
  BY <1>4 DEF t
-----------------------------------------------------------------------------
(* Modifiers change without a stroke.                                      *)
LEMMA ToggleQuiet ==
    ASSUME NEW s \in Call, NEW to \in SUBSET Mods, NEW b, NEW t, t = Toggle(s, to, b)
    PROVE  t \in Call /\ Quiet(s, t) /\ t.modstate = s.modstate
<1> DEFINE mods == IF b \in to THEN s.modifiers \cup {b} ELSE s.modifiers \ {b}
           u == [s EXCEPT !.modifiers = mods]
<1>1. CASE (b \in s.modifiers) <=> (b \in to)
  BY <1>1, SendKeysQuiet DEF Toggle
<1>2. CASE ~ ((b \in s.modifiers) <=> (b \in to))
  <2>1. t = SendKeys(u)
    BY <1>2 DEF Toggle
  <2>2. mods \in SUBSET Mods
    BY DEF Call
  <2> HIDE DEF mods
  <2>3. /\ u \in Call /\ u.pressed = s.pressed /\ u.buttonState = s.buttonState
        /\ u.mouse = s.mouse /\ u.posChanged = s.posChanged /\ u.keyboard = s.keyboard
        /\ u.modstate = s.modstate
    BY <2>2 DEF Call
  <2> HIDE DEF u
  <2>4. Quiet(s, u)
    BY <2>3 DEF Quiet, KeyPlaces, Call
  <2>5. t \in Call /\ Quiet(u, t) /\ t.modstate = u.modstate
    BY <2>1, <2>3, SendKeysAdds, SendKeysQuiet
  <2>6. QED
    BY <2>3, <2>4, <2>5, QuietCompose
<1>3. QED
  BY <1>1, <1>2

LEMMA SetModifiersQuiet ==
    ASSUME NEW s \in Call, NEW m, Requested(s.modifiers, m) \in SUBSET Mods,
           NEW t, t = SetModifiers(s, m)
    PROVE  t \in Call /\ Quiet(s, t) /\ t.modstate = s.modstate
<1> DEFINE to == Requested(s.modifiers, m)
<1> HIDE DEF to
<1>1. to \in SUBSET Mods
  BY DEF to
<1> DEFINE s1 == Toggle(s, to, "LeftControl")
           s2 == Toggle(s1, to, "LeftShift")
           s3 == Toggle(s2, to, "LeftAlt")
           s4 == Toggle(s3, to, "LeftGUI")
           s5 == Toggle(s4, to, "RightControl")
           s6 == Toggle(s5, to, "RightShift")
           s7 == Toggle(s6, to, "RightAlt")
           s8 == Toggle(s7, to, "RightGUI")
<1>2. t = s8
  BY DEF SetModifiers, ToggleLeft, ToggleRight, to
<1> HIDE DEF s8, s7, s6, s5, s4, s3, s2, s1
<1>3. s1 \in Call /\ Quiet(s, s1) /\ s1.modstate = s.modstate
  BY <1>1, ToggleQuiet DEF s1
<1>4. s2 \in Call /\ Quiet(s, s2) /\ s2.modstate = s.modstate
  BY <1>1, <1>3, ToggleQuiet, QuietCompose DEF s2
<1>5. s3 \in Call /\ Quiet(s, s3) /\ s3.modstate = s.modstate
  BY <1>1, <1>4, ToggleQuiet, QuietCompose DEF s3
<1>6. s4 \in Call /\ Quiet(s, s4) /\ s4.modstate = s.modstate
  BY <1>1, <1>5, ToggleQuiet, QuietCompose DEF s4
<1>7. s5 \in Call /\ Quiet(s, s5) /\ s5.modstate = s.modstate
  BY <1>1, <1>6, ToggleQuiet, QuietCompose DEF s5
<1>8. s6 \in Call /\ Quiet(s, s6) /\ s6.modstate = s.modstate
  BY <1>1, <1>7, ToggleQuiet, QuietCompose DEF s6
<1>9. s7 \in Call /\ Quiet(s, s7) /\ s7.modstate = s.modstate
  BY <1>1, <1>8, ToggleQuiet, QuietCompose DEF s7
<1>10. s8 \in Call /\ Quiet(s, s8) /\ s8.modstate = s.modstate
  BY <1>1, <1>9, ToggleQuiet, QuietCompose DEF s8
<1>11. QED
  BY <1>2, <1>10

(* So are the modifiers set for a mask, and given back.                    *)
LEMMA SetMask ==
    ASSUME NEW s \in Call, NEW m \in Masks, NEW t, t = SetModifiers(s, m)
    PROVE  t \in Call /\ Quiet(s, t) /\ t.modstate = s.modstate
           /\ t.modifiers = Requested(s.modifiers, m)
<1>1. Requested(s.modifiers, m) \in SUBSET Mods
  BY RequestedType DEF Call
<1>2. QED
  BY <1>1, SetModifiersQuiet, SetModifiersStep

LEMMA SetBits ==
    ASSUME NEW s \in Call, NEW mods \in SUBSET Mods, NEW t, t = SetModifiers(s, Bits(mods))
    PROVE  t \in Call /\ Quiet(s, t) /\ t.modstate = s.modstate /\ t.modifiers = mods
<1>1. Requested(s.modifiers, Bits(mods)) = mods
  BY DEF Requested, Bits
<1>2. QED
  BY <1>1, SetModifiersQuiet, SetModifiersStep

(* Latches that change are reported quietly.                               *)
LEMMA LatchesQuiet ==
    ASSUME NEW s \in Call, NEW st \in [Mods -> ModStates], NEW timer \in 0 .. StickyTime,
           NEW mods \in SUBSET Mods, NEW t, t = WithLatches(s, st, timer, mods)
    PROVE  t \in Call /\ Quiet(s, t) /\ t.modstate = st /\ t.modifiers = mods
<1> DEFINE u == [s EXCEPT !.modstate = st, !.modtimer = timer]
<1>1. /\ u \in Call /\ u.pressed = s.pressed /\ u.buttonState = s.buttonState
      /\ u.mouse = s.mouse /\ u.posChanged = s.posChanged /\ u.keyboard = s.keyboard
      /\ u.modstate = st
  BY DEF Call
<1>2. t = SetModifiers(u, Bits(mods))
  BY DEF WithLatches
<1> HIDE DEF u
<1>3. Quiet(s, u)
  BY <1>1 DEF Quiet, KeyPlaces, Call
<1>4. t \in Call /\ Quiet(u, t) /\ t.modstate = st /\ t.modifiers = mods
  BY <1>1, <1>2, SetBits
<1>5. QED
  BY <1>1, <1>3, <1>4, QuietCompose
-----------------------------------------------------------------------------
(* The latches of HIDPModifier, NormalKey and the sticky timer.            *)
LEMMA ModifierPressQuiet ==
    ASSUME NEW s \in Call, NEW b \in Mods, NEW t, t = ModifierPress(s, b)
    PROVE  t \in Call /\ Quiet(s, t)
<1> DEFINE st == s.modstate[b]
           next == CASE st = "Released" -> "Pressed"
                     [] st = "Sticky"   -> "StickyPressed"
                     [] st = "Locked"   -> "LockedPressed"
                     [] OTHER           -> st
           mods == CASE st = "Released" -> s.modifiers \cup {b}
                     [] st = "Locked"   -> s.modifiers \ {b}
                     [] OTHER           -> s.modifiers
           u == [s EXCEPT !.modstate[b] = next]
<1>1. st \in ModStates /\ s.modifiers \in SUBSET Mods /\ s.modstate \in [Mods -> ModStates]
  BY DEF Call
<1>2. next \in ModStates
  BY <1>1 DEF ModStates
<1>3. mods \in SUBSET Mods
  BY <1>1
<1>4. t = SetModifiers(u, Bits(mods))
  BY DEF ModifierPress
<1> HIDE DEF next, mods
<1>5. /\ u \in Call /\ u.pressed = s.pressed /\ u.buttonState = s.buttonState
      /\ u.mouse = s.mouse /\ u.posChanged = s.posChanged /\ u.keyboard = s.keyboard
  BY <1>2 DEF Call
<1> HIDE DEF u
<1>6. Quiet(s, u)
  BY <1>5 DEF Quiet, KeyPlaces, Call
<1>7. t \in Call /\ Quiet(u, t)
  BY <1>3, <1>4, <1>5, SetBits
<1>8. QED
  BY <1>5, <1>6, <1>7, QuietCompose

LEMMA ModifierReleaseQuiet ==
    ASSUME NEW s \in Call, NEW b \in Mods, NEW t, t = ModifierRelease(s, b)
    PROVE  t \in Call /\ Quiet(s, t)
<1> DEFINE st == s.modstate[b]
           next == CASE st = "Pressed"       -> "Sticky"
                     [] st = "StickyPressed" -> "Locked"
                     [] st = "Locked"        -> "Locked"
                     [] OTHER                -> "Released"
           mods == CASE st \in {"Released", "Sticky"} -> s.modifiers \ {b}
                     [] st = "Locked"                 -> s.modifiers \cup {b}
                     [] OTHER                         -> s.modifiers
           timer == IF st = "Pressed" THEN StickyTime ELSE s.modtimer
           u == [s EXCEPT !.modstate[b] = next, !.modtimer = timer]
<1>1. st \in ModStates /\ s.modifiers \in SUBSET Mods /\ s.modtimer \in 0 .. StickyTime
      /\ s.modstate \in [Mods -> ModStates]
  BY DEF Call
<1>2. next \in ModStates /\ timer \in 0 .. StickyTime
  BY <1>1, HIDPAssumption DEF ModStates
<1>3. mods \in SUBSET Mods
  BY <1>1
<1>4. t = SetModifiers(u, Bits(mods))
  BY DEF ModifierRelease
<1> HIDE DEF next, mods, timer
<1>5. /\ u \in Call /\ u.pressed = s.pressed /\ u.buttonState = s.buttonState
      /\ u.mouse = s.mouse /\ u.posChanged = s.posChanged /\ u.keyboard = s.keyboard
  BY <1>2 DEF Call
<1> HIDE DEF u
<1>6. Quiet(s, u)
  BY <1>5 DEF Quiet, KeyPlaces, Call
<1>7. t \in Call /\ Quiet(u, t)
  BY <1>3, <1>4, <1>5, SetBits
<1>8. QED
  BY <1>5, <1>6, <1>7, QuietCompose

LEMMA HIDPModifierQuiet ==
    ASSUME NEW s \in Call, NEW a \in Actions, NEW b \in Mods, NEW t, t = HIDPModifier(s, a, b)
    PROVE  t \in Call /\ Quiet(s, t)
<1>1. ASSUME NEW r \in Call, NEW u, u = ModifierRelease(ModifierPress(r, b), b)
      PROVE  u \in Call /\ Quiet(r, u)
  BY <1>1, ModifierPressQuiet, ModifierReleaseQuiet, QuietCompose
<1>2. CASE a = "Press"
  BY <1>2, ModifierPressQuiet DEF HIDPModifier
<1>3. CASE a = "Release"
  BY <1>3, ModifierReleaseQuiet DEF HIDPModifier
<1>4. CASE a = "Click"
  BY <1>4, <1>1 DEF HIDPModifier
<1>5. CASE a = "DoubleClick"
  <2> DEFINE u == ModifierRelease(ModifierPress(s, b), b)
  <2>1. u \in Call /\ Quiet(s, u)
    BY <1>1
  <2>2. t = ModifierRelease(ModifierPress(u, b), b)
    BY <1>5 DEF HIDPModifier
  <2> HIDE DEF u
  <2>3. t \in Call /\ Quiet(u, t)
    BY <1>1, <2>1, <2>2
  <2>4. QED
    BY <2>1, <2>3, QuietCompose
<1>6. QED
  BY <1>2, <1>3, <1>4, <1>5 DEF Actions

LEMMA NormalKeyQuiet ==
    ASSUME NEW s \in Call, NEW t, t = NormalKey(s)
    PROVE  t \in Call /\ Quiet(s, t) /\ t.modifiers = s.modifiers \ Sticky(s) /\ Sticky(t) = {}
<1> DEFINE st == [b \in Mods |->
                     CASE s.modstate[b] \in {"Pressed", "Sticky", "StickyPressed"} -> "Released"
                       [] s.modstate[b] = "LockedPressed" -> "Locked"
                       [] OTHER -> s.modstate[b]]
           mods == s.modifiers \ Sticky(s)
<1>1. s.modifiers \in SUBSET Mods /\ s.modtimer \in 0 .. StickyTime
      /\ s.modstate \in [Mods -> ModStates]
  BY DEF Call
<1>2. \A b \in Mods : st[b] \in ModStates /\ st[b] # "Sticky"
  BY <1>1 DEF ModStates
<1>3. st \in [Mods -> ModStates] /\ mods \in SUBSET Mods
  BY <1>1, <1>2
<1>4. t = WithLatches(s, st, s.modtimer, mods)
  <2>1. t = SetModifiers([s EXCEPT !.modstate = st], Bits(mods))
    BY DEF NormalKey
  <2> HIDE DEF st
  <2>2. [s EXCEPT !.modstate = st] = [s EXCEPT !.modstate = st, !.modtimer = s.modtimer]
    BY DEF Call
  <2>3. QED
    BY <2>1, <2>2 DEF WithLatches
<1>5. mods = s.modifiers \ Sticky(s)
  OBVIOUS
<1> HIDE DEF st, mods
<1>6. t \in Call /\ Quiet(s, t) /\ t.modstate = st /\ t.modifiers = mods
  BY <1>1, <1>3, <1>4, LatchesQuiet
<1>7. Sticky(t) = {}
  BY <1>2, <1>6 DEF Sticky
<1>8. QED
  BY <1>5, <1>6, <1>7

LEMMA StickyTimerQuiet ==
    ASSUME NEW s \in Call, NEW t, t = StickyTimer(s)
    PROVE  t \in Call /\ Quiet(s, t)
<1> DEFINE st == [b \in Mods |->
                     IF s.modstate[b] = "Sticky" THEN "Released" ELSE s.modstate[b]]
           mods == s.modifiers \ Sticky(s)
<1>1. s.modifiers \in SUBSET Mods /\ 0 \in 0 .. StickyTime
      /\ s.modstate \in [Mods -> ModStates]
  BY HIDPAssumption DEF Call
<1>2. st \in [Mods -> ModStates] /\ mods \in SUBSET Mods
  BY <1>1 DEF ModStates
<1>3. t = WithLatches(s, st, 0, mods)
  <2>1. t = SetModifiers([s EXCEPT !.modtimer = 0, !.modstate = st], Bits(mods))
    BY DEF StickyTimer
  <2> HIDE DEF st
  <2>2. [s EXCEPT !.modtimer = 0, !.modstate = st] = [s EXCEPT !.modstate = st, !.modtimer = 0]
    BY DEF Call
  <2>3. QED
    BY <2>1, <2>2 DEF WithLatches
<1> HIDE DEF st, mods
<1>4. QED
  BY <1>1, <1>2, <1>3, LatchesQuiet
-----------------------------------------------------------------------------
(* The keys that are remembered are different ones that a finger is on.    *)
Fingers(p, d) ==
    /\ \A i \in 1 .. Len(p) : p[i] \in d
    /\ \A i, j \in 1 .. Len(p) : p[i] = p[j] => i = j

First(p, k) == CHOOSE i \in 1 .. Len(p) : p[i] = k /\ \A j \in 1 .. i - 1 : p[j] # k

LEMMA FirstFound ==
    ASSUME NEW p \in Seq(Keys), NEW d, Fingers(p, d), NEW k, NEW i \in 1 .. Len(p), p[i] = k
    PROVE  First(p, k) = i
<1>1. \A j \in 1 .. Len(p) : p[j] = k => j = i
  BY DEF Fingers
<1>2. Len(p) \in Nat /\ i \in Int /\ i <= Len(p)
  OBVIOUS
<1>3. p[i] = k /\ \A j \in 1 .. i - 1 : p[j] # k
  <2>1. ASSUME NEW j \in 1 .. i - 1 PROVE j \in 1 .. Len(p) /\ j # i
    BY <1>2
  <2>2. QED
    BY <1>1, <2>1
<1>4. QED
  BY <1>1, <1>3 DEF First

LEMMA AppendFingers ==
    ASSUME NEW p \in Seq(Keys), NEW d, Fingers(p, d), NEW k \in Keys,
           \A i \in 1 .. Len(p) : p[i] # k
    PROVE  Fingers(Append(p, k), d \cup {k})
<1> DEFINE r == Append(p, k)
<1>1. /\ Len(p) \in Nat /\ Len(r) = Len(p) + 1 /\ r[Len(p) + 1] = k
      /\ \A i \in 1 .. Len(p) : r[i] = p[i]
  OBVIOUS
<1> HIDE DEF r
<1>2. \A i \in 1 .. Len(r) : i \in 1 .. Len(p) \/ i = Len(p) + 1
  BY <1>1
<1>3. Fingers(r, d \cup {k})
  BY <1>1, <1>2 DEF Fingers
<1>4. QED
  BY <1>3 DEF r

LEMMA WithoutFingers ==
    ASSUME NEW p \in Seq(Keys), NEW d, Fingers(p, d), NEW i \in 1 .. Len(p)
    PROVE  Fingers(Without(p, i), d \ {p[i]})
<1> DEFINE n == Len(p) - 1
           at == [j \in 1 .. n |-> IF j < i THEN j ELSE j + 1]
           r == Without(p, i)
<1>1. Len(p) \in Nat /\ Len(p) >= 1 /\ n \in Nat /\ i \in Int /\ i >= 1 /\ i <= Len(p)
  OBVIOUS
<1>2. r \in Seq(Keys) /\ Len(r) = n
  BY <1>1, WithoutType
<1>3. \A j \in 1 .. n : at[j] \in 1 .. Len(p) /\ at[j] # i
  BY <1>1
<1>4. \A j \in 1 .. n : r[j] = p[at[j]]
  BY <1>1 DEF Without
<1>5. \A j, k \in 1 .. n : at[j] = at[k] => j = k
  BY <1>1
<1> HIDE DEF n, at, r
<1>6. /\ \A j \in 1 .. Len(p) : p[j] \in d
      /\ \A j, k \in 1 .. Len(p) : p[j] = p[k] => j = k
  BY DEF Fingers
<1>7. \A j \in 1 .. n : p[at[j]] \in d /\ p[at[j]] # p[i]
  BY <1>3, <1>6
<1>8. \A j, k \in 1 .. n : p[at[j]] = p[at[k]] => j = k
  BY <1>3, <1>5, <1>6
<1>9. Fingers(r, d \ {p[i]})
  BY <1>2, <1>4, <1>7, <1>8 DEF Fingers
<1>10. QED
  BY <1>9 DEF r

LEMMA PressLeaves ==
    ASSUME NEW s \in Call, NEW k \in Keys, NEW d, Fingers(s.pressed, d),
           NEW t, t = Press(s, k)
    PROVE  t \in Call /\ t.posChanged = s.posChanged /\ Fingers(t.pressed, d \cup {k})
<1>1. s.pressed \in Seq(Keys) /\ Len(s.pressed) <= KeyBufferSize
  BY DEF Call, KeyBuffer
<1>2. CASE KeyPressed(s, k) \/ Len(s.pressed) = KeyBufferSize
  <2>1. t \in Call /\ t.pressed = s.pressed /\ t.posChanged = s.posChanged
    BY <1>2, SendKeysAdds DEF Press
  <2>2. Fingers(s.pressed, d \cup {k})
    BY DEF Fingers
  <2>3. QED
    BY <2>1, <2>2
<1>3. CASE ~ KeyPressed(s, k) /\ Len(s.pressed) # KeyBufferSize
  <2> DEFINE p == Append(s.pressed, k)
             u == [s EXCEPT !.pressed = p]
  <2>1. t = SendKeys(u)
    BY <1>3 DEF Press
  <2>2. Fingers(p, d \cup {k})
    BY <1>1, <1>3, AppendFingers DEF KeyPressed
  <2>3. p \in KeyBuffer
    <3>1. p \in Seq(Keys) /\ Len(p) = Len(s.pressed) + 1 /\ Len(s.pressed) \in Nat
      BY <1>1
    <3> HIDE DEF p
    <3>2. QED
      BY <1>1, <1>3, <3>1, HIDPAssumption DEF KeyBuffer
  <2> HIDE DEF p
  <2>4. u \in Call /\ u.pressed = p /\ u.posChanged = s.posChanged
    BY <2>3 DEF Call
  <2> HIDE DEF u
  <2>5. QED
    BY <2>1, <2>2, <2>4, SendKeysAdds
<1>4. QED
  BY <1>2, <1>3

LEMMA ReleaseLeaves ==
    ASSUME NEW s \in Call, NEW k \in Keys, NEW d, Fingers(s.pressed, d),
           NEW t, t = Release(s, k)
    PROVE  t \in Call /\ t.posChanged = s.posChanged /\ Fingers(t.pressed, d \ {k})
<1>1. s.pressed \in Seq(Keys) /\ Len(s.pressed) <= KeyBufferSize
  BY DEF Call, KeyBuffer
<1>2. CASE ~ KeyPressed(s, k)
  <2>1. t = s
    BY <1>2 DEF Release
  <2>2. Fingers(s.pressed, d \ {k})
    BY <1>2 DEF Fingers, KeyPressed
  <2>3. QED
    BY <2>1, <2>2
<1>3. CASE KeyPressed(s, k)
  <2>1. PICK i \in 1 .. Len(s.pressed) : s.pressed[i] = k
    BY <1>3 DEF KeyPressed
  <2> DEFINE p == Without(s.pressed, i)
             u == [s EXCEPT !.pressed = p]
  <2>2. First(s.pressed, k) = i
    BY <1>1, <2>1, FirstFound
  <2>3. t = SendKeys(u)
    BY <1>3, <2>2 DEF Release, First
  <2>4. Fingers(p, d \ {k})
    BY <1>1, <2>1, WithoutFingers
  <2>5. p \in KeyBuffer
    <3>1. p \in Seq(Keys) /\ Len(p) = Len(s.pressed) - 1 /\ Len(s.pressed) \in Nat
      BY <1>1, <2>1, WithoutType
    <3> HIDE DEF p
    <3>2. QED
      BY <1>1, <3>1, HIDPAssumption DEF KeyBuffer
  <2> HIDE DEF p
  <2>6. u \in Call /\ u.pressed = p /\ u.posChanged = s.posChanged
    BY <2>5 DEF Call
  <2> HIDE DEF u
  <2>7. QED
    BY <2>3, <2>4, <2>6, SendKeysAdds
<1>4. QED
  BY <1>2, <1>3

LEMMA TypedLeaves ==
    ASSUME NEW s \in Call, NEW a \in Actions, NEW k \in Keys, NEW d, Fingers(s.pressed, d),
           NEW t, t = Typed(s, a, k)
    PROVE  /\ t \in Call /\ t.posChanged = s.posChanged
           /\ Fingers(t.pressed, IF a = "Press" THEN d \cup {k} ELSE d \ {k})
<1>1. ASSUME NEW r \in Call, NEW e, Fingers(r.pressed, e), NEW u, u = Release(Press(r, k), k)
      PROVE  u \in Call /\ u.posChanged = r.posChanged /\ Fingers(u.pressed, e \ {k})
  <2> DEFINE v == Press(r, k)
  <2>1. v \in Call /\ v.posChanged = r.posChanged /\ Fingers(v.pressed, e \cup {k})
    BY <1>1, PressLeaves
  <2>2. u = Release(v, k)
    BY <1>1
  <2> HIDE DEF v
  <2>3. u \in Call /\ u.posChanged = v.posChanged /\ Fingers(u.pressed, (e \cup {k}) \ {k})
    BY <2>1, <2>2, ReleaseLeaves
  <2>4. (e \cup {k}) \ {k} = e \ {k}
    OBVIOUS
  <2>5. QED
    BY <2>1, <2>3, <2>4
<1>2. CASE a = "Press"
  BY <1>2, PressLeaves DEF Typed
<1>3. CASE a = "Release"
  BY <1>3, ReleaseLeaves DEF Typed
<1>4. CASE a = "Click"
  BY <1>4, <1>1 DEF Typed
<1>5. CASE a = "DoubleClick"
  <2> DEFINE u == Release(Press(s, k), k)
  <2>1. u \in Call /\ u.posChanged = s.posChanged /\ Fingers(u.pressed, d \ {k})
    BY <1>1
  <2>2. t = Release(Press(u, k), k)
    BY <1>5 DEF Typed
  <2> HIDE DEF u
  <2>3. t \in Call /\ t.posChanged = u.posChanged /\ Fingers(t.pressed, (d \ {k}) \ {k})
    BY <1>1, <2>1, <2>2
  <2>4. (d \ {k}) \ {k} = d \ {k}
    OBVIOUS
  <2>5. QED
    BY <1>5, <2>1, <2>3, <2>4
<1>6. QED
  BY <1>2, <1>3, <1>4, <1>5 DEF Actions

(* A keystroke remembers the key that is pressed, and forgets the one that *)
(* is released or clicked.                                                 *)
LEMMA HIDPKeyboardLeaves ==
    ASSUME NEW s \in Call, NEW a \in Actions, NEW k \in Keys, NEW m \in Masks,
           NEW d, Fingers(s.pressed, d), NEW t, t = HIDPKeyboard(s, a, k, m)
    PROVE  /\ t \in Call /\ t.posChanged = s.posChanged
           /\ Fingers(t.pressed, IF a = "Press" THEN d \cup {k} ELSE d \ {k})
<1> DEFINE set == SetModifiers(s, m)
           typed == Typed(set, a, k)
           back == SetModifiers(typed, Bits(s.modifiers))
           e == IF a = "Press" THEN d \cup {k} ELSE d \ {k}
<1>1. set \in Call /\ Quiet(s, set)
  BY SetMask
<1>2. t = IF a # "Press" /\ m.current THEN NormalKey(back) ELSE back
  BY DEF HIDPKeyboard
<1> HIDE DEF set
<1>3. Fingers(set.pressed, d) /\ set.posChanged = s.posChanged
  BY <1>1 DEF Quiet
<1>4. typed \in Call /\ typed.posChanged = set.posChanged /\ Fingers(typed.pressed, e)
  BY <1>1, <1>3, TypedLeaves
<1> HIDE DEF typed, e
<1>5. s.modifiers \in SUBSET Mods
  BY DEF Call
<1>6. back \in Call /\ Quiet(typed, back)
  BY <1>4, <1>5, SetBits
<1> HIDE DEF back
<1>7. NormalKey(back) \in Call /\ Quiet(back, NormalKey(back))
  BY <1>6, NormalKeyQuiet
<1>8. back.posChanged = s.posChanged /\ Fingers(back.pressed, e)
  BY <1>3, <1>4, <1>6 DEF Quiet
<1>9. t \in Call /\ t.posChanged = s.posChanged /\ Fingers(t.pressed, e)
  BY <1>2, <1>6, <1>7, <1>8 DEF Quiet
<1>10. QED
  BY <1>9 DEF e
-----------------------------------------------------------------------------
(* A key that is tapped is one stroke with the modifiers that are set.     *)
LEMMA Tapped ==
    ASSUME NEW s \in Call, NEW k \in Keys, ~ KeyPressed(s, k), Len(s.pressed) < MaxKeys,
           NEW t, t = Release(Press(s, k), k)
    PROVE  /\ t \in Call /\ t.pressed = s.pressed /\ t.modifiers = s.modifiers
           /\ t.modstate = s.modstate
           /\ \A n \in Nat : Showed(s, k, n, s.modifiers) => Showed(t, k, n + 1, s.modifiers)
<1> DEFINE p == Append(s.pressed, k)
           u == [s EXCEPT !.pressed = p]
           v == SendKeys(u)
           x == [v EXCEPT !.pressed = s.pressed]
           len == Len(s.keyboard)
<1>1. /\ s.pressed \in Seq(Keys) /\ s.pressed \in KeyBuffer /\ Len(s.pressed) \in Nat
      /\ len \in Nat /\ Len(s.pressed) < KeyBufferSize
  BY HIDPAssumption DEF Call, KeyBuffer
<1>2. /\ p \in Seq(Keys) /\ Len(p) = Len(s.pressed) + 1 /\ p[Len(p)] = k
      /\ \A i \in 1 .. Len(s.pressed) : p[i] = s.pressed[i] /\ p[i] # k
  BY <1>1 DEF KeyPressed
<1>3. Press(s, k) = v
  BY <1>1 DEF Press
<1>4. Without(p, Len(p)) = s.pressed
  <2>1. Len(p) - 1 = Len(s.pressed)
    BY <1>1, <1>2
  <2>2. Without(p, Len(p)) = [j \in 1 .. Len(s.pressed) |-> s.pressed[j]]
    BY <1>1, <1>2, <2>1 DEF Without
  <2>3. QED
    BY <1>1, <2>2
<1>5. First(p, k) = Len(p)
  <2> HIDE DEF p
  <2>1. Len(p) \in 1 .. Len(p) /\ p[Len(p)] = k
    BY <1>1, <1>2
  <2>2. \A i \in 1 .. Len(p) : p[i] = k <=> i = Len(p)
    BY <1>1, <1>2
  <2>3. \A j \in 1 .. Len(p) - 1 : j \in 1 .. Len(p) /\ j # Len(p)
    BY <1>1, <1>2
  <2>4. QED
    BY <2>1, <2>2, <2>3 DEF First
<1>6. p \in KeyBuffer /\ Len(p) <= MaxKeys
  <2> HIDE DEF p
  <2>1. QED
    BY <1>1, <1>2, HIDPAssumption DEF KeyBuffer
<1>7. \E i \in 1 .. Len(p) : p[i] = k
  <2> HIDE DEF p
  <2>1. QED
    BY <1>1, <1>2
<1> HIDE DEF p
<1>8. /\ u \in Call /\ u.pressed = p /\ u.keyboard = s.keyboard /\ u.modifiers = s.modifiers
      /\ u.modstate = s.modstate
  BY <1>6 DEF Call
<1> HIDE DEF u
<1>9. KeyPressed(u, k) /\ Len(u.pressed) <= MaxKeys
  BY <1>6, <1>7, <1>8 DEF KeyPressed
<1>10. /\ k \in KeyReport(u.modifiers, u.pressed).keys
       /\ KeyReport(u.modifiers, u.pressed).modifiers = s.modifiers
  BY <1>8, <1>9, KeysReported
<1>11. /\ v \in Call /\ v.pressed = p /\ v.modifiers = s.modifiers /\ v.modstate = s.modstate
       /\ Len(v.keyboard) = len + 1
       /\ \A i \in 1 .. len : v.keyboard[i] = s.keyboard[i]
       /\ v.keyboard[len + 1].modifiers = s.modifiers
       /\ KeyPlaces(v, k) = KeyPlaces(s, k) \cup {len + 1}
  <2>1. /\ v \in Call /\ v.pressed = u.pressed /\ v.modifiers = u.modifiers
        /\ v.modstate = u.modstate /\ Len(v.keyboard) = Len(u.keyboard) + 1
        /\ \A i \in 1 .. Len(u.keyboard) : v.keyboard[i] = u.keyboard[i]
        /\ v.keyboard[Len(u.keyboard) + 1] = KeyReport(u.modifiers, u.pressed)
        /\ KeyPlaces(v, k) = KeyPlaces(u, k) \cup
               (IF k \in KeyReport(u.modifiers, u.pressed).keys
                THEN {Len(u.keyboard) + 1} ELSE {})
    BY <1>8, SendKeysAdds
  <2>2. KeyPlaces(u, k) = KeyPlaces(s, k)
    BY <1>8 DEF KeyPlaces
  <2>3. QED
    BY <1>8, <1>10, <2>1, <2>2
<1>12. t = SendKeys(x)
  <2>1. KeyPressed(v, k)
    BY <1>7, <1>11 DEF KeyPressed
  <2>2. t = SendKeys([v EXCEPT !.pressed = Without(v.pressed, First(v.pressed, k))])
    BY <1>3, <2>1 DEF Release, First
  <2>3. QED
    BY <1>4, <1>5, <1>11, <2>2
<1> HIDE DEF v
<1>13. /\ x \in Call /\ x.pressed = s.pressed /\ x.keyboard = v.keyboard
       /\ x.modifiers = s.modifiers /\ x.modstate = s.modstate
  BY <1>1, <1>11 DEF Call
<1> HIDE DEF x
<1>14. k \notin KeyReport(x.modifiers, x.pressed).keys
  <2>1. ~ KeyPressed(x, k)
    BY <1>13 DEF KeyPressed
  <2>2. QED
    BY <1>13, <2>1, KeysReported
<1>15. /\ t \in Call /\ t.pressed = s.pressed /\ t.modifiers = s.modifiers
       /\ t.modstate = s.modstate
       /\ Len(t.keyboard) = len + 2
       /\ \A i \in 1 .. len + 1 : t.keyboard[i] = v.keyboard[i]
       /\ KeyPlaces(t, k) = KeyPlaces(s, k) \cup {len + 1}
  <2>1. /\ t \in Call /\ t.pressed = x.pressed /\ t.modifiers = x.modifiers
        /\ t.modstate = x.modstate /\ Len(t.keyboard) = Len(x.keyboard) + 1
        /\ \A i \in 1 .. Len(x.keyboard) : t.keyboard[i] = x.keyboard[i]
        /\ KeyPlaces(t, k) = KeyPlaces(x, k) \cup
               (IF k \in KeyReport(x.modifiers, x.pressed).keys
                THEN {Len(x.keyboard) + 1} ELSE {})
    BY <1>12, <1>13, SendKeysAdds
  <2>2. KeyPlaces(x, k) = KeyPlaces(v, k)
    BY <1>13 DEF KeyPlaces
  <2>3. (len + 1) + 1 = len + 2
    BY <1>1
  <2>4. QED
    BY <1>11, <1>13, <1>14, <2>1, <2>2, <2>3
<1>16. ASSUME NEW n \in Nat, Showed(s, k, n, s.modifiers)
       PROVE  Showed(t, k, n + 1, s.modifiers)
  <2>1. Apart(KeyPlaces(s, k), n, len)
    BY <1>16 DEF Showed
  <2>2. Apart(KeyPlaces(t, k), n + 1, Len(t.keyboard))
    BY <1>1, <1>15, <2>1, OneStroke
  <2>3. \A i \in KeyPlaces(s, k) : i \in 1 .. len /\ s.keyboard[i].modifiers = s.modifiers
    BY <1>16 DEF Showed, KeyPlaces
  <2>4. \A i \in 1 .. len + 1 : i \in 1 .. len \/ i = len + 1
    BY <1>1
  <2>5. \A i \in 1 .. len : i \in 1 .. len + 1
    BY <1>1
  <2>6. len + 1 \in 1 .. len + 1
    BY <1>1
  <2>7. \A i \in KeyPlaces(t, k) : t.keyboard[i].modifiers = s.modifiers
    <3> SUFFICES ASSUME NEW i \in KeyPlaces(t, k) PROVE t.keyboard[i].modifiers = s.modifiers
      OBVIOUS
    <3>1. CASE i \in KeyPlaces(s, k)
      BY <1>11, <1>15, <2>3, <2>5, <3>1
    <3>2. CASE i = len + 1
      BY <1>11, <1>15, <2>6, <3>2
    <3>3. QED
      BY <1>15, <3>1, <3>2
  <2>8. QED
    BY <2>2, <2>7 DEF Showed
<1>17. QED
  BY <1>15, <1>16

(* What SetModifiers is asked for is what the mask says.                   *)
LEMMA MaskRequested ==
    ASSUME NEW mods \in SUBSET Mods, NEW m \in Masks
    PROVE  AsMasked(mods, Requested(mods, m), m)
<1>1. m \in MaskType /\ ~ {"ShiftOn", "ShiftOff"} \subseteq m.bits
      /\ ~ {"RightAltOn", "RightAltOff"} \subseteq m.bits
  BY HIDPAssumption
<1>2. CASE ~ m.current
  BY <1>2 DEF Requested, AsMasked
<1>3. CASE m.current
  <2> DEFINE seen == Requested(mods, m)
  <2>1. ~ ("ShiftOn" \in m.bits /\ "ShiftOff" \in m.bits)
        /\ ~ ("RightAltOn" \in m.bits /\ "RightAltOff" \in m.bits)
    BY <1>1
  <2>2. /\ "RightAlt" \in seen <=> /\ "RightAlt" \in mods \/ "RightAltOn" \in m.bits
                                  /\ "RightAltOff" \notin m.bits
        /\ "RightShift" \in seen <=> "RightShift" \in mods /\ "ShiftOff" \notin m.bits
        /\ "LeftShift" \in seen <=>
               /\ "LeftShift" \in mods \/ ("ShiftOn" \in m.bits /\ mods \cap Shifts = {})
               /\ "ShiftOff" \notin m.bits
        /\ \A b : b \notin Shifts \cup {"RightAlt"} => (b \in seen <=> b \in mods)
    BY <1>3 DEF Requested, Shifts
  <2> HIDE DEF seen
  <2>3. seen \ (Shifts \cup {"RightAlt"}) = mods \ (Shifts \cup {"RightAlt"})
    BY <2>2
  <2>4. \A b : b \in Shifts <=> b = "LeftShift" \/ b = "RightShift"
    BY DEF Shifts
  <2>5. CASE "ShiftOn" \in m.bits
    <3>1. seen \cap Shifts # {}
      BY <2>1, <2>2, <2>4, <2>5
    <3>2. QED
      BY <1>3, <2>1, <2>2, <2>3, <2>5, <3>1 DEF AsMasked, seen
  <2>6. CASE "ShiftOff" \in m.bits
    <3>1. seen \cap Shifts = {}
      BY <2>1, <2>2, <2>4, <2>6
    <3>2. QED
      BY <1>3, <2>1, <2>2, <2>3, <2>6, <3>1 DEF AsMasked, seen
  <2>7. CASE "ShiftOn" \notin m.bits /\ "ShiftOff" \notin m.bits
    <3>1. seen \cap Shifts = mods \cap Shifts
      BY <2>2, <2>4, <2>7
    <3>2. QED
      BY <1>3, <2>1, <2>2, <2>3, <2>7, <3>1 DEF AsMasked, seen
  <2>8. QED
    BY <2>5, <2>6, <2>7
<1>4. QED
  BY <1>2, <1>3

LEMMA ApartStrokes ==
    ASSUME NEW D, NEW n, NEW len, Apart(D, n, len) PROVE Strokes(D, n)
  BY DEF Apart, Strokes

(* A click or a double click of a key that is up.                          *)
LEMMA KeystrokeStep ==
    ASSUME NEW s \in Call, s.keyboard = <<>>, NEW a \in {"Click", "DoubleClick"},
           NEW k \in Keys, NEW m \in Masks, ~ KeyPressed(s, k), Len(s.pressed) < MaxKeys,
           NEW t, t = HIDPKeyboard(s, a, k, m)
    PROVE  /\ Strokes(KeyPlaces(t, k), Times(a))
           /\ \A i \in KeyPlaces(t, k) : AsMasked(s.modifiers, t.keyboard[i].modifiers, m)
           /\ t.modifiers = s.modifiers \ (IF m.current THEN Sticky(s) ELSE {})
           /\ m.current => Sticky(t) = {}
<1> DEFINE set == SetModifiers(s, m)
           once == Release(Press(set, k), k)
           typed == IF a = "Click" THEN once ELSE Release(Press(once, k), k)
           back == SetModifiers(typed, Bits(s.modifiers))
           mods == Requested(s.modifiers, m)
<1>1. /\ set \in Call /\ Quiet(s, set) /\ set.modifiers = mods
      /\ set.modstate = s.modstate
  BY SetMask
<1>2. t = IF m.current THEN NormalKey(back) ELSE back
  BY DEF HIDPKeyboard, Typed
<1>3. Showed(s, k, 0, mods)
  <2>1. KeyPlaces(s, k) = {} /\ Len(s.keyboard) = 0
    BY DEF KeyPlaces
  <2>2. QED
    BY <2>1, NoStrokes DEF Showed
<1> HIDE DEF set, mods
<1>4. Showed(set, k, 0, mods)
  BY <1>1, <1>3, QuietShowed
<1>5. ~ KeyPressed(set, k) /\ Len(set.pressed) < MaxKeys
  BY <1>1 DEF Quiet, KeyPressed
<1>6. /\ once \in Call /\ once.pressed = set.pressed /\ once.modifiers = mods
      /\ once.modstate = s.modstate /\ Showed(once, k, 1, mods)
  <2>1. /\ once \in Call /\ once.pressed = set.pressed /\ once.modifiers = set.modifiers
        /\ once.modstate = set.modstate
        /\ \A n \in Nat : Showed(set, k, n, set.modifiers) => Showed(once, k, n + 1, set.modifiers)
    BY <1>1, <1>5, Tapped
  <2> HIDE DEF once
  <2>2. 0 \in Nat /\ 0 + 1 = 1
    OBVIOUS
  <2>3. QED
    BY <1>1, <1>4, <2>1, <2>2
<1> HIDE DEF once
<1>7. /\ typed \in Call /\ typed.pressed = set.pressed /\ typed.modstate = s.modstate
      /\ Showed(typed, k, Times(a), mods)
  <2>1. CASE a = "Click"
    BY <1>6, <2>1 DEF Times
  <2>2. CASE a = "DoubleClick"
    <3>1. typed = Release(Press(once, k), k)
      BY <2>2
    <3> HIDE DEF typed
    <3>2. ~ KeyPressed(once, k) /\ Len(once.pressed) < MaxKeys
      BY <1>5, <1>6 DEF KeyPressed
    <3>3. /\ typed \in Call /\ typed.pressed = once.pressed /\ typed.modstate = once.modstate
          /\ \A n \in Nat : Showed(once, k, n, mods) => Showed(typed, k, n + 1, mods)
      BY <1>6, <3>1, <3>2, Tapped
    <3>4. 1 \in Nat /\ 1 + 1 = 2 /\ Times(a) = 2
      BY <2>2 DEF Times
    <3>5. QED
      BY <1>6, <3>3, <3>4
  <2>3. QED
    BY <2>1, <2>2
<1> HIDE DEF typed
<1>8. ~ KeyPressed(typed, k)
  BY <1>5, <1>7 DEF KeyPressed
<1>9. s.modifiers \in SUBSET Mods
  BY DEF Call
<1>10. /\ back \in Call /\ Quiet(typed, back) /\ back.modifiers = s.modifiers
       /\ back.modstate = s.modstate
  BY <1>7, <1>9, SetBits
<1> HIDE DEF back
<1>11. Showed(back, k, Times(a), mods) /\ ~ KeyPressed(back, k)
  BY <1>7, <1>8, <1>10, QuietShowed DEF Quiet, KeyPressed
<1>12. Sticky(back) = Sticky(s)
  BY <1>10 DEF Sticky
<1>13. Showed(t, k, Times(a), mods)
       /\ t.modifiers = s.modifiers \ (IF m.current THEN Sticky(s) ELSE {})
       /\ (m.current => Sticky(t) = {})
  <2>1. CASE m.current
    <3>1. t = NormalKey(back)
      BY <1>2, <2>1
    <3>2. t \in Call /\ Quiet(back, t) /\ t.modifiers = back.modifiers \ Sticky(back)
          /\ Sticky(t) = {}
      BY <1>10, <3>1, NormalKeyQuiet
    <3>3. QED
      BY <1>10, <1>11, <1>12, <2>1, <3>2, QuietShowed
  <2>2. CASE ~ m.current
    BY <1>2, <1>10, <1>11, <2>2
  <2>3. QED
    BY <2>1, <2>2
<1>14. AsMasked(s.modifiers, mods, m)
  BY <1>9, MaskRequested DEF mods
<1>15. QED
  BY <1>13, <1>14, ApartStrokes DEF Showed
-----------------------------------------------------------------------------
(* Reports of the mouse: what one of them adds.                            *)
LEMMA SendMouseAdds ==
    ASSUME NEW s \in Call, NEW t, t = SendMouse(s), NEW n
    PROVE  /\ t \in Call /\ Len(t.mouse) = Len(s.mouse) + 1
           /\ t.keyboard = s.keyboard /\ t.posChanged = FALSE
           /\ t.pressed = s.pressed /\ t.buttonState = s.buttonState
           /\ ButtonPlaces(t, n) = ButtonPlaces(s, n) \cup
                  (IF n \in s.buttonState THEN {Len(s.mouse) + 1} ELSE {})
<1> DEFINE r == [buttons |-> s.buttonState, x |-> Normalized(s.X)]
           q == s.mouse
<1>0. Normalized(s.X) \in Int /\ s.X - Normalized(s.X) \in Int
  BY HIDPAssumption DEF Call, Normalized
<1>1. r \in MouseReport /\ r.buttons = s.buttonState /\ q \in Seq(MouseReport)
  BY <1>0 DEF Call, MouseReport
<1>2. t = [s EXCEPT !.mouse = Append(q, r), !.posChanged = FALSE, !.X = s.X - Normalized(s.X)]
  BY DEF SendMouse
<1>3. t \in Call /\ t.pressed = s.pressed /\ t.buttonState = s.buttonState
  BY SendMouseStep
<1> HIDE DEF r, q
<1>4. t.mouse = Append(q, r) /\ t.keyboard = s.keyboard /\ t.posChanged = FALSE
  BY <1>2 DEF Call
<1>5. /\ Len(q) \in Nat /\ Len(Append(q, r)) = Len(q) + 1
      /\ \A i \in 1 .. Len(q) : Append(q, r)[i] = q[i]
      /\ Append(q, r)[Len(q) + 1] = r
  BY <1>1
<1>6. ButtonPlaces(t, n) = ButtonPlaces(s, n)
                           \cup (IF n \in r.buttons THEN {Len(q) + 1} ELSE {})
  <2>1. ButtonPlaces(t, n) = {i \in 1 .. Len(q) + 1 : n \in Append(q, r)[i].buttons}
    BY <1>4, <1>5 DEF ButtonPlaces
  <2>2. ButtonPlaces(s, n) = {i \in 1 .. Len(q) : n \in q[i].buttons}
    BY DEF ButtonPlaces, q
  <2>3. 1 .. Len(q) + 1 = (1 .. Len(q)) \cup {Len(q) + 1}
    BY <1>5
  <2>4. QED
    BY <1>5, <2>1, <2>2, <2>3
<1>7. QED
  BY <1>1, <1>3, <1>4, <1>5, <1>6 DEF q

(* c strokes of the button n, which is up again.                           *)
Clicked(s, n, c) ==
    /\ s \in Call /\ n \notin s.buttonState
    /\ Apart(ButtonPlaces(s, n), c, Len(s.mouse))

LEMMA ClickedAgain ==
    ASSUME NEW s, NEW n \in Buttons, NEW c \in Nat, Clicked(s, n, c)
    PROVE  Clicked(ButtonTap(s, n), n, c + 1) /\ Clicked(SendMouse(s), n, c)
<1> DEFINE down1 == s.buttonState \cup {n}
           u == [s EXCEPT !.buttonState = down1]
           v == SendMouse(u)
           up1 == v.buttonState \ {n}
           x == [v EXCEPT !.buttonState = up1]
           t == SendMouse(x)
           len == Len(s.mouse)
<1>1. /\ s \in Call /\ n \notin s.buttonState /\ s.buttonState \in SUBSET Buttons
      /\ Apart(ButtonPlaces(s, n), c, len) /\ len \in Nat
  BY DEF Clicked, Call
<1>2. ButtonTap(s, n) = t
  BY DEF ButtonTap, ButtonDown, ButtonUp
<1>3. down1 \in SUBSET Buttons /\ n \in down1
  BY <1>1
<1> HIDE DEF down1
<1>4. u \in Call /\ u.buttonState = down1 /\ u.mouse = s.mouse
  BY <1>1, <1>3 DEF Call
<1> HIDE DEF u
<1>5. /\ v \in Call /\ Len(v.mouse) = len + 1 /\ v.buttonState = down1
      /\ ButtonPlaces(v, n) = ButtonPlaces(s, n) \cup {len + 1}
  <2>1. /\ v \in Call /\ Len(v.mouse) = Len(u.mouse) + 1 /\ v.buttonState = u.buttonState
        /\ ButtonPlaces(v, n) = ButtonPlaces(u, n) \cup
               (IF n \in u.buttonState THEN {Len(u.mouse) + 1} ELSE {})
    BY <1>4, SendMouseAdds
  <2>2. ButtonPlaces(u, n) = ButtonPlaces(s, n)
    BY <1>4 DEF ButtonPlaces
  <2>3. QED
    BY <1>3, <1>4, <2>1, <2>2
<1> HIDE DEF v
<1>6. up1 \in SUBSET Buttons /\ n \notin up1
  BY <1>3, <1>5
<1> HIDE DEF up1
<1>7. x \in Call /\ x.buttonState = up1 /\ x.mouse = v.mouse
  BY <1>5, <1>6 DEF Call
<1> HIDE DEF x
<1>8. /\ t \in Call /\ Len(t.mouse) = len + 2 /\ t.buttonState = up1
      /\ ButtonPlaces(t, n) = ButtonPlaces(s, n) \cup {len + 1}
  <2>1. /\ t \in Call /\ Len(t.mouse) = Len(x.mouse) + 1 /\ t.buttonState = x.buttonState
        /\ ButtonPlaces(t, n) = ButtonPlaces(x, n) \cup
               (IF n \in x.buttonState THEN {Len(x.mouse) + 1} ELSE {})
    BY <1>7, SendMouseAdds
  <2>2. ButtonPlaces(x, n) = ButtonPlaces(v, n)
    BY <1>7 DEF ButtonPlaces
  <2>3. (len + 1) + 1 = len + 2
    BY <1>1
  <2>4. QED
    BY <1>5, <1>6, <1>7, <2>1, <2>2, <2>3
<1> HIDE DEF t
<1>9. Clicked(t, n, c + 1)
  BY <1>1, <1>6, <1>8, OneStroke DEF Clicked
<1>10. Clicked(SendMouse(s), n, c)
  <2> DEFINE y == SendMouse(s)
  <2>0. /\ y \in Call /\ Len(y.mouse) = len + 1 /\ y.buttonState = s.buttonState
        /\ ButtonPlaces(y, n) = ButtonPlaces(s, n) \cup
               (IF n \in s.buttonState THEN {Len(s.mouse) + 1} ELSE {})
    BY <1>1, SendMouseAdds
  <2> HIDE DEF y
  <2>1. /\ y \in Call /\ Len(y.mouse) = len + 1 /\ y.buttonState = s.buttonState
        /\ ButtonPlaces(y, n) = ButtonPlaces(s, n)
    BY <1>1, <2>0
  <2>2. len + 1 \in Nat /\ len <= len + 1
    BY <1>1
  <2>3. Apart(ButtonPlaces(y, n), c, Len(y.mouse))
    BY <1>1, <2>1, <2>2, LaterStrokes
  <2>4. Clicked(y, n, c)
    BY <1>1, <2>1, <2>3 DEF Clicked
  <2>5. QED
    BY <2>4 DEF y
<1>11. QED
  BY <1>2, <1>9, <1>10

(* A click or a double click of a button that is up.                       *)
LEMMA ButtonStep ==
    ASSUME NEW s \in Call, s.mouse = <<>>, NEW a \in {"Click", "DoubleClick"},
           NEW n \in Buttons, n \notin s.buttonState, NEW m \in Masks,
           NEW t, t = HIDPButton(s, a, n, m)
    PROVE  Strokes(ButtonPlaces(t, n), Times(a)) /\ t.modifiers = s.modifiers
<1> DEFINE set == SetModifiers(s, m)
           once == ButtonTap(set, n)
           last == IF a = "Click" THEN once ELSE ButtonTap(once, n)
           done == SendMouse(last)
<1>1. set \in Call /\ Quiet(s, set)
  BY SetMask
<1>2. t = SetModifiers(done, Bits(s.modifiers))
  BY DEF HIDPButton
<1> HIDE DEF set
<1>3. Clicked(set, n, 0)
  <2>1. n \notin set.buttonState /\ set.mouse = <<>>
    BY <1>1 DEF Quiet
  <2>2. ButtonPlaces(set, n) = {} /\ Len(set.mouse) = 0
    BY <2>1 DEF ButtonPlaces
  <2>3. QED
    BY <1>1, <2>1, <2>2, NoStrokes DEF Clicked
<1>4. Clicked(once, n, 1)
  <2>1. 0 \in Nat /\ 0 + 1 = 1
    OBVIOUS
  <2>2. QED
    BY <1>3, <2>1, ClickedAgain
<1> HIDE DEF once
<1>5. Clicked(last, n, Times(a)) /\ Times(a) \in Nat
  <2>1. CASE a = "Click"
    BY <1>4, <2>1 DEF Times
  <2>2. CASE a = "DoubleClick"
    <3>1. 1 \in Nat /\ 1 + 1 = 2 /\ 2 \in Nat
      OBVIOUS
    <3>2. Clicked(ButtonTap(once, n), n, 2)
      BY <1>4, <3>1, ClickedAgain
    <3>3. QED
      BY <2>2, <3>1, <3>2 DEF Times
  <2>3. QED
    BY <2>1, <2>2
<1> HIDE DEF last
<1>6. Clicked(done, n, Times(a))
  BY <1>5, ClickedAgain
<1> HIDE DEF done
<1>7. t \in Call /\ Quiet(done, t) /\ t.modifiers = s.modifiers
  <2>1. done \in Call /\ s.modifiers \in SUBSET Mods
    BY <1>6 DEF Clicked, Call
  <2>2. QED
    BY <1>2, <2>1, SetBits
<1>8. ButtonPlaces(t, n) = ButtonPlaces(done, n)
  BY <1>7 DEF Quiet, ButtonPlaces
<1>9. QED
  BY <1>6, <1>7, <1>8, ApartStrokes DEF Clicked

(* A button leaves no motion behind, nor does a report that is asked for.  *)
LEMMA HIDPButtonLeaves ==
    ASSUME NEW s \in Call, NEW a \in Actions, NEW n \in Buttons, NEW m \in Masks,
           NEW t, t = HIDPButton(s, a, n, m)
    PROVE  t \in Call /\ t.pressed = s.pressed /\ ~ t.posChanged
<1> DEFINE set == SetModifiers(s, m)
           tap == ButtonTap(set, n)
           done == CASE a = "Press"       -> ButtonDown(set, n)
                     [] a = "Release"     -> ButtonUp(set, n)
                     [] a = "Click"       -> SendMouse(tap)
                     [] a = "DoubleClick" -> SendMouse(ButtonTap(tap, n))
           Sent(r, u) == u \in Call /\ u.pressed = r.pressed /\ ~ u.posChanged
<1>1. set \in Call /\ Quiet(s, set)
  BY SetMask
<1>2. t = SetModifiers(done, Bits(s.modifiers))
  BY DEF HIDPButton
<1> HIDE DEF set
<1>3. ASSUME NEW r \in Call
      PROVE  Sent(r, SendMouse(r))
  BY SendMouseAdds
<1>4. ASSUME NEW r \in Call, NEW b \in SUBSET Buttons
      PROVE  Sent(r, SendMouse([r EXCEPT !.buttonState = b]))
  <2> DEFINE u == [r EXCEPT !.buttonState = b]
  <2>1. u \in Call /\ u.pressed = r.pressed
    BY DEF Call
  <2> HIDE DEF u
  <2>2. Sent(r, SendMouse(u))
    BY <2>1, SendMouseAdds
  <2>3. QED
    BY <2>2 DEF u
<1>5. ASSUME NEW r \in Call
      PROVE  Sent(r, ButtonDown(r, n)) /\ Sent(r, ButtonUp(r, n))
  <2>1. r.buttonState \cup {n} \in SUBSET Buttons /\ r.buttonState \ {n} \in SUBSET Buttons
    BY DEF Call
  <2>2. QED
    BY <1>4, <2>1 DEF ButtonDown, ButtonUp
<1> HIDE DEF Sent
<1>6. ASSUME NEW r, NEW u, NEW v, Sent(r, u), Sent(u, v)
      PROVE  Sent(r, v)
  BY <1>6 DEF Sent
<1>7. ASSUME NEW r, NEW u, Sent(r, u)
      PROVE  u \in Call
  BY <1>7 DEF Sent
<1>8. ASSUME NEW r \in Call
      PROVE  Sent(r, ButtonTap(r, n))
  <2>1. Sent(r, ButtonDown(r, n)) /\ ButtonDown(r, n) \in Call
    BY <1>5, <1>7
  <2>2. Sent(ButtonDown(r, n), ButtonUp(ButtonDown(r, n), n))
    BY <1>5, <2>1
  <2>3. QED
    BY <1>6, <2>1, <2>2 DEF ButtonTap
<1>9. Sent(set, tap) /\ tap \in Call
  BY <1>1, <1>7, <1>8
<1> HIDE DEF tap
<1>10. Sent(set, SendMouse(tap))
  BY <1>3, <1>6, <1>9
<1>11. Sent(set, SendMouse(ButtonTap(tap, n)))
  <2>1. Sent(set, ButtonTap(tap, n)) /\ ButtonTap(tap, n) \in Call
    BY <1>6, <1>7, <1>8, <1>9
  <2>2. QED
    BY <1>3, <1>6, <2>1
<1>12. Sent(set, done)
  <2>1. CASE a = "Press"
    BY <1>1, <1>5, <2>1
  <2>2. CASE a = "Release"
    BY <1>1, <1>5, <2>2
  <2>3. CASE a = "Click"
    BY <1>10, <2>3
  <2>4. CASE a = "DoubleClick"
    BY <1>11, <2>4
  <2>5. QED
    BY <2>1, <2>2, <2>3, <2>4 DEF Actions
<1> HIDE DEF done
<1>13. done \in Call /\ done.pressed = set.pressed /\ ~ done.posChanged
  BY <1>12 DEF Sent
<1>14. t \in Call /\ Quiet(done, t)
  <2>1. s.modifiers \in SUBSET Mods
    BY DEF Call
  <2>2. QED
    BY <1>2, <1>13, <2>1, SetBits
<1>15. QED
  BY <1>1, <1>13, <1>14 DEF Quiet

LEMMA SendReportLeaves ==
    ASSUME NEW s \in Call, NEW force \in BOOLEAN, NEW t, t = HIDPSendReport(s, force)
    PROVE  t \in Call /\ t.pressed = s.pressed /\ ~ t.posChanged
<1> DEFINE u == SendMouse(s)
<1>1. u \in Call /\ u.pressed = s.pressed /\ ~ u.posChanged
  BY SendMouseAdds
<1>2. SendKeys(u) \in Call /\ SendKeys(u).pressed = u.pressed
      /\ SendKeys(u).posChanged = u.posChanged
  BY <1>1, SendKeysAdds
<1>3. t = IF force THEN SendKeys(u) ELSE IF s.posChanged THEN u ELSE s
  BY DEF HIDPSendReport
<1> HIDE DEF u
<1>4. QED
  BY <1>1, <1>2, <1>3
-----------------------------------------------------------------------------
(* The inductive invariant: besides that of HIDProtocolProofs, the keys    *)
(* that are remembered are held, and motion is on its way.                 *)
SInv ==
    /\ IInv
    /\ Fingers(hidp.pressed, down) /\ IsFiniteSet(down)
    /\ MotionFlushed

(* A call that is over leaves the keys and the motion as its last state.   *)
LEMMA StoredLeaves ==
    ASSUME NEW s \in Call, hidp' = Stored(s)
    PROVE  hidp'.pressed = s.pressed /\ hidp'.posChanged = s.posChanged
  BY DEF Stored, Call

LEMMA DoneLeaves ==
    ASSUME SInv, NEW s \in Call, Done(s), linked' = linked, Fingers(s.pressed, down'),
           s.posChanged /\ linked /\ ~ busy => hidp.posChanged
    PROVE  Fingers(hidp'.pressed, down') /\ MotionFlushed'
<1>1. hidp' = Stored(s)
  BY DEF Done, Stored
<1>2. busy' = (linked /\ (busy \/ s.keyboard # <<>> \/ s.mouse # <<>>))
  BY DEF Done
<1>3. hidp'.pressed = s.pressed /\ hidp'.posChanged = s.posChanged
  BY <1>1, StoredLeaves
<1>4. linked /\ ~ busy' => ~ busy
  BY <1>2
<1>5. QED
  BY <1>3, <1>4 DEF MotionFlushed, SInv

LEMMA InitShown == HIDPInit => SInv
<1> SUFFICES ASSUME HIDPInit PROVE SInv
  OBVIOUS
<1>1. hidp.pressed = <<>> /\ down = {} /\ linked = FALSE
  BY DEF HIDPInit, NewHIDP
<1>2. Fingers(hidp.pressed, down)
  BY <1>1 DEF Fingers
<1>3. QED
  BY <1>1, <1>2, InitStep, FS_EmptySet DEF SInv, MotionFlushed

LEMMA NextLeaves ==
    ASSUME SInv, [Next]_vars
    PROVE  Fingers(hidp'.pressed, down') /\ IsFiniteSet(down') /\ MotionFlushed'
<1>1. hidp \in Call /\ linked \in BOOLEAN /\ busy \in BOOLEAN
  BY Between DEF SInv, IInv, TypeOK
<1>2. Fingers(hidp.pressed, down) /\ IsFiniteSet(down) /\ IInv
  BY DEF SInv
<1> DEFINE Leaves == Fingers(hidp'.pressed, down') /\ IsFiniteSet(down') /\ MotionFlushed'
<1>3. ASSUME NEW a \in Actions, NEW b \in Mods, Modifier(a, b)
      PROVE  Leaves
  <2> DEFINE s == HIDPModifier(hidp, a, b)
  <2>1. s \in Call /\ Quiet(hidp, s)
    BY <1>1, HIDPModifierQuiet
  <2>2. Done(s) /\ down' = down /\ linked' = linked
    BY <1>3 DEF Modifier
  <2> HIDE DEF s
  <2>3. s.pressed = hidp.pressed /\ s.posChanged = hidp.posChanged
    BY <2>1 DEF Quiet
  <2>4. QED
    BY <1>2, <2>1, <2>2, <2>3, DoneLeaves
<1>4. ASSUME NEW a \in Actions, NEW k \in Keys, NEW m \in Masks, Key(a, k, m)
      PROVE  Leaves
  <2> DEFINE s == HIDPKeyboard(hidp, a, k, m)
  <2>1. /\ s \in Call /\ s.posChanged = hidp.posChanged
        /\ Fingers(s.pressed, IF a = "Press" THEN down \cup {k} ELSE down \ {k})
    BY <1>1, <1>2, HIDPKeyboardLeaves
  <2>2. Done(s) /\ linked' = linked
        /\ down' = IF a = "Press" THEN down \cup {k} ELSE down \ {k}
    BY <1>4 DEF Key
  <2> HIDE DEF s
  <2>3. IsFiniteSet(down')
    BY <1>2, <2>2, FS_AddElement, FS_RemoveElement
  <2>4. QED
    BY <2>1, <2>2, <2>3, DoneLeaves
<1>5. ASSUME NEW a \in Actions, NEW n \in Buttons, NEW m \in Masks, Button(a, n, m)
      PROVE  Leaves
  <2> DEFINE s == HIDPButton(hidp, a, n, m)
  <2>1. s \in Call /\ s.pressed = hidp.pressed /\ ~ s.posChanged
    BY <1>1, HIDPButtonLeaves
  <2>2. Done(s) /\ down' = down /\ linked' = linked
    BY <1>5 DEF Button
  <2> HIDE DEF s
  <2>3. QED
    BY <1>2, <2>1, <2>2, DoneLeaves
<1>6. ASSUME NEW x \in Moves, MouseMove(x)
      PROVE  Leaves
  <2> DEFINE sum == hidp.X + x
             u == [hidp EXCEPT !.X = sum, !.posChanged = TRUE]
             s == Moved(hidp, x)
  <2>1. sum \in Int
    BY <1>1, HIDPAssumption DEF Call
  <2>2. s = IF linked /\ ~ busy THEN HIDPSendReport(u, FALSE) ELSE u
    BY DEF Moved
  <2> HIDE DEF sum
  <2>3. u \in Call /\ u.pressed = hidp.pressed
    BY <1>1, <2>1 DEF Call
  <2> HIDE DEF u
  <2>4. /\ HIDPSendReport(u, FALSE) \in Call /\ HIDPSendReport(u, FALSE).pressed = u.pressed
        /\ ~ HIDPSendReport(u, FALSE).posChanged
    BY <2>3, SendReportLeaves
  <2>5. Done(s) /\ down' = down /\ linked' = linked
    BY <1>6 DEF MouseMove
  <2> HIDE DEF s
  <2>6. s \in Call /\ s.pressed = hidp.pressed /\ (linked /\ ~ busy => ~ s.posChanged)
    BY <2>2, <2>3, <2>4
  <2>7. QED
    BY <1>2, <2>5, <2>6, DoneLeaves
<1>7. ASSUME UNCHANGED vars
      PROVE  Leaves
  BY <1>2, <1>7 DEF vars, SInv, MotionFlushed
<1>8. CASE SendComplete
  <2>1. CASE ~ UNCHANGED vars
    <3> DEFINE s == HIDPSendReport(hidp, FALSE)
    <3>1. s \in Call /\ s.pressed = hidp.pressed /\ ~ s.posChanged
      BY <1>1, SendReportLeaves
    <3>2. hidp' = Stored(s) /\ down' = down
      BY <1>8, <2>1 DEF SendComplete, Stored
    <3> HIDE DEF s
    <3>3. QED
      BY <1>2, <3>1, <3>2, StoredLeaves DEF MotionFlushed
  <2>2. QED
    BY <1>7, <2>1
<1>9. CASE Tick
  <2>1. hidp.modtimer \in Nat /\ hidp.modtimer > 0 /\ down' = down /\ linked' = linked
    BY <1>1, <1>9, HIDPAssumption DEF Tick, Call
  <2>2. CASE hidp.modtimer = 1
    <3> DEFINE s == StickyTimer(hidp)
    <3>1. s \in Call /\ Quiet(hidp, s)
      BY <1>1, StickyTimerQuiet
    <3>2. Done(s)
      BY <1>9, <2>2 DEF Tick
    <3> HIDE DEF s
    <3>3. s.pressed = hidp.pressed /\ s.posChanged = hidp.posChanged
      BY <3>1 DEF Quiet
    <3>4. QED
      BY <1>2, <2>1, <3>1, <3>2, <3>3, DoneLeaves
  <2>3. CASE hidp.modtimer # 1
    <3> DEFINE left == hidp.modtimer - 1
               s == [hidp EXCEPT !.modtimer = left]
    <3>1. left \in 0 .. StickyTime
      BY <1>1, <2>1, HIDPAssumption DEF Call
    <3>2. Done(s)
      BY <1>9, <2>3 DEF Tick
    <3> HIDE DEF left
    <3>3. s \in Call /\ s.pressed = hidp.pressed /\ s.posChanged = hidp.posChanged
      BY <1>1, <3>1 DEF Call
    <3> HIDE DEF s
    <3>4. QED
      BY <1>2, <2>1, <3>2, <3>3, DoneLeaves
  <2>4. QED
    BY <2>2, <2>3
<1>10. CASE Connected
  <2> DEFINE s == HIDPSendReport(hidp, TRUE)
  <2>1. s \in Call /\ s.pressed = hidp.pressed
    BY <1>1, SendReportLeaves
  <2>2. hidp' = Stored(s) /\ down' = down /\ busy' = TRUE
    BY <1>10 DEF Connected, Stored
  <2> HIDE DEF s
  <2>3. QED
    BY <1>2, <2>1, <2>2, StoredLeaves DEF MotionFlushed
<1>11. CASE Dropped
  <2>1. hidp' = hidp /\ down' = down /\ linked' = FALSE
    BY <1>11 DEF Dropped
  <2>2. QED
    BY <1>2, <2>1 DEF MotionFlushed
<1>12. HIDPReset(hidp) \in Call /\ HIDPReset(hidp).pressed = <<>> /\ ~ HIDPReset(hidp).posChanged
  BY <1>1, HIDPResetStep DEF Latches
<1>13. Fingers(HIDPReset(hidp).pressed, down)
  BY <1>12 DEF Fingers
<1>14. CASE Disconnect
  <2>1. hidp' = Stored(HIDPReset(hidp)) /\ down' = down /\ linked' = FALSE
    BY <1>14 DEF Disconnect, Stored
  <2>2. QED
    BY <1>2, <1>12, <1>13, <2>1, StoredLeaves DEF MotionFlushed
<1>15. CASE HostReset
  <2>1. Done(HIDPReset(hidp)) /\ down' = down /\ linked' = linked
    BY <1>15 DEF HostReset
  <2>2. QED
    BY <1>2, <1>12, <1>13, <2>1, DoneLeaves
<1>16. QED
  BY <1>3, <1>4, <1>5, <1>6, <1>7, <1>8, <1>9, <1>10, <1>11, <1>14, <1>15 DEF Next

LEMMA NextShown == SInv /\ [Next]_vars => SInv'
<1> SUFFICES ASSUME SInv, [Next]_vars PROVE SInv'
  OBVIOUS
<1>1. IInv'
  BY NextStep DEF SInv
<1>2. QED
  BY <1>1, NextLeaves DEF SInv

(* The keys that are remembered are keys that the user holds.              *)
THEOREM ShownInvariant == Spec => []SInv
<1>1. QED
  BY InitShown, NextShown, PTL DEF Spec

(* So many different keys are remembered, so many are held.                *)
LEMMA FingersCount ==
    ASSUME NEW p \in Seq(Keys), NEW d, IsFiniteSet(d), Fingers(p, d)
    PROVE  Len(p) <= Cardinality(d)
<1> DEFINE n == Len(p)
<1>1. n \in Nat /\ 1 \in Int /\ n \in Int
  OBVIOUS
<1>2. p \in [1 .. n -> d]
  BY DEF Fingers
<1>3. p \in Injection(1 .. n, d)
  BY <1>2 DEF Fingers, Injection, IsInjective
<1>4. Cardinality(1 .. n) <= Cardinality(d)
  BY <1>3, FS_Injection
<1> HIDE DEF n
<1>5. Cardinality(1 .. n) = IF 1 > n THEN 0 ELSE n - 1 + 1
  BY <1>1, FS_Interval, Zenon
<1>6. (IF 1 > n THEN 0 ELSE n - 1 + 1) = n
  BY <1>1
<1>7. QED
  BY <1>4, <1>5, <1>6 DEF n

(* Nothing that the user has let go stays down for the host: no key, and   *)
(* no modifier but the latched ones.  An overflow of the report is shown   *)
(* only while too many keys are held.                                      *)
THEOREM StuckTheorem == Spec => []NothingStuck
<1>1. SInv => NothingStuck
  <2> SUFFICES ASSUME SInv, linked PROVE NothingStuck
    BY DEF NothingStuck
  <2>1. /\ hidp \in Call /\ Fingers(hidp.pressed, down) /\ IsFiniteSet(down)
        /\ host.keyboard = KeyReport(hidp.modifiers, hidp.pressed)
        /\ ModConsistent
    BY Between DEF SInv, IInv, HostInSync
  <2>2. hidp.pressed \in Seq(Keys) /\ hidp.modifiers \in SUBSET Mods /\ MaxKeys \in Nat
    BY <2>1, HIDPAssumption DEF Call, KeyBuffer
  <2>3. host.keyboard.modifiers = hidp.modifiers
    BY <2>1 DEF KeyReport
  <2>4. ASSUME Len(hidp.pressed) > MaxKeys
        PROVE  host.keyboard.keys = {RollOver} /\ Cardinality(down) > MaxKeys
    <3>1. host.keyboard.keys = {RollOver}
      BY <2>1, <2>4 DEF KeyReport
    <3>2. Cardinality(down) > MaxKeys
      <4>1. Cardinality(down) \in Nat /\ Len(hidp.pressed) \in Nat
        BY <2>1, <2>2, FS_CardinalityType
      <4>2. Len(hidp.pressed) <= Cardinality(down)
        BY <2>1, <2>2, FingersCount
      <4>3. QED
        BY <2>2, <2>4, <4>1, <4>2
    <3>3. QED
      BY <3>1, <3>2
  <2>5. ASSUME ~ Len(hidp.pressed) > MaxKeys
        PROVE  host.keyboard.keys \subseteq down /\ RollOver \notin host.keyboard.keys
    <3>1. host.keyboard.keys = {hidp.pressed[i] : i \in 1 .. Len(hidp.pressed)}
      BY <2>1, <2>5 DEF KeyReport
    <3>2. host.keyboard.keys \subseteq down
      BY <2>1, <3>1 DEF Fingers
    <3>3. RollOver \notin host.keyboard.keys
      <4>1. \A i \in 1 .. Len(hidp.pressed) : hidp.pressed[i] \in Keys
        BY <2>2
      <4>2. QED
        BY <3>1, <4>1, HIDPAssumption
    <3>4. QED
      BY <3>2, <3>3
  <2>6. /\ host.keyboard.keys \subseteq down \cup {RollOver}
        /\ host.keyboard.keys = {RollOver} => Cardinality(down) > MaxKeys
    <3>1. CASE Len(hidp.pressed) > MaxKeys
      BY <2>4, <3>1
    <3>2. CASE ~ Len(hidp.pressed) > MaxKeys
      BY <2>5, <3>2
    <3>3. QED
      BY <3>1, <3>2
  <2>7. \A b \in host.keyboard.modifiers \ held : hidp.modstate[b] \in {"Sticky", "Locked"}
    BY <2>1, <2>2, <2>3 DEF ModConsistent, Consistent
  <2>8. QED
    BY <2>6, <2>7 DEF NothingStuck
<1>2. QED
  BY <1>1, ShownInvariant, PTL

(* Motion that was collected while the channel was busy is never left on   *)
(* an idle one.                                                            *)
THEOREM MotionTheorem == Spec => []MotionFlushed
<1>1. SInv => MotionFlushed
  BY DEF SInv
<1>2. QED
  BY <1>1, ShownInvariant, PTL

(* In every state a click of a free key is one stroke for the host, and a  *)
(* double click two, with the modifiers of its mask; afterwards modifiers  *)
(* are as before, without the sticky ones that the key has used up.        *)
THEOREM KeystrokeTheorem == Spec => []KeystrokeShown
<1>1. SInv => KeystrokeShown
  <2> SUFFICES ASSUME SInv, NEW a \in {"Click", "DoubleClick"}, NEW k \in Keys, NEW m \in Masks,
                      ~ KeyPressed(hidp, k), Len(hidp.pressed) < MaxKeys
               PROVE  LET s == HIDPKeyboard(hidp, a, k, m)
                          places == {i \in 1 .. Len(s.keyboard) : k \in s.keyboard[i].keys}
                      IN  /\ Strokes(places, Times(a))
                          /\ \A i \in places :
                                 AsMasked(hidp.modifiers, s.keyboard[i].modifiers, m)
                          /\ s.modifiers
                               = hidp.modifiers \ (IF m.current THEN Sticky(hidp) ELSE {})
                          /\ m.current => Sticky(s) = {}
    BY DEF KeystrokeShown
  <2> DEFINE s == HIDPKeyboard(hidp, a, k, m)
  <2>1. hidp \in Call /\ hidp.keyboard = <<>>
    BY Between DEF SInv, IInv
  <2>2. /\ Strokes(KeyPlaces(s, k), Times(a))
        /\ \A i \in KeyPlaces(s, k) : AsMasked(hidp.modifiers, s.keyboard[i].modifiers, m)
        /\ s.modifiers = hidp.modifiers \ (IF m.current THEN Sticky(hidp) ELSE {})
        /\ m.current => Sticky(s) = {}
    BY <2>1, KeystrokeStep
  <2> HIDE DEF s
  <2>3. KeyPlaces(s, k) = {i \in 1 .. Len(s.keyboard) : k \in s.keyboard[i].keys}
    BY DEF KeyPlaces
  <2>4. QED
    BY <2>2, <2>3 DEF s
<1>2. QED
  BY <1>1, ShownInvariant, PTL

(* So is a click of a button that is up, and modifiers are given back.     *)
THEOREM ButtonTheorem == Spec => []ButtonShown
<1>1. SInv => ButtonShown
  <2> SUFFICES ASSUME SInv, NEW a \in {"Click", "DoubleClick"},
                      NEW n \in Buttons \ hidp.buttonState, NEW m \in Masks
               PROVE  LET s == HIDPButton(hidp, a, n, m)
                          places == {i \in 1 .. Len(s.mouse) : n \in s.mouse[i].buttons}
                      IN  Strokes(places, Times(a)) /\ s.modifiers = hidp.modifiers
    BY DEF ButtonShown
  <2> DEFINE s == HIDPButton(hidp, a, n, m)
  <2>1. hidp \in Call /\ hidp.mouse = <<>>
    BY Between DEF SInv, IInv
  <2>2. Strokes(ButtonPlaces(s, n), Times(a)) /\ s.modifiers = hidp.modifiers
    BY <2>1, ButtonStep
  <2> HIDE DEF s
  <2>3. ButtonPlaces(s, n) = {i \in 1 .. Len(s.mouse) : n \in s.mouse[i].buttons}
    BY DEF ButtonPlaces
  <2>4. QED
    BY <2>2, <2>3 DEF s
<1>2. QED
  BY <1>1, ShownInvariant, PTL
=============================================================================
